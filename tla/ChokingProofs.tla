---------------------------- MODULE ChokingProofs ----------------------------
(***************************************************************************)
(* Proofs about Choking, for any number of peers and slots and however     *)
(* often FillFDSet starts over: the slots are used and go to the best      *)
(* (BestAreServed), the optimistic one to the peer that waits longest      *)
(* (LongestWaitingFirst), and they are never overbooked (NeverOverbooked). *)
(* What is proved of SelectUnchoke holds for figures of any size           *)
(* (SelectOrders), the model checker has compared small ones.              *)
(*                                                                         *)
(* The argument: a check is a loop, so that the invariant of the           *)
(* specification (CInv) needs one of the loop (State), about the peers V   *)
(* that it has come to: they hold different slots, none of which is free   *)
(* while one of them does without, and so on (Filled, Fair, Held). One     *)
(* visit adds a peer to V (VisitKeeps). What makes this work is that a     *)
(* peer who loses its slot to a better one goes on to compete for the      *)
(* optimistic slot (Losing). Loops are recursive functions; with the least *)
(* number of steps at which one goes wrong, it goes wrong in that step     *)
(* (LoopSound).                                                            *)
(***************************************************************************)
EXTENDS Choking, WellFoundedInduction, FiniteSetTheorems, TLAPS

\* A set of numbers that is not empty has a least one.
LEMMA LeastNumber ==
  ASSUME NEW T \in SUBSET Nat, T # {}
  PROVE  \E n \in T : \A m \in T : n <= m
<1> DEFINE R == OpToRel(<, Nat)
<1>1. IsWellFoundedOn(R, Nat)
  BY NatLessThanWellFounded, Zenon
<1>2. \A m, n \in Nat : <<m, n>> \in R <=> m < n
  BY DEF OpToRel
<1> HIDE DEF R
<1>3. \E n \in T : \A m \in T : ~ (<<m, n>> \in R)
  BY <1>1, WFMin, Zenon
<1>4. PICK n \in T : \A m \in T : ~ (<<m, n>> \in R)
  BY <1>3
<1>5. ASSUME NEW m \in T
      PROVE  n <= m
  <2>1. ~ (m < n)
    BY <1>2, <1>4
  <2> QED
    BY <2>1
<1> QED
  BY <1>5

\* The first free slot.
LEMMA SmallestIs ==
  ASSUME NEW S \in SUBSET Nat, S # {}
  PROVE  Smallest(S) \in S
BY LeastNumber DEF Smallest

\* A bounded set of numbers has a greatest one.
LEMMA GreatestIs ==
  ASSUME NEW S \in SUBSET Nat, S # {}, NEW top \in Nat, \A y \in S : y <= top
  PROVE  Greatest(S) \in S
<1> DEFINE T == {n \in Nat : \A y \in S : y <= n}
<1>1. T # {} /\ T \in SUBSET Nat
  OBVIOUS
<1>2. PICK n \in T : \A m \in T : n <= m
  <2> HIDE DEF T
  <2> QED
    BY <1>1, LeastNumber
<1>3. n \in S
  <2>1. CASE n = 0
    <3>1. PICK y \in S : TRUE
      OBVIOUS
    <3>2. y \in Nat /\ y <= n
      BY <1>2
    <3> QED
      BY <2>1, <3>1, <3>2
  <2>2. CASE n # 0
    <3>1. n \in Nat /\ n - 1 \in Nat /\ ~ (n <= n - 1)
      BY <1>2, <2>2
    <3>2. n - 1 \notin T
      BY <1>2, <3>1
    <3>3. PICK y \in S : ~ (y <= n - 1)
      BY <3>1, <3>2
    <3>4. y <= n /\ y \in Nat
      BY <1>2
    <3> QED
      BY <3>1, <3>3, <3>4
  <2> QED
    BY <2>1, <2>2
<1>4. \E x \in S : \A y \in S : y <= x
  BY <1>2, <1>3
<1> QED
  BY <1>4 DEF Greatest

-----------------------------------------------------------------------------
(* Loops.                                                                  *)

\* f[n] is what n steps of a loop make of base; G[n] is what the n-th step does.
Recursion(f, base, G, N) == f = [n \in 0 .. N |-> IF n = 0 THEN base ELSE G[n][f[n - 1]]]

\* There is such a function: the least N for which there is none has a predecessor.
LEMMA LoopExists ==
  ASSUME NEW N \in Nat, NEW base, NEW G
  PROVE  \E f : Recursion(f, base, G, N)
<1> DEFINE ok(n) == \E f : Recursion(f, base, G, n)
           T == {n \in Nat : ~ ok(n)}
<1> SUFFICES ASSUME T # {} PROVE FALSE
  OBVIOUS
<1>1. PICK n \in T : \A m \in T : n <= m
  <2>1. T \in SUBSET Nat
    OBVIOUS
  <2> HIDE DEF T
  <2> QED
    BY <2>1, LeastNumber
<1>2. n \in Nat /\ ~ ok(n)
  BY <1>1
<1>3. CASE n = 0
  <2> DEFINE f == [i \in 0 .. 0 |-> base]
  <2>1. Recursion(f, base, G, 0)
    BY DEF Recursion
  <2> QED
    BY <1>2, <1>3, <2>1
<1>4. CASE n # 0
  <2>1. n - 1 \in Nat /\ ~ (n <= n - 1)
    BY <1>2, <1>4
  <2>2. ok(n - 1)
    <3>1. n - 1 \notin T
      BY <1>1, <2>1
    <3> HIDE DEF ok
    <3> QED
      BY <2>1, <3>1
  <2>3. PICK g : Recursion(g, base, G, n - 1)
    BY <2>2
  <2> DEFINE f == [i \in 0 .. n |-> IF i < n THEN g[i] ELSE G[n][g[n - 1]]]
  <2>4. ASSUME NEW i \in 0 .. n
        PROVE  f[i] = IF i = 0 THEN base ELSE G[i][f[i - 1]]
    <3>1. g = [k \in 0 .. n - 1 |-> IF k = 0 THEN base ELSE G[k][g[k - 1]]]
      BY <2>3 DEF Recursion
    <3>2. CASE i = n
      <4>1. f[i] = G[n][g[n - 1]] /\ f[i - 1] = g[n - 1]
        BY <1>2, <1>4, <3>2
      <4> QED
        BY <1>4, <3>2, <4>1
    <3>3. CASE i # n
      <4>1. i \in 0 .. n - 1 /\ f[i] = g[i]
        BY <1>2, <3>3
      <4>2. i # 0 => f[i - 1] = g[i - 1]
        BY <1>2, <3>3
      <4>3. g[i] = IF i = 0 THEN base ELSE G[i][g[i - 1]]
        BY <3>1, <4>1
      <4> QED
        BY <4>1, <4>2, <4>3
    <3> QED
      BY <3>2, <3>3
  <2>5. f = [i \in 0 .. n |-> IF i = 0 THEN base ELSE G[i][f[i - 1]]]
    <3>1. f = [i \in 0 .. n |-> f[i]]
      OBVIOUS
    <3> HIDE DEF f
    <3> QED
      BY <2>4, <3>1
  <2>6. Recursion(f, base, G, n)
    <3> HIDE DEF f
    <3> QED
      BY <2>5 DEF Recursion
  <2> HIDE DEF f
  <2> QED
    BY <1>2, <2>6
<1> QED
  BY <1>3, <1>4

\* What holds at first, and after each step if before, holds throughout.
LEMMA LoopWithin ==
  ASSUME NEW N \in Nat, NEW f, NEW D, f[0] \in D[0],
         \A n \in 1 .. N : f[n - 1] \in D[n - 1] => f[n] \in D[n]
  PROVE  \A n \in 0 .. N : f[n] \in D[n]
<1> DEFINE T == {n \in Nat : n <= N /\ f[n] \notin D[n]}
<1> SUFFICES ASSUME T # {} PROVE FALSE
  OBVIOUS
<1>1. PICK n \in T : \A m \in T : n <= m
  <2>1. T \in SUBSET Nat
    OBVIOUS
  <2> HIDE DEF T
  <2> QED
    BY <2>1, LeastNumber
<1>2. n \in Nat /\ n <= N /\ f[n] \notin D[n]
  BY <1>1
<1>3. n # 0
  BY <1>2
<1>4. n - 1 \in Nat /\ n - 1 <= N /\ ~ (n <= n - 1) /\ n \in 1 .. N
  BY <1>2, <1>3
<1>5. n - 1 \notin T
  BY <1>1, <1>4
<1>6. f[n - 1] \in D[n - 1]
  BY <1>4, <1>5
<1> QED
  BY <1>2, <1>4, <1>6

\* A loop whose n-th step leads from D[n - 1] to D[n] is a function, and ends in D[N].
LEMMA LoopSound ==
  ASSUME NEW N \in Nat, NEW D, NEW base, base \in D[0], NEW G,
         \A n \in 1 .. N : \A x \in D[n - 1] : G[n][x] \in D[n]
  PROVE  \E f : Recursion(f, base, G, N) /\ \A n \in 0 .. N : f[n] \in D[n]
<1>1. PICK f : Recursion(f, base, G, N)
  BY LoopExists
<1>2. f[0] \in D[0]
  BY <1>1 DEF Recursion
<1>3. ASSUME NEW n \in 1 .. N, f[n - 1] \in D[n - 1] PROVE f[n] \in D[n]
  <2>1. f[n] = G[n][f[n - 1]]
    BY <1>1 DEF Recursion
  <2> QED
    BY <1>3, <2>1
<1> QED
  BY <1>1, <1>2, <1>3, LoopWithin

-----------------------------------------------------------------------------
(* Timestamps.                                                             *)

Types ==
  /\ on \subseteq Peers /\ interested \subseteq on /\ unchoked \subseteq on /\ requested \subseteq unchoked
  /\ has \in [Peers -> {"none", "some", "all"}] /\ stamp \in [Peers -> 0 .. Cardinality(Peers)]
  /\ max \in MinUnchokes .. Cardinality(Peers) + MinUnchokes
  /\ mode \in Modes /\ paused \in BOOLEAN

LEMMA PeersFinite == IsFiniteSet(Peers) /\ Cardinality(Peers) \in Nat
BY ChokingAssumption, FS_CardinalityType

LEMMA NowIs ==
  ASSUME Types, Peers # {}
  PROVE  Now \in Nat
<1> DEFINE S == {stamp[p] : p \in Peers}
<1>1. S \in SUBSET Nat /\ S # {} /\ \A y \in S : y <= Cardinality(Peers)
  BY PeersFinite DEF Types
<1> HIDE DEF S
<1>2. Greatest(S) \in Nat
  BY <1>1, PeersFinite, GreatestIs
<1> QED
  BY <1>2 DEF Now, S

\* The values of a function on the peers are finitely many.
LEMMA Values ==
  ASSUME NEW s \in [Peers -> Nat], NEW T \in SUBSET {s[q] : q \in Peers}
  PROVE  IsFiniteSet(T) /\ Cardinality(T) \in Nat /\ Cardinality(T) <= Cardinality(Peers)
<1> DEFINE S == {s[q] : q \in Peers}
<1>1. s \in Surjection(Peers, S)
  BY DEF Surjection
<1> HIDE DEF S
<1>2. IsFiniteSet(S) /\ Cardinality(S) <= Cardinality(Peers) /\ Cardinality(S) \in Nat
  BY <1>1, PeersFinite, FS_Surjection, FS_CardinalityType
<1>3. T \in SUBSET S
  BY DEF S
<1>4. IsFiniteSet(T) /\ Cardinality(T) <= Cardinality(S) /\ Cardinality(T) \in Nat
  BY <1>2, <1>3, FS_Subset, FS_CardinalityType
<1> QED
  BY <1>2, <1>4, PeersFinite

LEMMA RankedType ==
  ASSUME NEW s \in [Peers -> Nat]
  PROVE  Ranked(s) \in [Peers -> 0 .. Cardinality(Peers)]
<1> DEFINE T(p) == {s[q] : q \in {r \in Peers : s[r] # 0 /\ s[r] <= s[p]}}
<1>1. ASSUME NEW p \in Peers PROVE Cardinality(T(p)) \in 0 .. Cardinality(Peers)
  <2>1. T(p) \in SUBSET {s[q] : q \in Peers}
    OBVIOUS
  <2> HIDE DEF T
  <2> QED
    BY <2>1, Values, PeersFinite
<1>2. Ranked(s) = [p \in Peers |-> IF s[p] = 0 \/ mode = "full" THEN 0 ELSE Cardinality(T(p))]
  BY DEF Ranked
<1> HIDE DEF T
<1> QED
  BY <1>1, <1>2, PeersFinite

\* Ranks keep the order.
LEMMA RankedOrder ==
  ASSUME NEW s \in [Peers -> Nat], NEW p \in Peers, NEW q \in Peers, s[p] <= s[q]
  PROVE  Ranked(s)[p] <= Ranked(s)[q]
<1> DEFINE T(x) == {s[y] : y \in {r \in Peers : s[r] # 0 /\ s[r] <= s[x]}}
<1>1. T(q) \in SUBSET {s[y] : y \in Peers} /\ T(p) \in SUBSET T(q) /\ T(p) \in SUBSET {s[y] : y \in Peers}
  OBVIOUS
<1>2. Ranked(s) = [x \in Peers |-> IF s[x] = 0 \/ mode = "full" THEN 0 ELSE Cardinality(T(x))]
  BY DEF Ranked
<1> HIDE DEF T
<1>3. IsFiniteSet(T(q)) /\ Cardinality(T(q)) \in Nat /\ Cardinality(T(p)) \in Nat
  BY <1>1, Values
<1>4. Cardinality(T(p)) <= Cardinality(T(q))
  BY <1>1, <1>3, FS_Subset
<1> QED
  BY <1>2, <1>3, <1>4
-----------------------------------------------------------------------------
(* SelectUnchoke orders the peers, whatever their figures.                 *)

Figures == [dl : Nat, ul : Nat, rate : Nat, pieces : Nat]

\* Ratios are compared by their cross products.
LEMMA RatiosCompare ==
  ASSUME NEW a \in Nat, NEW b \in Nat, NEW c \in Nat, NEW d \in Nat, NEW e \in Nat, NEW f \in Nat,
         d > 0, a * d <= c * b, c * f <= e * d
  PROVE  a * f <= e * b
<1>1. \A x, y, z \in Nat : x <= y => x * z <= y * z
  OBVIOUS
<1>2. /\ a * d \in Nat /\ c * b \in Nat /\ c * f \in Nat /\ e * d \in Nat /\ a * f \in Nat /\ e * b \in Nat
  OBVIOUS
<1>3. (a * d) * f <= (c * b) * f
  BY <1>1, <1>2
<1>4. (c * f) * b <= (e * d) * b
  BY <1>1, <1>2
<1>5. (a * d) * f = d * (a * f) /\ (c * b) * f = (c * f) * b /\ (e * d) * b = d * (e * b)
  OBVIOUS
<1>6. d * (a * f) <= d * (e * b)
  <2>1. d * (a * f) \in Nat /\ (c * f) * b \in Nat /\ d * (e * b) \in Nat
    BY <1>2
  <2> QED
    BY <1>3, <1>4, <1>5, <2>1
<1>7. \A x, y \in Nat : d * x <= d * y => x <= y
  OBVIOUS
<1> QED
  BY <1>2, <1>6, <1>7

\* Those that gave us enough come first, then the faster, then those that owe us least.
Gave(a, seeding) == IF seeding THEN a.dl > a.ul ELSE a.dl > 0
Before(a, b, seeding, half) ==
  \/ Gave(a, seeding) /\ ~ Gave(b, seeding)
  \/ ~ Gave(a, seeding) /\ ~ Gave(b, seeding) /\ Completion(a, b, half)
  \/ /\ Gave(a, seeding) /\ Gave(b, seeding)
     /\ \/ ~ seeding /\ a.rate > b.rate
        \/ /\ seeding \/ a.rate = b.rate
           /\ \/ a.ul * b.dl < b.ul * a.dl
              \/ a.ul * b.dl = b.ul * a.dl /\ Completion(a, b, half)

LEMMA PrefersIsBefore ==
  ASSUME NEW a \in Figures, NEW b \in Figures, NEW seeding \in BOOLEAN, NEW half \in Int
  PROVE  Prefers(a, b, seeding, half) <=> Before(a, b, seeding, half)
<1> DEFINE x == a.ul * b.dl
           y == b.ul * a.dl
<1>1. /\ a.dl \in Nat /\ a.ul \in Nat /\ a.rate \in Nat /\ b.dl \in Nat /\ b.ul \in Nat /\ b.rate \in Nat
  BY DEF Figures
<1>2. x \in Nat /\ y \in Nat
  BY <1>1
<1>3. Prefers(a, b, seeding, half) <=>
        LET reciprocal == seeding \/ (a.dl = 0 /\ b.dl = 0)
        IN  IF ~ reciprocal /\ (a.dl = 0 \/ b.dl = 0) THEN b.dl = 0
            ELSE IF ~ reciprocal /\ a.rate # b.rate THEN a.rate > b.rate
            ELSE IF (~ reciprocal \/ a.dl > a.ul) /\ ((~ reciprocal \/ b.dl > b.ul) => x < y) THEN TRUE
            ELSE IF (~ reciprocal \/ b.dl > b.ul) /\ ((~ reciprocal \/ a.dl > a.ul) => y < x) THEN FALSE
            ELSE Completion(a, b, half)
  BY Zenon DEF Prefers, Reciprocates
<1>4. Before(a, b, seeding, half) <=>
        (\/ Gave(a, seeding) /\ ~ Gave(b, seeding)
         \/ ~ Gave(a, seeding) /\ ~ Gave(b, seeding) /\ Completion(a, b, half)
         \/ /\ Gave(a, seeding) /\ Gave(b, seeding)
            /\ \/ ~ seeding /\ a.rate > b.rate
               \/ /\ seeding \/ a.rate = b.rate
                  /\ \/ x < y
                     \/ x = y /\ Completion(a, b, half))
  BY Zenon DEF Before
<1> HIDE DEF x, y
<1>5. CASE seeding
  <2>1. Prefers(a, b, seeding, half) <=>
          \/ a.dl > a.ul /\ (b.dl > b.ul => x < y)
          \/ ~ (b.dl > b.ul /\ (a.dl > a.ul => y < x)) /\ Completion(a, b, half)
    BY <1>3, <1>5, Zenon
  <2>2. (Gave(a, seeding) <=> a.dl > a.ul) /\ (Gave(b, seeding) <=> b.dl > b.ul)
    BY <1>5, Zenon DEF Gave
  <2>3. Before(a, b, seeding, half) <=>
          \/ a.dl > a.ul /\ ~ (b.dl > b.ul)
          \/ ~ (a.dl > a.ul) /\ ~ (b.dl > b.ul) /\ Completion(a, b, half)
          \/ a.dl > a.ul /\ b.dl > b.ul /\ (x < y \/ (x = y /\ Completion(a, b, half)))
    BY <1>4, <1>5, <2>2, Zenon
  <2> QED
    BY <1>2, <2>1, <2>3
<1>6. CASE ~ seeding
  <2>1. Prefers(a, b, seeding, half) <=>
          LET neither == a.dl = 0 /\ b.dl = 0
          IN  IF ~ neither /\ (a.dl = 0 \/ b.dl = 0) THEN b.dl = 0
              ELSE IF ~ neither /\ a.rate # b.rate THEN a.rate > b.rate
              ELSE \/ (~ neither \/ a.dl > a.ul) /\ ((~ neither \/ b.dl > b.ul) => x < y)
                   \/ ~ ((~ neither \/ b.dl > b.ul) /\ ((~ neither \/ a.dl > a.ul) => y < x))
                      /\ Completion(a, b, half)
    BY <1>3, <1>6, Zenon
  <2>2. (Gave(a, seeding) <=> a.dl > 0) /\ (Gave(b, seeding) <=> b.dl > 0)
    BY <1>6, Zenon DEF Gave
  <2>3. Before(a, b, seeding, half) <=>
          \/ a.dl > 0 /\ ~ (b.dl > 0)
          \/ ~ (a.dl > 0) /\ ~ (b.dl > 0) /\ Completion(a, b, half)
          \/ /\ a.dl > 0 /\ b.dl > 0
             /\ \/ a.rate > b.rate
                \/ a.rate = b.rate /\ (x < y \/ (x = y /\ Completion(a, b, half)))
    BY <1>4, <1>6, <2>2, Zenon
  <2> QED
    BY <1>1, <1>2, <2>1, <2>3
<1> QED
  BY <1>5, <1>6

LEMMA CompletionOrders ==
  ASSUME NEW a \in Figures, NEW b \in Figures, NEW half \in Int
  PROVE  /\ Completion(a, b, half) \/ Completion(b, a, half)
         /\ \A c \in Figures : Completion(a, b, half) /\ Completion(b, c, half) => Completion(a, c, half)
BY DEF Completion, Abs, Figures

\* SelectUnchoke, for figures of any size and any number of pieces, is a total order with ties.
LEMMA SelectOrders ==
  ASSUME NEW a \in Figures, NEW b \in Figures, NEW seeding \in BOOLEAN, NEW half \in Int
  PROVE  /\ Prefers(a, b, seeding, half) \/ Prefers(b, a, seeding, half)
         /\ \A c \in Figures : Prefers(a, b, seeding, half) /\ Prefers(b, c, seeding, half)
                                 => Prefers(a, c, seeding, half)
<1>1. \A x \in Figures : x.dl \in Nat /\ x.ul \in Nat /\ x.rate \in Nat
  BY DEF Figures
<1>2. \A x, y \in Figures : x.ul * y.dl \in Nat
  BY <1>1
<1>3. Before(a, b, seeding, half) \/ Before(b, a, seeding, half)
  <2>1. Completion(a, b, half) \/ Completion(b, a, half)
    BY CompletionOrders
  <2>2. a.ul * b.dl < b.ul * a.dl \/ b.ul * a.dl < a.ul * b.dl \/ a.ul * b.dl = b.ul * a.dl
    BY <1>2
  <2>3. a.rate > b.rate \/ b.rate > a.rate \/ a.rate = b.rate
    BY <1>1
  <2> QED
    BY <2>1, <2>2, <2>3 DEF Before
<1>4. ASSUME NEW c \in Figures, Before(a, b, seeding, half), Before(b, c, seeding, half)
      PROVE  Before(a, c, seeding, half)
  <2>1. Completion(a, b, half) /\ Completion(b, c, half) => Completion(a, c, half)
    BY CompletionOrders
  <2>2. CASE ~ Gave(b, seeding)
    BY <1>4, <2>1, <2>2 DEF Before
  <2>3. CASE Gave(b, seeding) /\ ~ Gave(c, seeding)
    BY <1>4, <2>3 DEF Before
  <2>4. CASE Gave(b, seeding) /\ Gave(c, seeding)
    <3>1. Gave(a, seeding) /\ a.dl > 0 /\ b.dl > 0 /\ c.dl > 0
      BY <1>1, <1>4, <2>4 DEF Before, Gave
    <3> DEFINE ab == a.ul * b.dl
               ba == b.ul * a.dl
               bc == b.ul * c.dl
               cb == c.ul * b.dl
               ac == a.ul * c.dl
               ca == c.ul * a.dl
    <3>2. ab \in Nat /\ ba \in Nat /\ bc \in Nat /\ cb \in Nat /\ ac \in Nat /\ ca \in Nat
      BY <1>2
    <3>3. ab <= ba /\ bc <= cb => ac <= ca
      BY <1>1, <3>1, RatiosCompare
    <3>4. ca <= ac /\ ab <= ba => cb <= bc
      BY <1>1, <3>1, RatiosCompare
    <3>5. bc <= cb /\ ca <= ac => ba <= ab
      BY <1>1, <3>1, RatiosCompare
    <3>6. /\ \/ ~ seeding /\ a.rate > b.rate
             \/ (seeding \/ a.rate = b.rate) /\ (ab < ba \/ (ab = ba /\ Completion(a, b, half)))
          /\ \/ ~ seeding /\ b.rate > c.rate
             \/ (seeding \/ b.rate = c.rate) /\ (bc < cb \/ (bc = cb /\ Completion(b, c, half)))
      BY <1>4, <2>4, <3>1, Zenon DEF Before
    <3>7. /\ Before(a, c, seeding, half)
             <=> \/ ~ seeding /\ a.rate > c.rate
                 \/ (seeding \/ a.rate = c.rate) /\ (ac < ca \/ (ac = ca /\ Completion(a, c, half)))
      BY <2>4, <3>1, Zenon DEF Before
    <3> HIDE DEF ab, ba, bc, cb, ac, ca
    <3> QED
      BY <1>1, <2>1, <3>2, <3>3, <3>4, <3>5, <3>6, <3>7
  <2> QED
    BY <2>2, <2>3, <2>4
<1> QED
  BY <1>3, <1>4, PrefersIsBefore

LEMMA OrderOfStats == SelectIsOrder
<1>1. Stats \subseteq Figures
  BY DEF Stats, Figures
<1> QED
  BY <1>1, SelectOrders DEF SelectIsOrder
-----------------------------------------------------------------------------
(* What choking, unchoking and placing make of the record a handler works  *)
(* on; K is the set its check is of.                                       *)

Haves == {"none", "some", "all"}

Worlds(K) ==
  [on : SUBSET Peers, interested : SUBSET Peers, unchoked : SUBSET Peers, requested : SUBSET Peers,
   has : [Peers -> Haves], stamp : [Peers -> Nat], check : K]

Proper(c) == c.interested \subseteq c.on /\ c.unchoked \subseteq c.on /\ c.requested \subseteq c.unchoked

\* During a check that has begun as k is, only the slots change, and who was choked.
Slots == [0 .. max -> Peers \cup {NoPeer}]
Checks(k) ==
  [begun : {k.begun}, pass : {k.pass}, slot : Slots, rank : {k.rank}, opt : {k.opt},
   chokedNow : SUBSET Peers]

\* What differs when the peers gone are closed
IsClosed(d, c, gone) ==
  /\ d.on = c.on \ gone /\ d.interested = c.interested \ gone /\ d.unchoked = c.unchoked \ gone
  /\ d.requested = c.requested \ gone
  /\ \A p \in Peers : d.has[p] = IF p \in gone THEN "none" ELSE c.has[p]
  /\ d.stamp = c.stamp /\ d.check = c.check

LEMMA ClosedIs ==
  ASSUME NEW K, NEW c \in Worlds(K), NEW S
  PROVE  Closed(c, S) \in Worlds(K) /\ IsClosed(Closed(c, S), c, S)
<1> DEFINE none == [p \in Peers |-> IF p \in S THEN "none" ELSE c.has[p]]
           d == [c EXCEPT !.on = c.on \ S, !.interested = c.interested \ S, !.unchoked = c.unchoked \ S,
                          !.requested = c.requested \ S, !.has = none]
<1>1. Closed(c, S) = d
  BY Zenon DEF Closed
<1>2. none \in [Peers -> Haves]
  BY DEF Worlds, Haves
<1>3. \A p \in Peers : none[p] = IF p \in S THEN "none" ELSE c.has[p]
  OBVIOUS
<1> HIDE DEF none
<1>4. d \in Worlds(K)
  BY <1>2 DEF Worlds
<1>5. /\ d.on = c.on \ S /\ d.interested = c.interested \ S /\ d.unchoked = c.unchoked \ S
      /\ d.requested = c.requested \ S /\ d.has = none /\ d.stamp = c.stamp /\ d.check = c.check
  BY DEF Worlds
<1> HIDE DEF d
<1> QED
  BY <1>1, <1>3, <1>4, <1>5 DEF IsClosed

\* What differs when the peers told are choked, and those gone are closed
IsDropped(d, c, told, gone, now) ==
  /\ d.on = c.on \ gone /\ d.interested = c.interested \ gone /\ d.unchoked = c.unchoked \ told
  /\ d.requested = c.requested \ told
  /\ \A p \in Peers : d.has[p] = IF p \in gone THEN "none" ELSE c.has[p]
  /\ \A p \in Peers : d.stamp[p] = IF p \in told THEN now ELSE c.stamp[p]

LEMMA ChokeIs ==
  ASSUME NEW K, NEW c \in Worlds(K), NEW k, c.check = k, Proper(c), NEW S, NEW bad,
         NEW now, Peers # {} => now \in Nat
  PROVE  LET d == Choke(c, S, bad, now)
             told == S \cap c.unchoked
         IN  /\ d \in Worlds({[k EXCEPT !.chokedNow = @ \cup told]}) /\ Proper(d)
             /\ \E gone \in SUBSET told : IsDropped(d, c, told, gone, now)
<1> DEFINE told == S \cap c.unchoked
           gone == {p \in told : p \in bad \/ (p \notin c.requested /\ mode = "full")}
           marks == [p \in Peers |-> IF p \in told THEN now ELSE c.stamp[p]]
           k2   == [k EXCEPT !.chokedNow = @ \cup told]
           d    == [c EXCEPT !.unchoked = c.unchoked \ told, !.requested = c.requested \ told,
                             !.stamp = marks, !.check = k2]
           e    == Closed(d, gone)
<1>1. Choke(c, S, bad, now) = e
  BY Zenon DEF Choke
<1>2. gone \in SUBSET told
  OBVIOUS
<1>3. marks \in [Peers -> Nat] /\ \A p \in Peers : marks[p] = IF p \in told THEN now ELSE c.stamp[p]
  BY DEF Worlds
<1> HIDE DEF told, marks, k2
<1>4. d \in Worlds({k2})
  BY <1>3 DEF Worlds
<1>5. /\ d.on = c.on /\ d.interested = c.interested /\ d.unchoked = c.unchoked \ told
      /\ d.requested = c.requested \ told /\ d.has = c.has /\ d.stamp = marks
  BY DEF Worlds
<1> HIDE DEF gone, d
<1>6. e \in Worlds({k2}) /\ IsClosed(e, d, gone)
  BY <1>4, ClosedIs
<1>7. IsDropped(e, c, told, gone, now)
  <2>1. (c.unchoked \ told) \ gone = c.unchoked \ told /\ (c.requested \ told) \ gone = c.requested \ told
    BY <1>2
  <2> QED
    BY <1>3, <1>5, <1>6, <2>1 DEF IsClosed, IsDropped
<1>8. Proper(e)
  BY <1>2, <1>7 DEF Proper, IsDropped
<1> QED
  BY <1>1, <1>2, <1>6, <1>7, <1>8 DEF told, k2

\* A peer that is there is unchoked, or closed.
LEMMA UnchokeIs ==
  ASSUME NEW K, NEW c \in Worlds(K), Proper(c), NEW p \in c.on, NEW bad, NEW now \in Nat
  PROVE  LET d == Unchoke(c, p, bad, now)
         IN  /\ d \in Worlds(K) /\ Proper(d) /\ d.check = c.check
             /\ d.unchoked \subseteq c.unchoked \cup {p} /\ d.interested \subseteq c.interested
<1> DEFINE marks == [c.stamp EXCEPT ![p] = now]
           d == [c EXCEPT !.unchoked = c.unchoked \cup {p}, !.stamp = marks]
<1>1. Unchoke(c, p, bad, now) = IF p \in c.unchoked THEN c ELSE IF p \in bad THEN Closed(d, {p}) ELSE d
  BY DEF Unchoke
<1>2. p \in Peers /\ marks \in [Peers -> Nat]
  BY DEF Worlds
<1> HIDE DEF marks
<1>3. d \in Worlds(K)
  BY <1>2 DEF Worlds
<1>4. /\ d.on = c.on /\ d.interested = c.interested /\ d.unchoked = c.unchoked \cup {p} /\ d.requested = c.requested
      /\ d.check = c.check
  BY DEF Worlds
<1>5. Proper(d)
  BY <1>4 DEF Proper
<1> HIDE DEF d
<1>6. Closed(d, {p}) \in Worlds(K) /\ IsClosed(Closed(d, {p}), d, {p})
  BY <1>3, ClosedIs
<1>7. /\ Proper(Closed(d, {p})) /\ Closed(d, {p}).check = c.check
      /\ Closed(d, {p}).unchoked \subseteq c.unchoked \cup {p} /\ Closed(d, {p}).interested \subseteq c.interested
  BY <1>4, <1>5, <1>6 DEF Proper, IsClosed
<1> QED
  BY <1>1, <1>3, <1>4, <1>5, <1>6, <1>7

\* p is put into slot i.
Placed(c, i, p) == [c EXCEPT !.check.slot[i] = p]

LEMMA PlacedIs ==
  ASSUME NEW k, NEW c \in Worlds(Checks(k)), NEW i \in 0 .. max, NEW p \in Peers
  PROVE  LET d == Placed(c, i, p)
         IN  /\ d \in Worlds(Checks(k)) /\ d.check.slot = [c.check.slot EXCEPT ![i] = p]
             /\ d.on = c.on /\ d.interested = c.interested /\ d.unchoked = c.unchoked /\ d.requested = c.requested
             /\ d.has = c.has /\ d.stamp = c.stamp /\ d.check.chokedNow = c.check.chokedNow
<1> DEFINE s == [c.check.slot EXCEPT ![i] = p]
           e == [c.check EXCEPT !.slot = s]
<1>1. c.check \in Checks(k) /\ c.check.slot \in Slots
  BY DEF Worlds, Checks
<1>2. s \in Slots
  BY <1>1 DEF Slots
<1>3. Placed(c, i, p) = [c EXCEPT !.check = e]
  BY DEF Placed
<1> HIDE DEF s
<1>4. e \in Checks(k) /\ e.slot = s /\ e.chokedNow = c.check.chokedNow
  BY <1>1, <1>2 DEF Checks
<1> HIDE DEF e
<1>5. /\ [c EXCEPT !.check = e] \in Worlds(Checks(k)) /\ [c EXCEPT !.check = e].check = e
      /\ [c EXCEPT !.check = e].on = c.on /\ [c EXCEPT !.check = e].interested = c.interested
      /\ [c EXCEPT !.check = e].unchoked = c.unchoked /\ [c EXCEPT !.check = e].requested = c.requested
      /\ [c EXCEPT !.check = e].has = c.has /\ [c EXCEPT !.check = e].stamp = c.stamp
  BY <1>4 DEF Worlds
<1> QED
  BY <1>3, <1>4, <1>5 DEF s

LEMMA LastIs ==
  ASSUME Types, NEW opt \in BOOLEAN
  PROVE  /\ max \in Nat /\ max >= 1 /\ LastRegular(opt) \in 0 .. max
         /\ opt => LastRegular(opt) = max - 1
         /\ ~ opt => LastRegular(opt) = max
<1>1. MinUnchokes \in Nat /\ MinUnchokes >= 1 /\ max \in Int /\ max >= MinUnchokes
  BY ChokingAssumption, PeersFinite DEF Types
<1> QED
  BY <1>1 DEF LastRegular

\* The slot of the one least favoured.
LEMMA WeakestIs ==
  ASSUME NEW c, NEW last \in Nat
  PROVE  /\ Weakest(c, last) \in 0 .. last
         /\ (\A i \in 0 .. last : c.check.rank[c.check.slot[i]] \in Int)
              => \A i \in 0 .. last :
                   c.check.rank[c.check.slot[Weakest(c, last)]] <= c.check.rank[c.check.slot[i]]
<1> DEFINE slot == c.check.slot
           rank == c.check.rank
           ints == \A i \in 0 .. last : rank[slot[i]] \in Int
           worse(w, i) == slot[i] = slot[w] \/ rank[slot[i]] < rank[slot[w]]
           found == CHOOSE f : f = [i \in 0 .. last |->
                                      IF i = 0 THEN 0 ELSE IF worse(f[i - 1], i) THEN i ELSE f[i - 1]]
           least(n) == {w \in 0 .. n : ints => \A i \in 0 .. n : rank[slot[w]] <= rank[slot[i]]}
           D == [n \in 0 .. last |-> least(n)]
           G == [n \in 1 .. last |-> [w \in 0 .. last |-> IF worse(w, n) THEN n ELSE w]]
<1>1. Weakest(c, last) = found[last]
  BY Zenon DEF Weakest
<1> HIDE DEF slot, rank
<1>2. 0 \in D[0]
  OBVIOUS
<1>3. ASSUME NEW n \in 1 .. last, NEW w \in D[n - 1] PROVE G[n][w] \in D[n]
  <2>1. n - 1 \in 0 .. last /\ n \in 0 .. last /\ n - 1 \in Nat
    OBVIOUS
  <2>2. w \in 0 .. n - 1 /\ (ints => \A i \in 0 .. n - 1 : rank[slot[w]] <= rank[slot[i]])
    BY <2>1
  <2>3. w \in 0 .. last /\ w \in 0 .. n /\ \A i \in 0 .. n : i = n \/ i \in 0 .. n - 1
    BY <2>1, <2>2
  <2>4. G[n][w] = IF worse(w, n) THEN n ELSE w
    BY <2>3
  <2>5. ints => rank[slot[n]] \in Int /\ rank[slot[w]] \in Int /\ \A i \in 0 .. n : rank[slot[i]] \in Int
    BY <2>1, <2>3
  <2> HIDE DEF ints, G
  <2>6. CASE worse(w, n)
    <3>1. ints => \A i \in 0 .. n : rank[slot[n]] <= rank[slot[i]]
      BY <2>2, <2>3, <2>5, <2>6
    <3> QED
      BY <2>1, <2>4, <2>6, <3>1
  <2>7. CASE ~ worse(w, n)
    <3>1. ints => \A i \in 0 .. n : rank[slot[w]] <= rank[slot[i]]
      BY <2>2, <2>3, <2>5, <2>7
    <3> QED
      BY <2>1, <2>3, <2>4, <2>7, <3>1
  <2> QED
    BY <2>6, <2>7
<1>4. PICK f : Recursion(f, 0, G, last) /\ \A n \in 0 .. last : f[n] \in D[n]
  <2> HIDE DEF D, G
  <2> QED
    BY <1>2, <1>3, LoopSound
<1>5. f = [i \in 0 .. last |-> IF i = 0 THEN 0 ELSE IF worse(f[i - 1], i) THEN i ELSE f[i - 1]]
  <2>1. ASSUME NEW i \in 0 .. last, i # 0
        PROVE  G[i][f[i - 1]] = IF worse(f[i - 1], i) THEN i ELSE f[i - 1]
    <3>1. i \in 1 .. last /\ i - 1 \in 0 .. last /\ \A x \in 0 .. i - 1 : x \in 0 .. last
      BY <2>1
    <3>2. f[i - 1] \in 0 .. last
      BY <1>4, <3>1
    <3> QED
      BY <3>1, <3>2
  <2>2. f = [i \in 0 .. last |-> IF i = 0 THEN 0 ELSE G[i][f[i - 1]]]
    BY <1>4 DEF Recursion
  <2> HIDE DEF G, worse
  <2> QED
    BY <2>1, <2>2
<1>6. found = [i \in 0 .. last |-> IF i = 0 THEN 0 ELSE IF worse(found[i - 1], i) THEN i ELSE found[i - 1]]
  <2> HIDE DEF worse
  <2> QED
    BY <1>5, Zenon
<1> HIDE DEF found
<1>7. \A n \in 0 .. last : found[n] \in D[n]
  <2>1. found[0] \in D[0]
    BY <1>2, <1>6
  <2>2. ASSUME NEW n \in 1 .. last, found[n - 1] \in D[n - 1] PROVE found[n] \in D[n]
    <3>1. n \in 0 .. last /\ n # 0 /\ n - 1 \in 0 .. last /\ \A x \in 0 .. n - 1 : x \in 0 .. last
      OBVIOUS
    <3>2. found[n] = IF worse(found[n - 1], n) THEN n ELSE found[n - 1]
      BY <1>6, <3>1
    <3>3. found[n - 1] \in 0 .. last
      BY <2>2, <3>1
    <3>4. G[n][found[n - 1]] = found[n]
      BY <3>2, <3>3
    <3> QED
      BY <1>3, <2>2, <3>4
  <2> HIDE DEF D
  <2> QED
    BY <2>1, <2>2, LoopWithin
<1>8. found[last] \in least(last)
  BY <1>7
<1> QED
  BY <1>1, <1>8 DEF slot, rank
-----------------------------------------------------------------------------
(* One peer of the loop.  V are the peers it has come to so far.           *)

InSlot(c, p) == \E i \in 0 .. max : c.check.slot[i] = p
Regular(c) == 0 .. LastRegular(c.check.opt)

\* Who stays unchoked has a slot, but l may have lost it.
HeldBut(c, V, l) == \A q \in V : q \in c.unchoked /\ q # l => InSlot(c, q)
Held(c, V) == \A q \in V : q \in c.unchoked => InSlot(c, q)

\* In the first pass the slots are of different peers, no slot is left free while somebody does
\* without, and no better one does without a regular slot; l does without any.
FilledBut(c, V, l) ==
  /\ \A i \in 0 .. max : c.check.slot[i] = NoPeer \/ c.check.slot[i] \in V \cap Candidates(c)
  /\ \A i, j \in 0 .. max : c.check.slot[i] = c.check.slot[j] => i = j \/ c.check.slot[i] = NoPeer
  /\ \A q \in V \cap Candidates(c) : q # l /\ ~ InSlot(c, q) => \A i \in 0 .. max : c.check.slot[i] # NoPeer
  /\ \A q \in V \cap Candidates(c) : (\A i \in Regular(c) : c.check.slot[i] # q) =>
       \A i \in Regular(c) : c.check.slot[i] # NoPeer /\ c.check.rank[q] <= c.check.rank[c.check.slot[i]]
Filled(c, V) ==
  FilledBut(c, V, NoPeer)

\* The one in the optimistic slot has been choked for longer than those who do without.
NoneEmpty(c) == \A p \in c.on \cup c.check.chokedNow : c.has[p] # "none"
FairBut(c, V, l) ==
  c.check.opt /\ NoneEmpty(c) /\ c.check.slot[max] # NoPeer =>
    \A q \in V \cap Candidates(c) : q # l /\ ~ InSlot(c, q) /\ q \notin c.check.chokedNow =>
      /\ q \notin c.unchoked /\ c.check.slot[max] \notin c.unchoked
      /\ c.stamp[c.check.slot[max]] <= c.stamp[q]
Fair(c, V) == FairBut(c, V, NoPeer)

\* Nothing has become of those that are still there.
Same(c) == c.on \subseteq on /\ \A p \in c.on : c.has[p] = has[p]

LEMMA FreeIs ==
  ASSUME Types, NEW k, NEW c \in Worlds(Checks(k)), Proper(c), NEW V, NEW l, FilledBut(c, V, l), NEW i \in 0 .. max
  PROVE  IsFree(c, i) <=> c.check.slot[i] = NoPeer
<1>1. Candidates(c) \subseteq c.on /\ c.on \subseteq Peers /\ NoPeer \notin Peers
  BY ChokingAssumption DEF Proper, Candidates, Worlds
<1> QED
  BY <1>1 DEF FilledBut, IsFree

\* One that has no slot is choked, and maybe closed.
LEMMA DropFilled ==
  ASSUME NEW V, NEW c, NEW d, NEW x, NEW now, ~ InSlot(c, x), Filled(c, V),
         NEW told \in SUBSET {x}, NEW gone \in SUBSET told,
         IsDropped(d, c, told, gone, now), d.check.slot = c.check.slot, d.check.rank = c.check.rank,
         d.check.opt = c.check.opt
  PROVE  Filled(d, V)
<1>1. Candidates(d) = Candidates(c) \ gone
  BY DEF Candidates, IsDropped
<1>2. Regular(d) = Regular(c) /\ \A q : InSlot(d, q) <=> InSlot(c, q)
  BY DEF Regular, InSlot
<1>3. \A i \in 0 .. max : c.check.slot[i] \notin gone
  BY DEF InSlot
<1> QED
  BY <1>1, <1>2, <1>3 DEF Filled, FilledBut

\* A free slot is taken.
LEMMA FreeFilled ==
  ASSUME NEW k, NEW c \in Worlds(Checks(k)), NEW V, Filled(c, V), Types, k.opt \in BOOLEAN,
         NEW i \in Regular(c), c.check.slot[i] = NoPeer, NEW p \in Candidates(c), p \notin V, p \in Peers
  PROVE  Filled(Placed(c, i, p), V \cup {p}) /\ Fair(Placed(c, i, p), V \cup {p})
<1> DEFINE d == Placed(c, i, p)
<1>1. c.check.opt = k.opt /\ c.check.slot \in Slots
  BY DEF Worlds, Checks
<1>2. i \in 0 .. max /\ \A j \in Regular(c) : j \in 0 .. max
  BY <1>1, LastIs DEF Regular
<1>3. /\ d \in Worlds(Checks(k)) /\ d.check.slot = [c.check.slot EXCEPT ![i] = p]
      /\ d.on = c.on /\ d.interested = c.interested /\ d.unchoked = c.unchoked /\ d.requested = c.requested
      /\ d.has = c.has /\ d.stamp = c.stamp /\ d.check.chokedNow = c.check.chokedNow
  BY <1>2, PlacedIs
<1>4. d.check.opt = c.check.opt /\ d.check.rank = c.check.rank
  BY <1>3 DEF Worlds, Checks
<1> HIDE DEF d
<1>5. Candidates(d) = Candidates(c) /\ Regular(d) = Regular(c)
  BY <1>3, <1>4 DEF Candidates, Regular
<1>6. \A j \in 0 .. max : d.check.slot[j] = IF j = i THEN p ELSE c.check.slot[j]
  BY <1>1, <1>3 DEF Slots
<1>7. \A q : InSlot(d, q) <=> \/ q = p \/ (q # NoPeer /\ InSlot(c, q))
                              \/ q = NoPeer /\ \E j \in 0 .. max : j # i /\ c.check.slot[j] = NoPeer
  BY <1>2, <1>6, ChokingAssumption DEF InSlot
<1>8. NoPeer \notin Peers /\ p # NoPeer
  BY ChokingAssumption
<1>9. \A q \in V \cap Candidates(c) : InSlot(c, q) /\ \E j \in Regular(c) : c.check.slot[j] = q
  <2> SUFFICES ASSUME NEW q \in V \cap Candidates(c), \A j \in Regular(c) : c.check.slot[j] # q
               PROVE FALSE
    BY <1>2 DEF InSlot
  <2> QED
    BY DEF Filled, FilledBut
<1>10. \A q \in (V \cup {p}) \cap Candidates(d) : InSlot(d, q) /\ \E j \in Regular(d) : d.check.slot[j] = q
  <2> SUFFICES ASSUME NEW q \in (V \cup {p}) \cap Candidates(d)
               PROVE \E j \in Regular(d) : d.check.slot[j] = q
    BY <1>2, <1>5 DEF InSlot
  <2>1. CASE q = p
    BY <1>2, <1>5, <1>6, <2>1
  <2>2. CASE q # p
    <3>1. PICK j \in Regular(c) : c.check.slot[j] = q
      BY <1>5, <1>9, <2>2
    <3>2. q # NoPeer
      <4>1. q \in Candidates(c) /\ Candidates(c) \subseteq Peers
        BY <1>5 DEF Candidates, Worlds
      <4> QED
        BY <1>8, <4>1
    <3> QED
      BY <1>2, <1>5, <1>6, <3>1, <3>2
  <2> QED
    BY <2>1, <2>2
<1>11. \A j \in 0 .. max : d.check.slot[j] = NoPeer \/ d.check.slot[j] \in (V \cup {p}) \cap Candidates(d)
  BY <1>5, <1>6 DEF Filled, FilledBut
<1>12. \A j, n \in 0 .. max : d.check.slot[j] = d.check.slot[n] => j = n \/ d.check.slot[j] = NoPeer
  <2>1. \A j \in 0 .. max : c.check.slot[j] # p
    BY <1>8 DEF Filled, FilledBut
  <2> QED
    BY <1>6, <2>1 DEF Filled, FilledBut
<1>13. Filled(d, V \cup {p})
  BY <1>10, <1>11, <1>12 DEF Filled, FilledBut
<1>14. Fair(d, V \cup {p})
  BY <1>10 DEF Fair, FairBut
<1> QED
  BY <1>13, <1>14 DEF d

\* p and the one least favoured of those with a regular slot: m is the record when the better one
\* has the slot, and l the other one.
Exchanged(c, p, w, m, l) ==
  \/ m = Placed(c, w, p) /\ l = c.check.slot[w] /\ c.check.rank[p] >= c.check.rank[c.check.slot[w]]
  \/ m = c /\ l = p /\ ~ (c.check.rank[p] >= c.check.rank[c.check.slot[w]])

\* What a record keeps when only slots change
SlotsOnly(d, c) ==
  /\ d.on = c.on /\ d.interested = c.interested /\ d.unchoked = c.unchoked /\ d.requested = c.requested
  /\ d.has = c.has /\ d.stamp = c.stamp /\ d.check.chokedNow = c.check.chokedNow
  /\ d.check.opt = c.check.opt /\ d.check.rank = c.check.rank

LEMMA PlacedOnly ==
  ASSUME NEW k, NEW c \in Worlds(Checks(k)), NEW i \in 0 .. max, NEW p \in Peers
  PROVE  LET d == Placed(c, i, p)
         IN  /\ d \in Worlds(Checks(k)) /\ SlotsOnly(d, c)
             /\ \A j \in 0 .. max : d.check.slot[j] = IF j = i THEN p ELSE c.check.slot[j]
<1> DEFINE d == Placed(c, i, p)
<1>1. c.check.slot \in Slots
  BY DEF Worlds, Checks
<1>2. /\ d \in Worlds(Checks(k)) /\ d.check.slot = [c.check.slot EXCEPT ![i] = p]
      /\ d.on = c.on /\ d.interested = c.interested /\ d.unchoked = c.unchoked /\ d.requested = c.requested
      /\ d.has = c.has /\ d.stamp = c.stamp /\ d.check.chokedNow = c.check.chokedNow
  BY PlacedIs
<1> HIDE DEF d
<1>3. d.check.opt = c.check.opt /\ d.check.rank = c.check.rank
  BY <1>2 DEF Worlds, Checks
<1>4. \A j \in 0 .. max : d.check.slot[j] = IF j = i THEN p ELSE c.check.slot[j]
  BY <1>1, <1>2 DEF Slots
<1> QED
  BY <1>2, <1>3, <1>4 DEF SlotsOnly, d

Weakness(c, w) ==
  \A i \in Regular(c) : c.check.slot[i] # NoPeer /\ c.check.rank[c.check.slot[w]] <= c.check.rank[c.check.slot[i]]

\* The one that has lost against p is l.
Beaten(m, c, k, V, p, l) ==
  /\ m \in Worlds(Checks(k)) /\ SlotsOnly(m, c)
  /\ FilledBut(m, V \cup {p}, l) /\ l \in (V \cup {p}) \cap Candidates(m) /\ ~ InSlot(m, l)
  /\ \A i \in Regular(m) : m.check.slot[i] # NoPeer
  /\ Fair(c, V) => FairBut(m, V \cup {p}, l)

LEMMA ExchangedIs ==
  ASSUME NEW k, NEW c \in Worlds(Checks(k)), NEW V, Filled(c, V), Types, k.opt \in BOOLEAN,
         NEW w \in Regular(c), Weakness(c, w), \A q \in Candidates(c) : c.check.rank[q] \in Int,
         NEW p \in Candidates(c), p \notin V,
         NEW m, NEW l, Exchanged(c, p, w, m, l)
  PROVE  Beaten(m, c, k, V, p, l)
<1> USE DEF Weakness
<1>1. c.check.opt = k.opt /\ c.check.opt \in BOOLEAN
  BY DEF Worlds, Checks
<1>2. /\ w \in 0 .. max /\ (\A j \in Regular(c) : j \in 0 .. max) /\ max \in 0 .. max
      /\ c.check.opt => max \notin Regular(c)
  BY <1>1, LastIs DEF Regular
<1>3. NoPeer \notin Peers /\ Candidates(c) \subseteq Peers
  BY ChokingAssumption DEF Candidates, Worlds
<1>4. c.check.slot[w] \in V \cap Candidates(c) /\ \A j \in 0 .. max : c.check.slot[j] # p
  BY <1>2, <1>3 DEF Filled, FilledBut
<1>5. \A i \in Regular(c) : c.check.slot[i] \in Candidates(c) /\ c.check.rank[c.check.slot[i]] \in Int
  BY <1>2 DEF Filled, FilledBut
<1>6. CASE m = Placed(c, w, p) /\ l = c.check.slot[w] /\ c.check.rank[p] >= c.check.rank[c.check.slot[w]]
  <2>1. /\ m \in Worlds(Checks(k)) /\ SlotsOnly(m, c)
        /\ \A j \in 0 .. max : m.check.slot[j] = IF j = w THEN p ELSE c.check.slot[j]
    BY <1>2, <1>3, <1>6, PlacedOnly
  <2>2. Candidates(m) = Candidates(c) /\ Regular(m) = Regular(c)
    BY <2>1 DEF Candidates, Regular, SlotsOnly
  <2>3. ~ InSlot(m, l)
    BY <1>2, <1>3, <1>4, <1>6, <2>1 DEF InSlot, Filled, FilledBut
  <2>4. \A i \in Regular(m) : m.check.slot[i] # NoPeer
    BY <1>2, <1>3, <2>1, <2>2
  <2>5. \A q : InSlot(c, q) => InSlot(m, q) \/ q = l
    BY <1>6, <2>1 DEF InSlot
  <2>6. InSlot(m, p)
    BY <1>2, <2>1 DEF InSlot
  <2>7. FilledBut(m, V \cup {p}, l)
    <3>1. \A i \in 0 .. max : m.check.slot[i] = NoPeer \/ m.check.slot[i] \in (V \cup {p}) \cap Candidates(m)
      BY <2>1, <2>2 DEF Filled, FilledBut
    <3>2. \A i, j \in 0 .. max : m.check.slot[i] = m.check.slot[j] => i = j \/ m.check.slot[i] = NoPeer
      BY <1>4, <2>1 DEF Filled, FilledBut
    <3>3. ASSUME NEW q \in (V \cup {p}) \cap Candidates(m), q # l, ~ InSlot(m, q)
          PROVE  \A i \in 0 .. max : m.check.slot[i] # NoPeer
      <4>1. q \in V \cap Candidates(c) /\ ~ InSlot(c, q) /\ q # NoPeer
        BY <1>3, <2>2, <2>5, <2>6, <3>3
      <4>2. \A i \in 0 .. max : c.check.slot[i] # NoPeer
        BY <4>1 DEF Filled, FilledBut
      <4> QED
        BY <1>3, <2>1, <4>2
    <3>4. ASSUME NEW q \in (V \cup {p}) \cap Candidates(m), \A i \in Regular(m) : m.check.slot[i] # q,
                 NEW i \in Regular(m)
          PROVE  m.check.slot[i] # NoPeer /\ m.check.rank[q] <= m.check.rank[m.check.slot[i]]
      <4>1. q # p /\ q \in V \cap Candidates(c)
        BY <1>2, <2>1, <2>2, <3>4
      <4>2. c.check.rank[q] \in Int /\ c.check.rank[p] \in Int
        BY <4>1
      <4>3. c.check.rank[q] <= c.check.rank[c.check.slot[w]] /\ c.check.rank[q] <= c.check.rank[c.check.slot[i]]
        <5>1. CASE q = l
          BY <1>5, <1>6, <2>2, <3>4, <4>2, <5>1
        <5>2. CASE q # l
          <6>1. \A j \in Regular(c) : c.check.slot[j] # q
            BY <1>2, <1>6, <2>1, <2>2, <3>4, <5>2
          <6> QED
            BY <2>2, <3>4, <4>1, <6>1 DEF Filled, FilledBut
        <5> QED
          BY <5>1, <5>2
      <4>4. c.check.rank[q] <= c.check.rank[p]
        BY <1>5, <1>6, <4>2, <4>3
      <4>5. m.check.slot[i] = p \/ m.check.slot[i] = c.check.slot[i]
        BY <1>2, <2>1, <2>2, <3>4
      <4> QED
        BY <2>1, <2>4, <3>4, <4>3, <4>4, <4>5 DEF SlotsOnly
    <3> QED
      BY <3>1, <3>2, <3>3, <3>4 DEF FilledBut
  <2>8. l \in (V \cup {p}) \cap Candidates(m)
    BY <1>4, <1>6, <2>2
  <2>9. ASSUME Fair(c, V) PROVE FairBut(m, V \cup {p}, l)
    <3> SUFFICES ASSUME m.check.opt, NoneEmpty(m), m.check.slot[max] # NoPeer,
                        NEW q \in (V \cup {p}) \cap Candidates(m), q # l, ~ InSlot(m, q), q \notin m.check.chokedNow
                 PROVE  /\ q \notin m.unchoked /\ m.check.slot[max] \notin m.unchoked
                        /\ m.stamp[m.check.slot[max]] <= m.stamp[q]
      BY DEF FairBut
    <3>1. q \in V \cap Candidates(c) /\ ~ InSlot(c, q) /\ q # NoPeer
      BY <1>3, <2>2, <2>5, <2>6
    <3>2. m.check.slot[max] = c.check.slot[max]
      BY <1>2, <2>1 DEF SlotsOnly
    <3> QED
      BY <2>1, <2>9, <3>1, <3>2 DEF Fair, FairBut, NoneEmpty, SlotsOnly
  <2> QED
    BY <2>1, <2>3, <2>4, <2>7, <2>8, <2>9 DEF Beaten
<1>7. CASE m = c /\ l = p /\ ~ (c.check.rank[p] >= c.check.rank[c.check.slot[w]])
  <2>1. ~ InSlot(m, l)
    BY <1>4, <1>7 DEF InSlot
  <2>2. FilledBut(m, V \cup {p}, l)
    <3>1. \A i \in 0 .. max : c.check.slot[i] = NoPeer \/ c.check.slot[i] \in (V \cup {p}) \cap Candidates(c)
      BY DEF Filled, FilledBut
    <3>2. \A q \in (V \cup {p}) \cap Candidates(c) : q # p /\ ~ InSlot(c, q) =>
            \A i \in 0 .. max : c.check.slot[i] # NoPeer
      BY <1>3 DEF Filled, FilledBut
    <3>3. ASSUME NEW q \in (V \cup {p}) \cap Candidates(c), \A i \in Regular(c) : c.check.slot[i] # q,
                 NEW i \in Regular(c)
          PROVE  c.check.rank[q] <= c.check.rank[c.check.slot[i]]
      <4>1. CASE q = p
        <5>1. c.check.rank[p] \in Int
          OBVIOUS
        <5>2. c.check.rank[p] <= c.check.rank[c.check.slot[w]]
          BY <1>5, <1>7, <5>1
        <5> QED
          BY <1>5, <3>3, <4>1, <5>1, <5>2
      <4>2. CASE q # p
        BY <3>3, <4>2 DEF Filled, FilledBut
      <4> QED
        BY <4>1, <4>2
    <3> QED
      BY <1>7, <3>1, <3>2, <3>3 DEF Filled, FilledBut
  <2>3. Fair(c, V) => FairBut(m, V \cup {p}, l)
    BY <1>3, <1>7 DEF Fair, FairBut
  <2> QED
    <3>1. SlotsOnly(m, c) /\ \A i \in Regular(m) : m.check.slot[i] # NoPeer
      BY <1>7 DEF SlotsOnly
    <3> QED
      BY <1>7, <2>1, <2>2, <2>3, <3>1 DEF Beaten
<1> QED
  BY <1>6, <1>7 DEF Exchanged

\* x is choked.
LEMMA DropIs ==
  ASSUME NEW k, NEW m \in Worlds(Checks(k)), Proper(m), NEW x \in Peers, NEW bad, NEW now \in Nat
  PROVE  LET d == Choke(m, {x}, bad, now)
             told == {x} \cap m.unchoked
         IN  /\ d \in Worlds(Checks(k)) /\ Proper(d)
             /\ d.check.slot = m.check.slot /\ d.check.rank = m.check.rank /\ d.check.opt = m.check.opt
             /\ d.check.chokedNow = m.check.chokedNow \cup told
             /\ \E gone \in SUBSET told : IsDropped(d, m, told, gone, now)
<1> DEFINE d == Choke(m, {x}, bad, now)
           told == {x} \cap m.unchoked
           k2 == [m.check EXCEPT !.chokedNow = @ \cup told]
<1>1. d \in Worlds({k2}) /\ Proper(d) /\ \E gone \in SUBSET told : IsDropped(d, m, told, gone, now)
  BY ChokeIs
<1>2. m.check \in Checks(k) /\ told \subseteq Peers
  BY DEF Worlds
<1> HIDE DEF d, told
<1>3. k2 \in Checks(k)
  BY <1>2 DEF Checks
<1>4. /\ k2.slot = m.check.slot /\ k2.rank = m.check.rank /\ k2.opt = m.check.opt
      /\ k2.chokedNow = m.check.chokedNow \cup told
  BY <1>2 DEF Checks
<1> HIDE DEF k2
<1>5. d \in Worlds(Checks(k)) /\ d.check = k2
  BY <1>1, <1>3 DEF Worlds
<1> QED
  BY <1>1, <1>4, <1>5 DEF d, told

\* Who was closed is empty.
LEMMA DropNoneEmpty ==
  ASSUME NEW m, NEW d, NEW told \in SUBSET Peers, NEW gone \in SUBSET told, NEW now, IsDropped(d, m, told, gone, now),
         d.check.chokedNow = m.check.chokedNow \cup told, m.on \subseteq Peers, m.check.chokedNow \subseteq Peers,
         NoneEmpty(d)
  PROVE  gone = {} /\ NoneEmpty(m) /\ d.on = m.on /\ Candidates(d) = Candidates(m)
<1>1. gone = {}
  BY DEF IsDropped, NoneEmpty
<1> QED
  BY <1>1 DEF IsDropped, NoneEmpty, Candidates

LEMMA DropRest ==
  ASSUME NEW m, NEW d, NEW told, NEW gone, NEW now, IsDropped(d, m, told, gone, now), m.on \subseteq Peers
  PROVE  Candidates(d) \subseteq Candidates(m) /\ (Same(m) => Same(d))
BY DEF IsDropped, Same, Candidates

\* l has lost its regular slot: it goes without, or competes for the optimistic one.
Losing(m, k, V, l) ==
  /\ m \in Worlds(Checks(k)) /\ Proper(m) /\ Same(m) /\ FilledBut(m, V, l) /\ FairBut(m, V, l)
  /\ l \in V \cap Candidates(m) /\ ~ InSlot(m, l)
  /\ \A i \in Regular(m) : m.check.slot[i] # NoPeer
Lost(d, m, k, l, bad, now, luck) ==
  d = IF ~ k.opt THEN Choke(m, {l}, bad, now) ELSE Optimistic(m, l, bad, now, luck)

LEMMA LoserFilled ==
  ASSUME Types, NEW k, k.opt \in BOOLEAN, NEW m, NEW V, NEW l, Losing(m, k, V, l),
         NEW bad, NEW now \in Nat, NEW luck \in BOOLEAN, NEW d, Lost(d, m, k, l, bad, now, luck)
  PROVE  Candidates(d) \subseteq Candidates(m) /\ Filled(d, V) /\ Fair(d, V)
<1> USE DEF Losing, Lost
<1>1. m.check.opt = k.opt /\ m.check.slot \in Slots /\ m.check.chokedNow \subseteq Peers /\ m.on \subseteq Peers
  BY DEF Worlds, Checks
<1>2. /\ max \in 0 .. max /\ (\A j \in Regular(m) : j \in 0 .. max)
      /\ k.opt => max \notin Regular(m) /\ \A j \in 0 .. max : j = max \/ j \in Regular(m)
      /\ ~ k.opt => \A j \in 0 .. max : j \in Regular(m)
  BY <1>1, LastIs DEF Regular
<1>3. NoPeer \notin Peers /\ l \in Peers /\ l \in m.on /\ Candidates(m) \subseteq m.on
  BY ChokingAssumption DEF Candidates, Worlds, Proper
<1>4. ASSUME m.check.slot[max] # NoPeer PROVE Filled(m, V)
  <2>1. \A i \in 0 .. max : m.check.slot[i] # NoPeer
    BY <1>2, <1>4
  <2> QED
    BY <2>1 DEF Filled, FilledBut
<1>5. IsFree(m, max) <=> m.check.slot[max] = NoPeer
  BY <1>2, FreeIs
<1>6. CASE d = Choke(m, {l}, bad, now) /\ m.check.slot[max] # NoPeer
           /\ (k.opt => ~ TakesOver(m, l, m.check.slot[max], luck))
  <2> DEFINE told == {l} \cap m.unchoked
  <2>0. LET e == Choke(m, {l}, bad, now)
        IN  /\ e \in Worlds(Checks(k)) /\ Proper(e)
            /\ e.check.slot = m.check.slot /\ e.check.rank = m.check.rank /\ e.check.opt = m.check.opt
            /\ e.check.chokedNow = m.check.chokedNow \cup told
            /\ \E gone \in SUBSET told : IsDropped(e, m, told, gone, now)
    BY <1>3, DropIs, Zenon
  <2>1. /\ d \in Worlds(Checks(k)) /\ Proper(d)
        /\ d.check.slot = m.check.slot /\ d.check.rank = m.check.rank /\ d.check.opt = m.check.opt
        /\ d.check.chokedNow = m.check.chokedNow \cup told
    BY <1>6, <2>0, Zenon
  <2>2. PICK gone \in SUBSET told : IsDropped(d, m, told, gone, now)
    BY <1>6, <2>0, Zenon
  <2>3. Filled(d, V)
    BY <1>4, <1>6, <2>1, <2>2, DropFilled
  <2>4. Candidates(d) \subseteq Candidates(m) /\ Same(d)
    BY <1>1, <2>2, DropRest
  <2>5. Fair(d, V)
    <3> DEFINE o == m.check.slot[max]
    <3> SUFFICES ASSUME k.opt, NoneEmpty(d),
                        NEW q \in V \cap Candidates(d), ~ InSlot(d, q), q \notin d.check.chokedNow
                 PROVE  q \notin d.unchoked /\ o \notin d.unchoked /\ d.stamp[o] <= d.stamp[q]
      BY <1>1, <2>1 DEF Fair, FairBut
    <3>1. /\ gone = {} /\ NoneEmpty(m) /\ d.on = m.on /\ Candidates(d) = Candidates(m)
      BY <1>1, <1>3, <2>1, <2>2, DropNoneEmpty
    <3>2. o \in V \cap Candidates(m) /\ o # l /\ o \in Peers /\ o \in m.on
      BY <1>1, <1>2, <1>3, <1>6 DEF FilledBut, InSlot
    <3>3. q # o /\ q \in Peers /\ q \in m.on /\ ~ InSlot(m, q)
      BY <1>1, <1>2, <1>3, <2>1, <3>1 DEF InSlot
    <3>4. ~ Empty(l) /\ ~ Empty(o)
      BY <1>3, <3>1, <3>2 DEF NoneEmpty, Same, Empty
    <3>5. ~ Waited(m, l, o)
      BY <1>6, <3>4 DEF TakesOver
    <3>6. m.stamp[o] \in Nat /\ m.stamp[l] \in Nat
      BY <1>3, <3>2 DEF Worlds
    <3>7. CASE q = l
      <4>1. l \notin m.unchoked
        BY <2>1, <3>7
      <4>2. o \notin m.unchoked /\ m.stamp[o] <= m.stamp[l]
        BY <3>5, <3>6, <4>1 DEF Waited
      <4> QED
        BY <1>3, <2>2, <3>2, <3>7, <4>1, <4>2 DEF IsDropped
    <3>8. CASE q # l
      <4>1. q \notin m.unchoked /\ o \notin m.unchoked /\ m.stamp[o] <= m.stamp[q]
        BY <1>1, <1>6, <2>1, <3>1, <3>3, <3>8 DEF FairBut
      <4> QED
        BY <2>2, <3>2, <3>3, <3>8, <4>1 DEF IsDropped
    <3> QED
      BY <3>7, <3>8
  <2> QED
    BY <2>1, <2>3, <2>4, <2>5
<1>7. CASE k.opt /\ m.check.slot[max] = NoPeer /\ d = Placed(m, max, l)
  <2>1. /\ d \in Worlds(Checks(k)) /\ SlotsOnly(d, m)
        /\ \A j \in 0 .. max : d.check.slot[j] = IF j = max THEN l ELSE m.check.slot[j]
    BY <1>2, <1>3, <1>7, PlacedOnly
  <2>2. Candidates(d) = Candidates(m) /\ Regular(d) = Regular(m)
    BY <2>1 DEF Candidates, Regular, SlotsOnly
  <2>3. \A q \in V \cap Candidates(m) : InSlot(d, q)
    <3> SUFFICES ASSUME NEW q \in V \cap Candidates(m) PROVE InSlot(d, q)
      OBVIOUS
    <3>1. CASE q = l
      BY <1>2, <2>1, <3>1 DEF InSlot
    <3>2. CASE q # l
      <4>1. InSlot(m, q)
        BY <1>2, <1>7, <3>2 DEF FilledBut
      <4>2. q # NoPeer
        BY <1>1, <1>3
      <4> QED
        BY <1>7, <2>1, <4>1, <4>2 DEF InSlot
    <3> QED
      BY <3>1, <3>2
  <2>4. Filled(d, V)
    <3>1. \A i \in 0 .. max : d.check.slot[i] = NoPeer \/ d.check.slot[i] \in V \cap Candidates(d)
      BY <2>1, <2>2 DEF FilledBut
    <3>2. \A i, j \in 0 .. max : d.check.slot[i] = d.check.slot[j] => i = j \/ d.check.slot[i] = NoPeer
      BY <2>1 DEF FilledBut, InSlot
    <3>3. \A i \in Regular(d) : d.check.slot[i] = m.check.slot[i] /\ d.check.rank = m.check.rank
      BY <1>2, <1>7, <2>1, <2>2 DEF SlotsOnly
    <3>4. ASSUME NEW q \in V \cap Candidates(d), \A i \in Regular(d) : d.check.slot[i] # q, NEW i \in Regular(d)
          PROVE  d.check.slot[i] # NoPeer /\ d.check.rank[q] <= d.check.rank[d.check.slot[i]]
      <4>1. \A j \in Regular(m) : m.check.slot[j] # q
        BY <2>2, <3>3, <3>4
      <4>2. m.check.slot[i] # NoPeer /\ m.check.rank[q] <= m.check.rank[m.check.slot[i]]
        BY <2>2, <3>4, <4>1 DEF FilledBut
      <4> QED
        BY <3>3, <3>4, <4>2
    <3> QED
      BY <2>2, <2>3, <3>1, <3>2, <3>4 DEF Filled, FilledBut
  <2>5. Fair(d, V)
    BY <2>2, <2>3 DEF Fair, FairBut
  <2>6. Proper(d) /\ Same(d)
    BY <2>1 DEF Proper, Same, SlotsOnly
  <2> QED
    BY <2>1, <2>2, <2>4, <2>5, <2>6
<1>8. CASE k.opt /\ m.check.slot[max] # NoPeer /\ TakesOver(m, l, m.check.slot[max], luck)
           /\ d = Choke(Placed(m, max, l), {m.check.slot[max]}, bad, now)
  <2> DEFINE o == m.check.slot[max]
             n == Placed(m, max, l)
             told == {o} \cap n.unchoked
  <2>1. /\ n \in Worlds(Checks(k)) /\ SlotsOnly(n, m)
        /\ \A j \in 0 .. max : n.check.slot[j] = IF j = max THEN l ELSE m.check.slot[j]
    BY <1>2, <1>3, PlacedOnly
  <2>2. o \in V \cap Candidates(m) /\ o # l /\ o \in Peers /\ o \in m.on
    BY <1>1, <1>2, <1>3, <1>8 DEF FilledBut, InSlot
  <2> HIDE DEF n
  <2>3. Candidates(n) = Candidates(m) /\ Regular(n) = Regular(m) /\ Proper(n) /\ Same(n)
    BY <2>1 DEF Candidates, Regular, SlotsOnly, Proper, Same
  <2>4. ~ InSlot(n, o)
    BY <1>2, <2>1, <2>2 DEF InSlot, FilledBut
  <2>5. Filled(n, V)
    <3>1. \A i \in 0 .. max : n.check.slot[i] \in V \cap Candidates(n)
      BY <1>2, <1>8, <2>1, <2>3 DEF FilledBut
    <3>2. \A i, j \in 0 .. max : n.check.slot[i] = n.check.slot[j] => i = j
      <4>1. \A j \in 0 .. max : m.check.slot[j] # NoPeer
        BY <1>2, <1>8
      <4> QED
        BY <2>1, <4>1 DEF FilledBut, InSlot
    <3>3. \A i \in Regular(n) : n.check.slot[i] = m.check.slot[i] /\ n.check.rank = m.check.rank
      BY <1>2, <1>8, <2>1, <2>3 DEF SlotsOnly
    <3>4. \A i \in 0 .. max : n.check.slot[i] # NoPeer
      BY <1>1, <1>3, <2>3, <3>1
    <3> QED
      BY <1>1, <1>3, <2>3, <3>1, <3>2, <3>3, <3>4 DEF Filled, FilledBut
  <2>0. LET e == Choke(n, {o}, bad, now)
        IN  /\ e \in Worlds(Checks(k)) /\ Proper(e)
            /\ e.check.slot = n.check.slot /\ e.check.rank = n.check.rank /\ e.check.opt = n.check.opt
            /\ e.check.chokedNow = n.check.chokedNow \cup told
            /\ \E gone \in SUBSET told : IsDropped(e, n, told, gone, now)
    <3> HIDE DEF o
    <3> QED
      BY <2>1, <2>2, <2>3, DropIs, Zenon
  <2>6. /\ d \in Worlds(Checks(k)) /\ Proper(d)
        /\ d.check.slot = n.check.slot /\ d.check.rank = n.check.rank /\ d.check.opt = n.check.opt
        /\ d.check.chokedNow = n.check.chokedNow \cup told
    BY <1>8, <2>0, Zenon DEF n
  <2>7. PICK gone \in SUBSET told : IsDropped(d, n, told, gone, now)
    BY <1>8, <2>0, Zenon DEF n
  <2>8. Filled(d, V)
    BY <2>4, <2>5, <2>6, <2>7, DropFilled
  <2>9. n.on \subseteq Peers /\ n.check.chokedNow \subseteq Peers
    BY <1>1, <2>1 DEF SlotsOnly
  <2>10. Candidates(d) \subseteq Candidates(n) /\ Same(d)
    BY <2>3, <2>7, <2>9, DropRest
  <2>11. Fair(d, V)
    <3>1. d.check.slot[max] = l
      BY <1>2, <2>1, <2>6
    <3> SUFFICES ASSUME NoneEmpty(d), NEW q \in V \cap Candidates(d), ~ InSlot(d, q), q \notin d.check.chokedNow
                 PROVE  q \notin d.unchoked /\ l \notin d.unchoked /\ d.stamp[l] <= d.stamp[q]
      BY <3>1 DEF Fair, FairBut
    <3>2. /\ gone = {} /\ NoneEmpty(n) /\ d.on = n.on /\ Candidates(d) = Candidates(n)
      BY <2>2, <2>6, <2>7, <2>9, DropNoneEmpty
    <3>3. NoneEmpty(m)
      BY <2>1, <3>2 DEF NoneEmpty, SlotsOnly
    <3>4. ~ Empty(l) /\ ~ Empty(o)
      BY <1>3, <2>2, <3>3 DEF NoneEmpty, Same, Empty
    <3>5. Waited(m, l, o)
      BY <1>8, <3>4 DEF TakesOver
    <3>6. q # l /\ q \in Peers /\ q \notin m.check.chokedNow /\ q \in V \cap Candidates(m)
      BY <1>1, <1>2, <1>3, <2>1, <2>3, <2>6, <3>1, <3>2, ZenonT(60) DEF InSlot, SlotsOnly
    <3>7. m.stamp[o] \in Nat /\ m.stamp[l] \in Nat /\ m.stamp[q] \in Nat
      BY <1>3, <2>2, <3>6 DEF Worlds
    <3>8. q = o \/ (q \notin m.unchoked /\ o \notin m.unchoked /\ m.stamp[o] <= m.stamp[q])
      <4> SUFFICES ASSUME q # o PROVE q \notin m.unchoked /\ o \notin m.unchoked /\ m.stamp[o] <= m.stamp[q]
        OBVIOUS
      <4>1. ~ InSlot(m, q)
        BY <1>2, <2>1, <2>6 DEF InSlot
      <4> QED
        BY <1>1, <1>8, <3>3, <3>6, <4>1 DEF FairBut
    <3>9. o \notin m.unchoked
      <4>1. q = o => o \notin told
        BY <2>6
      <4> QED
        BY <2>1, <3>8, <4>1 DEF SlotsOnly
    <3>10. l \notin m.unchoked /\ m.stamp[l] < m.stamp[o]
      BY <3>5, <3>9 DEF Waited
    <3>11. told = {} /\ \A x \in Peers : d.stamp[x] = m.stamp[x]
      BY <2>1, <2>7, <3>9 DEF IsDropped, SlotsOnly
    <3>12. d.unchoked = m.unchoked
      BY <2>1, <2>7, <3>11 DEF IsDropped, SlotsOnly
    <3>13. m.stamp[l] <= m.stamp[q] /\ q \notin m.unchoked
      BY <3>7, <3>8, <3>9, <3>10
    <3> QED
      BY <1>3, <3>6, <3>10, <3>11, <3>12, <3>13
  <2> QED
    BY <2>3, <2>6, <2>8, <2>10, <2>11
<1>9. CASE ~ k.opt
  <2>1. m.check.slot[max] # NoPeer
    BY <1>2, <1>9
  <2> QED
    BY <1>6, <1>9, <2>1
<1>10. CASE k.opt
  <2>1. d = IF IsFree(m, max) THEN Placed(m, max, l)
            ELSE IF TakesOver(m, l, m.check.slot[max], luck)
              THEN Choke(Placed(m, max, l), {m.check.slot[max]}, bad, now)
            ELSE Choke(m, {l}, bad, now)
    BY <1>10, Zenon DEF Optimistic, Placed
  <2> QED
    BY <1>5, <1>6, <1>7, <1>8, <1>10, <2>1
<1> QED
  BY <1>9, <1>10

\* PeerList::UnchokeCheck
Exchange(d, c, k, p, w, m, l, bad, now, luck) ==
  /\ Exchanged(c, p, w, m, l) /\ Lost(d, m, k, l, bad, now, luck)
  /\ (\A i \in Regular(c) : c.check.rank[c.check.slot[i]] \in Int)
       => \A i \in Regular(c) : c.check.rank[c.check.slot[w]] <= c.check.rank[c.check.slot[i]]
IsChecked(d, c, k, p, bad, now, luck) ==
  \/ \E i \in Regular(c) : IsFree(c, i) /\ d = Placed(c, i, p)
  \/ /\ \A i \in Regular(c) : ~ IsFree(c, i)
     /\ \E w \in Regular(c) : \E m, l : Exchange(d, c, k, p, w, m, l, bad, now, luck)

LEMMA UnchokeCheckIs ==
  ASSUME Types, NEW k, k.opt \in BOOLEAN, NEW c \in Worlds(Checks(k)), NEW p, NEW bad, NEW now, NEW luck
  PROVE  IsChecked(UnchokeCheck(c, p, bad, now, luck), c, k, p, bad, now, luck)
<1> DEFINE last == LastRegular(c.check.opt)
           free == FreeSlots(c, last)
           w == Weakest(c, last)
           wins == c.check.rank[p] >= c.check.rank[c.check.slot[w]]
           l == IF wins THEN c.check.slot[w] ELSE p
           m == IF wins THEN Placed(c, w, p) ELSE c
<1>1. c.check.opt = k.opt /\ last \in Nat /\ Regular(c) = 0 .. last
  BY LastIs DEF Worlds, Checks, Regular
<1>2. UnchokeCheck(c, p, bad, now, luck) =
        IF free # {} THEN Placed(c, Smallest(free), p)
        ELSE IF ~ k.opt THEN Choke(m, {l}, bad, now) ELSE Optimistic(m, l, bad, now, luck)
  BY <1>1, Zenon DEF UnchokeCheck, Placed
<1> HIDE DEF last
<1>3. free = {i \in 0 .. last : IsFree(c, i)}
  BY Zenon DEF FreeSlots
<1>4. CASE free # {}
  <2>1. Smallest(free) \in free
    <3>1. free \in SUBSET Nat
      BY <1>3
    <3> QED
      BY <1>4, <3>1, SmallestIs
  <2> QED
    BY <1>1, <1>2, <1>3, <1>4, <2>1 DEF IsChecked
<1>5. CASE free = {}
  <2>1. w \in 0 .. last /\
        ((\A i \in 0 .. last : c.check.rank[c.check.slot[i]] \in Int)
           => \A i \in 0 .. last : c.check.rank[c.check.slot[w]] <= c.check.rank[c.check.slot[i]])
    BY <1>1, WeakestIs
  <2> HIDE DEF w
  <2>2. Exchanged(c, p, w, m, l)
    BY Zenon DEF Exchanged
  <2>3. UnchokeCheck(c, p, bad, now, luck) =
          IF ~ k.opt THEN Choke(m, {l}, bad, now) ELSE Optimistic(m, l, bad, now, luck)
    BY <1>2, <1>5
  <2>4. \A i \in 0 .. last : ~ IsFree(c, i)
    BY <1>3, <1>5
  <2> HIDE DEF m, l
  <2>5. Exchange(UnchokeCheck(c, p, bad, now, luck), c, k, p, w, m, l, bad, now, luck)
    BY <1>1, <2>1, <2>2, <2>3, Zenon DEF Exchange, Lost
  <2> QED
    BY <1>1, <2>1, <2>4, <2>5, Zenon DEF IsChecked
<1> QED
  BY <1>4, <1>5

Sorted(d, c, V) == Candidates(d) \subseteq Candidates(c) /\ Filled(d, V) /\ Fair(d, V)

LEMMA CheckFilled ==
  ASSUME Types, NEW k, k.opt \in BOOLEAN, NEW c \in Worlds(Checks(k)), Proper(c), Same(c), NEW V,
         Filled(c, V), Fair(c, V), \A q \in Candidates(c) : c.check.rank[q] \in Int,
         NEW p \in Candidates(c), p \notin V, NEW bad, NEW now \in Nat, NEW luck \in BOOLEAN
  PROVE  Sorted(UnchokeCheck(c, p, bad, now, luck), c, V \cup {p})
<1> DEFINE d == UnchokeCheck(c, p, bad, now, luck)
<1>1. c.check.opt = k.opt /\ p \in Peers
  BY DEF Worlds, Checks, Candidates
<1>2. \A i \in Regular(c) : i \in 0 .. max
  BY <1>1, LastIs DEF Regular
<1>3. \A i \in Regular(c) : IsFree(c, i) <=> c.check.slot[i] = NoPeer
  BY <1>2, FreeIs DEF Filled
<1>4. ASSUME NEW i \in Regular(c), IsFree(c, i), d = Placed(c, i, p)
      PROVE  Candidates(d) \subseteq Candidates(c) /\ Filled(d, V \cup {p}) /\ Fair(d, V \cup {p})
  <2>1. Filled(d, V \cup {p}) /\ Fair(d, V \cup {p})
    BY <1>1, <1>3, <1>4, FreeFilled
  <2>2. SlotsOnly(Placed(c, i, p), c)
    BY <1>1, <1>2, PlacedOnly
  <2> QED
    BY <1>4, <2>1, <2>2 DEF SlotsOnly, Candidates
<1>5. ASSUME \A i \in Regular(c) : ~ IsFree(c, i), NEW w \in Regular(c), NEW m, NEW l,
             Exchange(d, c, k, p, w, m, l, bad, now, luck)
      PROVE  Candidates(d) \subseteq Candidates(c) /\ Filled(d, V \cup {p}) /\ Fair(d, V \cup {p})
  <2>1. \A i \in Regular(c) : c.check.slot[i] # NoPeer /\ c.check.rank[c.check.slot[i]] \in Int
    BY <1>2, <1>3, <1>5 DEF Filled, FilledBut
  <2>2. Weakness(c, w)
    BY <1>5, <2>1 DEF Exchange, Weakness
  <2>3. Exchanged(c, p, w, m, l) /\ Lost(d, m, k, l, bad, now, luck)
    BY <1>5, Zenon DEF Exchange
  <2> HIDE DEF d
  <2>4. SlotsOnly(m, c) /\ Candidates(m) = Candidates(c) /\ Losing(m, k, V \cup {p}, l)
    <3>0. Beaten(m, c, k, V, p, l)
      BY <1>5, <2>2, <2>3, ExchangedIs, Zenon
    <3>1. /\ m \in Worlds(Checks(k)) /\ SlotsOnly(m, c)
          /\ FilledBut(m, V \cup {p}, l) /\ l \in (V \cup {p}) \cap Candidates(m) /\ ~ InSlot(m, l)
          /\ \A i \in Regular(m) : m.check.slot[i] # NoPeer
          /\ FairBut(m, V \cup {p}, l)
      BY <3>0, Zenon DEF Beaten
    <3>2. Proper(m) /\ Same(m) /\ Candidates(m) = Candidates(c)
      BY <3>1 DEF Proper, Same, Candidates, SlotsOnly
    <3> QED
      BY <3>1, <3>2 DEF Losing
  <2>5. Candidates(d) \subseteq Candidates(m) /\ Filled(d, V \cup {p}) /\ Fair(d, V \cup {p})
    BY <2>3, <2>4, LoserFilled
  <2> QED
    BY <2>4, <2>5
<1>6. IsChecked(d, c, k, p, bad, now, luck)
  BY UnchokeCheckIs
<1> HIDE DEF d
<1>7. Candidates(d) \subseteq Candidates(c) /\ Filled(d, V \cup {p}) /\ Fair(d, V \cup {p})
  BY <1>4, <1>5, <1>6, Zenon DEF IsChecked
<1> QED
  BY <1>7 DEF Sorted, d

\* Nobody stays unchoked without a slot, in whatever pass.
LEMMA LoserHeld ==
  ASSUME Types, NEW k, k.opt \in BOOLEAN, NEW m \in Worlds(Checks(k)), Proper(m), Same(m), NEW V, NEW l \in m.on,
         HeldBut(m, V, l), NEW bad, NEW now \in Nat, NEW luck \in BOOLEAN, NEW d,
         Lost(d, m, k, l, bad, now, luck)
  PROVE  d \in Worlds(Checks(k)) /\ Proper(d) /\ Same(d) /\ Held(d, V)
<1>1. max \in 0 .. max /\ NoPeer \notin Peers /\ m.on \subseteq Peers /\ l \in Peers /\ m.unchoked \subseteq m.on
  BY LastIs, ChokingAssumption DEF Worlds, Proper
<1>2. ASSUME NEW n \in Worlds(Checks(k)), Proper(n), Same(n), NEW x \in Peers, HeldBut(n, V, x),
             d = Choke(n, {x}, bad, now)
      PROVE  d \in Worlds(Checks(k)) /\ Proper(d) /\ Same(d) /\ Held(d, V)
  <2> DEFINE told == {x} \cap n.unchoked
             e == Choke(n, {x}, bad, now)
  <2>1. /\ e \in Worlds(Checks(k)) /\ Proper(e)
        /\ e.check.slot = n.check.slot /\ e.check.rank = n.check.rank /\ e.check.opt = n.check.opt
        /\ e.check.chokedNow = n.check.chokedNow \cup told
        /\ \E gone \in SUBSET told : IsDropped(e, n, told, gone, now)
    BY <1>2, DropIs, Zenon
  <2> HIDE DEF e
  <2>2. PICK gone \in SUBSET told : IsDropped(e, n, told, gone, now)
    BY <2>1
  <2>3. n.on \subseteq Peers
    BY DEF Worlds
  <2>4. Same(e)
    BY <1>2, <2>2, <2>3, DropRest
  <2>5. Held(e, V)
    BY <1>2, <2>1, <2>2 DEF Held, HeldBut, InSlot, IsDropped
  <2> QED
    BY <1>2, <2>1, <2>4, <2>5 DEF e
<1>3. CASE d = Choke(m, {l}, bad, now)
  BY <1>1, <1>2, <1>3
<1> DEFINE n == Placed(m, max, l)
           o == m.check.slot[max]
<1>4. /\ n \in Worlds(Checks(k)) /\ SlotsOnly(n, m)
      /\ \A j \in 0 .. max : n.check.slot[j] = IF j = max THEN l ELSE m.check.slot[j]
  BY <1>1, PlacedOnly
<1> HIDE DEF n
<1>5. Proper(n) /\ Same(n) /\ InSlot(n, l)
  BY <1>1, <1>4 DEF Proper, Same, SlotsOnly, InSlot
<1>6. HeldBut(n, V, o)
  BY <1>4, <1>5 DEF HeldBut, InSlot, SlotsOnly
<1>7. CASE d = n /\ IsFree(m, max)
  <2>1. o \notin m.unchoked
    BY <1>1, <1>7 DEF IsFree
  <2> QED
    BY <1>4, <1>5, <1>6, <1>7, <2>1 DEF HeldBut, Held, SlotsOnly
<1>8. CASE d = Choke(n, {o}, bad, now) /\ ~ IsFree(m, max)
  <2>1. o \in Peers
    BY <1>1, <1>8 DEF IsFree
  <2> QED
    BY <1>2, <1>4, <1>5, <1>6, <1>8, <2>1
<1>9. k.opt => d = IF IsFree(m, max) THEN n
                   ELSE IF TakesOver(m, l, o, luck) THEN Choke(n, {o}, bad, now)
                   ELSE Choke(m, {l}, bad, now)
  BY Zenon DEF Lost, Optimistic, Placed, n
<1>10. ~ k.opt => d = Choke(m, {l}, bad, now)
  BY Zenon DEF Lost
<1> QED
  BY <1>3, <1>7, <1>8, <1>9, <1>10

LEMMA CheckHeld ==
  ASSUME Types, NEW k, k.opt \in BOOLEAN, NEW c \in Worlds(Checks(k)), Proper(c), Same(c), NEW V,
         Held(c, V), NEW p \in c.on, NEW bad, NEW now \in Nat, NEW luck \in BOOLEAN
  PROVE  LET d == UnchokeCheck(c, p, bad, now, luck)
         IN  d \in Worlds(Checks(k)) /\ Proper(d) /\ Same(d) /\ Held(d, V \cup {p})
<1> DEFINE d == UnchokeCheck(c, p, bad, now, luck)
<1>1. c.check.opt = k.opt /\ p \in Peers /\ c.on \subseteq Peers /\ c.unchoked \subseteq c.on /\ NoPeer \notin Peers
  BY ChokingAssumption DEF Worlds, Checks, Proper
<1>2. \A i \in Regular(c) : i \in 0 .. max
  BY <1>1, LastIs DEF Regular
<1>3. ASSUME NEW i \in 0 .. max
      PROVE  LET m == Placed(c, i, p)
             IN  /\ m \in Worlds(Checks(k)) /\ Proper(m) /\ Same(m) /\ m.on = c.on /\ m.unchoked = c.unchoked
                 /\ HeldBut(m, V \cup {p}, c.check.slot[i])
  <2> DEFINE m == Placed(c, i, p)
  <2>1. /\ m \in Worlds(Checks(k)) /\ SlotsOnly(m, c)
        /\ \A j \in 0 .. max : m.check.slot[j] = IF j = i THEN p ELSE c.check.slot[j]
    BY <1>1, PlacedOnly
  <2> HIDE DEF m
  <2>2. Proper(m) /\ Same(m) /\ InSlot(m, p)
    BY <2>1 DEF Proper, Same, SlotsOnly, InSlot
  <2>3. HeldBut(m, V \cup {p}, c.check.slot[i])
    BY <2>1, <2>2 DEF HeldBut, Held, InSlot, SlotsOnly
  <2> QED
    BY <2>1, <2>2, <2>3 DEF m, SlotsOnly
<1>4. ASSUME NEW i \in Regular(c), IsFree(c, i), d = Placed(c, i, p)
      PROVE  d \in Worlds(Checks(k)) /\ Proper(d) /\ Same(d) /\ Held(d, V \cup {p})
  <2>1. c.check.slot[i] \notin c.unchoked
    BY <1>1, <1>4 DEF IsFree
  <2>2. i \in 0 .. max
    BY <1>2
  <2>3. d \in Worlds(Checks(k)) /\ Proper(d) /\ Same(d) /\ d.unchoked = c.unchoked
        /\ HeldBut(d, V \cup {p}, c.check.slot[i])
    BY <1>3, <1>4, <2>2, Zenon
  <2> QED
    BY <2>1, <2>3 DEF HeldBut, Held
<1>5. ASSUME \A i \in Regular(c) : ~ IsFree(c, i), NEW w \in Regular(c), NEW m, NEW l,
             Exchange(d, c, k, p, w, m, l, bad, now, luck)
      PROVE  d \in Worlds(Checks(k)) /\ Proper(d) /\ Same(d) /\ Held(d, V \cup {p})
  <2>1. w \in 0 .. max /\ c.check.slot[w] \in c.on
    BY <1>2, <1>5 DEF IsFree
  <2>2. Exchanged(c, p, w, m, l) /\ Lost(d, m, k, l, bad, now, luck)
    BY <1>5, Zenon DEF Exchange
  <2>3. m \in Worlds(Checks(k)) /\ Proper(m) /\ Same(m) /\ l \in m.on /\ HeldBut(m, V \cup {p}, l)
    <3>1. CASE m = Placed(c, w, p) /\ l = c.check.slot[w]
      BY <1>3, <2>1, <3>1
    <3>2. CASE m = c /\ l = p
      BY <3>2 DEF Held, HeldBut
    <3> QED
      BY <2>2, <3>1, <3>2 DEF Exchanged
  <2> HIDE DEF d
  <2> QED
    BY <2>2, <2>3, LoserHeld
<1>6. IsChecked(d, c, k, p, bad, now, luck)
  BY UnchokeCheckIs
<1> HIDE DEF d
<1>7. d \in Worlds(Checks(k)) /\ Proper(d) /\ Same(d) /\ Held(d, V \cup {p})
  BY <1>4, <1>5, <1>6, Zenon DEF IsChecked
<1> QED
  BY <1>7 DEF d

-----------------------------------------------------------------------------
(* The loop.                                                               *)

\* What holds when the loop has come to V, in the check that has begun as k is.
State(c, k, V) ==
  /\ c \in Worlds(Checks(k)) /\ Proper(c) /\ Same(c) /\ Held(c, V)
  /\ k.pass = 1 => Filled(c, V) /\ Fair(c, V) /\ \A q \in Candidates(c) : k.rank[q] \in Int

\* One who wants nothing is choked.
LEMMA ChokedKeeps ==
  ASSUME Types, NEW k, NEW c, NEW V, State(c, k, V), NEW p \in Peers, p \notin V, p \notin Candidates(c),
         NEW bad, NEW now \in Nat
  PROVE  State(Choke(c, {p}, bad, now), k, V \cup {p})
<1> USE DEF State
<1> DEFINE d == Choke(c, {p}, bad, now)
           told == {p} \cap c.unchoked
<1>1. /\ c.check.rank = k.rank /\ c.on \subseteq Peers /\ c.check.chokedNow \subseteq Peers
      /\ c.unchoked \subseteq Peers
      /\ max \in 0 .. max /\ NoPeer \notin Peers
  BY LastIs, ChokingAssumption DEF Worlds, Checks
<1>2. /\ d \in Worlds(Checks(k)) /\ Proper(d)
      /\ d.check.slot = c.check.slot /\ d.check.rank = c.check.rank /\ d.check.opt = c.check.opt
      /\ d.check.chokedNow = c.check.chokedNow \cup told
      /\ \E gone \in SUBSET told : IsDropped(d, c, told, gone, now)
  BY DropIs, Zenon
<1> HIDE DEF d
<1>3. PICK gone \in SUBSET told : IsDropped(d, c, told, gone, now)
  BY <1>2
<1>4. Candidates(d) \subseteq Candidates(c) /\ Same(d)
  BY <1>1, <1>3, DropRest
<1>5. Held(d, V \cup {p})
  BY <1>2, <1>3 DEF Held, InSlot, IsDropped
<1>6. ASSUME k.pass = 1 PROVE Filled(d, V \cup {p}) /\ Fair(d, V \cup {p})
  <2>1. Filled(c, V) /\ Fair(c, V)
    BY <1>6
  <2>2. \A i \in 0 .. max : c.check.slot[i] # p
    BY <1>1, <2>1 DEF Filled, FilledBut
  <2>3. Filled(d, V)
    <3>1. ~ InSlot(c, p) /\ told \in SUBSET {p}
      BY <2>2 DEF InSlot
    <3> HIDE DEF told
    <3> QED
      BY <1>2, <1>3, <2>1, <3>1, DropFilled
  <2>4. Filled(d, V \cup {p})
    BY <1>4, <2>3 DEF Filled, FilledBut
  <2>5. Fair(d, V \cup {p})
    <3> DEFINE o == c.check.slot[max]
    <3> SUFFICES ASSUME d.check.opt, NoneEmpty(d), o # NoPeer,
                        NEW q \in (V \cup {p}) \cap Candidates(d), ~ InSlot(d, q), q \notin d.check.chokedNow
                 PROVE  q \notin d.unchoked /\ o \notin d.unchoked /\ d.stamp[o] <= d.stamp[q]
      BY <1>2 DEF Fair, FairBut
    <3>1. NoneEmpty(c)
      BY <1>1, <1>2, <1>3, DropNoneEmpty
    <3>2. q \in V \cap Candidates(c) /\ q # p /\ q \in Peers /\ ~ InSlot(c, q) /\ q \notin c.check.chokedNow
      BY <1>1, <1>2, <1>4 DEF InSlot, Candidates, Proper
    <3>3. o # p /\ o \in Peers
      BY <1>1, <2>1, <2>2 DEF Filled, FilledBut, Candidates, Proper
    <3>4. q \notin c.unchoked /\ o \notin c.unchoked /\ c.stamp[o] <= c.stamp[q]
      BY <1>1, <1>2, <2>1, <3>1, <3>2 DEF Fair, FairBut
    <3> QED
      BY <1>3, <3>2, <3>3, <3>4 DEF IsDropped
  <2> QED
    BY <2>4, <2>5
<1> QED
  BY <1>2, <1>4, <1>5, <1>6 DEF d

LEMMA VisitKeeps ==
  ASSUME Types, NEW k, k.opt \in BOOLEAN, NEW c, NEW V, State(c, k, V), NEW p \in Peers, p \notin V,
         NEW bad, NEW now \in Nat, NEW luck \in BOOLEAN
  PROVE  State(Visit(c, p, bad, now, luck), k, V \cup {p})
<1>1. CASE p \notin c.on
  <2>1. p \notin Candidates(c) /\ p \notin c.unchoked
    BY <1>1 DEF State, Proper, Candidates
  <2>2. State(c, k, V \cup {p})
    BY <2>1 DEF State, Held, Filled, FilledBut, Fair, FairBut
  <2> QED
    BY <1>1, <2>2 DEF Visit
<1>2. CASE p \in c.on /\ p \in Candidates(c)
  <2> DEFINE d == UnchokeCheck(c, p, bad, now, luck)
  <2>1. d \in Worlds(Checks(k)) /\ Proper(d) /\ Same(d) /\ Held(d, V \cup {p})
    BY <1>2, CheckHeld DEF State
  <2>2. ASSUME k.pass = 1
        PROVE  Candidates(d) \subseteq Candidates(c) /\ Filled(d, V \cup {p}) /\ Fair(d, V \cup {p})
    <3>1. c \in Worlds(Checks(k)) /\ Proper(c) /\ Same(c) /\ Filled(c, V) /\ Fair(c, V)
      BY <2>2 DEF State
    <3>2. \A q \in Candidates(c) : c.check.rank[q] \in Int
      BY <2>2 DEF State, Worlds, Checks
    <3>3. Sorted(UnchokeCheck(c, p, bad, now, luck), c, V \cup {p})
      BY <1>2, <3>1, <3>2, CheckFilled
    <3> QED
      BY <3>3 DEF Sorted
  <2> HIDE DEF d
  <2>3. State(d, k, V \cup {p})
    BY <2>1, <2>2 DEF State
  <2> QED
    BY <1>2, <2>3 DEF Visit, d
<1>3. CASE p \in c.on /\ p \notin Candidates(c)
  BY <1>3, ChokedKeeps DEF Visit
<1> QED
  BY <1>1, <1>2, <1>3

\* In an order, every peer comes once.
LEMMA OrderIs ==
  ASSUME Types, NEW order \in Orders(on)
  PROVE  /\ Len(order) \in Nat /\ DOMAIN order = 1 .. Len(order)
         /\ \A i \in 1 .. Len(order) : order[i] \in on
         /\ \A p \in on : \E i \in 1 .. Len(order) : order[i] = p
         /\ \A i, j \in 1 .. Len(order) : order[i] = order[j] => i = j
<1> DEFINE N == Cardinality(on)
<1>1. IsFiniteSet(on) /\ N \in Nat
  BY PeersFinite, FS_Subset, FS_CardinalityType DEF Types
<1>2. order \in [1 .. N -> on] /\ \A p \in on : \E i \in 1 .. N : order[i] = p
  BY DEF Orders
<1> HIDE DEF N
<1>3. Len(order) = N
  BY <1>1, <1>2
<1>4. order \in Surjection(1 .. N, on)
  BY <1>2 DEF Surjection
<1>5. IsFiniteSet(1 .. N) /\ Cardinality(1 .. N) = N
  BY <1>1, FS_Interval
<1>6. order \in Injection(1 .. N, on)
  BY <1>1, <1>4, <1>5, FS_SurjSameCardinalityImpliesInj DEF N
<1>7. DOMAIN order = 1 .. N /\ (\A i \in 1 .. N : order[i] \in on)
      /\ \A i, j \in 1 .. N : order[i] = order[j] => i = j
  BY <1>2, <1>6 DEF Injection, IsInjective
<1> QED
  BY <1>1, <1>2, <1>3, <1>7

LEMMA LoopKeeps ==
  ASSUME Types, NEW k, k.opt \in BOOLEAN, NEW c, State(c, k, {}), NEW order \in Orders(on),
         NEW bad, NEW now \in Nat, NEW luck \in BOOLEAN
  PROVE  State(Loop(c, order, bad, now, luck), k, on)
<1> DEFINE N == Len(order)
           V(n) == {order[i] : i \in 1 .. n}
           D == [n \in 0 .. N |-> {x \in Worlds(Checks(k)) : State(x, k, V(n))}]
           G == [n \in 1 .. N |-> [x \in Worlds(Checks(k)) |-> Visit(x, order[n], bad, now, luck)]]
           passed == CHOOSE f : f = [i \in 0 .. N |-> IF i = 0 THEN c ELSE Visit(f[i - 1], order[i], bad, now, luck)]
<1>1. Loop(c, order, bad, now, luck) = passed[N]
  BY Zenon DEF Loop
<1>2. /\ N \in Nat /\ \A i \in 1 .. N : order[i] \in on /\ order[i] \in Peers
      /\ \A p \in on : \E i \in 1 .. N : order[i] = p
      /\ \A i, j \in 1 .. N : order[i] = order[j] => i = j
  BY OrderIs DEF Types
<1> HIDE DEF N
<1>3. c \in D[0]
  <2>1. V(0) = {}
    OBVIOUS
  <2> HIDE DEF V
  <2> QED
    BY <1>2, <2>1 DEF State
<1>4. ASSUME NEW n \in 1 .. N, NEW x \in D[n - 1]
      PROVE  G[n][x] \in D[n] /\ G[n][x] = Visit(x, order[n], bad, now, luck)
  <2>1. n \in 0 .. N /\ n - 1 \in 0 .. N
    BY <1>2
  <2>2. V(n) = V(n - 1) \cup {order[n]} /\ order[n] \notin V(n - 1)
    <3>1. \A i \in 1 .. n : i = n \/ i \in 1 .. n - 1
      BY <1>2
    <3>2. \A i \in 1 .. n - 1 : i \in 1 .. n /\ i # n /\ i \in 1 .. N
      BY <1>2
    <3>3. n \in 1 .. n
      BY <1>2
    <3> QED
      BY <1>2, <3>1, <3>2, <3>3
  <2> HIDE DEF V
  <2>3. x \in Worlds(Checks(k)) /\ State(x, k, V(n - 1))
    BY <2>1
  <2>4. State(Visit(x, order[n], bad, now, luck), k, V(n - 1) \cup {order[n]})
    BY <1>2, <2>2, <2>3, VisitKeeps
  <2>5. State(Visit(x, order[n], bad, now, luck), k, V(n)) /\ Visit(x, order[n], bad, now, luck) \in Worlds(Checks(k))
    BY <2>2, <2>4 DEF State
  <2> QED
    BY <2>1, <2>3, <2>5
<1>5. PICK f : Recursion(f, c, G, N) /\ \A n \in 0 .. N : f[n] \in D[n]
  <2> HIDE DEF D, G
  <2> QED
    BY <1>2, <1>3, <1>4, LoopSound
<1> HIDE DEF D, G
<1>6. f = [i \in 0 .. N |-> IF i = 0 THEN c ELSE Visit(f[i - 1], order[i], bad, now, luck)]
  <2>1. ASSUME NEW i \in 0 .. N, i # 0
        PROVE  G[i][f[i - 1]] = Visit(f[i - 1], order[i], bad, now, luck)
    <3>1. i \in 1 .. N /\ i - 1 \in 0 .. N
      BY <1>2, <2>1
    <3> QED
      BY <1>4, <1>5, <3>1
  <2>2. f = [i \in 0 .. N |-> IF i = 0 THEN c ELSE G[i][f[i - 1]]]
    BY <1>5 DEF Recursion
  <2> QED
    BY <2>1, <2>2
<1>7. passed = [i \in 0 .. N |-> IF i = 0 THEN c ELSE Visit(passed[i - 1], order[i], bad, now, luck)]
  BY <1>6, Zenon
<1> HIDE DEF passed
<1>8. \A n \in 0 .. N : passed[n] \in D[n]
  <2>1. passed[0] \in D[0]
    BY <1>2, <1>3, <1>7
  <2>2. ASSUME NEW n \in 1 .. N, passed[n - 1] \in D[n - 1] PROVE passed[n] \in D[n]
    <3>1. n \in 0 .. N /\ n # 0
      BY <1>2
    <3>2. passed[n] = Visit(passed[n - 1], order[n], bad, now, luck)
      BY <1>7, <3>1
    <3> QED
      BY <1>4, <2>2, <3>2
  <2> QED
    BY <1>2, <2>1, <2>2, LoopWithin
<1>9. State(passed[N], k, V(N)) /\ V(N) = on
  <2>1. N \in 0 .. N
    BY <1>2
  <2>2. V(N) = on
    BY <1>2
  <2> HIDE DEF V
  <2> QED
    BY <1>8, <2>1, <2>2 DEF D
<1> QED
  BY <1>1, <1>9

-----------------------------------------------------------------------------
(* The slots' peers are unchoked.                                          *)

Seats == {check.slot[i] : i \in 0 .. max}

LEMMA PeerIs ==
  ASSUME Types
  PROVE  /\ Peer \in Worlds({check}) /\ Proper(Peer)
         /\ Peer.on = on /\ Peer.interested = interested /\ Peer.unchoked = unchoked
         /\ Peer.requested = requested /\ Peer.has = has /\ Peer.stamp = stamp /\ Peer.check = check
<1>1. stamp \in [Peers -> Nat] /\ has \in [Peers -> Haves]
  BY PeersFinite DEF Types, Haves
<1>2. /\ on \in SUBSET Peers /\ interested \in SUBSET Peers /\ unchoked \in SUBSET Peers /\ requested \in SUBSET Peers
  BY DEF Types
<1> QED
  BY <1>1, <1>2 DEF Types, Worlds, Proper, Peer

\* There are at most m_max_unchoke and one of them.
LEMMA SeatsBound ==
  ASSUME NEW n \in Nat, NEW slot, NEW S, S \subseteq {slot[i] : i \in 0 .. n}
  PROVE  Cardinality(S) <= n + 1
<1>1. IsFiniteSet(0 .. n) /\ Cardinality(0 .. n) = n + 1
  BY FS_Interval
<1> DEFINE T == {slot[i] : i \in 0 .. n}
           f == [i \in 0 .. n |-> slot[i]]
<1>2. f \in Surjection(0 .. n, T)
  BY DEF Surjection
<1> HIDE DEF f, T
<1>3. IsFiniteSet(T) /\ Cardinality(T) <= n + 1 /\ Cardinality(T) \in Nat
  BY <1>1, <1>2, FS_Surjection, FS_CardinalityType
<1>4. S \in SUBSET T
  BY DEF T
<1>5. Cardinality(S) <= Cardinality(T) /\ Cardinality(S) \in Nat
  BY <1>3, <1>4, FS_Subset, FS_CardinalityType
<1> QED
  BY <1>3, <1>5

LEMMA UsedIs ==
  ASSUME Types
  PROVE  Used \in Nat /\ Used <= max + 1
<1>1. max \in Nat
  BY LastIs
<1> DEFINE S == {i \in 0 .. max : \A j \in 0 .. i : check.slot[j] # NoPeer}
<1>2. IsFiniteSet(0 .. max) /\ Cardinality(0 .. max) = max + 1
  BY <1>1, FS_Interval
<1>3. S \in SUBSET (0 .. max)
  OBVIOUS
<1> HIDE DEF S
<1>4. Cardinality(S) \in Nat /\ Cardinality(S) <= max + 1
  BY <1>2, <1>3, FS_Subset, FS_CardinalityType
<1> QED
  BY <1>4 DEF Used, S

LEMMA UnchokesAre ==
  ASSUME Types, Peers # {}, NEW N \in Nat, N <= max + 1, NEW bad
  PROVE  LET d == Unchokes(N, bad)
         IN  d \in Worlds({check}) /\ Proper(d) /\ d.unchoked \subseteq unchoked \cup Seats
<1> DEFINE W == {c \in Worlds({check}) : Proper(c) /\ c.unchoked \subseteq unchoked \cup Seats}
           give(c, i) == IF IsFree(c, i) THEN c ELSE Unchoke(c, c.check.slot[i], bad, Now)
           D == [n \in 0 .. N |-> W]
           G == [n \in 1 .. N |-> [c \in W |-> give(c, n - 1)]]
           given == CHOOSE f : f = [i \in 0 .. N |-> IF i = 0 THEN Peer ELSE give(f[i - 1], i - 1)]
<1>1. Unchokes(N, bad) = given[N]
  BY Zenon DEF Unchokes
<1>2. Peer \in W
  BY PeerIs
<1>3. ASSUME NEW n \in 1 .. N, NEW c \in W PROVE give(c, n - 1) \in W
  <2>1. c \in Worlds({check}) /\ Proper(c) /\ c.unchoked \subseteq unchoked \cup Seats /\ c.check = check
    BY DEF Worlds
  <2>2. CASE IsFree(c, n - 1)
    BY <2>2
  <2>3. CASE ~ IsFree(c, n - 1)
    <3> DEFINE p == check.slot[n - 1]
               d == Unchoke(c, p, bad, Now)
    <3>1. p \in c.on
      BY <2>1, <2>3 DEF IsFree
    <3>2. p \in Seats
      <4>0. max \in Nat
        BY LastIs
      <4>1. n - 1 \in 0 .. max
        BY <4>0
      <4> QED
        BY <4>1 DEF Seats
    <3> HIDE DEF p
    <3>3. /\ d \in Worlds({check}) /\ Proper(d) /\ d.unchoked \subseteq c.unchoked \cup {p}
      BY <2>1, <3>1, NowIs, UnchokeIs
    <3>4. d \in W
      <4> HIDE DEF d
      <4> QED
        BY <2>1, <3>2, <3>3
    <3> QED
      BY <2>1, <2>3, <3>4 DEF p
  <2> QED
    BY <2>2, <2>3
<1> HIDE DEF W, give
<1>4. PICK f : Recursion(f, Peer, G, N) /\ \A n \in 0 .. N : f[n] \in D[n]
  <2>1. Peer \in D[0] /\ \A n \in 1 .. N : \A c \in D[n - 1] : G[n][c] \in D[n]
    BY <1>2, <1>3
  <2> HIDE DEF D, G
  <2> QED
    BY <2>1, LoopSound
<1>5. f = [i \in 0 .. N |-> IF i = 0 THEN Peer ELSE give(f[i - 1], i - 1)]
  <2>1. ASSUME NEW i \in 0 .. N, i # 0
        PROVE  G[i][f[i - 1]] = give(f[i - 1], i - 1)
    <3>1. i \in 1 .. N /\ i - 1 \in 0 .. N
      BY <2>1
    <3> QED
      BY <1>4, <3>1
  <2>2. f = [i \in 0 .. N |-> IF i = 0 THEN Peer ELSE G[i][f[i - 1]]]
    BY <1>4 DEF Recursion
  <2> HIDE DEF G
  <2> QED
    BY <2>1, <2>2
<1>6. given = [i \in 0 .. N |-> IF i = 0 THEN Peer ELSE give(given[i - 1], i - 1)]
  BY <1>5, Zenon
<1> HIDE DEF given
<1>7. \A n \in 0 .. N : given[n] \in D[n]
  <2>1. given[0] \in D[0]
    BY <1>2, <1>6
  <2>2. ASSUME NEW n \in 1 .. N, given[n - 1] \in D[n - 1] PROVE given[n] \in D[n]
    <3>1. n \in 0 .. N /\ n # 0 /\ n - 1 \in 0 .. N
      OBVIOUS
    <3>2. given[n] = give(given[n - 1], n - 1)
      BY <1>6, <3>1
    <3> QED
      BY <1>3, <2>2, <3>1, <3>2
  <2> HIDE DEF D
  <2> QED
    BY <2>1, <2>2, LoopWithin
<1>8. given[N] \in W
  BY <1>7
<1> QED
  BY <1>1, <1>8 DEF W

-----------------------------------------------------------------------------
(* The inductive invariant.                                                *)

\* A check begins only while there are peers and no pause; no slot leads out of its array.
Running ==
  /\ check.begun \in BOOLEAN /\ check.pass \in 0 .. MaxPasses /\ check.opt \in BOOLEAN
  /\ ~ check.begun => check = Idle
  /\ check.begun => check \in Checks(check) /\ ~ paused /\ Peers # {}

\* FillFDSet has emptied the slots before its first pass.
Fresh == check.begun /\ check.pass = 0 => \A i \in 0 .. max : check.slot[i] = NoPeer

\* After a pass those still unchoked have a slot; during a pause nobody is.
Seated == check.pass > 0 => unchoked \subseteq Seats
Silent == paused => unchoked = {}

CInv == Types /\ Running /\ Fresh /\ Seated /\ Silent /\ BestServed /\ OptimisticFair

\* What a handler has made of the peers, when their timestamps are ranked again
LEMMA Became ==
  ASSUME Types, NEW K, NEW c \in Worlds(K), Proper(c), Becomes(c), UNCHANGED <<max, mode, paused>>
  PROVE  Types'
<1>1. stamp' \in [Peers -> 0 .. Cardinality(Peers)]
  BY RankedType DEF Worlds, Becomes
<1>2. /\ c.on \subseteq Peers /\ c.interested \subseteq c.on /\ c.unchoked \subseteq c.on
      /\ c.requested \subseteq c.unchoked /\ c.has \in [Peers -> {"none", "some", "all"}]
  BY DEF Worlds, Proper, Haves
<1> QED
  BY <1>1, <1>2 DEF Types, Becomes

\* Between the checks only the peers change.
LEMMA BetweenChecks ==
  ASSUME CInv, ~ check.begun, UNCHANGED <<max, check>>, Types', Silent'
  PROVE  CInv'
<1>1. check = Idle /\ check' = Idle
  BY DEF CInv, Running
<1>2. Idle.begun = FALSE /\ Idle.pass = 0 /\ Idle.opt = FALSE
  BY DEF Idle
<1>3. Running'
  BY <1>1, <1>2 DEF CInv, Running
<1>4. Fresh' /\ Seated' /\ BestServed' /\ OptimisticFair'
  BY <1>1, <1>2 DEF Fresh, Seated, BestServed, OptimisticFair
<1> QED
  BY <1>3, <1>4 DEF CInv

LEMMA InitInv == Init => CInv
<1> SUFFICES ASSUME Init PROVE CInv
  OBVIOUS
<1>1. Idle.begun = FALSE /\ Idle.pass = 0 /\ Idle.opt = FALSE
  BY DEF Idle
<1>2. Types
  <2>1. /\ MinUnchokes \in MinUnchokes .. Cardinality(Peers) + MinUnchokes
        /\ 0 \in 0 .. Cardinality(Peers)
    BY PeersFinite, ChokingAssumption
  <2> QED
    BY <2>1 DEF Init, Types
<1>3. Running
  <2>1. check = Idle /\ 0 \in 0 .. MaxPasses
    BY ChokingAssumption DEF Init
  <2> QED
    BY <1>1, <2>1 DEF Running
<1>4. Fresh /\ Seated /\ Silent /\ BestServed /\ OptimisticFair
  BY <1>1 DEF Init, Fresh, Seated, Silent, BestServed, OptimisticFair
<1> QED
  BY <1>2, <1>3, <1>4 DEF CInv

LEMMA BeginKeeps ==
  ASSUME CInv, Begin
  PROVE  CInv'
<1> USE DEF CInv
<1> DEFINE asked(due, m) ==
             /\ max' = m
             /\ check' = [Idle EXCEPT !.begun = TRUE, !.slot = [i \in 0 .. m |-> NoPeer], !.opt = due /\ ~ Seeding]
<1>0. PICK due \in BOOLEAN : \E m \in NewMax(due) : asked(due, m)
  BY DEF Begin
<1>1. PICK m \in NewMax(due) : asked(due, m)
  BY <1>0
<1>2. m \in MinUnchokes .. Cardinality(Peers) + MinUnchokes
  <2>1. IsFiniteSet(unchoked) /\ Cardinality(unchoked) \in Nat /\ Cardinality(unchoked) <= Cardinality(Peers)
    BY PeersFinite, FS_Subset, FS_CardinalityType DEF Types
  <2>2. max \in Nat /\ MinUnchokes \in Nat \ {0} /\ max \in MinUnchokes .. Cardinality(Peers) + MinUnchokes
    BY LastIs, ChokingAssumption DEF Types
  <2>3. GetUnchoked \in Nat /\ GetUnchoked <= Cardinality(Peers)
    BY <2>1, <2>2, PeersFinite DEF GetUnchoked
  <2> DEFINE raised == {max, IF GetUnchoked < MinUnchokes THEN MinUnchokes ELSE GetUnchoked}
  <2>4. \A n \in raised : n \in MinUnchokes .. Cardinality(Peers) + MinUnchokes
    BY <2>2, <2>3, PeersFinite
  <2>5. m = MinUnchokes \/ m \in raised \/ \E n \in raised : m \in Lowered(n)
    BY Zenon DEF NewMax
  <2> HIDE DEF raised
  <2>6. \A n \in raised : Lowered(n) \subseteq MinUnchokes .. Cardinality(Peers) + MinUnchokes
    BY <2>2, <2>4, PeersFinite DEF Lowered
  <2> QED
    BY <2>2, <2>4, <2>5, <2>6, PeersFinite
<1>3. /\ check'.begun = TRUE /\ check'.pass = 0 /\ check'.opt \in BOOLEAN /\ check'.chokedNow = {}
      /\ check'.slot = [i \in 0 .. m |-> NoPeer] /\ check'.rank = << >>
      /\ check' = [begun |-> TRUE, pass |-> 0, slot |-> [i \in 0 .. m |-> NoPeer], rank |-> << >>,
                   opt |-> due /\ ~ Seeding, chokedNow |-> {}]
  BY <1>1 DEF Idle
<1>4. Types'
  BY <1>1, <1>2 DEF Types, Begin
<1>5. Running'
  <2>1. ~ paused' /\ Peers # {}
    BY DEF Begin, Types
  <2>2. check'.slot \in Slots'
    BY <1>1, <1>3 DEF Slots
  <2>3. check' \in Checks(check)'
    BY <1>3, <2>2 DEF Checks
  <2> QED
    BY <1>3, <2>1, <2>3, ChokingAssumption DEF Running
<1>6. Fresh'
  BY <1>1, <1>3 DEF Fresh
<1>7. Seated' /\ BestServed' /\ OptimisticFair'
  BY <1>3, OrderOfStats DEF Seated, BestServed, OptimisticFair, SelectIsOrder
<1>8. Silent'
  BY DEF Silent, Begin
<1> QED
  BY <1>4, <1>5, <1>6, <1>7, <1>8

\* A pass, from slots that hold nobody or, when it is not the first, whoever had one before
LEMMA LoopedKeeps ==
  ASSUME CInv, check.begun, NEW rank, check.pass + 1 \in 1 .. MaxPasses,
         check.pass = 0 => \A q \in Candidates(Peer) : rank[q] \in Int,
         NEW order \in Orders(on), NEW bad, NEW luck \in BOOLEAN,
         LET c == Looped(rank, order, bad, luck) IN Becomes(c) /\ check' = c.check,
         UNCHANGED <<max, mode, paused>>
  PROVE  CInv' /\ check'.pass > 0
<1> USE DEF CInv
<1> DEFINE k == [check EXCEPT !.rank = rank, !.pass = @ + 1]
           p == [Peer EXCEPT !.check = k]
           c == Looped(rank, order, bad, luck)
<1>1. c = Loop(p, order, bad, Now, luck)
  <2>1. [Peer EXCEPT !.check.rank = rank, !.check.pass = @ + 1] = p
    BY PeerIs
  <2> QED
    BY <2>1, Zenon DEF Looped
<1>2. check \in Checks(check) /\ Peers # {} /\ ~ paused /\ check.opt \in BOOLEAN /\ check.pass \in Nat
  BY DEF Running
<1>3. /\ k \in Checks(k) /\ k.slot = check.slot /\ k.rank = rank /\ k.opt = check.opt
      /\ k.pass = check.pass + 1 /\ k.begun = check.begun
  BY <1>2 DEF Checks
<1> HIDE DEF k
<1>4. /\ p \in Worlds(Checks(k)) /\ Proper(p) /\ p.check = k
      /\ p.on = on /\ p.has = has /\ p.interested = interested
  BY <1>3, PeerIs DEF Worlds, Proper
<1> HIDE DEF p
<1>5. Candidates(p) = Candidates(Peer)
  BY <1>4, PeerIs DEF Candidates
<1>6. State(p, k, {})
  <2>1. Same(p) /\ Held(p, {})
    BY <1>4 DEF Same, Held
  <2>2. ASSUME k.pass = 1 PROVE Filled(p, {}) /\ Fair(p, {}) /\ \A q \in Candidates(p) : k.rank[q] \in Int
    <3>1. check.pass = 0
      BY <1>2, <1>3, <2>2
    <3>2. \A i \in 0 .. max : p.check.slot[i] = NoPeer
      BY <1>3, <1>4, <3>1 DEF Fresh
    <3> QED
      BY <1>3, <1>5, <3>1, <3>2 DEF Filled, FilledBut, Fair, FairBut
  <2> QED
    BY <1>4, <2>1, <2>2 DEF State
<1>7. State(c, k, on)
  BY <1>1, <1>2, <1>3, <1>6, NowIs, LoopKeeps
<1> HIDE DEF c
<1>8. /\ on' = c.on /\ interested' = c.interested /\ unchoked' = c.unchoked
      /\ requested' = c.requested /\ has' = c.has /\ stamp' = Ranked(c.stamp)
      /\ check' = c.check /\ max' = max
  BY DEF Becomes, c
<1>9. c \in Worlds(Checks(k)) /\ Proper(c) /\ Same(c) /\ Held(c, on) /\ c.check \in Checks(k)
  BY <1>7 DEF State, Worlds
<1>10. /\ c.check.begun = TRUE /\ c.check.pass = check.pass + 1 /\ c.check.opt = check.opt
       /\ c.check.rank = rank /\ c.check.slot \in Slots /\ c.check.chokedNow \subseteq Peers
       /\ c.check \in Checks(c.check)
  BY <1>2, <1>3, <1>9 DEF Running, Checks
<1>11. Types'
  BY <1>9, Became DEF c
<1>12. Running'
  <2>1. check' \in Checks(check)'
    BY <1>8, <1>10 DEF Checks, Slots
  <2>2. check'.pass \in 0 .. MaxPasses /\ check'.begun = TRUE /\ check'.opt \in BOOLEAN
    BY <1>2, <1>8, <1>10, ChokingAssumption
  <2>3. ~ paused'
    BY <1>2
  <2> QED
    BY <1>2, <2>1, <2>2, <2>3 DEF Running
<1>13. Fresh' /\ Silent'
  BY <1>2, <1>8, <1>10 DEF Fresh, Silent
<1>14. Seated'
  <2>1. unchoked' \subseteq on /\ \A q \in unchoked' : InSlot(c, q)
    BY <1>8, <1>9 DEF Proper, Same, Held
  <2> QED
    BY <1>8, <2>1 DEF Seated, Seats, InSlot
<1>15. ASSUME check'.pass = 1
       PROVE  Filled(c, on) /\ Fair(c, on)
  BY <1>3, <1>7, <1>8, <1>10, <1>15 DEF State
<1>16. Candidates(Peer)' = Candidates(c) /\ Candidates(c) \subseteq c.on /\ c.on \subseteq on /\ on \subseteq Peers
  BY <1>8, <1>9 DEF Candidates, NeedLocalData, Peer, Same, Proper, Types
<1>17. \A i \in 0 .. max : IsFree(Peer, i)' <=> (c.check.slot[i] = NoPeer \/ c.check.slot[i] \notin c.on)
  BY <1>8 DEF IsFree, Peer
<1>18. \A i \in 0 .. max : check'.pass = 1 /\ c.check.slot[i] # NoPeer =>
        ~ IsFree(Peer, i)' /\ c.check.slot[i] \in Candidates(c)
  BY <1>15, <1>16, <1>17 DEF Filled, FilledBut
<1>19. LastRegular(check.opt)' = LastRegular(c.check.opt) /\ \A i \in 0 .. LastRegular(c.check.opt) : i \in 0 .. max
  BY <1>2, <1>8, <1>10, LastIs DEF LastRegular
<1>20. \A q \in on', slots \in SUBSET (0 .. max) : q \in InSlots(slots)' <=> \E i \in slots : c.check.slot[i] = q
  BY <1>8 DEF InSlots
<1>21. BestServed'
  <2>1. SelectIsOrder'
    BY OrderOfStats DEF SelectIsOrder
  <2>2. ASSUME check'.pass = 1, NEW q \in Losers'
        PROVE  q \in on \cap Candidates(c) /\ ~ InSlot(c, q) /\ q \in Peers /\ q # NoPeer
    <3>1. q \in Candidates(c) /\ q \notin InSlots(0 .. max)'
      BY <1>8, <1>16, <2>2 DEF Losers
    <3>2. q \in on' /\ q \in on /\ q \in Peers /\ q # NoPeer
      BY <1>8, <1>16, <3>1, ChokingAssumption
    <3> QED
      BY <1>20, <3>1, <3>2 DEF InSlot
  <2>3. ASSUME check'.pass = 1, NEW q \in Losers', NEW i \in 0 .. max
        PROVE  ~ IsFree(Peer, i)'
    <3>1. c.check.slot[i] # NoPeer
      BY <1>15, <2>2, <2>3 DEF Filled, FilledBut
    <3> QED
      BY <1>18, <2>3, <3>1
  <2>4. PICK last : last = LastRegular(c.check.opt)
    OBVIOUS
  <2>5. last = LastRegular(check.opt)' /\ last \in 0 .. max /\ Regular(c) = 0 .. last
    BY <1>2, <1>8, <1>10, <1>19, <2>4, LastIs DEF Regular
  <2>6. ASSUME check'.pass = 1, NEW q \in Candidates(Peer)', NEW i \in 0 .. last, q \notin InSlots(0 .. last)'
        PROVE  c.check.rank[q] <= c.check.rank[c.check.slot[i]]
    <3>1. q \in on' /\ q \in on \cap Candidates(c)
      BY <1>8, <1>16
    <3>2. \A j \in Regular(c) : c.check.slot[j] # q
      <4>1. (0 .. last) \in SUBSET (0 .. max)
        BY <1>19, <2>4
      <4> QED
        BY <1>20, <2>5, <2>6, <3>1, <4>1
    <3> QED
      BY <1>15, <2>5, <2>6, <3>1, <3>2 DEF Filled, FilledBut
  <2>7. check'.pass = 1 =>
          /\ Losers' # {} => \A i \in 0 .. max : ~ IsFree(Peer, i)'
          /\ \A q \in Candidates(Peer)' \ InSlots(0 .. last)', i \in 0 .. last :
               c.check.rank[q] <= c.check.rank[c.check.slot[i]]
    BY <2>3, <2>6
  <2>8. check' = c.check /\ max' = max
    BY <1>8
  <2>9. check'.pass = 1 =>
          /\ Losers' # {} => \A i \in 0 .. max' : ~ IsFree(Peer, i)'
          /\ \A q \in Candidates(Peer)' \ InSlots(0 .. LastRegular(check.opt))', i \in 0 .. LastRegular(check.opt)' :
               check'.rank[q] <= check'.rank[check'.slot[i]]
    BY <2>5, <2>7, <2>8
  <2> QED
    BY <2>1, <2>9 DEF BestServed
<1>22. OptimisticFair'
  <2> DEFINE o == c.check.slot[max]
  <2> SUFFICES ASSUME check'.pass = 1, check'.opt, ~ IsFree(Peer, max)',
                      \A x \in (on \cup check.chokedNow)' : ~ Empty(x)',
                      NEW q \in Losers', q \notin check'.chokedNow
               PROVE  o \notin unchoked' /\ stamp'[o] <= stamp'[q]
    BY <1>8 DEF OptimisticFair
  <2>1. max \in 0 .. max
    BY LastIs
  <2>2. NoneEmpty(c)
    BY <1>8 DEF NoneEmpty, Empty
  <2>3. o # NoPeer /\ o \in Candidates(c)
    BY <1>17, <1>18, <2>1
  <2>4. q \in on \cap Candidates(c) /\ ~ InSlot(c, q) /\ q \in Peers /\ q # NoPeer
    <3>1. q \in Candidates(c) /\ q \notin InSlots(0 .. max)'
      BY <1>8, <1>16 DEF Losers
    <3>2. q \in on' /\ q \in on /\ q \in Peers /\ q # NoPeer
      BY <1>8, <1>16, <3>1, ChokingAssumption
    <3> QED
      BY <1>20, <3>1, <3>2 DEF InSlot
  <2>5. o \notin c.unchoked /\ c.stamp[o] <= c.stamp[q]
    BY <1>8, <1>15, <2>2, <2>3, <2>4 DEF Fair, FairBut
  <2>6. Ranked(c.stamp)[o] <= Ranked(c.stamp)[q]
    BY <1>9, <1>16, <2>3, <2>4, <2>5, RankedOrder DEF Worlds
  <2> QED
    BY <1>8, <2>5, <2>6
<1>23. check'.pass > 0
  BY <1>2, <1>8, <1>10
<1> QED
  BY <1>11, <1>12, <1>13, <1>14, <1>21, <1>22, <1>23

LEMMA PassKeeps ==
  ASSUME CInv, Pass
  PROVE  CInv' /\ check'.pass > 0
<1> DEFINE looped(rank, order, bad, luck) ==
             LET c == Looped(rank, order, bad, luck) IN Becomes(c) /\ check' = c.check
<1>1. PICK rank \in Rankings(Candidates(Peer)), order \in Orders(on), bad \in AtMostOne(unchoked),
           luck \in Lucks(Candidates(Peer)) : looped(rank, order, bad, luck)
  BY Zenon DEF Pass
<1>2. luck \in BOOLEAN
  BY DEF Lucks
<1>3. \A q \in Candidates(Peer) : rank[q] \in Int
  BY DEF Rankings
<1>4. 0 + 1 \in 1 .. MaxPasses
  BY ChokingAssumption
<1>5. check.begun /\ check.pass = 0 /\ UNCHANGED <<max, mode, paused>>
  BY DEF Pass
<1> QED
  BY <1>1, <1>2, <1>3, <1>4, <1>5, LoopedKeeps

LEMMA AgainKeeps ==
  ASSUME CInv, Again
  PROVE  CInv' /\ check'.pass > 0
<1> DEFINE looped(order, luck) ==
             LET c == Looped(check.rank, order, {}, luck) IN Becomes(c) /\ check' = c.check
<1>1. PICK order \in Orders(on), luck \in Lucks(Candidates(Peer)) : looped(order, luck)
  BY Zenon DEF Again
<1>2. luck \in BOOLEAN
  BY DEF Lucks
<1>3. check.pass + 1 \in 1 .. MaxPasses /\ check.pass # 0
  BY ChokingAssumption DEF Again
<1>4. check.begun
  BY <1>3 DEF CInv, Running, Idle
<1>5. UNCHANGED <<max, mode, paused>>
  BY DEF Again
<1> QED
  BY <1>1, <1>2, <1>3, <1>4, <1>5, LoopedKeeps

LEMMA UnchokingKeeps ==
  ASSUME CInv, Unchoking
  PROVE  CInv' /\ unchoked' \subseteq Seats
<1> USE DEF CInv
<1>1. PICK bad \in AtMostOne(Given(check.slot) \ unchoked) : Becomes(Unchokes(Used, bad))
  BY DEF Unchoking
<1> DEFINE d == Unchokes(Used, bad)
<1>2. check.pass > 0 /\ check' = Idle /\ UNCHANGED <<max, mode, paused>>
  BY DEF Unchoking
<1>3. check.begun /\ ~ paused /\ Peers # {}
  BY <1>2 DEF Running, Idle
<1>4. d \in Worlds({check}) /\ Proper(d) /\ d.unchoked \subseteq unchoked \cup Seats
  BY <1>3, UsedIs, UnchokesAre
<1>5. Types'
  BY <1>1, <1>2, <1>4, Became
<1>6. unchoked' \subseteq Seats
  BY <1>1, <1>2, <1>4 DEF Seated, Becomes
<1>7. Idle.begun = FALSE /\ Idle.pass = 0 /\ Idle.opt = FALSE
  BY DEF Idle
<1>8. 0 \in 0 .. MaxPasses
  BY ChokingAssumption
<1>9. Running' /\ Fresh' /\ Seated' /\ Silent'
  <2>1. check' = Idle /\ paused' = paused
    BY <1>2
  <2>2. Running'
    BY <1>7, <1>8, <2>1 DEF Running
  <2>3. Fresh' /\ Seated' /\ Silent'
    BY <1>3, <1>7, <2>1 DEF Fresh, Seated, Silent
  <2> QED
    BY <2>2, <2>3
<1>10. BestServed' /\ OptimisticFair'
  BY <1>2, <1>7 DEF BestServed, OptimisticFair
<1> QED
  BY <1>5, <1>6, <1>9, <1>10

\* What happens to one peer between the checks, or to several without the record
LEMMA BecameKeeps ==
  ASSUME CInv, ~ check.begun, UNCHANGED <<max, mode, paused, check>>,
         NEW K, NEW c \in Worlds(K), Proper(c), c.unchoked \subseteq unchoked, Becomes(c)
  PROVE  CInv' /\ unchoked' \subseteq unchoked
<1>1. Types'
  BY Became DEF CInv
<1>2. unchoked' \subseteq unchoked
  BY DEF Becomes
<1>3. Silent'
  BY <1>2 DEF CInv, Silent
<1> QED
  BY <1>1, <1>2, <1>3, BetweenChecks

LEMMA ClosedKeeps ==
  ASSUME CInv, ~ check.begun, UNCHANGED <<max, mode, paused, check>>, NEW S, Becomes(Closed(Peer, S))
  PROVE  CInv' /\ unchoked' \subseteq unchoked
<1> DEFINE d == Closed(Peer, S)
<1>1. Peer \in Worlds({check}) /\ Proper(Peer) /\ Peer.unchoked = unchoked
  BY PeerIs DEF CInv
<1>2. d \in Worlds({check}) /\ IsClosed(d, Peer, S)
  BY <1>1, ClosedIs
<1>3. Becomes(d)
  OBVIOUS
<1> HIDE DEF d
<1>4. Proper(d) /\ d.unchoked \subseteq unchoked
  BY <1>1, <1>2 DEF IsClosed, Proper
<1> QED
  BY <1>2, <1>3, <1>4, BecameKeeps

LEMMA HaveKeeps ==
  ASSUME CInv, ~ check.begun, NEW p \in Peers, NEW pieces \in {"some", "all"}, Have(p, pieces)
  PROVE  CInv' /\ unchoked' \subseteq unchoked
<1>1. UNCHANGED <<max, mode, paused, check>>
  BY DEF Have
<1>2. CASE mode = "full" /\ pieces = "all"
  BY <1>1, <1>2, ClosedKeeps DEF Have
<1>3. CASE ~ (mode = "full" /\ pieces = "all")
  <2> DEFINE h == [has EXCEPT ![p] = pieces]
             d == [Peer EXCEPT !.has = h]
  <2>1. /\ Peer \in Worlds({check}) /\ Proper(Peer) /\ Peer.has = has /\ Peer.unchoked = unchoked
    BY PeerIs DEF CInv
  <2>2. h \in [Peers -> Haves]
    BY DEF CInv, Types, Haves
  <2>3. Becomes(d)
    <3>1. [Peer EXCEPT !.has[p] = pieces] = d
      BY <2>1
    <3> QED
      BY <1>3, <3>1 DEF Have
  <2> HIDE DEF h
  <2>4. d \in Worlds({check}) /\ d.unchoked = unchoked /\ Proper(d)
    BY <2>1, <2>2 DEF Worlds, Proper
  <2> HIDE DEF d
  <2> QED
    BY <1>1, <2>3, <2>4, BecameKeeps
<1> QED
  BY <1>2, <1>3

LEMMA ConnectKeeps ==
  ASSUME CInv, ~ check.begun, NEW p \in Peers, Connect(p)
  PROVE  CInv' /\ unchoked' = unchoked
<1>1. PICK old \in {0, stamp[p]} :
        stamp' = Ranked([stamp EXCEPT ![p] = IF old = 0 /\ Seeding THEN Now ELSE old])
  BY DEF Connect
<1>2. Now \in Nat /\ stamp \in [Peers -> Nat] /\ old \in Nat
  <2>1. Now \in Nat
    BY NowIs DEF CInv
  <2> QED
    BY <2>1, PeersFinite DEF CInv, Types
<1>3. [stamp EXCEPT ![p] = IF old = 0 /\ Seeding THEN Now ELSE old] \in [Peers -> Nat]
  BY <1>2
<1>4. stamp' \in [Peers -> 0 .. Cardinality(Peers)]
  BY <1>1, <1>3, RankedType
<1>5. Types'
  BY <1>4 DEF CInv, Types, Connect
<1>6. Silent'
  BY DEF CInv, Silent, Connect
<1> QED
  BY <1>5, <1>6, BetweenChecks DEF Connect

\* UnchokeIfFree leaves room for those that are unchoked already.
LEMMA InterestedKeeps ==
  ASSUME CInv, ~ check.begun, NEW p \in Peers, Interested(p)
  PROVE  /\ CInv'
         /\ unchoked' \ unchoked # {} => Cardinality(unchoked' \cap interested') <= max' + 1
<1> USE DEF CInv
<1>1. p \in on \ interested /\ UNCHANGED <<max, mode, paused, check>>
  BY DEF Interested
<1> DEFINE c == [Peer EXCEPT !.interested = interested \cup {p}]
<1>2. PICK bad \in {{}, {p}} : Becomes(IF NeedLocalData(p) THEN UnchokeIfFree(c, p, bad, Now) ELSE c)
  <2>1. [Peer EXCEPT !.interested = @ \cup {p}] = c
    BY PeerIs
  <2> QED
    BY <2>1, Zenon DEF Interested
<1>3. /\ c \in Worlds({check}) /\ Proper(c) /\ c.on = on /\ c.unchoked = unchoked
      /\ c.interested = interested \cup {p}
  BY <1>1, PeerIs DEF Worlds, Proper
<1> HIDE DEF c
<1>4. CASE Becomes(c)
  BY <1>1, <1>3, <1>4, BecameKeeps
<1>5. CASE NeedLocalData(p) /\ ~ paused /\ HasSlot(c) /\ Becomes(Unchoke(c, p, bad, Now))
  <2> DEFINE d == Unchoke(c, p, bad, Now)
  <2>1. Now \in Nat
    BY NowIs
  <2>2. /\ d \in Worlds({check}) /\ Proper(d) /\ d.unchoked \subseteq unchoked \cup {p}
        /\ d.interested \subseteq interested \cup {p}
    <3>1. p \in c.on
      BY <1>1, <1>3
    <3>2. /\ d \in Worlds({check}) /\ Proper(d) /\ d.unchoked \subseteq c.unchoked \cup {p}
          /\ d.interested \subseteq c.interested
      BY <1>3, <2>1, <3>1, UnchokeIs
    <3> HIDE DEF d
    <3> QED
      BY <1>3, <3>2
  <2>3. Types' /\ Silent'
    BY <1>1, <1>5, <2>2, Became DEF Silent
  <2>4. CInv'
    BY <1>1, <2>3, BetweenChecks
  <2> HIDE DEF CInv
  <2>5. unchoked' = d.unchoked /\ interested' = d.interested /\ max' = max
    BY <1>1, <1>5 DEF Becomes
  <2> HIDE DEF d
  <2>6. Cardinality(unchoked' \cap interested') <= max + 1
    <3> DEFINE S == unchoked \cap (interested \cup {p})
               T == unchoked' \cap interested'
    <3>1. S \subseteq Peers /\ Cardinality(S) <= max
      BY <1>3, <1>5 DEF HasSlot, CInv, Types
    <3>2. T \subseteq S \cup {p}
      BY <2>2, <2>5
    <3> HIDE DEF S, T
    <3>3. IsFiniteSet(S) /\ Cardinality(S) \in Nat
      BY <3>1, PeersFinite, FS_Subset, FS_CardinalityType
    <3>4. IsFiniteSet(S \cup {p}) /\ Cardinality(S \cup {p}) <= Cardinality(S) + 1 /\ Cardinality(S \cup {p}) \in Nat
      <4>1. /\ IsFiniteSet(S \cup {p})
            /\ Cardinality(S \cup {p}) = IF p \in S THEN Cardinality(S) ELSE Cardinality(S) + 1
        BY <3>3, FS_AddElement
      <4> QED
        BY <3>3, <4>1
    <3>5. Cardinality(T) <= Cardinality(S \cup {p}) /\ Cardinality(T) \in Nat
      BY <3>2, <3>4, FS_Subset, FS_CardinalityType
    <3>6. max \in Nat
      BY LastIs DEF CInv
    <3>7. Cardinality(T) <= max + 1
      BY <3>1, <3>3, <3>4, <3>5, <3>6
    <3> QED
      BY <3>7 DEF T
  <2> QED
    BY <2>4, <2>5, <2>6
<1>6. Becomes(c) \/ (NeedLocalData(p) /\ ~ paused /\ HasSlot(c) /\ Becomes(Unchoke(c, p, bad, Now)))
  BY <1>2, Zenon DEF UnchokeIfFree
<1> QED
  BY <1>4, <1>5, <1>6

LEMMA RequestKeeps ==
  ASSUME CInv, ~ check.begun, NEW p \in Peers, Request(p)
  PROVE  CInv' /\ unchoked' = unchoked
<1>1. CASE p \in unchoked /\ requested' = requested \cup {p} /\ UNCHANGED stamp
  <2>1. Types' /\ Silent'
    BY <1>1 DEF CInv, Types, Silent, Request
  <2> QED
    BY <2>1, BetweenChecks DEF Request
<1>2. CASE p \notin unchoked /\ stamp' = Ranked([stamp EXCEPT ![p] = Now]) /\ UNCHANGED requested
  <2>1. [stamp EXCEPT ![p] = Now] \in [Peers -> Nat]
    <3>1. Now \in Nat /\ stamp \in [Peers -> Nat]
      BY NowIs, PeersFinite DEF CInv, Types
    <3> QED
      BY <3>1
  <2>2. stamp' \in [Peers -> 0 .. Cardinality(Peers)]
    BY <1>2, <2>1, RankedType
  <2>3. Types' /\ Silent'
    BY <1>2, <2>2 DEF CInv, Types, Silent, Request
  <2> QED
    BY <2>3, BetweenChecks DEF Request
<1> QED
  BY <1>1, <1>2 DEF Request

LEMMA GotPieceKeeps ==
  ASSUME CInv, ~ check.begun, NEW keep, NEW next \in Modes, GotPiece(keep, next)
  PROVE  CInv' /\ unchoked' = unchoked
<1>1. has' \in [Peers -> {"none", "some", "all"}] /\ stamp' \in [Peers -> 0 .. Cardinality(Peers)]
  <2>1. 0 \in 0 .. Cardinality(Peers)
    BY PeersFinite
  <2> QED
    BY <2>1 DEF CInv, Types, GotPiece
<1>2. Types' /\ Silent'
  BY <1>1 DEF CInv, Types, Silent, GotPiece
<1> QED
  BY <1>2, BetweenChecks DEF GotPiece

LEMMA PauseKeeps ==
  ASSUME CInv, ~ check.begun, Pause
  PROVE  CInv' /\ unchoked' = {}
<1>1. PICK bad \in AtMostOne(unchoked) : Becomes(Choke(Peer, unchoked, bad, Now))
  BY DEF Pause
<1> DEFINE d == Choke(Peer, unchoked, bad, Now)
<1>2. /\ Peer \in Worlds({check}) /\ Proper(Peer) /\ Peer.unchoked = unchoked /\ Peer.check = check
  BY PeerIs DEF CInv
<1>3. Peers # {} => Now \in Nat
  BY NowIs DEF CInv
<1> DEFINE told == unchoked \cap Peer.unchoked
           k2 == [check EXCEPT !.chokedNow = @ \cup told]
<1>4. d \in Worlds({k2}) /\ Proper(d) /\ \E gone \in SUBSET told : IsDropped(d, Peer, told, gone, Now)
  BY <1>2, <1>3, ChokeIs
<1> HIDE DEF d, k2
<1>5. d.unchoked = {}
  BY <1>2, <1>4 DEF IsDropped
<1>6. Becomes(d)
  BY <1>1 DEF d
<1>7. /\ on' = d.on /\ interested' = d.interested /\ unchoked' = {} /\ requested' = d.requested
      /\ has' = d.has /\ stamp' = Ranked(d.stamp) /\ max' = max /\ mode' = mode /\ paused' = TRUE
  BY <1>5, <1>6 DEF Becomes, Pause
<1>8. stamp' \in [Peers -> 0 .. Cardinality(Peers)]
  BY <1>4, <1>7, RankedType DEF Worlds
<1>9. Types'
  BY <1>4, <1>5, <1>7, <1>8 DEF CInv, Types, Worlds, Proper, Haves
<1> QED
  BY <1>7, <1>9, BetweenChecks DEF Silent, Pause

\* What NoOverbooking says of a step, but for the pause
Booked == unchoked' \ unchoked # {} => Cardinality(unchoked' \cap interested') <= max' + 1

\* Those that have a slot are few enough.
LEMMA SeatedBooked ==
  ASSUME Types, NEW slot, UNCHANGED max, unchoked' \subseteq {slot[i] : i \in 0 .. max}
  PROVE  Booked
<1>1. max \in Nat
  BY LastIs
<1>2. unchoked' \cap interested' \subseteq {slot[i] : i \in 0 .. max}
  OBVIOUS
<1>3. Cardinality(unchoked' \cap interested') <= max + 1
  BY <1>1, <1>2, SeatsBound
<1> QED
  BY <1>3 DEF Booked

LEMMA StepKeeps ==
  ASSUME CInv, Next
  PROVE  CInv' /\ Booked
<1>1. CASE Begin
  <2>1. unchoked' = unchoked
    BY <1>1 DEF Begin
  <2> QED
    BY <1>1, <2>1, BeginKeeps DEF Booked
<1>2. CASE Pass \/ Again
  <2>1. CInv' /\ check'.pass > 0
    BY <1>2, PassKeeps, AgainKeeps
  <2>2. max' = max
    BY <1>2 DEF Pass, Again
  <2>3. unchoked' \subseteq {check'.slot[i] : i \in 0 .. max}
    BY <2>1, <2>2 DEF CInv, Seated, Seats
  <2> QED
    BY <2>1, <2>2, <2>3, SeatedBooked DEF CInv
<1>3. CASE Unchoking
  <2>1. CInv' /\ unchoked' \subseteq {check.slot[i] : i \in 0 .. max}
    BY <1>3, UnchokingKeeps DEF Seats
  <2>2. max' = max
    BY <1>3 DEF Unchoking
  <2> QED
    BY <2>1, <2>2, SeatedBooked DEF CInv
<1>4. ASSUME ~ check.begun, NEW p \in Peers, Connect(p) PROVE CInv' /\ Booked
  BY <1>4, ConnectKeeps DEF Booked
<1>5. ASSUME ~ check.begun, NEW p \in Peers, Close(p) PROVE CInv' /\ Booked
  <2>1. UNCHANGED <<max, mode, paused, check>> /\ Becomes(Closed(Peer, {p}))
    BY <1>5 DEF Close
  <2>2. CInv' /\ unchoked' \subseteq unchoked
    BY <1>5, <2>1, ClosedKeeps
  <2> QED
    BY <2>2 DEF Booked
<1>6. ASSUME ~ check.begun, NEW p \in Peers, Interested(p) PROVE CInv' /\ Booked
  BY <1>6, InterestedKeeps DEF Booked
<1>7. ASSUME ~ check.begun, NEW p \in Peers, NotInterested(p) PROVE CInv' /\ Booked
  <2>1. Types' /\ Silent'
    BY <1>7 DEF CInv, Types, Silent, NotInterested
  <2>2. CInv'
    BY <1>7, <2>1, BetweenChecks DEF NotInterested
  <2> QED
    BY <1>7, <2>2 DEF NotInterested, Booked
<1>8. ASSUME ~ check.begun, NEW p \in Peers, Request(p) PROVE CInv' /\ Booked
  BY <1>8, RequestKeeps DEF Booked
<1>9. ASSUME ~ check.begun, NEW p \in Peers, NEW pieces \in {"some", "all"}, Have(p, pieces) PROVE CInv' /\ Booked
  <2>1. CInv' /\ unchoked' \subseteq unchoked
    BY <1>9, HaveKeeps
  <2> QED
    BY <2>1 DEF Booked
<1>10. ASSUME ~ check.begun, NEW keep, NEW next \in Modes, GotPiece(keep, next) PROVE CInv' /\ Booked
  BY <1>10, GotPieceKeeps DEF Booked
<1>11. CASE ~ check.begun /\ CloseSeeds
  <2> DEFINE S == {p \in on : has[p] = "all"}
  <2>1. UNCHANGED <<max, mode, paused, check>> /\ Becomes(Closed(Peer, S))
    BY <1>11 DEF CloseSeeds
  <2> HIDE DEF S
  <2>2. CInv' /\ unchoked' \subseteq unchoked
    BY <1>11, <2>1, ClosedKeeps
  <2> QED
    BY <2>2 DEF Booked
<1>12. CASE ~ check.begun /\ Pause
  BY <1>12, PauseKeeps DEF Booked
<1>13. CASE ~ check.begun /\ Resume
  <2>1. Types' /\ Silent'
    BY <1>13 DEF CInv, Types, Silent, Resume
  <2>2. CInv'
    BY <1>13, <2>1, BetweenChecks DEF Resume
  <2> QED
    BY <1>13, <2>2 DEF Resume, Booked
<1> QED
  BY <1>1, <1>2, <1>3, <1>4, <1>5, <1>6, <1>7, <1>8, <1>9, <1>10, <1>11, <1>12, <1>13 DEF Next, Checking

LEMMA StutterKeeps ==
  ASSUME CInv, UNCHANGED vars
  PROVE  CInv'
<1>1. UNCHANGED <<on, interested, unchoked, requested, has, stamp, max, mode, paused, check>>
  BY DEF vars
<1>2. Types' /\ Silent' /\ Fresh'
  BY <1>1 DEF CInv, Types, Silent, Fresh
<1>3. Running'
  BY <1>1 DEF CInv, Running, Checks, Slots
<1>4. Seated'
  BY <1>1 DEF CInv, Seated, Seats
<1>5. BestServed'
  BY <1>1, OrderOfStats DEF CInv, BestServed, Losers, InSlots, Candidates, NeedLocalData, Peer, IsFree,
                            LastRegular, SelectIsOrder
<1>6. OptimisticFair'
  BY <1>1 DEF CInv, OptimisticFair, Losers, InSlots, Candidates, NeedLocalData, Peer, IsFree, Empty
<1> QED
  BY <1>2, <1>3, <1>4, <1>5, <1>6 DEF CInv

LEMMA CInvHolds == Spec => []CInv
<1>1. CInv /\ [Next]_vars => CInv'
  BY StepKeeps, StutterKeeps
<1> QED
  BY InitInv, <1>1, PTL DEF Spec

\* The peers keep their sets: who is unchoked is there, only who is unchoked is asked for data,
\* m_max_unchoke stays between MIN_UNCHOKES (PeerList::IntervalCheck) and what the peers need,
\* and during an unchoke check the array of slots has the length it was allocated with.
THEOREM TypeCorrect == Spec => []TypeOK
<1>1. CInv => TypeOK
  <2> SUFFICES ASSUME CInv PROVE TypeOK
    OBVIOUS
  <2>1. check.begun => DOMAIN check.slot = 0 .. max
    BY DEF CInv, Running, Checks, Slots
  <2> QED
    BY <2>1 DEF CInv, Types, Running, TypeOK
<1> QED
  BY <1>1, CInvHolds, PTL

\* UnchokeCheck and FillFDSet: after one pass over any number of peers, in any order of the list
\* and whoever is closed on the way, no slot is free while a peer does without, and no peer is
\* better than one with a regular slot; and SelectUnchoke orders the peers, whatever their figures.
THEOREM BestAreServed == Spec => []BestServed
<1>1. CInv => BestServed
  BY DEF CInv
<1> QED
  BY <1>1, CInvHolds, PTL

\* UnchokeCheck: unless a peer without pieces took part, the optimistic slot is of a peer that
\* was choked, for no less time than any other that does without a slot.
THEOREM LongestWaitingFirst == Spec => []OptimisticFair
<1>1. CInv => OptimisticFair
  BY DEF CInv
<1> QED
  BY <1>1, CInvHolds, PTL

\* FillFDSet and UnchokeIfFree: a step that unchokes somebody leaves at most m_max_unchoke and
\* one interested peers unchoked, however often the check started over; and during a pause
\* nobody is unchoked.
THEOREM NeverOverbooked == Spec => NoOverbooking
<1>1. CInv /\ [Next]_vars =>
        [/\ unchoked' \ unchoked # {} => Cardinality(unchoked' \cap interested') <= max' + 1
         /\ paused' => unchoked' = {}]_vars
  <2>1. CInv' => (paused' => unchoked' = {})
    BY DEF CInv, Silent
  <2> QED
    BY <2>1, StepKeeps DEF Booked
<1> QED
  BY <1>1, CInvHolds, PTL DEF Spec, NoOverbooking
=============================================================================
