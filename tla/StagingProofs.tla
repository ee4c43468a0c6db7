--------------------------- MODULE StagingProofs ----------------------------
(***************************************************************************)
(* The list of real and staging files, what is counted of it, and the      *)
(* operation that follows it, for any files, piece lengths, limits and     *)
(* refusals of the file system, and restarts between any two system calls. *)
(*                                                                         *)
(* First what a list is (Shaped) and what becomes of it when an entry is   *)
(* rewritten, put in or taken out; then opens and closes, which may come   *)
(* in the midst of an operation, and the search for the file of a byte.    *)
(* The inductive invariant IInv (StagingInvariant) says besides where in   *)
(* the list the operation that runs may be (OpFits).  One lemma for each   *)
(* action.                                                                 *)
(* Setup and FileEnd are recursive functions: that they have a value is    *)
(* proved from the least number for which they would have none.            *)
(* Last FInv, and that every step is one of Store or a stutter.            *)
(***************************************************************************)
EXTENDS StagingInvariant, FiniteSetTheorems, SequenceTheorems, WellFoundedInduction, TLAPS

-----------------------------------------------------------------------------
(* Numbers, and the ends of the files.                                     *)

LEMMA LeastNumber ==
  ASSUME NEW T \in SUBSET Nat, T # {}
  PROVE  \E n \in T : \A m \in T : n <= m
<1> DEFINE R == OpToRel(<, Nat)
<1>1. IsWellFoundedOn(R, Nat)
  BY NatLessThanWellFounded, Zenon
<1>2. \A m, n \in Nat : <<m, n>> \in R <=> m < n
  BY DEF OpToRel
<1> HIDE DEF R
<1>3. \E n \in T : \A m \in T : ~ (<<m, n>> \in R)
  BY <1>1, WFMin, Zenon
<1>4. PICK n \in T : \A m \in T : ~ (<<m, n>> \in R)
  BY <1>3
<1>5. ASSUME NEW m \in T
      PROVE  n <= m
  <2>1. ~ (m < n)
    BY <1>2, <1>4
  <2> QED BY <2>1
<1> QED BY <1>5

\* A set of numbers that has the successor, up to L, of each of its members.
LEMMA Climb ==
  ASSUME NEW L \in Nat, NEW k \in 0 .. L, NEW T, k \in T,
         \A n \in k .. L - 1 : n \in T => n + 1 \in T
  PROVE  \A n \in k .. L : n \in T
<1> DEFINE B == {n \in Nat : n \in k .. L /\ n \notin T}
<1> SUFFICES ASSUME B # {} PROVE FALSE
  OBVIOUS
<1>1. PICK m \in B : \A n \in B : m <= n
  BY LeastNumber
<1>2. m # k /\ m - 1 \in k .. L - 1
  BY <1>1
<1>3. m - 1 \in T
  BY <1>1, <1>2
<1> QED BY <1>1, <1>2, <1>3

LEMMA Lengths ==
  /\ Len(FileLengths) \in Nat \ {0}
  /\ \A i \in 1 .. Len(FileLengths) : FileLengths[i] \in Nat \ {0}
  /\ DOMAIN FileLengths = 1 .. Len(FileLengths)
BY StagingAssumption DEF StagingAssumption

LEMMA EndsExist ==
  \E f \in [0 .. Len(FileLengths) -> Nat] : Ends(f, Len(FileLengths))
<1> DEFINE L == Len(FileLengths)
           T == {n \in Nat : \E f \in [0 .. n -> Nat] : Ends(f, n)}
<1>1. L \in Nat /\ \A i \in 1 .. L : FileLengths[i] \in Nat
  BY Lengths
<1>2. 0 \in T
  <2>1. [i \in 0 .. 0 |-> 0] \in [0 .. 0 -> Nat] /\ Ends([i \in 0 .. 0 |-> 0], 0)
    BY DEF Ends
  <2> QED BY <2>1
<1>3. ASSUME NEW n \in 0 .. L - 1, n \in T
      PROVE  n + 1 \in T
  <2>1. PICK f \in [0 .. n -> Nat] : Ends(f, n)
    BY <1>3
  <2> DEFINE m == n + 1
             g == [i \in 0 .. m |-> IF i = m THEN f[n] + FileLengths[m] ELSE f[i]]
  <2>2. g \in [0 .. m -> Nat]
    BY <1>1, <2>1
  <2>3. g[0] = f[0]
    OBVIOUS
  <2>4. ASSUME NEW i \in 1 .. m
        PROVE  g[i] = g[i - 1] + FileLengths[i]
    <3>1. CASE i = m
      BY <3>1
    <3>2. CASE i # m
      <4>1. i \in 1 .. n /\ i - 1 # m /\ i - 1 \in 0 .. m /\ i \in 0 .. m
        BY <3>2
      <4>2. f[i] = f[i - 1] + FileLengths[i]
        BY <2>1, <4>1 DEF Ends
      <4> QED BY <3>2, <4>1, <4>2
    <3> QED BY <3>1, <3>2
  <2> HIDE DEF g
  <2>5. Ends(g, m)
    BY <2>1, <2>3, <2>4 DEF Ends
  <2>6. m \in Nat
    OBVIOUS
  <2> HIDE DEF m
  <2> QED BY <2>2, <2>5, <2>6
<1>5. \A n \in 0 .. L : n \in T
  <2> HIDE DEF T
  <2>1. 0 \in 0 .. L
    BY <1>1
  <2> QED BY <1>1, <1>2, <1>3, <2>1, Climb
<1>4. L \in T
  <2> HIDE DEF T
  <2> QED BY <1>1, <1>5
<1> QED BY <1>4

\* The recursive definition has such a function.
LEMMA FileEndRecursive ==
  /\ FileEnd \in [0 .. Len(FileLengths) -> Nat]
  /\ FileEnd[0] = 0
  /\ \A n \in 1 .. Len(FileLengths) : FileEnd[n] = FileEnd[n - 1] + FileLengths[n]
<1> DEFINE L == Len(FileLengths)
<1>1. L \in Nat /\ \A i \in 1 .. L : FileLengths[i] \in Nat
  BY Lengths
<1>2. PICK f \in [0 .. L -> Nat] : Ends(f, L)
  BY EndsExist
<1>3. f = [n \in 0 .. L |-> IF n = 0 THEN 0 ELSE f[n - 1] + FileLengths[n]]
  BY <1>1, <1>2 DEF Ends
<1>4. FileEnd = [n \in 0 .. L |-> IF n = 0 THEN 0 ELSE FileEnd[n - 1] + FileLengths[n]]
  BY <1>3, Zenon DEF FileEnd
<1> DEFINE T == {k \in 0 .. L : FileEnd[k] = f[k]}
<1>5. 0 \in T
  BY <1>1, <1>2, <1>4 DEF Ends
<1>6. ASSUME NEW n \in 0 .. L - 1, n \in T
      PROVE  n + 1 \in T
  BY <1>1, <1>2, <1>4, <1>6 DEF Ends
<1>7. \A n \in 0 .. L : n \in T
  <2> HIDE DEF T
  <2>1. 0 \in 0 .. L
    BY <1>1
  <2> QED BY <1>1, <1>5, <1>6, <2>1, Climb
<1> QED BY <1>1, <1>2, <1>4, <1>7, SMTT(60) DEF Ends

\* A file begins where the one before ends, and they cover all bytes.
LEMMA Extents ==
  /\ Total \in Nat \ {0} /\ Cells = 0 .. Total - 1
  /\ \A n \in 0 .. Len(FileLengths) : FileEnd[n] \in 0 .. Total
  /\ \A m, n \in 0 .. Len(FileLengths) : m < n => FileEnd[m] < FileEnd[n]
  /\ \A c \in Cells : \E n \in DOMAIN FileLengths : FileEnd[n - 1] <= c /\ c < FileEnd[n]
<1> DEFINE L == Len(FileLengths)
<1>1. ASSUME NEW m \in 0 .. L
      PROVE  \A n \in m .. L : FileEnd[m] <= FileEnd[n] /\ (m < n => FileEnd[m] < FileEnd[n])
  <2> DEFINE T == {n \in 0 .. L : FileEnd[m] <= FileEnd[n] /\ (m < n => FileEnd[m] < FileEnd[n])}
  <2>1. m \in T
    BY FileEndRecursive, Lengths
  <2>2. ASSUME NEW n \in m .. L - 1, n \in T
        PROVE  n + 1 \in T
    <3>1. FileEnd[n + 1] = FileEnd[n] + FileLengths[n + 1] /\ FileEnd[n] \in Nat /\ FileLengths[n + 1] \in Nat \ {0}
      BY FileEndRecursive, Lengths, SMTT(60)
    <3> QED BY <2>2, <3>1, FileEndRecursive, Lengths
  <2>3. \A n \in m .. L : n \in T
    <3> HIDE DEF T
    <3> QED BY <2>1, <2>2, Climb, Lengths
  <2> QED BY <2>3
<1>2. ASSUME NEW c \in Cells
      PROVE  \E n \in DOMAIN FileLengths : FileEnd[n - 1] <= c /\ c < FileEnd[n]
  <2> DEFINE T == {n \in Nat : n <= L /\ c < FileEnd[n]}
  <2>1. L \in T
    BY FileEndRecursive, Lengths DEF Cells, Total
  <2>2. PICK n \in T : \A m \in T : n <= m
    BY <2>1, LeastNumber
  <2>3. n # 0
    BY <2>2, FileEndRecursive DEF Cells
  <2>4. n - 1 \in 0 .. L /\ n - 1 \notin T
    BY <2>2, <2>3, Lengths
  <2>5. FileEnd[n - 1] <= c
    BY <2>4, FileEndRecursive DEF Cells
  <2> QED BY <2>2, <2>3, <2>5, Lengths
<1>3. \A n \in 0 .. L : FileEnd[n] \in 0 .. Total
  <2>1. \A n \in 0 .. L : FileEnd[n] <= FileEnd[L] /\ FileEnd[n] \in Nat
    BY <1>1, FileEndRecursive, Lengths
  <2> QED BY <2>1, Lengths, FileEndRecursive DEF Total
<1>4. Total \in Nat \ {0}
  BY <1>1, FileEndRecursive, Lengths DEF Total
<1> QED BY <1>1, <1>2, <1>3, <1>4, FileEndRecursive, Lengths DEF Cells

-----------------------------------------------------------------------------
(* Lists of files.                                                         *)

LEMMA InsertIs ==
  ASSUME NEW S, NEW s \in Seq(S), NEW k \in 1 .. Len(s) + 1, NEW e \in S
  PROVE  /\ InsertAt(s, k, e) \in Seq(S) /\ Len(InsertAt(s, k, e)) = Len(s) + 1
         /\ \A j \in 1 .. k - 1 : InsertAt(s, k, e)[j] = s[j]
         /\ InsertAt(s, k, e)[k] = e
         /\ \A j \in k + 1 .. Len(s) + 1 : InsertAt(s, k, e)[j] = s[j - 1]
<1> DEFINE L == Len(s)
           a == SubSeq(s, 1, k - 1)
           b == SubSeq(s, k, L)
<1>0. L \in Nat /\ k \in Int
  OBVIOUS
<1>1. a \in Seq(S) /\ Len(a) = k - 1 /\ \A j \in 1 .. k - 1 : a[j] = s[j]
  BY SubSeqProperties
<1>2. b \in Seq(S) /\ Len(b) = L - k + 1 /\ \A j \in 1 .. L - k + 1 : b[j] = s[k + j - 1]
  BY SubSeqProperties
<1>3. InsertAt(s, k, e) = (a \o <<e>>) \o b
  BY DEF InsertAt
<1> HIDE DEF a, b
<1> DEFINE c == a \o <<e>>
<1>4. <<e>> \in Seq(S) /\ Len(<<e>>) = 1 /\ <<e>>[1] = e
  OBVIOUS
<1>5. /\ c \in Seq(S) /\ Len(c) = k
      /\ \A j \in 1 .. k : c[j] = IF j <= k - 1 THEN a[j] ELSE <<e>>[j - (k - 1)]
  BY <1>1, <1>4, ConcatProperties
<1>6. (\A j \in 1 .. k - 1 : c[j] = s[j]) /\ c[k] = e
  BY <1>0, <1>1, <1>4, <1>5
<1> HIDE DEF c
<1>7. /\ c \o b \in Seq(S) /\ Len(c \o b) = L + 1
      /\ \A j \in 1 .. L + 1 : (c \o b)[j] = IF j <= k THEN c[j] ELSE b[j - k]
  <2>1. Len(c) + Len(b) = L + 1 /\ Len(c) = k
    BY <1>0, <1>2, <1>5
  <2>2. /\ c \o b \in Seq(S) /\ Len(c \o b) = Len(c) + Len(b)
        /\ \A j \in 1 .. Len(c) + Len(b) : (c \o b)[j] = IF j <= Len(c) THEN c[j] ELSE b[j - Len(c)]
    BY <1>2, <1>5, ConcatProperties
  <2> QED BY <2>1, <2>2
<1>8. ASSUME NEW j \in k + 1 .. L + 1
      PROVE  (c \o b)[j] = s[j - 1]
  <2>1. j \in 1 .. L + 1 /\ ~(j <= k) /\ j - k \in 1 .. L - k + 1 /\ k + (j - k) - 1 = j - 1
    BY <1>0
  <2>2. b[j - k] = s[k + (j - k) - 1]
    BY <1>2, <2>1
  <2> QED BY <1>7, <2>1, <2>2
<1>9. (\A j \in 1 .. k - 1 : (c \o b)[j] = s[j]) /\ (c \o b)[k] = e
  BY <1>0, <1>6, <1>7
<1> QED BY <1>3, <1>7, <1>8, <1>9 DEF c

LEMMA RemoveIs ==
  ASSUME NEW S, NEW s \in Seq(S), NEW k \in 1 .. Len(s)
  PROVE  /\ RemoveAt(s, k) \in Seq(S) /\ Len(RemoveAt(s, k)) = Len(s) - 1
         /\ \A j \in 1 .. k - 1 : RemoveAt(s, k)[j] = s[j]
         /\ \A j \in k .. Len(s) - 1 : RemoveAt(s, k)[j] = s[j + 1]
<1> DEFINE L == Len(s)
           a == SubSeq(s, 1, k - 1)
           b == SubSeq(s, k + 1, L)
<1>0. L \in Nat /\ k \in Int
  OBVIOUS
<1>1. a \in Seq(S) /\ Len(a) = k - 1 /\ \A j \in 1 .. k - 1 : a[j] = s[j]
  BY SubSeqProperties
<1>2. b \in Seq(S) /\ Len(b) = L - k /\ \A j \in 1 .. L - k : b[j] = s[k + 1 + j - 1]
  BY SubSeqProperties
<1>3. RemoveAt(s, k) = a \o b
  BY DEF RemoveAt
<1> HIDE DEF a, b
<1>4. /\ a \o b \in Seq(S) /\ Len(a \o b) = L - 1
      /\ \A j \in 1 .. L - 1 : (a \o b)[j] = IF j <= k - 1 THEN a[j] ELSE b[j - (k - 1)]
  <2>1. Len(a) + Len(b) = L - 1 /\ Len(a) = k - 1
    BY <1>0, <1>1, <1>2
  <2>2. /\ a \o b \in Seq(S) /\ Len(a \o b) = Len(a) + Len(b)
        /\ \A j \in 1 .. Len(a) + Len(b) : (a \o b)[j] = IF j <= Len(a) THEN a[j] ELSE b[j - Len(a)]
    BY <1>1, <1>2, ConcatProperties
  <2> QED BY <2>1, <2>2
<1>5. ASSUME NEW j \in k .. L - 1
      PROVE  (a \o b)[j] = s[j + 1]
  <2>1. j \in 1 .. L - 1 /\ ~(j <= k - 1) /\ j - (k - 1) \in 1 .. L - k /\ k + 1 + (j - (k - 1)) - 1 = j + 1
    BY <1>0
  <2>2. b[j - (k - 1)] = s[k + 1 + (j - (k - 1)) - 1]
    BY <1>2, <2>1
  <2> QED BY <1>4, <2>1, <2>2
<1>6. \A j \in 1 .. k - 1 : (a \o b)[j] = s[j]
  BY <1>0, <1>1, <1>4
<1> QED BY <1>3, <1>4, <1>5, <1>6

\* A set of places of a list, after an entry was put in at k, or before it was taken out.
LEMMA ShiftCount ==
  ASSUME NEW n \in Nat, NEW k \in 1 .. n + 1, NEW A \in SUBSET (1 .. n), NEW B \in SUBSET (1 .. n + 1),
         \A j \in 1 .. n : j \in A <=> (IF j < k THEN j ELSE j + 1) \in B
  PROVE  /\ IsFiniteSet(A) /\ Cardinality(A) \in Nat
         /\ IsFiniteSet(B) /\ Cardinality(B) = Cardinality(A) + (IF k \in B THEN 1 ELSE 0)
<1>1. IsFiniteSet(A) /\ IsFiniteSet(B) /\ Cardinality(A) \in Nat
  <2>1. IsFiniteSet(1 .. n) /\ IsFiniteSet(1 .. n + 1)
    BY FS_Interval
  <2>2. IsFiniteSet(A) /\ IsFiniteSet(B)
    BY <2>1, FS_Subset
  <2> QED BY <2>2, FS_CardinalityType
<1>0. n \in Int /\ k \in Int /\ \A j \in 1 .. n : j \in Int
  OBVIOUS
<1> DEFINE f == [j \in A |-> IF j < k THEN j ELSE j + 1]
           C == B \ {k}
<1>2. f \in [A -> C]
  OBVIOUS
<1>3. \A i, j \in A : f[i] = f[j] => i = j
  OBVIOUS
<1>4. \A b \in C : \E j \in A : f[j] = b
  <2> SUFFICES ASSUME NEW b \in C PROVE \E j \in A : f[j] = b
    OBVIOUS
  <2>1. CASE b < k
    <3>1. b \in 1 .. n /\ b \in A
      BY <2>1
    <3> QED BY <2>1, <3>1
  <2>2. CASE b > k
    <3>1. b - 1 \in 1 .. n /\ b - 1 \in A
      BY <2>2
    <3> QED BY <2>2, <3>1
  <2> QED BY <2>1, <2>2
<1>5. f \in Bijection(A, C)
  BY <1>2, <1>3, <1>4 DEF Bijection, Injection, Surjection, IsInjective
<1>6. ExistsBijection(A, C)
  BY <1>5 DEF ExistsBijection
<1>7. Cardinality(C) = Cardinality(A)
  <2> HIDE DEF C
  <2> QED BY <1>1, <1>6, FS_Bijection
<1>8. Cardinality(C) = IF k \in B THEN Cardinality(B) - 1 ELSE Cardinality(B)
  BY <1>1, FS_RemoveElement
<1>9. Cardinality(B) \in Nat
  BY <1>1, FS_CardinalityType
<1> QED BY <1>1, <1>7, <1>8, <1>9

LEMMA Rising ==
  \A m, n \in 0 .. Len(FileLengths) :
    (FileEnd[m] < FileEnd[n] => m < n) /\ (m <= n => FileEnd[m] <= FileEnd[n])
<1> SUFFICES ASSUME NEW m \in 0 .. Len(FileLengths), NEW n \in 0 .. Len(FileLengths)
             PROVE  (FileEnd[m] < FileEnd[n] => m < n) /\ (m <= n => FileEnd[m] <= FileEnd[n])
  OBVIOUS
<1>1. FileEnd[m] \in Nat /\ FileEnd[n] \in Nat
  BY Extents
<1>2. (m < n => FileEnd[m] < FileEnd[n]) /\ (n < m => FileEnd[n] < FileEnd[m])
  BY Extents
<1>3. m < n \/ n < m \/ m = n
  OBVIOUS
<1> QED BY <1>1, <1>2, <1>3

\* The reals are those of the torrent, in its order, one behind the other, and cover all bytes.
LEMMA Geometry ==
  ASSUME NEW fs, Shaped(fs)
  PROVE  /\ Len(fs) \in Nat \ {0} /\ DOMAIN fs = 1 .. Len(fs) /\ 1 \in Reals(fs)
         /\ \A i \in 1 .. Len(fs) : fs[i] \in Files
         /\ \A i \in Reals(fs) : fs[i].length \in Nat \ {0} /\ fs[i].offset + fs[i].length <= Total
         /\ \A i, j \in Reals(fs) : i < j => fs[i].offset + fs[i].length <= fs[j].offset
         /\ \A c \in Cells : \E i \in Reals(fs) : fs[i].offset <= c /\ c < fs[i].offset + fs[i].length
<1>1. /\ Len(fs) \in Nat \ {0} /\ DOMAIN fs = 1 .. Len(fs) /\ 1 \in Reals(fs)
      /\ \A i \in 1 .. Len(fs) : fs[i] \in Files
  BY DEF Shaped, Reals
<1>2. ASSUME NEW i \in Reals(fs)
      PROVE  \E n \in 1 .. Len(FileLengths) :
               fs[i].offset = FileEnd[n - 1] /\ fs[i].length = FileLengths[n] /\ FileEnd[n] = FileEnd[n - 1] + FileLengths[n]
  <2>1. Extent(fs[i]) \in RealSet
    BY DEF Shaped
  <2>2. PICK n \in 1 .. Len(FileLengths) : Extent(fs[i]) = <<FileEnd[n - 1], FileLengths[n]>>
    BY <2>1, Lengths DEF RealSet
  <2>3. fs[i].offset = FileEnd[n - 1] /\ fs[i].length = FileLengths[n]
    BY <2>2 DEF Extent
  <2> QED BY <2>3, FileEndRecursive
<1>3. ASSUME NEW i \in Reals(fs)
      PROVE  fs[i].length \in Nat \ {0} /\ fs[i].offset + fs[i].length <= Total
  <2>1. PICK n \in 1 .. Len(FileLengths) :
          fs[i].offset = FileEnd[n - 1] /\ fs[i].length = FileLengths[n] /\ FileEnd[n] = FileEnd[n - 1] + FileLengths[n]
    BY <1>2
  <2> QED BY <2>1, Lengths, Extents
<1>4. ASSUME NEW i \in Reals(fs), NEW j \in Reals(fs), i < j
      PROVE  fs[i].offset + fs[i].length <= fs[j].offset
  <2>1. PICK m \in 1 .. Len(FileLengths) :
          fs[i].offset = FileEnd[m - 1] /\ fs[i].length = FileLengths[m] /\ FileEnd[m] = FileEnd[m - 1] + FileLengths[m]
    BY <1>2
  <2>2. PICK n \in 1 .. Len(FileLengths) :
          fs[j].offset = FileEnd[n - 1] /\ fs[j].length = FileLengths[n] /\ FileEnd[n] = FileEnd[n - 1] + FileLengths[n]
    BY <1>2
  <2>3. j \in DOMAIN fs /\ ~fs[j].staging
    BY DEF Reals
  <2>4. FileEnd[m - 1] < FileEnd[n - 1]
    BY <1>4, <2>1, <2>2, <2>3 DEF Shaped, Ordered
  <2>5. m - 1 \in 0 .. Len(FileLengths) /\ n - 1 \in 0 .. Len(FileLengths) /\ m \in 0 .. Len(FileLengths)
    BY Lengths
  <2>6. FileEnd[m] <= FileEnd[n - 1]
    <3> DEFINE a == m - 1
               b == n - 1
    <3>1. a \in 0 .. Len(FileLengths) /\ b \in 0 .. Len(FileLengths) /\ FileEnd[a] < FileEnd[b]
      BY <2>4, <2>5
    <3> HIDE DEF a, b
    <3>2. a < b
      BY <3>1, Rising
    <3>3. m <= b
      BY <3>1, <3>2, <2>5 DEF a
    <3>4. FileEnd[m] <= FileEnd[b]
      BY <2>5, <3>1, <3>3, Rising
    <3> QED BY <3>4 DEF b
  <2> QED BY <2>1, <2>2, <2>6
<1>5. ASSUME NEW c \in Cells
      PROVE  \E i \in Reals(fs) : fs[i].offset <= c /\ c < fs[i].offset + fs[i].length
  <2>1. PICK n \in 1 .. Len(FileLengths) : FileEnd[n - 1] <= c /\ c < FileEnd[n]
    BY Extents, Lengths
  <2>2. <<FileEnd[n - 1], FileLengths[n]>> \in RealSet
    BY Lengths DEF RealSet
  <2>3. PICK i \in Reals(fs) : Extent(fs[i]) = <<FileEnd[n - 1], FileLengths[n]>>
    BY <2>2 DEF Shaped
  <2>4. fs[i].offset = FileEnd[n - 1] /\ fs[i].length = FileLengths[n]
    BY <2>3 DEF Extent
  <2> QED BY <2>1, <2>4, FileEndRecursive
<1> QED BY <1>1, <1>3, <1>4, <1>5

\* What is known of a file by itself.
LEMMA FileFacts ==
  ASSUME NEW f \in Files
  PROVE  /\ f \in Recs
         /\ f.offset \in 0 .. Total - 1 /\ f.size \in Nat /\ f.length \in Nat /\ f.disk \in Int
         /\ f.data \in [Cells -> Versions \cup {Unknown}]
         /\ f.staging \in BOOLEAN /\ f.opened \in BOOLEAN /\ f.readonly \in BOOLEAN /\ f.dir \in Cells \cup {NoDir}
         /\ f.offset + f.size <= Total /\ End(f) = f.offset + f.size /\ End(f) \in 0 .. Total
         /\ -1 <= f.disk /\ f.offset + f.disk <= Total
         /\ Total \in Nat \ {0}
BY Extents DEF Files, Recs, End

LEMMA LastReal ==
  ASSUME NEW fs, Shaped(fs), NEW i \in Reals(fs), \A j \in Reals(fs) : j <= i
  PROVE  fs[i].offset + fs[i].length = Total
<1>1. i \in 1 .. Len(fs) /\ fs[i] \in Files /\ fs[i].length \in Nat \ {0} /\ fs[i].offset + fs[i].length <= Total
  BY Geometry DEF Reals
<1>2. fs[i].offset \in Nat /\ Total \in Nat
  BY <1>1, FileFacts
<1> DEFINE c == fs[i].offset + fs[i].length
<1> SUFFICES ASSUME c # Total PROVE FALSE
  OBVIOUS
<1>3. c \in Cells
  BY <1>1, <1>2, Extents
<1>4. PICK j \in Reals(fs) : fs[j].offset <= c /\ c < fs[j].offset + fs[j].length
  BY <1>3, Geometry
<1>5. j \in 1 .. Len(fs) /\ fs[j] \in Files
  BY Geometry DEF Reals
<1>6. fs[j].offset \in Nat /\ fs[j].length \in Nat
  BY <1>5, FileFacts
<1>7. j < i
  BY <1>1, <1>2, <1>4, <1>5
<1>8. fs[j].offset + fs[j].length <= fs[i].offset
  BY <1>7, Geometry
<1> QED BY <1>1, <1>2, <1>4, <1>6, <1>8, SMTT(60)

-----------------------------------------------------------------------------
(* How a list changes: entries are rewritten, one is put in, one is taken out. *)

LEMMA RewrittenShaped ==
  ASSUME NEW fs, Shaped(fs), NEW gs, Rewritten(fs, gs)
  PROVE  Shaped(gs) /\ Reals(gs) = Reals(fs) /\ \A d : InDir(gs, d) = InDir(fs, d)
<1>1. DOMAIN fs = 1 .. Len(fs) /\ DOMAIN gs = 1 .. Len(fs) /\ Len(gs) \in Nat \ {0} /\ Len(gs) = Len(fs)
  BY Geometry DEF Rewritten
<1>2. Reals(gs) = Reals(fs) /\ \A d : InDir(gs, d) = InDir(fs, d)
  BY <1>1 DEF Reals, InDir, Rewritten, Alike
<1>3. \A i \in Reals(fs) : Extent(gs[i]) = Extent(fs[i])
  BY <1>1 DEF Reals, Rewritten, Alike, Extent
<1>4. {Extent(gs[i]) : i \in Reals(gs)} = RealSet
  BY <1>2, <1>3 DEF Shaped
<1>5. Ordered(gs)
  BY <1>1, <1>2 DEF Shaped, Ordered, Rewritten, Alike, Reals
<1>6. ~gs[1].staging
  BY <1>1 DEF Shaped, Rewritten, Alike
<1> QED BY <1>1, <1>2, <1>4, <1>5, <1>6 DEF Shaped, Rewritten

LEMMA InsertShaped ==
  ASSUME NEW fs, Shaped(fs), NEW k \in 1 .. Len(fs), NEW g \in Files, g.staging,
         \A i \in Reals(fs) : i <= k => fs[i].offset <= g.offset,
         NEW gs, gs = InsertAt(fs, k + 1, g)
  PROVE  /\ Shaped(gs) /\ Len(gs) = Len(fs) + 1
         /\ \A j \in 1 .. k : gs[j] = fs[j]
         /\ gs[k + 1] = g
         /\ \A j \in k + 1 .. Len(fs) : gs[j + 1] = fs[j]
         /\ Reals(gs) = {i \in Reals(fs) : i <= k} \cup {i + 1 : i \in {j \in Reals(fs) : j > k}}
<1>1. /\ DOMAIN fs = 1 .. Len(fs) /\ Len(fs) \in Nat \ {0} /\ fs \in Seq(Files)
      /\ \A i \in 1 .. Len(fs) : fs[i] \in Files
  BY Geometry DEF Shaped
<1>2. /\ gs \in Seq(Files) /\ Len(gs) = Len(fs) + 1 /\ DOMAIN gs = 1 .. Len(fs) + 1
      /\ \A j \in 1 .. k : gs[j] = fs[j]
      /\ gs[k + 1] = g
      /\ \A j \in k + 2 .. Len(fs) + 1 : gs[j] = fs[j - 1]
  <2> DEFINE m == k + 1
  <2>1. m \in 1 .. Len(fs) + 1 /\ m - 1 = k /\ m + 1 = k + 2
    BY <1>1
  <2> HIDE DEF m
  <2>2. gs = InsertAt(fs, m, g)
    BY DEF m
  <2>5. /\ InsertAt(fs, m, g) \in Seq(Files) /\ Len(InsertAt(fs, m, g)) = Len(fs) + 1
        /\ \A j \in 1 .. m - 1 : InsertAt(fs, m, g)[j] = fs[j]
        /\ InsertAt(fs, m, g)[m] = g
        /\ \A j \in m + 1 .. Len(fs) + 1 : InsertAt(fs, m, g)[j] = fs[j - 1]
    <3> DEFINE S == Files
    <3>1. fs \in Seq(S) /\ m \in 1 .. Len(fs) + 1 /\ g \in S
      BY <1>1, <2>1
    <3> HIDE DEF S
    <3>2. /\ InsertAt(fs, m, g) \in Seq(S) /\ Len(InsertAt(fs, m, g)) = Len(fs) + 1
          /\ \A j \in 1 .. m - 1 : InsertAt(fs, m, g)[j] = fs[j]
          /\ InsertAt(fs, m, g)[m] = g
          /\ \A j \in m + 1 .. Len(fs) + 1 : InsertAt(fs, m, g)[j] = fs[j - 1]
      BY <3>1, InsertIs
    <3> QED BY <3>2 DEF S
  <2>3. /\ gs \in Seq(Files) /\ Len(gs) = Len(fs) + 1
        /\ \A j \in 1 .. m - 1 : gs[j] = fs[j]
        /\ gs[m] = g
        /\ \A j \in m + 1 .. Len(fs) + 1 : gs[j] = fs[j - 1]
    BY <2>2, <2>5, Zenon
  <2>4. DOMAIN gs = 1 .. Len(fs) + 1
    BY <2>3
  <2> QED BY <2>1, <2>3, <2>4 DEF m
<1>3. \A j \in k + 1 .. Len(fs) : gs[j + 1] = fs[j]
  <2> TAKE j \in k + 1 .. Len(fs)
  <2>1. j + 1 \in k + 2 .. Len(fs) + 1 /\ (j + 1) - 1 = j
    BY <1>1
  <2> QED BY <1>2, <2>1
<1>4. \A j \in 1 .. Len(gs) : (j <= k /\ gs[j] = fs[j]) \/ (j = k + 1 /\ gs[j] = g)
                              \/ (j >= k + 2 /\ j - 1 \in k + 1 .. Len(fs) /\ gs[j] = fs[j - 1])
  BY <1>1, <1>2
<1>5. Reals(gs) = {i \in Reals(fs) : i <= k} \cup {i + 1 : i \in {j \in Reals(fs) : j > k}}
  <2>1. ASSUME NEW j \in Reals(gs)
        PROVE  (j \in Reals(fs) /\ j <= k) \/ (j - 1 \in Reals(fs) /\ j - 1 > k /\ j = (j - 1) + 1)
    <3>1. j \in 1 .. Len(gs) /\ ~gs[j].staging
      BY <1>2 DEF Reals
    <3>2. j # k + 1
      BY <1>2, <3>1
    <3> QED BY <1>1, <1>4, <3>1, <3>2 DEF Reals
  <2>2. ASSUME NEW j \in Reals(fs)
        PROVE  (j <= k => j \in Reals(gs)) /\ (j > k => j + 1 \in Reals(gs))
    BY <1>1, <1>2, <1>3 DEF Reals
  <2>3. \A j \in Reals(gs) : j \in {i \in Reals(fs) : i <= k} \cup {i + 1 : i \in {n \in Reals(fs) : n > k}}
    BY <2>1
  <2>4. \A j \in {i \in Reals(fs) : i <= k} \cup {i + 1 : i \in {n \in Reals(fs) : n > k}} : j \in Reals(gs)
    BY <2>2
  <2> QED BY <2>3, <2>4
<1>6. {Extent(gs[i]) : i \in Reals(gs)} = RealSet
  <2>1. \A i \in Reals(fs) : i \in 1 .. Len(fs)
    BY <1>1 DEF Reals
  <2>2. \A j \in Reals(gs) : \E i \in Reals(fs) : Extent(gs[j]) = Extent(fs[i])
    <3> TAKE j \in Reals(gs)
    <3>1. CASE j \in Reals(fs) /\ j <= k
      <4>1. j \in 1 .. k
        BY <1>1, <2>1, <3>1
      <4>2. gs[j] = fs[j]
        BY <1>2, <4>1
      <4> QED BY <3>1, <4>2
    <3>2. ASSUME NEW i \in Reals(fs), i > k, j = i + 1 PROVE \E n \in Reals(fs) : Extent(gs[j]) = Extent(fs[n])
      BY <1>1, <1>3, <2>1, <3>2
    <3> QED BY <1>5, <3>1, <3>2
  <2>3. \A i \in Reals(fs) : \E j \in Reals(gs) : Extent(gs[j]) = Extent(fs[i])
    <3> TAKE i \in Reals(fs)
    <3>1. CASE i <= k
      <4>1. i \in 1 .. k /\ gs[i] = fs[i]
        BY <1>1, <1>2, <2>1, <3>1
      <4>2. i \in Reals(gs)
        BY <1>5, <3>1
      <4> QED BY <4>1, <4>2
    <3>2. CASE i > k
      <4>1. gs[i + 1] = fs[i]
        BY <1>1, <1>3, <2>1, <3>2
      <4>2. i + 1 \in Reals(gs)
        BY <1>5, <3>2
      <4> QED BY <4>1, <4>2
    <3> QED BY <1>1, <2>1, <3>1, <3>2
  <2>4. {Extent(fs[i]) : i \in Reals(fs)} = RealSet
    BY DEF Shaped
  <2>5. {Extent(gs[i]) : i \in Reals(gs)} \subseteq {Extent(fs[i]) : i \in Reals(fs)}
    BY <2>2
  <2>6. {Extent(fs[i]) : i \in Reals(fs)} \subseteq {Extent(gs[i]) : i \in Reals(gs)}
    BY <2>3
  <2> QED BY <2>4, <2>5, <2>6
<1>7. Ordered(gs)
  <2> SUFFICES ASSUME NEW i \in Reals(gs), NEW j \in 1 .. Len(gs), i < j
               PROVE  gs[i].offset <= gs[j].offset /\ (~gs[j].staging => gs[i].offset < gs[j].offset)
    BY <1>2 DEF Ordered
  <2>1. PICK m \in Reals(fs) : gs[i] = fs[m] /\ ((i <= k /\ m = i) \/ (m > k /\ i = m + 1))
    <3>1. CASE i \in Reals(fs) /\ i <= k
      BY <1>1, <1>2, <3>1 DEF Reals
    <3>2. ASSUME NEW n \in Reals(fs), n > k, i = n + 1 PROVE n \in Reals(fs) /\ gs[i] = fs[n] /\ i = n + 1
      BY <1>1, <1>3, <3>2 DEF Reals
    <3> QED BY <1>5, <3>1, <3>2
  <2>2. m \in 1 .. Len(fs)
    BY <1>1 DEF Reals
  <2>3. CASE j = k + 1
    BY <1>1, <1>2, <2>1, <2>2, <2>3
  <2>4. CASE j <= k
    <3>1. m < j /\ j \in 1 .. Len(fs)
      BY <1>1, <2>1, <2>2, <2>4
    <3> QED BY <1>1, <1>2, <2>1, <2>4, <3>1 DEF Shaped, Ordered
  <2>5. CASE j >= k + 2
    <3>1. j \in Int /\ m \in Int /\ i \in Int /\ k \in Int /\ Len(fs) \in Int /\ j <= Len(fs) + 1
      BY <1>1, <1>2, <2>1, <2>2
    <3>2. j \in k + 2 .. Len(fs) + 1 /\ j - 1 \in 1 .. Len(fs)
      BY <2>5, <3>1
    <3>3. gs[j] = fs[j - 1]
      BY <1>2, <3>2
    <3>4. m < j - 1
      <4>1. CASE m = i
        BY <2>1, <2>5, <3>1, <4>1
      <4>2. CASE i = m + 1
        BY <2>5, <3>1, <4>2
      <4> QED BY <2>1, <4>1, <4>2
    <3> QED BY <1>1, <2>1, <3>2, <3>3, <3>4 DEF Shaped, Ordered
  <2> QED BY <1>1, <1>2, <2>3, <2>4, <2>5
<1> QED BY <1>1, <1>2, <1>3, <1>5, <1>6, <1>7 DEF Shaped

LEMMA InsertCount ==
  ASSUME NEW fs, Shaped(fs), NEW k \in 1 .. Len(fs), NEW g \in Files,
         NEW gs, gs = InsertAt(fs, k + 1, g)
  PROVE  /\ Cardinality({i \in DOMAIN gs : gs[i].opened}) =
              Cardinality({i \in DOMAIN fs : fs[i].opened}) + (IF g.opened THEN 1 ELSE 0)
         /\ \A d : Cardinality(InDir(gs, d)) = Cardinality(InDir(fs, d)) + (IF g.dir = d THEN 1 ELSE 0)
<1>1. /\ DOMAIN fs = 1 .. Len(fs) /\ Len(fs) \in Nat \ {0} /\ fs \in Seq(Files)
  BY Geometry DEF Shaped
<1>2. /\ gs \in Seq(Files) /\ Len(gs) = Len(fs) + 1 /\ DOMAIN gs = 1 .. Len(fs) + 1
      /\ \A j \in 1 .. k : gs[j] = fs[j]
      /\ gs[k + 1] = g
      /\ \A j \in k + 2 .. Len(fs) + 1 : gs[j] = fs[j - 1]
  <2> DEFINE m == k + 1
  <2>1. m \in 1 .. Len(fs) + 1 /\ m - 1 = k /\ m + 1 = k + 2
    BY <1>1
  <2> HIDE DEF m
  <2>2. gs = InsertAt(fs, m, g)
    BY DEF m
  <2>5. /\ InsertAt(fs, m, g) \in Seq(Files) /\ Len(InsertAt(fs, m, g)) = Len(fs) + 1
        /\ \A j \in 1 .. m - 1 : InsertAt(fs, m, g)[j] = fs[j]
        /\ InsertAt(fs, m, g)[m] = g
        /\ \A j \in m + 1 .. Len(fs) + 1 : InsertAt(fs, m, g)[j] = fs[j - 1]
    <3> DEFINE S == Files
    <3>1. fs \in Seq(S) /\ m \in 1 .. Len(fs) + 1 /\ g \in S
      BY <1>1, <2>1
    <3> HIDE DEF S
    <3>2. /\ InsertAt(fs, m, g) \in Seq(S) /\ Len(InsertAt(fs, m, g)) = Len(fs) + 1
          /\ \A j \in 1 .. m - 1 : InsertAt(fs, m, g)[j] = fs[j]
          /\ InsertAt(fs, m, g)[m] = g
          /\ \A j \in m + 1 .. Len(fs) + 1 : InsertAt(fs, m, g)[j] = fs[j - 1]
      BY <3>1, InsertIs
    <3> QED BY <3>2 DEF S
  <2>3. /\ gs \in Seq(Files) /\ Len(gs) = Len(fs) + 1
        /\ \A j \in 1 .. m - 1 : gs[j] = fs[j]
        /\ gs[m] = g
        /\ \A j \in m + 1 .. Len(fs) + 1 : gs[j] = fs[j - 1]
    BY <2>2, <2>5, Zenon
  <2>4. DOMAIN gs = 1 .. Len(fs) + 1
    BY <2>3
  <2> QED BY <2>1, <2>3, <2>4 DEF m
<1>3. \A j \in 1 .. Len(fs) : gs[IF j < k + 1 THEN j ELSE j + 1] = fs[j]
  <2> TAKE j \in 1 .. Len(fs)
  <2>1. CASE j < k + 1
    BY <1>2, <2>1
  <2>2. CASE ~(j < k + 1)
    <3>1. j + 1 \in k + 2 .. Len(fs) + 1 /\ (j + 1) - 1 = j
      BY <1>1, <2>2
    <3> QED BY <1>2, <2>2, <3>1
  <2> QED BY <2>1, <2>2
<1>4. \A j \in 1 .. Len(fs) : (IF j < k + 1 THEN j ELSE j + 1) \in 1 .. Len(fs) + 1
  BY <1>1
<1>5. ASSUME NEW A, NEW B, A = {i \in DOMAIN fs : fs[i].opened}, B = {i \in DOMAIN gs : gs[i].opened}
      PROVE  Cardinality(B) = Cardinality(A) + (IF g.opened THEN 1 ELSE 0)
  <2>1. A \in SUBSET (1 .. Len(fs)) /\ B \in SUBSET (1 .. Len(fs) + 1) /\ k + 1 \in 1 .. Len(fs) + 1
    BY <1>1, <1>2, <1>5
  <2>2. \A j \in 1 .. Len(fs) : j \in A <=> (IF j < k + 1 THEN j ELSE j + 1) \in B
    BY <1>1, <1>2, <1>3, <1>4, <1>5
  <2>3. k + 1 \in B <=> g.opened
    BY <1>2, <1>5, <2>1
  <2> DEFINE K == k + 1
             n == Len(fs)
  <2>4. n \in Nat /\ K \in 1 .. n + 1
    BY <1>1, <2>1
  <2>5. \A j \in 1 .. n : j \in A <=> (IF j < K THEN j ELSE j + 1) \in B
    BY <2>2
  <2>6. A \in SUBSET (1 .. n) /\ B \in SUBSET (1 .. n + 1)
    BY <2>1
  <2> HIDE DEF K, n
  <2>7. Cardinality(B) = Cardinality(A) + (IF K \in B THEN 1 ELSE 0)
    BY <2>4, <2>5, <2>6, ShiftCount
  <2> QED BY <2>3, <2>7 DEF K
<1>6. ASSUME NEW d, NEW A, NEW B, A = InDir(fs, d), B = InDir(gs, d)
      PROVE  Cardinality(B) = Cardinality(A) + (IF g.dir = d THEN 1 ELSE 0)
  <2>1. A \in SUBSET (1 .. Len(fs)) /\ B \in SUBSET (1 .. Len(fs) + 1) /\ k + 1 \in 1 .. Len(fs) + 1
    BY <1>1, <1>2, <1>6 DEF InDir
  <2>2. \A j \in 1 .. Len(fs) : j \in A <=> (IF j < k + 1 THEN j ELSE j + 1) \in B
    BY <1>1, <1>2, <1>3, <1>4, <1>6 DEF InDir
  <2>3. k + 1 \in B <=> g.dir = d
    BY <1>2, <1>6, <2>1 DEF InDir
  <2> DEFINE K == k + 1
             n == Len(fs)
  <2>4. n \in Nat /\ K \in 1 .. n + 1
    BY <1>1, <2>1
  <2>5. \A j \in 1 .. n : j \in A <=> (IF j < K THEN j ELSE j + 1) \in B
    BY <2>2
  <2>6. A \in SUBSET (1 .. n) /\ B \in SUBSET (1 .. n + 1)
    BY <2>1
  <2> HIDE DEF K, n
  <2>7. Cardinality(B) = Cardinality(A) + (IF K \in B THEN 1 ELSE 0)
    BY <2>4, <2>5, <2>6, ShiftCount
  <2> QED BY <2>3, <2>7 DEF K
<1> QED BY <1>5, <1>6

LEMMA RemoveShaped ==
  ASSUME NEW fs, Shaped(fs), NEW k \in 1 .. Len(fs) - 1, fs[k + 1].staging,
         NEW gs, gs = RemoveAt(fs, k + 1)
  PROVE  /\ Shaped(gs) /\ Len(gs) = Len(fs) - 1
         /\ \A j \in 1 .. k : gs[j] = fs[j]
         /\ \A j \in k + 1 .. Len(fs) - 1 : gs[j] = fs[j + 1]
         /\ \A j \in Reals(gs) : (j <= k /\ j \in Reals(fs)) \/ (j > k /\ j + 1 \in Reals(fs))
         /\ \A i \in Reals(fs) : (i <= k /\ i \in Reals(gs)) \/ (i > k + 1 /\ i - 1 \in Reals(gs))
<1>1. /\ DOMAIN fs = 1 .. Len(fs) /\ Len(fs) \in Nat \ {0} /\ fs \in Seq(Files)
      /\ \A i \in 1 .. Len(fs) : fs[i] \in Files
  BY Geometry DEF Shaped
<1>2. /\ gs \in Seq(Files) /\ Len(gs) = Len(fs) - 1 /\ DOMAIN gs = 1 .. Len(fs) - 1
      /\ \A j \in 1 .. k : gs[j] = fs[j]
      /\ \A j \in k + 1 .. Len(fs) - 1 : gs[j] = fs[j + 1]
  <2> DEFINE m == k + 1
             S == Files
  <2>1. m \in 1 .. Len(fs) /\ m - 1 = k /\ fs \in Seq(S)
    BY <1>1
  <2>2. gs = RemoveAt(fs, m)
    OBVIOUS
  <2> HIDE DEF m, S
  <2>3. /\ RemoveAt(fs, m) \in Seq(S) /\ Len(RemoveAt(fs, m)) = Len(fs) - 1
        /\ \A j \in 1 .. m - 1 : RemoveAt(fs, m)[j] = fs[j]
        /\ \A j \in m .. Len(fs) - 1 : RemoveAt(fs, m)[j] = fs[j + 1]
    BY <2>1, RemoveIs
  <2>4. /\ gs \in Seq(S) /\ Len(gs) = Len(fs) - 1
        /\ \A j \in 1 .. m - 1 : gs[j] = fs[j]
        /\ \A j \in m .. Len(fs) - 1 : gs[j] = fs[j + 1]
    BY <2>2, <2>3, Zenon
  <2>5. DOMAIN gs = 1 .. Len(fs) - 1
    BY <2>4
  <2> QED BY <2>1, <2>4, <2>5 DEF m, S
<1>3. \A i \in Reals(fs) : i \in 1 .. Len(fs)
  BY <1>1 DEF Reals
<1>4. ASSUME NEW j \in Reals(gs)
      PROVE  (j <= k /\ j \in Reals(fs) /\ gs[j] = fs[j]) \/ (j > k /\ j + 1 \in Reals(fs) /\ gs[j] = fs[j + 1])
  <2>1. j \in 1 .. Len(fs) - 1 /\ ~gs[j].staging
    BY <1>2 DEF Reals
  <2>2. CASE j <= k
    <3>1. j \in 1 .. k /\ j \in 1 .. Len(fs)
      BY <1>1, <2>1, <2>2
    <3>2. gs[j] = fs[j]
      BY <1>2, <3>1
    <3> QED BY <1>1, <2>1, <2>2, <3>1, <3>2 DEF Reals
  <2>3. CASE j > k
    <3>1. j \in k + 1 .. Len(fs) - 1 /\ j + 1 \in 1 .. Len(fs)
      BY <1>1, <2>1, <2>3
    <3>2. gs[j] = fs[j + 1]
      BY <1>2, <3>1
    <3> QED BY <1>1, <2>1, <2>3, <3>1, <3>2 DEF Reals
  <2> QED BY <2>1, <2>2, <2>3
<1>5. ASSUME NEW i \in Reals(fs)
      PROVE  (i <= k /\ i \in Reals(gs) /\ gs[i] = fs[i]) \/ (i > k + 1 /\ i - 1 \in Reals(gs) /\ gs[i - 1] = fs[i])
  <2>1. i \in 1 .. Len(fs) /\ ~fs[i].staging /\ i # k + 1
    BY <1>1 DEF Reals
  <2>2. CASE i <= k
    <3>1. i \in 1 .. k /\ i \in 1 .. Len(fs) - 1
      BY <1>1, <2>1, <2>2
    <3>2. gs[i] = fs[i]
      BY <1>2, <3>1
    <3> QED BY <1>2, <2>1, <2>2, <3>1, <3>2 DEF Reals
  <2>3. CASE i > k + 1
    <3>1. i - 1 \in k + 1 .. Len(fs) - 1 /\ i - 1 \in 1 .. Len(fs) - 1 /\ (i - 1) + 1 = i
      BY <1>1, <2>1, <2>3
    <3>2. gs[i - 1] = fs[i]
      BY <1>2, <3>1
    <3> QED BY <1>2, <2>1, <2>3, <3>1, <3>2 DEF Reals
  <2> QED BY <2>1, <2>2, <2>3
<1>6. {Extent(gs[i]) : i \in Reals(gs)} = RealSet
  <2>1. \A j \in Reals(gs) : \E i \in Reals(fs) : Extent(gs[j]) = Extent(fs[i])
    BY <1>4
  <2>2. \A i \in Reals(fs) : \E j \in Reals(gs) : Extent(gs[j]) = Extent(fs[i])
    BY <1>5
  <2>3. {Extent(fs[i]) : i \in Reals(fs)} = RealSet
    BY DEF Shaped
  <2> QED BY <2>1, <2>2, <2>3
<1>7. Ordered(gs)
  <2> SUFFICES ASSUME NEW i \in Reals(gs), NEW j \in 1 .. Len(fs) - 1, i < j
               PROVE  gs[i].offset <= gs[j].offset /\ (~gs[j].staging => gs[i].offset < gs[j].offset)
    BY <1>2 DEF Ordered
  <2>1. i \in 1 .. Len(fs) - 1
    BY <1>2 DEF Reals
  <2>2. PICK m \in Reals(fs) : gs[i] = fs[m] /\ ((i <= k /\ m = i) \/ (i > k /\ m = i + 1))
    BY <1>4
  <2>3. CASE j <= k
    <3>1. j \in 1 .. k /\ j \in 1 .. Len(fs) /\ m < j
      BY <1>1, <2>1, <2>2, <2>3
    <3>2. gs[j] = fs[j]
      BY <1>2, <3>1
    <3> QED BY <1>1, <2>2, <3>1, <3>2 DEF Shaped, Ordered
  <2>4. CASE j > k
    <3>1. j \in k + 1 .. Len(fs) - 1 /\ j + 1 \in 1 .. Len(fs) /\ m < j + 1
      BY <1>1, <2>1, <2>2, <2>4
    <3>2. gs[j] = fs[j + 1]
      BY <1>2, <3>1
    <3> QED BY <1>1, <2>2, <3>1, <3>2 DEF Shaped, Ordered
  <2> QED BY <1>1, <2>3, <2>4
<1>8. ~gs[1].staging /\ Len(gs) >= 1
  <2>1. 1 \in 1 .. k
    OBVIOUS
  <2>2. gs[1] = fs[1]
    BY <1>2, <2>1
  <2> QED BY <1>1, <1>2, <2>2 DEF Shaped
<1> QED BY <1>2, <1>4, <1>5, <1>6, <1>7, <1>8 DEF Shaped

LEMMA RemoveCount ==
  ASSUME NEW fs, Shaped(fs), NEW k \in 1 .. Len(fs) - 1, fs[k + 1].staging,
         NEW gs, gs = RemoveAt(fs, k + 1)
  PROVE  /\ Cardinality({i \in DOMAIN fs : fs[i].opened}) =
              Cardinality({i \in DOMAIN gs : gs[i].opened}) + (IF fs[k + 1].opened THEN 1 ELSE 0)
         /\ DirsLess(fs, k + 1, gs)
<1>1. /\ DOMAIN fs = 1 .. Len(fs) /\ Len(fs) \in Nat \ {0} /\ Shaped(gs)
      /\ Len(gs) = Len(fs) - 1 /\ DOMAIN gs = 1 .. Len(fs) - 1
      /\ \A j \in 1 .. k : gs[j] = fs[j]
      /\ \A j \in k + 1 .. Len(fs) - 1 : gs[j] = fs[j + 1]
  <2>1. DOMAIN fs = 1 .. Len(fs) /\ Len(fs) \in Nat \ {0}
    BY Geometry
  <2>2. /\ Shaped(gs) /\ Len(gs) = Len(fs) - 1
        /\ \A j \in 1 .. k : gs[j] = fs[j]
        /\ \A j \in k + 1 .. Len(fs) - 1 : gs[j] = fs[j + 1]
    BY RemoveShaped, ZenonT(60)
  <2>3. DOMAIN gs = 1 .. Len(gs)
    BY <2>2, Geometry
  <2> QED BY <2>1, <2>2, <2>3
<1> DEFINE K == k + 1
           n == Len(fs) - 1
<1>2. /\ n \in Nat /\ K \in 1 .. n + 1 /\ n + 1 = Len(fs)
      /\ DOMAIN fs = 1 .. n + 1 /\ DOMAIN gs = 1 .. n
  BY <1>1
<1>3. \A j \in 1 .. n : gs[j] = fs[IF j < K THEN j ELSE j + 1] /\ (IF j < K THEN j ELSE j + 1) \in 1 .. n + 1
  <2> TAKE j \in 1 .. n
  <2>1. CASE j < K
    <3>1. j \in 1 .. k
      BY <1>1, <2>1
    <3> QED BY <1>1, <2>1, <3>1
  <2>2. CASE ~(j < K)
    <3>1. j \in k + 1 .. Len(fs) - 1
      BY <1>1, <2>2
    <3> QED BY <1>1, <2>2, <3>1
  <2> QED BY <2>1, <2>2
<1>4. fs[K] = fs[k + 1]
  OBVIOUS
<1> HIDE DEF K, n
<1>5. ASSUME NEW A, NEW B, A = {i \in DOMAIN gs : gs[i].opened}, B = {i \in DOMAIN fs : fs[i].opened}
      PROVE  Cardinality(B) = Cardinality(A) + (IF fs[k + 1].opened THEN 1 ELSE 0)
  <2>1. A \in SUBSET (1 .. n) /\ B \in SUBSET (1 .. n + 1)
    BY <1>2, <1>5
  <2>2. \A j \in 1 .. n : j \in A <=> (IF j < K THEN j ELSE j + 1) \in B
    BY <1>2, <1>3, <1>5
  <2>3. K \in B <=> fs[k + 1].opened
    BY <1>2, <1>4, <1>5
  <2>4. Cardinality(B) = Cardinality(A) + (IF K \in B THEN 1 ELSE 0)
    BY <1>2, <2>1, <2>2, ShiftCount
  <2> QED BY <2>3, <2>4
<1>6. ASSUME NEW d, NEW A, NEW B, A = InDir(gs, d), B = InDir(fs, d)
      PROVE  Cardinality(B) = Cardinality(A) + (IF fs[k + 1].dir = d THEN 1 ELSE 0)
  <2>1. A \in SUBSET (1 .. n) /\ B \in SUBSET (1 .. n + 1)
    BY <1>2, <1>6 DEF InDir
  <2>2. \A j \in 1 .. n : j \in A <=> (IF j < K THEN j ELSE j + 1) \in B
    BY <1>2, <1>3, <1>6 DEF InDir
  <2>3. K \in B <=> fs[k + 1].dir = d
    BY <1>2, <1>4, <1>6 DEF InDir
  <2>4. Cardinality(B) = Cardinality(A) + (IF K \in B THEN 1 ELSE 0)
    BY <1>2, <2>1, <2>2, ShiftCount
  <2> QED BY <2>3, <2>4
<1> QED BY <1>5, <1>6, SMTT(60) DEF DirsLess

-----------------------------------------------------------------------------
(* Opening and closing.                                                    *)

LEMMA OpenedAsFacts ==
  ASSUME NEW f \in Files, NEW o \in BOOLEAN, NEW r \in BOOLEAN,
         NEW g, g = OpenedAs(f, o, r)
  PROVE  /\ g \in Files /\ Alike(f, g)
         /\ g.size = f.size /\ g.disk = f.disk /\ g.data = f.data /\ (g.opened <=> o) /\ (g.readonly <=> r)
<1> DEFINE D == Cells \cup {NoDir}
<1>1. f \in [offset : Cells, length : Nat, size : Nat, disk : Int, data : Bytes,
              staging : BOOLEAN, dir : D, opened : BOOLEAN, readonly : BOOLEAN]
  BY DEF Files, Recs, Bytes
<1> HIDE DEF D
<1>2. /\ g \in [offset : Cells, length : Nat, size : Nat, disk : Int, data : Bytes,
                 staging : BOOLEAN, dir : D, opened : BOOLEAN, readonly : BOOLEAN]
      /\ g.offset = f.offset /\ g.length = f.length /\ g.staging = f.staging /\ g.dir = f.dir
      /\ g.size = f.size /\ g.disk = f.disk /\ g.data = f.data /\ (g.opened <=> o) /\ (g.readonly <=> r)
  BY <1>1 DEF OpenedAs
<1>3. g \in Recs
  BY <1>2 DEF Recs, Bytes, D
<1>4. f.offset + f.size <= Total /\ -1 <= f.disk /\ f.offset + f.disk <= Total
  BY DEF Files, End
<1> QED BY <1>2, <1>3, <1>4 DEF Files, End, Alike

LEMMA StoredAsFacts ==
  ASSUME NEW f \in Files, NEW d \in Int, NEW b \in Bytes,
         -1 <= d, f.offset + d <= Total, NEW g, g = StoredAs(f, d, b)
  PROVE  /\ g \in Files /\ Alike(f, g)
         /\ g.size = f.size /\ g.disk = d /\ g.data = b /\ (g.opened <=> f.opened) /\ (g.readonly <=> f.readonly)
<1> DEFINE D == Cells \cup {NoDir}
<1>1. f \in [offset : Cells, length : Nat, size : Nat, disk : Int, data : Bytes,
              staging : BOOLEAN, dir : D, opened : BOOLEAN, readonly : BOOLEAN]
  BY DEF Files, Recs, Bytes
<1> HIDE DEF D
<1>2. /\ g \in [offset : Cells, length : Nat, size : Nat, disk : Int, data : Bytes,
                 staging : BOOLEAN, dir : D, opened : BOOLEAN, readonly : BOOLEAN]
      /\ g.offset = f.offset /\ g.length = f.length /\ g.staging = f.staging /\ g.dir = f.dir
      /\ g.size = f.size /\ g.disk = d /\ g.data = b /\ (g.opened <=> f.opened) /\ (g.readonly <=> f.readonly)
  BY <1>1 DEF StoredAs
<1>3. g \in Recs
  BY <1>2 DEF Recs, Bytes, D
<1>4. f.offset + f.size <= Total /\ -1 <= f.disk /\ f.offset + f.disk <= Total
  BY DEF Files, End
<1> QED BY <1>2, <1>3, <1>4 DEF Files, End, Alike

LEMMA GrownToFacts ==
  ASSUME NEW f \in Files, NEW n \in Nat, NEW d \in Int, NEW b \in Bytes,
         f.offset + n <= Total, -1 <= d, f.offset + d <= Total, NEW g, g = GrownTo(f, n, d, b)
  PROVE  /\ g \in Files /\ Alike(f, g)
         /\ g.size = n /\ g.disk = d /\ g.data = b /\ (g.opened <=> f.opened) /\ (g.readonly <=> f.readonly)
<1> DEFINE D == Cells \cup {NoDir}
<1>1. f \in [offset : Cells, length : Nat, size : Nat, disk : Int, data : Bytes,
              staging : BOOLEAN, dir : D, opened : BOOLEAN, readonly : BOOLEAN]
  BY DEF Files, Recs, Bytes
<1> HIDE DEF D
<1>2. /\ g \in [offset : Cells, length : Nat, size : Nat, disk : Int, data : Bytes,
                 staging : BOOLEAN, dir : D, opened : BOOLEAN, readonly : BOOLEAN]
      /\ g.offset = f.offset /\ g.length = f.length /\ g.staging = f.staging /\ g.dir = f.dir
      /\ g.size = n /\ g.disk = d /\ g.data = b /\ (g.opened <=> f.opened) /\ (g.readonly <=> f.readonly)
  BY <1>1 DEF GrownTo
<1>3. g \in Recs
  BY <1>2 DEF Recs, Bytes, D
<1>4. f.offset + f.size <= Total /\ -1 <= f.disk /\ f.offset + f.disk <= Total
  BY DEF Files, End
<1> QED BY <1>2, <1>3, <1>4 DEF Files, End, Alike

LEMMA FoundAsFacts ==
  ASSUME NEW f \in Files, NEW n \in Nat, NEW o \in BOOLEAN, NEW r \in BOOLEAN,
         f.offset + n <= Total, NEW g, g = FoundAs(f, n, o, r)
  PROVE  /\ g \in Files /\ Alike(f, g)
         /\ g.size = n /\ g.disk = f.disk /\ g.data = f.data /\ (g.opened <=> o) /\ (g.readonly <=> r)
<1> DEFINE D == Cells \cup {NoDir}
<1>1. f \in [offset : Cells, length : Nat, size : Nat, disk : Int, data : Bytes,
              staging : BOOLEAN, dir : D, opened : BOOLEAN, readonly : BOOLEAN]
  BY DEF Files, Recs, Bytes
<1> HIDE DEF D
<1>2. /\ g \in [offset : Cells, length : Nat, size : Nat, disk : Int, data : Bytes,
                 staging : BOOLEAN, dir : D, opened : BOOLEAN, readonly : BOOLEAN]
      /\ g.offset = f.offset /\ g.length = f.length /\ g.staging = f.staging /\ g.dir = f.dir
      /\ g.size = n /\ g.disk = f.disk /\ g.data = f.data /\ (g.opened <=> o) /\ (g.readonly <=> r)
  BY <1>1 DEF FoundAs
<1>3. g \in Recs
  BY <1>2 DEF Recs, Bytes, D
<1>4. f.offset + f.size <= Total /\ -1 <= f.disk /\ f.offset + f.disk <= Total
  BY DEF Files, End
<1> QED BY <1>2, <1>3, <1>4 DEF Files, End, Alike

\* One entry is rewritten.
LEMMA ChangeOne ==
  ASSUME NEW fs, Shaped(fs), NEW i \in 1 .. Len(fs), NEW g \in Files, Alike(fs[i], g),
         NEW gs, gs = [fs EXCEPT ![i] = g]
  PROVE  /\ Rewritten(fs, gs) /\ Shaped(gs)
         /\ DOMAIN gs = 1 .. Len(fs) /\ gs[i] = g /\ \A j \in 1 .. Len(fs) : j # i => gs[j] = fs[j]
         /\ Cardinality(Opened(gs)) =
              Cardinality(Opened(fs)) + (IF g.opened THEN 1 ELSE 0) - (IF fs[i].opened THEN 1 ELSE 0)
         /\ Cardinality(Opened(fs)) \in Nat
<1>1. fs \in Seq(Files) /\ DOMAIN fs = 1 .. Len(fs) /\ Len(fs) \in Nat /\ \A j \in 1 .. Len(fs) : fs[j] \in Files
  BY Geometry DEF Shaped
<1>2. /\ gs \in Seq(Files) /\ Len(gs) = Len(fs) /\ DOMAIN gs = 1 .. Len(fs)
      /\ gs[i] = g /\ \A j \in 1 .. Len(fs) : j # i => gs[j] = fs[j]
  BY <1>1
<1>3. Rewritten(fs, gs)
  BY <1>1, <1>2 DEF Rewritten, Alike
<1>4. Shaped(gs)
  BY <1>3, RewrittenShaped
<1>5. IsFiniteSet(Opened(fs)) /\ IsFiniteSet(Opened(gs)) /\ Cardinality(Opened(fs)) \in Nat
  <2>1. Opened(fs) \subseteq 1 .. Len(fs) /\ Opened(gs) \subseteq 1 .. Len(fs)
    BY <1>1, <1>2 DEF Opened
  <2>3. IsFiniteSet(1 .. Len(fs))
    BY <1>1, FS_Interval
  <2>2. IsFiniteSet(Opened(fs)) /\ IsFiniteSet(Opened(gs))
    BY <2>1, <2>3, FS_Subset
  <2> QED BY <2>2, FS_CardinalityType
<1>6. g.opened \in BOOLEAN /\ fs[i].opened \in BOOLEAN
  BY <1>1, FileFacts
<1>7. CASE g.opened = fs[i].opened
  <2>1. Opened(gs) = Opened(fs)
    BY <1>1, <1>2, <1>7 DEF Opened
  <2> QED BY <1>2, <1>3, <1>4, <1>5, <1>7, <2>1
<1>8. CASE g.opened /\ ~fs[i].opened
  <2>1. Opened(gs) = Opened(fs) \cup {i} /\ i \notin Opened(fs)
    BY <1>1, <1>2, <1>8 DEF Opened
  <2>2. Cardinality(Opened(gs)) = Cardinality(Opened(fs)) + 1
    BY <1>5, <2>1, FS_AddElement
  <2> QED BY <1>2, <1>3, <1>4, <1>5, <1>8, <2>2
<1>9. CASE ~g.opened /\ fs[i].opened
  <2>1. Opened(gs) = Opened(fs) \ {i} /\ i \in Opened(fs)
    BY <1>1, <1>2, <1>9 DEF Opened
  <2>2. Cardinality(Opened(gs)) = Cardinality(Opened(fs)) - 1
    BY <1>5, <2>1, FS_RemoveElement
  <2> QED BY <1>2, <1>3, <1>4, <1>5, <1>9, <2>2
<1> QED BY <1>6, <1>7, <1>8, <1>9

LEMMA GoodFacts ==
  ASSUME NEW s, Good(s)
  PROVE  /\ s \in States /\ Shaped(s.f) /\ s.f \in Seq(Files) /\ DOMAIN s.f = 1 .. Len(s.f)
         /\ Len(s.f) \in Nat \ {0} /\ \A i \in 1 .. Len(s.f) : s.f[i] \in Files
         /\ s.n \in Nat /\ s.n <= MaxOpen + 1 /\ s.r \in Nat /\ MaxOpen \in Nat
<1>1. s \in States /\ Shaped(s.f)
  BY DEF Good
<1>2. s.f \in Seq(Files) /\ DOMAIN s.f = 1 .. Len(s.f) /\ Len(s.f) \in Nat \ {0} /\ \A i \in 1 .. Len(s.f) : s.f[i] \in Files
  BY <1>1, Geometry DEF Shaped
<1>3. s.n \in Nat
  <2>1. Opened(s.f) \subseteq 1 .. Len(s.f) /\ IsFiniteSet(1 .. Len(s.f))
    BY <1>2, FS_Interval DEF Opened
  <2>2. Cardinality(Opened(s.f)) \in Nat
    BY <2>1, FS_Subset, FS_CardinalityType
  <2> QED BY <2>2 DEF Good
<1>4. s.r \in Nat
  BY <1>1 DEF States
<1> QED BY <1>1, <1>2, <1>3, <1>4, StagingAssumption DEF Good, StagingAssumption

LEMMA OpensTransitive ==
  ASSUME NEW s, Good(s), NEW t, Opens(s, t), NEW u, Opens(t, u)
  PROVE  Opens(s, u)
<1>1. Good(t) /\ Good(u) /\ Len(t.f) = Len(s.f) /\ Len(u.f) = Len(s.f) /\ u.f \in Seq(Files)
  BY DEF Opens, Rewritten
<1>2. \A i \in 1 .. Len(s.f) : Same(s.f[i], t.f[i]) /\ Same(t.f[i], u.f[i])
  BY <1>1 DEF Opens
<1>3. \A i \in 1 .. Len(s.f) : Same(s.f[i], u.f[i])
  BY <1>2 DEF Same, Alike
<1> QED BY <1>1, <1>3 DEF Opens, Rewritten, Same

LEMMA OpensItself ==
  ASSUME NEW s, Good(s)
  PROVE  Opens(s, s)
BY GoodFacts DEF Opens, Rewritten, Same, Alike

LEMMA CloseFacts ==
  ASSUME NEW s, Good(s), NEW i \in 1 .. Len(s.f), NEW t, t = Close(s, i)
  PROVE  /\ Opens(s, t) /\ t.r = s.r /\ t.n = s.n - (IF s.f[i].opened THEN 1 ELSE 0)
         /\ ~t.f[i].opened
         /\ t.f[i].data = s.f[i].data /\ t.f[i].disk = s.f[i].disk
         /\ \A j \in 1 .. Len(s.f) : j # i => t.f[j] = s.f[j]
<1>1. /\ s \in States /\ Shaped(s.f) /\ s.f \in Seq(Files) /\ DOMAIN s.f = 1 .. Len(s.f)
      /\ Len(s.f) \in Nat \ {0} /\ s.f[i] \in Files
      /\ s.n \in Nat /\ s.n <= MaxOpen + 1 /\ s.r \in Nat /\ MaxOpen \in Nat
  BY GoodFacts
<1>2. CASE ~s.f[i].opened
  <2>1. t = s
    BY <1>2 DEF Close
  <2> QED BY <1>1, <1>2, <2>1, OpensItself
<1>3. CASE s.f[i].opened
  <2> DEFINE g == [s.f[i] EXCEPT !.opened = FALSE, !.readonly = FALSE]
  <2>1. t = [s EXCEPT !.f = [s.f EXCEPT ![i] = g], !.n = s.n - 1]
    BY <1>1, <1>3 DEF Close, States
  <2>2. /\ g \in Files /\ Alike(s.f[i], g) /\ ~g.opened /\ Same(s.f[i], g)
        /\ g.data = s.f[i].data /\ g.disk = s.f[i].disk
    <3> DEFINE f == s.f[i]
               h == [f EXCEPT !.opened = FALSE, !.readonly = FALSE]
    <3>1. f \in Files /\ FALSE \in BOOLEAN
      BY <1>1
    <3>2. g = h /\ h = OpenedAs(f, FALSE, FALSE)
      BY DEF OpenedAs
    <3> HIDE DEF f, g, h
    <3>3. h \in Files /\ Alike(f, h) /\ ~h.opened /\ h.size = f.size /\ h.data = f.data /\ h.disk = f.disk
      BY <3>1, <3>2, OpenedAsFacts
    <3> QED BY <3>2, <3>3 DEF f, Same
  <2> HIDE DEF g
  <2> DEFINE gs == [s.f EXCEPT ![i] = g]
  <2>7. t = [s EXCEPT !.f = gs, !.n = s.n - 1]
    BY <2>1
  <2>3. /\ Rewritten(s.f, gs) /\ Shaped(gs)
        /\ gs[i] = g /\ \A j \in 1 .. Len(s.f) : j # i => gs[j] = s.f[j]
        /\ Cardinality(Opened(gs)) = Cardinality(Opened(s.f)) - 1
    BY <1>1, <1>3, <2>2, ChangeOne, SMTT(60)
  <2> HIDE DEF gs
  <2>4. t.f = gs /\ t.n = s.n - 1 /\ t.r = s.r /\ t \in States
    <3>1. gs \in Seq(Files) /\ s.n - 1 \in Int
      BY <1>1, <2>3 DEF Rewritten
    <3> HIDE DEF Files
    <3> QED BY <1>1, <2>7, <3>1 DEF States
  <2>5. Good(t)
    BY <1>1, <2>3, <2>4 DEF Good
  <2>6. \A j \in 1 .. Len(s.f) : Same(s.f[j], t.f[j])
    BY <2>2, <2>3, <2>4 DEF Same, Alike
  <2> QED BY <1>3, <2>2, <2>3, <2>4, <2>5, <2>6 DEF Opens
<1>4. s.f[i].opened \in BOOLEAN
  BY <1>1, FileFacts
<1> QED BY <1>2, <1>3

LEMMA OldestFacts ==
  ASSUME NEW s, Good(s), NEW keep, NEW t \in CloseOldest(s, keep)
  PROVE  /\ Opens(s, t) /\ t.r = s.r /\ t.n = s.n - 1
         /\ \A j \in 1 .. Len(s.f) : t.f[j] = s.f[j] \/ ~t.f[j].opened
         /\ keep \in 1 .. Len(s.f) => t.f[keep] = s.f[keep]
<1>1. DOMAIN s.f = 1 .. Len(s.f)
  BY GoodFacts
<1>2. PICK i \in 1 .. Len(s.f) : i # keep /\ s.f[i].opened /\ t = Close(s, i)
  BY <1>1 DEF CloseOldest
<1>3. /\ Opens(s, t) /\ t.r = s.r /\ t.n = s.n - (IF s.f[i].opened THEN 1 ELSE 0)
      /\ ~t.f[i].opened
      /\ \A j \in 1 .. Len(s.f) : j # i => t.f[j] = s.f[j]
  BY <1>2, CloseFacts
<1> QED BY <1>2, <1>3

LEMMA FopenFacts ==
  ASSUME NEW s, Good(s), NEW i \in 1 .. Len(s.f), ~s.f[i].opened, s.n <= MaxOpen, NEW write \in BOOLEAN,
         NEW t, t = Fopen(s, i, write)
  PROVE  /\ Opens(s, t) /\ t.r = s.r /\ Usable(t.f[i], write)
         /\ \A j \in 1 .. Len(s.f) : j # i => t.f[j] = s.f[j]
<1>1. /\ s \in States /\ Shaped(s.f) /\ s.f \in Seq(Files) /\ DOMAIN s.f = 1 .. Len(s.f)
      /\ Len(s.f) \in Nat \ {0} /\ s.f[i] \in Files
      /\ s.n \in Nat /\ s.n <= MaxOpen + 1 /\ s.r \in Nat /\ MaxOpen \in Nat
  BY GoodFacts
<1> DEFINE f == s.f[i]
           h == [f EXCEPT !.opened = TRUE, !.readonly = ~write]
           g == IF write /\ f.size = 0 THEN [h EXCEPT !.disk = 0, !.data = [c \in Cells |-> Unknown]] ELSE h
<1>2. t = [s EXCEPT !.f = [s.f EXCEPT ![i] = g], !.n = s.n + 1]
  BY <1>1 DEF Fopen, States
<1> HIDE DEF f
<1>0. f \in Files
  BY <1>1 DEF f
<1>3. /\ f.offset \in 0 .. Total - 1 /\ f.size \in Nat /\ Total \in Nat /\ f.disk \in Int /\ f.data \in Bytes
      /\ f.offset + f.size <= Total /\ -1 <= f.disk /\ f.offset + f.disk <= Total
  BY <1>0, FileFacts DEF Bytes
<1>4. /\ g \in Files /\ Alike(f, g) /\ g.opened /\ (g.readonly <=> ~write) /\ Same(f, g)
  <2> DEFINE e == [c \in Cells |-> Unknown]
             ro == ~write
  <2>1. e \in Bytes /\ ro \in BOOLEAN /\ TRUE \in BOOLEAN /\ 0 \in Int /\ -1 <= 0 /\ f.offset + 0 <= Total
    BY <1>3 DEF Bytes
  <2>2. h = OpenedAs(f, TRUE, ro)
    BY DEF OpenedAs
  <2> HIDE DEF h, e, ro
  <2>6. TRUE \in BOOLEAN /\ ro \in BOOLEAN
    BY <2>1
  <2>3. /\ h \in Files /\ Alike(f, h) /\ h.opened /\ (h.readonly <=> ro) /\ h.size = f.size
        /\ h.data = f.data /\ h.disk = f.disk
    BY <1>0, <2>2, <2>6, OpenedAsFacts, ZenonT(60)
  <2>4. CASE write /\ f.size = 0
    <3> DEFINE g1 == [h EXCEPT !.disk = 0, !.data = e]
    <3>1. h.offset + 0 <= Total /\ g = g1 /\ g1 = StoredAs(h, 0, e)
      BY <1>3, <2>1, <2>3, <2>4 DEF Alike, e, StoredAs
    <3> HIDE DEF g, g1
    <3>2. /\ g1 \in Files /\ Alike(h, g1) /\ (g1.opened <=> h.opened) /\ (g1.readonly <=> h.readonly) /\ g1.size = h.size
          /\ g1.disk = 0 /\ g1.data = e
      BY <2>1, <2>3, <3>1, StoredAsFacts
    <3>3. Alike(f, g1) /\ g1.size = f.size
      BY <2>3, <3>2 DEF Alike
    <3>4. \A c \in Cells : g1.data[c] = Unknown
      BY <3>2 DEF e
    <3>5. Same(f, g1)
      BY <2>4, <3>2, <3>3, <3>4 DEF Same
    <3> QED BY <2>3, <3>1, <3>2, <3>3, <3>5 DEF ro
  <2>5. CASE ~(write /\ f.size = 0)
    <3>1. g = h
      BY <2>5
    <3> QED BY <2>3, <3>1 DEF Same, ro
  <2> QED BY <2>4, <2>5
<1> HIDE DEF g
<1> DEFINE gs == [s.f EXCEPT ![i] = g]
<1>9. t = [s EXCEPT !.f = gs, !.n = s.n + 1]
  BY <1>2
<1>5. /\ Rewritten(s.f, gs) /\ Shaped(gs)
      /\ gs[i] = g /\ \A j \in 1 .. Len(s.f) : j # i => gs[j] = s.f[j]
      /\ Cardinality(Opened(gs)) = Cardinality(Opened(s.f)) + 1
  BY <1>1, <1>4, ChangeOne, SMTT(60) DEF f
<1> HIDE DEF gs
<1>6. t.f = gs /\ t.n = s.n + 1 /\ t.r = s.r /\ t \in States
  <2>1. gs \in Seq(Files) /\ s.n + 1 \in Int
    BY <1>1, <1>5 DEF Rewritten
  <2> HIDE DEF Files
  <2> QED BY <1>1, <1>9, <2>1 DEF States
<1>7. Good(t)
  BY <1>1, <1>5, <1>6 DEF Good
<1>8. \A j \in 1 .. Len(s.f) : Same(s.f[j], t.f[j])
  BY <1>4, <1>5, <1>6 DEF Same, Alike, f
<1>10. Usable(t.f[i], write)
  BY <1>4, <1>5, <1>6 DEF Usable
<1> QED BY <1>5, <1>6, <1>7, <1>8, <1>10 DEF Opens

LEMMA RefusedFacts ==
  ASSUME NEW s, Good(s), s.r # 0, NEW t, t = Refused(s)
  PROVE  Opens(s, t) /\ t.f = s.f /\ t.n = s.n /\ t.r = s.r - 1
<1>1. s \in States /\ s.r \in Nat
  BY GoodFacts
<1>2. t \in States /\ t.f = s.f /\ t.n = s.n /\ t.r = s.r - 1
  <2> HIDE DEF Files
  <2> QED BY <1>1 DEF Refused, States
<1>3. Good(t)
  BY <1>2 DEF Good
<1> QED BY <1>2, <1>3, OpensItself DEF Opens

\* Whatever an open comes to, the list and the count agree, a file that is kept stays as it was,
\* and no byte is changed.
LEMMA OpenFacts ==
  ASSUME NEW s, Good(s), NEW i \in 1 .. Len(s.f), NEW write \in BOOLEAN, NEW keep,
         NEW r \in Open(s, i, write, keep)
  PROVE  /\ Opens(s, r.s) /\ r.s.r <= s.r /\ r.ok \in BOOLEAN
         /\ r.ok => Usable(r.s.f[i], write)
         /\ keep \in 1 .. Len(s.f) /\ keep # i => r.s.f[keep] = s.f[keep]
<1> DEFINE shut == Close(s, i)
           room == IF shut.n >= MaxOpen THEN CloseOldest(shut, keep) ELSE {shut}
           done == {[s |-> Fopen(t, i, write), ok |-> TRUE] : t \in room}
           emf  == UNION {CloseOldest(Refused(t), keep) : t \in room}
           Result(q) == /\ Opens(s, q.s) /\ q.s.r <= s.r /\ q.ok \in BOOLEAN
                        /\ q.ok => Usable(q.s.f[i], write)
                        /\ keep \in 1 .. Len(s.f) /\ keep # i => q.s.f[keep] = s.f[keep]
<1>1. s.n \in Nat /\ s.r \in Nat /\ MaxOpen \in Nat /\ s.n <= MaxOpen + 1
  BY GoodFacts
<1>2. /\ Opens(s, shut) /\ ~shut.f[i].opened /\ shut.r = s.r /\ shut.n <= s.n
      /\ \A j \in 1 .. Len(s.f) : j # i => shut.f[j] = s.f[j]
  <2>1. /\ Opens(s, shut) /\ ~shut.f[i].opened /\ shut.r = s.r
        /\ shut.n = s.n - (IF s.f[i].opened THEN 1 ELSE 0)
        /\ \A j \in 1 .. Len(s.f) : j # i => shut.f[j] = s.f[j]
    BY CloseFacts
  <2> QED BY <1>1, <2>1
<1>3. Good(shut) /\ Len(shut.f) = Len(s.f) /\ shut.n \in Nat /\ shut.n <= MaxOpen + 1
  <2>1. Good(shut) /\ Len(shut.f) = Len(s.f)
    BY <1>2 DEF Opens, Rewritten
  <2> QED BY <2>1, GoodFacts
<1> HIDE DEF shut
<1>4. ASSUME NEW t \in room
      PROVE  Room(s, i, keep, t) /\ Good(t) /\ Len(t.f) = Len(s.f) /\ t.n \in Nat /\ t.r = s.r
  <2>1. CASE shut.n >= MaxOpen
    <3>1. t \in CloseOldest(shut, keep)
      BY <2>1
    <3>2. /\ Opens(shut, t) /\ t.r = shut.r /\ t.n = shut.n - 1
          /\ \A j \in 1 .. Len(shut.f) : t.f[j] = shut.f[j] \/ ~t.f[j].opened
          /\ keep \in 1 .. Len(shut.f) => t.f[keep] = shut.f[keep]
      BY <1>3, <3>1, OldestFacts
    <3>3. Opens(s, t)
      BY <1>2, <3>2, OpensTransitive
    <3>4. Good(t) /\ Len(t.f) = Len(s.f)
      BY <3>3 DEF Opens, Rewritten
    <3>5. t.n \in Nat
      BY <3>4, GoodFacts
    <3> QED BY <1>1, <1>2, <1>3, <3>2, <3>3, <3>4, <3>5, SMTT(60) DEF Room
  <2>2. CASE ~(shut.n >= MaxOpen)
    <3>1. t = shut
      BY <2>2
    <3> QED BY <1>1, <1>2, <1>3, <2>2, <3>1, SMTT(60) DEF Room
  <2> QED BY <2>1, <2>2
<1> HIDE DEF room
<1>5. ASSUME NEW t, Room(s, i, keep, t), NEW q, q = [s |-> Fopen(t, i, write), ok |-> TRUE]
      PROVE  Result(q)
  <2> DEFINE u == Fopen(t, i, write)
  <2>1. Good(t) /\ Len(t.f) = Len(s.f) /\ ~t.f[i].opened /\ t.n <= MaxOpen /\ Opens(s, t) /\ t.r <= s.r
    BY <1>5 DEF Room, Opens, Rewritten
  <2>2. i \in 1 .. Len(t.f)
    BY <2>1
  <2>3. /\ Opens(t, u) /\ u.r = t.r /\ Usable(u.f[i], write)
        /\ \A j \in 1 .. Len(t.f) : j # i => u.f[j] = t.f[j]
    BY <2>1, <2>2, FopenFacts
  <2>4. q.s = u /\ q.ok = TRUE
    BY <1>5
  <2> HIDE DEF u
  <2>5. Opens(s, u)
    BY <2>1, <2>3, OpensTransitive
  <2> QED BY <1>5, <2>1, <2>3, <2>4, <2>5 DEF Room
<1>6. ASSUME NEW t, Room(s, i, keep, t), NEW q, q = [s |-> t, ok |-> FALSE]
      PROVE  Result(q)
  <2>1. q.s = t /\ q.ok = FALSE
    BY <1>6
  <2> QED BY <1>6, <2>1 DEF Room
<1>7. ASSUME s.r # 0, NEW t \in room
      PROVE  Room(s, i, keep, Refused(t))
  <2> DEFINE u == Refused(t)
  <2>1. Room(s, i, keep, t) /\ Good(t) /\ t.r = s.r /\ Opens(s, t)
    BY <1>4 DEF Room
  <2>2. Opens(t, u) /\ u.f = t.f /\ u.n = t.n /\ u.r = t.r - 1
    BY <1>7, <2>1, RefusedFacts
  <2> HIDE DEF u
  <2>3. Opens(s, u)
    BY <2>1, <2>2, OpensTransitive
  <2>4. Room(s, i, keep, u)
    BY <1>1, <2>1, <2>2, <2>3 DEF Room
  <2> QED BY <2>4 DEF u
<1>8. ASSUME s.r # 0, NEW t \in emf
      PROVE  Room(s, i, keep, t)
  <2>1. PICK v \in room : t \in CloseOldest(Refused(v), keep)
    BY <1>8
  <2> DEFINE u == Refused(v)
  <2>2. Room(s, i, keep, u) /\ t \in CloseOldest(u, keep)
    BY <1>7, <1>8, <2>1
  <2> HIDE DEF u
  <2>3. Good(u) /\ Len(u.f) = Len(s.f) /\ Opens(s, u) /\ u.n <= MaxOpen /\ u.r <= s.r /\ ~u.f[i].opened
    BY <2>2 DEF Room, Opens, Rewritten
  <2>4. u.n \in Nat /\ u.r \in Nat
    BY <2>3, GoodFacts
  <2>5. /\ Opens(u, t) /\ t.r = u.r /\ t.n = u.n - 1
        /\ \A j \in 1 .. Len(u.f) : t.f[j] = u.f[j] \/ ~t.f[j].opened
        /\ keep \in 1 .. Len(u.f) => t.f[keep] = u.f[keep]
    BY <2>2, <2>3, OldestFacts
  <2>6. Opens(s, t)
    BY <2>3, <2>5, OpensTransitive
  <2> QED BY <1>1, <2>2, <2>3, <2>4, <2>5, <2>6, SMTT(60) DEF Room
<1> HIDE DEF emf, Result
<1>9. CASE Usable(s.f[i], write)
  <2>1. r = [s |-> s, ok |-> TRUE]
    BY <1>9 DEF Open
  <2>2. r.s = s /\ r.ok = TRUE
    BY <2>1
  <2>3. s.r <= s.r
    BY <1>1
  <2> QED BY <1>9, <2>2, <2>3, OpensItself
<1>10. CASE ~Usable(s.f[i], write)
  <2>1. \/ \E t \in room : r = [s |-> t, ok |-> FALSE]
        \/ \E t \in room : r = [s |-> Fopen(t, i, write), ok |-> TRUE]
        \/ s.r # 0 /\ \E t \in room : r = [s |-> Refused(t), ok |-> FALSE]
        \/ s.r # 0 /\ \E t \in emf : r = [s |-> t, ok |-> FALSE]
        \/ s.r # 0 /\ \E t \in emf : r = [s |-> Fopen(t, i, write), ok |-> TRUE]
    BY <1>10, Zenon DEF Open, room, emf, shut
  <2>2. Result(r)
    BY <1>4, <1>5, <1>6, <1>7, <1>8, <2>1
  <2> QED BY <2>2 DEF Result
<1> QED BY <1>9, <1>10

-----------------------------------------------------------------------------
(* The search for the file of a byte.                                      *)

LEMMA MinIs ==
  ASSUME NEW T \in SUBSET Nat, T # {}
  PROVE  Min(T) \in T /\ \A m \in T : Min(T) <= m
BY LeastNumber DEF Min

LEMMA MaxIs ==
  ASSUME NEW L \in Nat, NEW T \in SUBSET (0 .. L), T # {}
  PROVE  Max(T) \in T /\ \A m \in T : m <= Max(T)
<1> DEFINE U == {n \in Nat : n <= L /\ L - n \in T}
<1>1. U # {}
  <2>1. PICK m \in T : TRUE OBVIOUS
  <2>2. L - m \in U
    BY <2>1
  <2> QED BY <2>2
<1>2. PICK n \in U : \A m \in U : n <= m
  BY <1>1, LeastNumber
<1>3. L - n \in T /\ \A m \in T : m <= L - n
  <2>1. ASSUME NEW m \in T
        PROVE  m <= L - n
    <3>1. L - m \in Nat /\ L - (L - m) = m /\ L - m <= L
      OBVIOUS
    <3>2. L - m \in U
      BY <3>1
    <3> QED BY <1>2, <3>2, SMTT(60)
  <2> QED BY <1>2, <2>1
<1>4. \E x \in T : \A y \in T : x >= y
  BY <1>3
<1>5. Max(T) \in T /\ \A y \in T : Max(T) >= y
  BY <1>4 DEF Max
<1> QED BY <1>5

\* What the search found: the file with the byte, or the one that ends before it; none of those
\* before has a byte that is read from here on.
LEMMA SearchFacts ==
  ASSUME NEW fs, Shaped(fs), NEW off \in Cells, NEW write \in BOOLEAN, NEW p, p = FindFirst(fs, off, write)
  PROVE  /\ p.at \in 1 .. Len(fs) /\ p.null \in BOOLEAN
         /\ ~p.null => Takes(fs[p.at], off, write)
         /\ p.null => ~Takes(fs[p.at], off, write)
         /\ fs[p.at].offset <= off
         /\ \A i \in Reals(fs) : i <= p.at => fs[i].offset <= off
         /\ \A i \in Reals(fs) : i < p.at => ~Takes(fs[i], off, write)
         /\ \A i \in 1 .. Len(fs), c \in Cells :
              ~write /\ off <= c /\ (i < p.at \/ (p.null /\ i = p.at)) => ~Holds(fs, i, c)
         /\ ~write /\ p.null => \E stop \in 1 .. Len(fs) + 1 : Stops(fs, off, stop)
<1>1. /\ Len(fs) \in Nat \ {0} /\ DOMAIN fs = 1 .. Len(fs) /\ 1 \in Reals(fs)
      /\ \A i \in 1 .. Len(fs) : fs[i] \in Files
      /\ off \in Nat /\ off < Total /\ Total \in Nat
  BY Geometry, Extents
<1>2. \A i \in 1 .. Len(fs) : /\ fs[i].offset \in Nat /\ fs[i].size \in Nat /\ fs[i].length \in Nat
                              /\ End(fs[i]) = fs[i].offset + fs[i].size
  BY <1>1, FileFacts
<1> DEFINE seen  == {i \in DOMAIN fs : ~PassedOver(fs, i, off)}
           stops == {i \in seen : Takes(fs[i], off, write) \/ off < fs[i].offset} \cup {Len(fs) + 1}
           stop  == Min(stops)
           back  == {i \in seen : i < stop} \cup {0}
           at    == Max(back)
<1>3. p = IF stop <= Len(fs) /\ Takes(fs[stop], off, write) THEN [at |-> stop, null |-> FALSE]
          ELSE [at |-> at, null |-> TRUE]
  BY DEF FindFirst
<1>4. stop \in stops /\ \A m \in stops : stop <= m
  <2>1. stops \in SUBSET Nat /\ stops # {}
    BY <1>1
  <2> HIDE DEF stops
  <2> QED BY <2>1, MinIs
<1> HIDE DEF stop
<1>5. at \in back /\ \A m \in back : m <= at
  <2>1. back \in SUBSET (0 .. Len(fs)) /\ back # {}
    BY <1>1
  <2> HIDE DEF back
  <2> QED BY <1>1, <2>1, MaxIs
<1> HIDE DEF at
<1>6. fs[1].offset = 0
  <2>1. PICK i \in Reals(fs) : fs[i].offset <= 0 /\ 0 < fs[i].offset + fs[i].length
    <3>1. 0 \in Cells
      BY <1>1, Extents
    <3> QED BY <3>1, Geometry
  <2>2. i \in 1 .. Len(fs)
    BY <1>1 DEF Reals
  <2>3. i = 1 \/ 1 < i
    BY <2>2
  <2>4. CASE 1 < i
    <3>1. fs[1].offset + fs[1].length <= fs[i].offset /\ fs[1].length \in Nat \ {0}
      BY <1>1, <2>4, Geometry
    <3>2. 1 \in 1 .. Len(fs)
      BY <1>1
    <3> QED BY <1>2, <2>1, <2>2, <3>1, <3>2
  <2> QED BY <1>1, <1>2, <2>1, <2>2, <2>3, <2>4
<1>7. 1 \in seen
  BY <1>1 DEF PassedOver, Reals
<1>8. ASSUME NEW i \in seen, i < stop
      PROVE  fs[i].offset <= off /\ ~Takes(fs[i], off, write)
  <2>1. i \in 1 .. Len(fs) /\ i \notin stops
    BY <1>1, <1>4, <1>8
  <2> QED BY <1>1, <1>2, <2>1
<1>9. ASSUME stop <= Len(fs), Takes(fs[stop], off, write)
      PROVE  /\ p.at = stop /\ ~p.null /\ stop \in 1 .. Len(fs) /\ fs[stop].offset <= off
  <2>1. stop \in 1 .. Len(fs)
    BY <1>1, <1>4, <1>9
  <2>2. p = [at |-> stop, null |-> FALSE]
    BY <1>3, <1>9
  <2>3. fs[stop].offset <= off
    BY <1>1, <1>2, <1>9, <2>1 DEF Takes, Covers
  <2> QED BY <2>1, <2>2, <2>3
<1>10. ASSUME ~(stop <= Len(fs) /\ Takes(fs[stop], off, write))
       PROVE  /\ p.at = at /\ p.null /\ at \in seen /\ at < stop /\ at \in 1 .. Len(fs)
  <2>1. stop \in 1 .. Len(fs) + 1
    BY <1>1, <1>4
  <2>2. 1 \in back
    <3>1. stop # 1
      <4> SUFFICES ASSUME stop = 1 PROVE FALSE
        OBVIOUS
      <4>1. ~Takes(fs[1], off, write) /\ ~(off < fs[1].offset)
        BY <1>1, <1>6, <1>10
      <4> QED BY <1>1, <1>4, <4>1
    <3> QED BY <1>7, <2>1, <3>1
  <2>3. at # 0
    BY <1>5, <2>2
  <2>4. at \in seen /\ at < stop
    BY <1>5, <2>3
  <2>5. p = [at |-> at, null |-> TRUE]
    BY <1>3, <1>10
  <2> QED BY <1>1, <2>4, <2>5
<1>11. ASSUME NEW i \in 1 .. Len(fs), i < stop, ~write, NEW c \in Cells, off <= c
       PROVE  ~Holds(fs, i, c)
  <2>1. c \in Nat
    BY Extents
  <2>2. CASE i \in seen
    <3>1. fs[i].offset <= off /\ ~Takes(fs[i], off, write)
      BY <1>8, <1>11, <2>2
    <3> QED BY <1>1, <1>2, <1>11, <2>1, <3>1 DEF Takes, Covers, Holds
  <2>3. CASE i \notin seen
    <3>1. PICK j \in 1 .. i - 1 : /\ ~fs[j].staging /\ off >= fs[j].offset + fs[j].length
                                  /\ \A k \in j + 1 .. i : fs[k].staging
      BY <1>1, <2>3 DEF PassedOver
    <3>2. fs[i].staging
      BY <1>1, <2>3 DEF PassedOver
    <3>3. ASSUME NEW k \in 1 .. i - 1, ~fs[k].staging
          PROVE  ~(c < fs[k].offset + fs[k].length)
      <4>1. k <= j
        BY <3>1, <3>3
      <4>2. j \in 1 .. Len(fs) /\ k \in 1 .. Len(fs) /\ j \in Reals(fs) /\ k \in Reals(fs)
        BY <1>1, <3>1, <3>3 DEF Reals
      <4>3. CASE k = j
        BY <1>1, <1>2, <1>11, <2>1, <3>1, <4>2, <4>3
      <4>4. CASE k < j
        <5>1. fs[k].offset + fs[k].length <= fs[j].offset
          BY <4>2, <4>4, Geometry
        <5> QED BY <1>1, <1>2, <1>11, <2>1, <3>1, <4>2, <5>1
      <4> QED BY <4>1, <4>2, <4>3, <4>4
    <3> QED BY <3>2, <3>3 DEF Holds
  <2> QED BY <2>2, <2>3
<1>12. ASSUME NEW i \in Reals(fs), i < stop
       PROVE  fs[i].offset <= off /\ ~Takes(fs[i], off, write)
  <2>1. i \in seen
    BY <1>1 DEF Reals, PassedOver
  <2> QED BY <1>8, <1>12, <2>1
<1>13. CASE stop <= Len(fs) /\ Takes(fs[stop], off, write)
  <2>1. /\ p.at = stop /\ ~p.null /\ stop \in 1 .. Len(fs) /\ fs[stop].offset <= off
        /\ p.null \in BOOLEAN
    BY <1>3, <1>9, <1>13
  <2>2. \A i \in Reals(fs) : (i <= stop => fs[i].offset <= off) /\ (i < stop => ~Takes(fs[i], off, write))
    <3> TAKE i \in Reals(fs)
    <3>1. i \in 1 .. Len(fs)
      BY <1>1 DEF Reals
    <3> QED BY <1>12, <2>1, <3>1
  <2> QED BY <1>11, <1>13, <2>1, <2>2
<1>14. CASE ~(stop <= Len(fs) /\ Takes(fs[stop], off, write))
  <2>1. /\ p.at = at /\ p.null /\ at \in seen /\ at < stop /\ at \in 1 .. Len(fs)
        /\ p.null \in BOOLEAN
    BY <1>3, <1>10, <1>14
  <2>2. fs[at].offset <= off /\ ~Takes(fs[at], off, write)
    BY <1>8, <2>1
  <2>3. stop \in Nat
    BY <1>1, <1>4
  <2>4. \A i \in 1 .. Len(fs) : i <= at => i < stop
    BY <1>1, <2>1, <2>3
  <2>5. \A i \in Reals(fs) : i \in 1 .. Len(fs)
    BY <1>1 DEF Reals
  <2>6. ~write => Stops(fs, off, stop)
    BY <1>1, <1>4, <1>11, <1>14 DEF Stops
  <2>7. stop \in 1 .. Len(fs) + 1
    BY <1>1, <1>4
  <2> QED BY <1>11, <1>12, <2>1, <2>2, <2>4, <2>5, <2>6, <2>7
<1> QED BY <1>13, <1>14

-----------------------------------------------------------------------------
(* The invariant: what is known of the list, of the operation that runs, and of the current *)
(* directory.                                                                              *)

\* Opening and closing files changes nothing for the operation.
LEMMA SameFits ==
  ASSUME NEW fs, Shaped(fs), NEW gs, Rewritten(fs, gs), \A i \in 1 .. Len(fs) : Same(fs[i], gs[i])
  PROVE  /\ Len(gs) = Len(fs) /\ Shaped(gs) /\ Reals(gs) = Reals(fs)
         /\ \A i \in 1 .. Len(fs) : End(gs[i]) = End(fs[i]) /\ (Mergeable(gs, i) <=> Mergeable(fs, i))
         /\ \A i \in 1 .. Len(fs), c \in Cells : Holds(gs, i, c) <=> Holds(fs, i, c)
         /\ \A o : (IOFits(o, fs) => IOFits(o, gs)) /\ (BackFits(o, fs) => BackFits(o, gs))
<1>1. Len(gs) = Len(fs) /\ Shaped(gs) /\ Reals(gs) = Reals(fs) /\ Len(fs) \in Nat
  BY RewrittenShaped, Geometry DEF Rewritten
<1>2. \A i \in 1 .. Len(fs) : /\ gs[i].offset = fs[i].offset /\ gs[i].length = fs[i].length /\ gs[i].size = fs[i].size
                              /\ gs[i].staging = fs[i].staging
  BY DEF Same, Alike
<1>3. \A i \in 1 .. Len(fs) : End(gs[i]) = End(fs[i])
  BY <1>2 DEF End
<1>4. \A i \in 1 .. Len(fs), c \in Cells : Covers(gs[i], c) <=> Covers(fs[i], c)
  BY <1>2, <1>3 DEF Covers
<1>5. ASSUME NEW i \in 1 .. Len(fs)
      PROVE  Mergeable(gs, i) <=> Mergeable(fs, i)
  <2>1. i < Len(fs) => i + 1 \in 1 .. Len(fs)
    BY <1>1
  <2> QED BY <1>1, <1>2, <1>3, <2>1 DEF Mergeable
<1>6. ASSUME NEW i \in 1 .. Len(fs), NEW c \in Cells
      PROVE  Holds(gs, i, c) <=> Holds(fs, i, c)
  <2>1. \A j \in 1 .. i - 1 : j \in 1 .. Len(fs)
    BY <1>1
  <2> QED BY <1>2, <1>4, <2>1 DEF Holds
<1>7. ASSUME NEW o, IOFits(o, fs)
      PROVE  IOFits(o, gs)
  <2>1. o.at \in 1 .. Len(fs) /\ \A i \in Reals(fs) : i \in 1 .. Len(fs)
    BY <1>1, <1>7, Geometry DEF IOFits, Reals
  <2>2. Passed(o, fs) => Passed(o, gs)
    BY <1>1, <1>6 DEF Passed
  <2>3. Short(fs, o.at, o.off) => Short(gs, o.at, o.off)
    BY <1>2, <1>3, <2>1 DEF Short
  <2>4. Apart(fs, o.at) => Apart(gs, o.at)
    <3>1. o.at > 1 => o.at - 1 \in 1 .. Len(fs)
      BY <1>1, <2>1
    <3> QED BY <1>5, <3>1 DEF Apart
  <2>5. \A i \in Reals(gs) : i <= o.at => gs[i].offset <= o.off
    BY <1>1, <1>2, <1>7, <2>1 DEF IOFits
  <2> QED BY <1>1, <1>2, <1>7, <2>1, <2>2, <2>3, <2>4, <2>5 DEF IOFits
<1>8. ASSUME NEW o, BackFits(o, fs)
      PROVE  BackFits(o, gs)
  <2>1. ASSUME HeldFits(o, fs) PROVE HeldFits(o, gs)
    <3>1. o.at \in 1 .. Len(fs) /\ IOFits(o, gs)
      BY <1>7, <2>1 DEF HeldFits, IOFits
    <3>2. o.at > 1 => o.at - 1 \in 1 .. Len(fs)
      BY <1>1, <3>1
    <3>3. Apart(fs, o.at) => Apart(gs, o.at)
      BY <1>5, <3>2 DEF Apart
    <3> QED BY <1>2, <2>1, <3>1, <3>3 DEF HeldFits
  <2> QED BY <1>8, <2>1 DEF BackFits
<1> QED BY <1>1, <1>3, <1>5, <1>6, <1>7, <1>8

\* Of each kind of operation.
LEMMA Kinds ==
  ASSUME NEW o, NEW fs, OpFits(o, fs)
  PROVE  /\ o.kind \in {"read", "write"} => IOFits(o, fs)
         /\ o.kind = "merge" => MergeFits(o, fs)
         /\ o.kind = "copy" => CopyFits(o, fs)
         /\ o.kind = "extend" => ExtendFits(o, fs)
         /\ o.kind = "crash" => o.reading
<1>1. /\ MergeFits(o, fs) => o.kind = "merge"
      /\ CopyFits(o, fs) => o.kind = "copy"
      /\ ExtendFits(o, fs) => o.kind = "extend"
  BY DEF MergeFits, CopyFits, ExtendFits
<1>2. o = [kind |-> "crash", reading |-> TRUE] => o.kind = "crash" /\ o.reading
  OBVIOUS
<1>3. o \in {Idle, Starting, Ended, Created} => o.kind \in {"idle", "start", "ended", "created"}
  BY DEF Idle, Starting, Ended, Created
<1> QED BY <1>1, <1>2, <1>3 DEF OpFits

LEMMA IOFields ==
  ASSUME NEW o \in IOs
  PROVE  /\ o.kind \in {"read", "write"} /\ o.off \in Cells /\ o.off \in Nat /\ o.len \in Nat /\ o.len >= 1
         /\ o.v \in Versions \cup {Unknown} /\ o.at \in Nat /\ o.null \in BOOLEAN /\ o.merged \in BOOLEAN
         /\ o \notin {Idle, Starting, Ended, Created}
BY Extents DEF IOs, Idle, Starting, Ended, Created

LEMMA Small ==
  ASSUME NEW fs
  PROVE  /\ OpFits(Idle, fs) /\ OpFits(Starting, fs) /\ OpFits(Ended, fs) /\ OpFits(Created, fs)
         /\ BackFits(Idle, fs) /\ \A w : BackFits(Extending(w), fs)
BY DEF OpFits, BackFits, Extending

LEMMA SoundGood ==
  ASSUME NEW fs, NEW n, NEW r, Sound(fs, n, r)
  PROVE  Good([f |-> fs, n |-> n, r |-> r])
<1>1. fs \in Seq(Files) /\ DOMAIN fs = 1 .. Len(fs) /\ Len(fs) \in Nat
  BY Geometry DEF Sound, Shaped
<1>2. n \in Int
  <2>1. Opened(fs) \subseteq 1 .. Len(fs)
    BY <1>1 DEF Opened
  <2>2. IsFiniteSet(1 .. Len(fs))
    BY <1>1, FS_Interval
  <2>3. Cardinality(Opened(fs)) \in Nat
    BY <2>1, <2>2, FS_Subset, FS_CardinalityType
  <2> QED BY <2>3 DEF Sound
<1> QED BY <1>1, <1>2 DEF Sound, Good, States

LEMMA GoodSound ==
  ASSUME NEW s, Good(s)
  PROVE  Sound(s.f, s.n, s.r)
BY GoodFacts DEF Good, Sound

LEMMA HereFacts ==
  ASSUME IInv
  PROVE  /\ Good(Here) /\ Here.f = files /\ Here.n = nopened /\ Here.r = refusals
         /\ Shaped(files) /\ Len(files) \in Nat \ {0} /\ DOMAIN files = 1 .. Len(files)
         /\ \A i \in 1 .. Len(files) : files[i] \in Files
         /\ refusals \in Nat /\ nopened \in Nat /\ 1 \in Reals(files)
<1>1. Good(Here) /\ Here.f = files /\ Here.n = nopened /\ Here.r = refusals
  BY SoundGood DEF IInv, Here
<1>2. Shaped(files) /\ refusals \in Nat /\ nopened \in Nat
  BY <1>1, GoodFacts
<1> QED BY <1>1, <1>2, Geometry

-----------------------------------------------------------------------------
(* The steps of a read and a write.                                        *)

LEMMA Stable ==
  ASSUME IInv, UNCHANGED <<disk, stage>>, need' \in BOOLEAN, failed' \in BOOLEAN, unmerged' \in BOOLEAN,
         OpFits(op', files)
  PROVE  IInv'
BY DEF IInv, disk, stage

LEMMA PieceFits ==
  ASSUME NEW off \in Cells, NEW len \in Nat, InPiece(off, len)
  PROVE  off + len <= Total
<1> DEFINE x == (off \div PieceLength + 1) * PieceLength
<1>1. off \in Nat /\ PieceLength \in Nat \ {0} /\ Total \in Nat
  BY Extents, StagingAssumption DEF StagingAssumption
<1>2. x \in Int
  <2>1. off \div PieceLength \in Int
    BY <1>1
  <2> QED BY <1>1, <2>1
<1>3. off + len <= Least(x, Total)
  BY DEF InPiece
<1> HIDE DEF x
<1> QED BY <1>1, <1>2, <1>3 DEF Least

LEMMA StartFits ==
  ASSUME NEW fs, Shaped(fs), fs = files, NEW kind \in {"read", "write"}, NEW off \in Cells, NEW len \in Nat \ {0},
         off + len <= Total, NEW v \in Versions \cup {Unknown}
  PROVE  OpFits(StartIO(kind, off, len, v), fs)
<1> DEFINE write == kind = "write"
           p == FindFirst(fs, off, write)
           o == StartIO(kind, off, len, v)
<1>1. /\ p.at \in 1 .. Len(fs) /\ p.null \in BOOLEAN
      /\ ~p.null => Takes(fs[p.at], off, write)
      /\ p.null => ~Takes(fs[p.at], off, write)
      /\ fs[p.at].offset <= off
      /\ \A i \in Reals(fs) : i <= p.at => fs[i].offset <= off
      /\ \A i \in Reals(fs) : i < p.at => ~Takes(fs[i], off, write)
      /\ \A i \in 1 .. Len(fs), c \in Cells :
           ~write /\ off <= c /\ (i < p.at \/ (p.null /\ i = p.at)) => ~Holds(fs, i, c)
  <2>1. TRUE \in BOOLEAN /\ FALSE \in BOOLEAN
    OBVIOUS
  <2>2. CASE write
    <3>1. p = FindFirst(fs, off, TRUE) /\ write = TRUE
      BY <2>2
    <3> HIDE DEF write, p
    <3> QED BY <2>1, <3>1, SearchFacts
  <2>3. CASE ~write
    <3>1. p = FindFirst(fs, off, FALSE) /\ write = FALSE
      BY <2>3
    <3> HIDE DEF write, p
    <3> QED BY <2>1, <3>1, SearchFacts
  <2> QED BY <2>2, <2>3
<1>2. /\ Len(fs) \in Nat \ {0} /\ DOMAIN fs = 1 .. Len(fs) /\ ~fs[1].staging
      /\ off \in Nat /\ Total \in Nat
  BY Geometry, Extents DEF Shaped
<1>3. \A i \in 1 .. Len(fs) : /\ fs[i].offset \in Nat /\ fs[i].size \in Nat /\ fs[i].length \in Nat
                              /\ End(fs[i]) = fs[i].offset + fs[i].size
  BY Geometry, FileFacts
<1> HIDE DEF p
<1>4. o = [kind |-> kind, off |-> off, len |-> len, v |-> v, at |-> p.at, null |-> p.null, merged |-> FALSE]
  BY DEF StartIO, p
<1>5. /\ o \in IOs /\ o.kind = kind /\ o.off = off /\ o.len = len /\ o.at = p.at /\ o.null = p.null /\ ~o.merged
  BY <1>1, <1>2, <1>4 DEF IOs
<1> HIDE DEF o
<1>6. ASSUME kind = "read"
      PROVE  Passed(o, fs)
  BY <1>1, <1>5, <1>6 DEF Passed
<1>7. ASSUME write, p.null
      PROVE  Short(fs, p.at, off)
  BY <1>1, <1>2, <1>3, <1>7, SMTT(60) DEF Short, Takes, Covers
<1>8. ASSUME write, ~p.null, fs[p.at].staging, fs[p.at].size = 0
      PROVE  Apart(fs, p.at)
  <2>1. p.at > 1 /\ p.at - 1 \in 1 .. Len(fs) /\ p.at - 1 < p.at /\ (p.at - 1) + 1 = p.at
    BY <1>1, <1>2, <1>8
  <2>2. off = fs[p.at].offset
    BY <1>1, <1>2, <1>3, <1>8 DEF Takes, Covers
  <2> DEFINE q == p.at - 1
  <2>3. ASSUME Mergeable(fs, q) PROVE FALSE
    <3>1. ~fs[q].staging /\ End(fs[q]) >= off /\ q \in Reals(fs)
      BY <1>2, <2>1, <2>2, <2>3 DEF Mergeable, Reals
    <3>2. q < p.at /\ q \in 1 .. Len(fs)
      BY <2>1
    <3> HIDE DEF q
    <3>3. fs[q].offset <= off /\ ~Takes(fs[q], off, write)
      BY <1>1, <3>1, <3>2
    <3>4. fs[q].offset \in Nat /\ End(fs[q]) \in Nat
      BY <1>3, <3>2
    <3>5. ~(off < End(fs[q])) /\ off # End(fs[q])
      BY <1>8, <3>1, <3>3 DEF Takes, Covers
    <3> QED BY <1>2, <3>1, <3>4, <3>5
  <2> QED BY <2>1, <2>3 DEF Apart
<1>9. IOFits(o, fs)
  BY <1>1, <1>5, <1>6, <1>7, <1>8 DEF IOFits
<1> QED BY <1>5, <1>9 DEF OpFits, o

LEMMA WriteStep ==
  ASSUME IInv, NEW off \in Cells, NEW len \in 1 .. PieceLength, NEW v \in Versions, Write(off, len, v)
  PROVE  IInv'
<1>1. len \in Nat \ {0} /\ InPiece(off, len)
  BY StagingAssumption DEF StagingAssumption, Write
<1>2. OpFits(StartIO("write", off, len, v), files)
  BY <1>1, PieceFits, StartFits, HereFacts
<1> QED BY <1>2, Stable DEF Write, IInv, disk, stage

LEMMA ReadStep ==
  ASSUME IInv, NEW off \in Cells, Read(off, Least(PieceLength, Total - off))
  PROVE  IInv'
<1> DEFINE len == Least(PieceLength, Total - off)
<1>1. len \in Nat \ {0} /\ InPiece(off, len)
  BY StagingAssumption, Extents DEF StagingAssumption, Read, Least
<1> HIDE DEF len
<1>2. OpFits(StartIO("read", off, len, Unknown), files)
  BY <1>1, PieceFits, StartFits, HereFacts
<1> QED BY <1>2, Stable DEF Read, IInv, disk, stage, len

LEMMA NotFoundStep ==
  ASSUME IInv, NotFound
  PROVE  IInv'
BY Stable, Small DEF NotFound, Fails, IInv, disk, stage

\* On to the next file.
LEMMA AdvanceFits ==
  ASSUME NEW fs, Shaped(fs), op \in IOs, NEW n \in 0 .. op.len, op.at \in 1 .. Len(fs),
         op.off + op.len <= Total, ~op.null,
         \A i \in Reals(fs) : i <= op.at => fs[i].offset <= op.off,
         n < op.len /\ op.kind = "write" => fs[op.at].staging \/ fs[op.at].size >= fs[op.at].length,
         op.kind = "read" => Passed(op, fs) /\ (n < op.len => op.off + n = End(fs[op.at])),
         n < op.len /\ op.at = Len(fs) => op.kind = "read" /\ Stored[op.off + n] = Unknown
  PROVE  OpFits(Advance(fs, n), fs)
<1>1. /\ Len(fs) \in Nat \ {0} /\ DOMAIN fs = 1 .. Len(fs)
      /\ \A i \in 1 .. Len(fs) : fs[i].offset \in Nat /\ fs[i].size \in Nat /\ fs[i].length \in Nat
      /\ \A i \in Reals(fs) : i \in 1 .. Len(fs)
  BY Geometry, FileFacts DEF Reals
<1>2. /\ op.kind \in {"read", "write"} /\ op.off \in Nat /\ op.len \in Nat /\ op.at \in Nat
      /\ Cells = 0 .. Total - 1 /\ Total \in Nat
  BY IOFields, Extents
<1> DEFINE off == op.off + n
<1>3. CASE n = op.len
  BY <1>3, Small DEF Advance
<1>4. CASE n < op.len /\ op.at = Len(fs)
  <2>1. Advance(fs, n) = [Crashed EXCEPT !.reading = op.kind = "read" /\ Stored[off] = Unknown]
    BY <1>2, <1>4 DEF Advance
  <2>2. op.kind = "read" /\ Stored[off] = Unknown
    BY <1>4
  <2>3. Advance(fs, n) = [kind |-> "crash", reading |-> TRUE]
    BY <2>1, <2>2 DEF Crashed
  <2> QED BY <2>3 DEF OpFits
<1>5. ASSUME n < op.len, op.at < Len(fs)
      PROVE  OpFits(Advance(fs, n), fs)
  <2>1. off \in Cells /\ op.len - n \in Nat \ {0} /\ off + (op.len - n) <= Total /\ op.off <= off
        /\ op.at + 1 \in 1 .. Len(fs) /\ op.at + 1 \in Nat
    BY <1>1, <1>2, <1>5, SMTT(60)
  <2>2. ASSUME NEW i \in 1 .. Len(fs), NEW c \in Cells, off <= c, i <= op.at, op.kind = "read"
        PROVE  ~Holds(fs, i, c)
    <3>1. CASE i < op.at
      BY <1>2, <2>1, <2>2, <3>1, Extents DEF Passed
    <3>2. CASE i = op.at
      BY <1>2, <1>5, <2>2, <3>2, Extents DEF Holds, Covers
    <3> QED BY <1>2, <2>2, <3>1, <3>2
  <2>3. CASE off < fs[op.at + 1].offset
    <3> DEFINE o == [op EXCEPT !.off = off, !.len = op.len - n, !.null = TRUE]
    <3>1. Advance(fs, n) = o
      BY <1>2, <1>5, <2>3 DEF Advance, IOs
    <3>2. /\ o \in IOs /\ o.off = off /\ o.len = op.len - n /\ o.null /\ o.at = op.at /\ o.kind = op.kind
      BY <2>1 DEF IOs
    <3> HIDE DEF o, off
    <3>3. Passed(o, fs) \/ o.kind # "read"
      BY <1>1, <1>2, <2>2, <3>2, SMTT(60) DEF Passed
    <3>4. o.kind = "write" => Short(fs, o.at, o.off)
      <4> SUFFICES ASSUME op.kind = "write" PROVE Short(fs, op.at, o.off)
        BY <3>2
      <4>1. fs[op.at].staging \/ fs[op.at].size >= fs[op.at].length
        BY <1>5
      <4>2. fs[op.at].size \in Nat /\ fs[op.at].length \in Nat
        BY <1>1
      <4> QED BY <4>1, <4>2 DEF Short
    <3>5. \A i \in Reals(fs) : i <= o.at => fs[i].offset <= o.off
      <4>1. off \in Nat
        BY <2>1, <1>2
      <4> QED BY <1>1, <1>2, <2>1, <3>2, <4>1, SMTT(60)
    <3>6. IOFits(o, fs)
      BY <2>1, <3>2, <3>3, <3>4, <3>5 DEF IOFits
    <3> QED BY <1>2, <3>1, <3>2, <3>6 DEF OpFits
  <2>4. CASE ~(off < fs[op.at + 1].offset)
    <3> DEFINE o == [op EXCEPT !.off = off, !.len = op.len - n, !.at = op.at + 1]
    <3>1. Advance(fs, n) = o
      BY <1>2, <1>5, <2>4 DEF Advance, IOs
    <3>2. /\ o \in IOs /\ o.off = off /\ o.len = op.len - n /\ o.null = op.null /\ o.at = op.at + 1 /\ o.kind = op.kind
      BY <2>1 DEF IOs
    <3> HIDE DEF o, off
    <3>3. Passed(o, fs) \/ o.kind # "read"
      BY <1>1, <1>2, <2>2, <3>2 DEF Passed
    <3>4. o.kind = "write" => ~Mergeable(fs, op.at) /\ Apart(fs, o.at)
      <4>1. op.kind = "write" => ~Mergeable(fs, op.at)
        BY <1>1, <1>2, <1>5, SMTT(60) DEF Mergeable
      <4>2. (op.at + 1) - 1 = op.at /\ op.at + 1 > 1
        BY <1>2, <1>1
      <4> QED BY <3>2, <4>1, <4>2 DEF Apart
    <3>5. \A i \in Reals(fs) : i <= o.at => fs[i].offset <= o.off
      <4>1. off \in Nat
        BY <2>1, <1>2
      <4> SUFFICES ASSUME NEW i \in Reals(fs), i <= op.at + 1 PROVE fs[i].offset <= off
        BY <3>2
      <4>2. i \in 1 .. Len(fs) /\ (i <= op.at \/ i = op.at + 1)
        BY <1>1, <1>2
      <4>3. CASE i <= op.at
        <5>1. fs[i].offset <= op.off /\ fs[i].offset \in Nat
          BY <1>1, <4>2, <4>3
        <5> QED BY <1>2, <2>1, <4>1, <5>1, SMTT(60)
      <4>4. CASE i = op.at + 1
        BY <1>1, <2>1, <2>4, <4>1, <4>4
      <4> QED BY <4>2, <4>3, <4>4
    <3>6. o.kind = "write" /\ o.null => Short(fs, o.at, o.off)
      BY <3>2
    <3>7. IOFits(o, fs)
      BY <2>1, <3>2, <3>3, <3>4, <3>5, <3>6 DEF IOFits
    <3> QED BY <1>2, <3>1, <3>2, <3>7 DEF OpFits
  <2> QED BY <2>3, <2>4
<1>6. n = op.len \/ n < op.len
  BY <1>2
<1>7. op.at = Len(fs) \/ op.at < Len(fs)
  BY <1>1
<1> QED BY <1>3, <1>4, <1>5, <1>6, <1>7

LEMMA InStep ==
  ASSUME IInv, InFile
  PROVE  /\ op.kind \in {"read", "write"} /\ IOFits(op, files) /\ op \in IOs /\ ~op.null /\ op.at \in 1 .. Len(files)
         /\ op.off \in Nat /\ op.len \in Nat /\ op.len >= 1 /\ op.off + op.len <= Total /\ Total \in Nat
         /\ files[op.at] \in Files
<1>1. op.kind \in {"read", "write"} /\ ~op.null
  BY DEF InFile
<1>2. IOFits(op, files)
  BY <1>1, Kinds DEF IInv
<1>3. op \in IOs /\ op.at \in 1 .. Len(files) /\ op.off + op.len <= Total
  BY <1>2 DEF IOFits
<1>4. op.off \in Nat /\ op.len \in Nat /\ op.len >= 1
  BY <1>3, IOFields
<1> QED BY <1>1, <1>2, <1>3, <1>4, HereFacts, Extents

\* Files are opened and closed.
LEMMA OpensStep ==
  ASSUME IInv, NEW s, Opens(Here, s), SetTo(s), stagedir' = stagedir, stagecount' = stagecount,
         need' \in BOOLEAN, failed' \in BOOLEAN, unmerged' \in BOOLEAN, OpFits(op', s.f)
  PROVE  IInv'
<1>1. Good(s) /\ Rewritten(files, s.f) /\ Shaped(files)
  BY HereFacts DEF Opens
<1>2. files' = s.f /\ nopened' = s.n /\ refusals' = s.r
  BY DEF SetTo
<1>3. Sound(files', nopened', refusals')
  BY <1>1, <1>2, GoodSound
<1>4. Counts(files', stagedir', stagecount')
  BY <1>1, <1>2, RewrittenShaped DEF IInv, Counts
<1> QED BY <1>2, <1>3, <1>4 DEF IInv

LEMMA OpensFits ==
  ASSUME IInv, NEW s, Opens(Here, s)
  PROVE  /\ Len(s.f) = Len(files) /\ Shaped(s.f) /\ Reals(s.f) = Reals(files)
         /\ \A i \in 1 .. Len(files) : Same(files[i], s.f[i])
         /\ \A i \in 1 .. Len(files) : End(s.f[i]) = End(files[i]) /\ (Mergeable(s.f, i) <=> Mergeable(files, i))
         /\ \A o : (IOFits(o, files) => IOFits(o, s.f)) /\ (BackFits(o, files) => BackFits(o, s.f))
<1>1. Rewritten(files, s.f) /\ Shaped(files) /\ \A i \in 1 .. Len(files) : Same(files[i], s.f[i])
  BY HereFacts DEF Opens
<1> QED BY <1>1, SameFits

LEMMA OpenFileStep ==
  ASSUME IInv, OpenFile
  PROVE  IInv'
<1>1. PICK r \in Open(Here, op.at, Writing, 0) : SetTo(r.s) /\ op' = IF r.ok THEN op ELSE Idle
  BY DEF OpenFile
<1>2. op.kind \in {"read", "write"} /\ IOFits(op, files) /\ op.at \in 1 .. Len(files)
  BY InStep DEF OpenFile
<1>3. Opens(Here, r.s)
  <2>1. op.at \in 1 .. Len(Here.f) /\ Good(Here) /\ Writing \in BOOLEAN
    BY <1>2, HereFacts DEF Writing
  <2> HIDE DEF Here, Writing
  <2> QED BY <2>1, OpenFacts
<1>4. OpFits(op', r.s.f)
  BY <1>1, <1>2, <1>3, OpensFits, Small DEF OpFits
<1> QED BY <1>1, <1>3, <1>4, OpensStep DEF OpenFile, IInv, stage

LEMMA OpenNoSpaceStep ==
  ASSUME IInv, OpenNoSpace
  PROVE  IInv'
<1>1. PICK t \in IF nopened >= MaxOpen THEN CloseOldest(Here, 0) ELSE {Here} : SetTo(Refused(t))
  BY DEF OpenNoSpace
<1>2. /\ op.kind = "write" /\ IOFits(op, files) /\ op.at \in 1 .. Len(files) /\ op \in IOs /\ ~op.null
      /\ ~op.merged /\ files[op.at].size = 0 /\ refusals > 0
  BY InStep DEF OpenNoSpace, Writing
<1>3. Good(Here) /\ Here.r = refusals /\ refusals \in Nat
  BY HereFacts
<1>4. Opens(Here, t) /\ t.r = refusals /\ Good(t)
  <2>1. CASE nopened >= MaxOpen
    <3>1. t \in CloseOldest(Here, 0)
      BY <2>1
    <3>2. Opens(Here, t) /\ t.r = Here.r
      BY <1>3, <3>1, OldestFacts
    <3> QED BY <1>3, <3>2 DEF Opens
  <2>2. CASE ~(nopened >= MaxOpen)
    BY <1>3, <2>2, OpensItself
  <2> QED BY <2>1, <2>2
<1> DEFINE s == Refused(t)
<1>5. Opens(t, s)
  BY <1>2, <1>3, <1>4, RefusedFacts
<1>6. Opens(Here, s) /\ SetTo(s)
  BY <1>1, <1>3, <1>4, <1>5, OpensTransitive
<1> HIDE DEF s
<1> DEFINE b == [op EXCEPT !.merged = TRUE]
<1>7. /\ b \in IOs /\ b.kind = "write" /\ b.off = op.off /\ b.len = op.len /\ b.at = op.at /\ ~b.null /\ b.merged
  BY <1>2 DEF IOs
<1>8. op' = [kind |-> "merge", all |-> FALSE, merged |-> FALSE, tries |-> 2, back |-> b]
  BY DEF OpenNoSpace, MergeOp
<1> HIDE DEF b
<1>9. IOFits(b, files)
  BY <1>2, <1>7 DEF IOFits
<1>10. BackFits(b, files)
  BY <1>2, <1>7, <1>9 DEF BackFits, HeldFits, IOFits
<1>11. BackFits(b, s.f)
  BY <1>6, <1>10, OpensFits
<1>12. OpFits(op', s.f)
  BY <1>8, <1>11 DEF OpFits, MergeFits
<1> QED BY <1>6, <1>12, OpensStep DEF OpenNoSpace, IInv, stage

LEMMA NewFile ==
  ASSUME NEW off \in Cells, NEW d \in Cells \cup {NoDir}, NEW g, g = EmptyStaging(off, d)
  PROVE  /\ g \in Files /\ g.offset = off /\ g.length = 0 /\ g.size = 0 /\ g.disk = -1 /\ g.staging /\ g.dir = d
         /\ ~g.opened /\ ~g.readonly
<1> DEFINE D == Cells \cup {NoDir}
<1>1. /\ g \in [offset : Cells, length : Nat, size : Nat, disk : Int, data : Bytes,
                staging : BOOLEAN, dir : D, opened : BOOLEAN, readonly : BOOLEAN]
      /\ g.offset = off /\ g.length = 0 /\ g.size = 0 /\ g.disk = -1 /\ g.staging /\ g.dir = d
      /\ ~g.opened /\ ~g.readonly
  <2>1. [c \in Cells |-> Unknown] \in Bytes /\ d \in D /\ off \in Cells
    BY DEF Bytes
  <2> HIDE DEF D
  <2> QED BY <2>1 DEF File, EmptyStaging
<1>2. g \in Recs
  BY <1>1 DEF Recs, Bytes
<1>3. off + 0 <= Total /\ off + (-1) <= Total /\ -1 <= -1
  BY Extents
<1>4. g \in Files
  BY <1>1, <1>2, <1>3 DEF Files, End
<1> QED BY <1>1, <1>4

LEMMA Placed ==
  ASSUME NEW fs, Shaped(fs), NEW a \in 1 .. Len(fs), NEW b, b = a + 1, NEW g \in Files, g.staging,
         \A i \in Reals(fs) : i <= a => fs[i].offset <= g.offset,
         NEW gs, gs = InsertAt(fs, b, g)
  PROVE  /\ Shaped(gs) /\ Len(gs) = Len(fs) + 1
         /\ \A j \in 1 .. a : gs[j] = fs[j]
         /\ gs[b] = g
         /\ \A j \in b .. Len(fs) : gs[j + 1] = fs[j]
         /\ \A i \in Reals(gs) : i <= a => i \in Reals(fs)
         /\ b \notin Reals(gs)
         /\ Cardinality(Opened(gs)) = Cardinality(Opened(fs)) + (IF g.opened THEN 1 ELSE 0)
         /\ \A d : Cardinality(InDir(gs, d)) = Cardinality(InDir(fs, d)) + (IF g.dir = d THEN 1 ELSE 0)
<1>1. gs = InsertAt(fs, a + 1, g)
  OBVIOUS
<1>2. /\ Shaped(gs) /\ Len(gs) = Len(fs) + 1
      /\ \A j \in 1 .. a : gs[j] = fs[j]
      /\ gs[b] = g
      /\ \A j \in b .. Len(fs) : gs[j + 1] = fs[j]
      /\ \A i \in Reals(gs) : i <= a => i \in Reals(fs)
      /\ b \notin Reals(gs)
  <2> DEFINE R == {i \in Reals(fs) : i <= a} \cup {i + 1 : i \in {j \in Reals(fs) : j > a}}
  <2>1. Shaped(gs)
    BY <1>1, InsertShaped
  <2>2. /\ Len(gs) = Len(fs) + 1
        /\ \A j \in 1 .. a : gs[j] = fs[j]
    BY <1>1, InsertShaped
  <2>3. gs[b] = g
    BY <1>1, InsertShaped
  <2>4. \A j \in b .. Len(fs) : gs[j + 1] = fs[j]
    BY <1>1, InsertShaped
  <2>5. (\A i \in Reals(gs) : i <= a => i \in Reals(fs)) /\ b \notin Reals(gs)
    <3>1. DOMAIN fs = 1 .. Len(fs) /\ DOMAIN gs = 1 .. Len(gs) /\ Len(fs) \in Nat /\ Len(gs) \in Nat
      BY <2>1, Geometry
    <3> QED BY <2>2, <2>3, <3>1 DEF Reals
  <2> QED BY <2>1, <2>2, <2>3, <2>4, <2>5
<1>3. /\ Cardinality(Opened(gs)) = Cardinality(Opened(fs)) + (IF g.opened THEN 1 ELSE 0)
      /\ \A d : Cardinality(InDir(gs, d)) = Cardinality(InDir(fs, d)) + (IF g.dir = d THEN 1 ELSE 0)
  BY <1>1, InsertCount DEF Opened
<1> QED BY <1>2, <1>3

LEMMA NewStagingStep ==
  ASSUME IInv, NewStaging
  PROVE  IInv'
<1>1. op.kind = "write" /\ IOFits(op, files) /\ op \in IOs /\ op.at \in 1 .. Len(files) /\ op.off + op.len <= Total
  BY Kinds DEF NewStaging, NeedsStaging, IInv, IOFits
<1>2. /\ op.off \in Cells /\ op.off \in Nat /\ op.len \in Nat /\ op.null \in BOOLEAN /\ op.merged \in BOOLEAN
  BY <1>1, IOFields
<1>3. /\ Shaped(files) /\ Len(files) \in Nat \ {0} /\ DOMAIN files = 1 .. Len(files)
      /\ \A i \in 1 .. Len(files) : files[i] \in Files
  BY HereFacts
<1>4. PICK made \in BOOLEAN :
         /\ made => CanMake
         /\ stagedir' = IF made THEN op.off ELSE stagedir
         /\ stagecount' = Counted(made)
         /\ refusals' = IF CanMake /\ ~made THEN refusals - 1 ELSE refusals
         /\ CanMake /\ ~made => refusals > 0
  BY DEF NewStaging
<1>5. stagedir' \in Cells \cup {NoDir} /\ refusals' \in Nat /\ stagecount' \in Nat /\ stagecount \in Nat
  BY <1>2, <1>4, HereFacts DEF IInv, Counts, Counted
<1>20. PICK d : d = stagedir' OBVIOUS
<1>21. PICK gs : gs = files' OBVIOUS
<1>22. PICK a : a = op.at OBVIOUS
<1>23. PICK b : b = a + 1 OBVIOUS
<1>24. PICK g : g = EmptyStaging(op.off, d) OBVIOUS
<1>6. gs = InsertAt(files, b, g) /\ a \in 1 .. Len(files) /\ d \in Cells \cup {NoDir}
  BY <1>1, <1>5, <1>20, <1>21, <1>22, <1>23, <1>24 DEF NewStaging, EmptyStaging
<1>7. /\ g \in Files /\ g.offset = op.off /\ g.size = 0 /\ g.staging /\ g.dir = d /\ ~g.opened
  BY <1>2, <1>6, <1>24, NewFile
<1>8. \A i \in Reals(files) : i <= a => files[i].offset <= g.offset
  BY <1>1, <1>7, <1>22 DEF IOFits
<1>25. /\ Shaped(gs) /\ Len(gs) = Len(files) + 1
       /\ \A j \in 1 .. a : gs[j] = files[j]
       /\ gs[b] = g
       /\ (\A i \in Reals(gs) : i <= a => i \in Reals(files)) /\ b \notin Reals(gs)
       /\ Cardinality(Opened(gs)) = Cardinality(Opened(files)) + (IF g.opened THEN 1 ELSE 0)
       /\ \A x : Cardinality(InDir(gs, x)) = Cardinality(InDir(files, x)) + (IF g.dir = x THEN 1 ELSE 0)
  BY <1>3, <1>6, <1>7, <1>8, <1>23, Placed
<1>9. gs[a + 1] = g
  BY <1>23, <1>25
<1>10. Cardinality(Opened(gs)) = Cardinality(Opened(files))
  <2>1. Cardinality(Opened(gs)) = Cardinality(Opened(files)) + 0
    BY <1>7, <1>25
  <2>2. Cardinality(Opened(files)) \in Nat
    BY HereFacts DEF IInv, Sound
  <2> QED BY <2>1, <2>2
<1>11. Sound(files', nopened', refusals')
  <2>1. nopened' = nopened /\ nopened = Cardinality(Opened(files)) /\ nopened <= MaxOpen + 1 /\ nopened \in Nat
    BY HereFacts DEF NewStaging, IInv, Sound
  <2> QED BY <1>5, <1>10, <1>21, <1>25, <2>1 DEF Sound
<1>12. Counts(files', stagedir', stagecount')
  <2>1. CASE made
    <3>1. InDir(files, op.off) = {}
      BY <1>3, <1>4, <2>1 DEF CanMake, InDir
    <3>2. d = op.off /\ stagecount' = 1
      BY <1>4, <1>5, <1>20, <2>1 DEF Counted
    <3>3. Cardinality(InDir(gs, d)) = Cardinality(InDir(files, d)) + 1
      BY <1>7, <1>25
    <3>4. Cardinality(InDir(files, d)) = 0
      BY <3>1, <3>2, FS_EmptySet
    <3> QED BY <1>5, <1>20, <1>21, <3>2, <3>3, <3>4 DEF Counts
  <2>2. CASE ~made
    <3>1. stagedir' = stagedir /\ stagecount' = stagecount + 1
      BY <1>4, <1>5, <2>2 DEF Counted
    <3>2. stagedir # NoDir => stagecount = Cardinality(InDir(files, stagedir))
      BY DEF IInv, Counts
    <3>3. Cardinality(InDir(gs, d)) = Cardinality(InDir(files, d)) + 1
      BY <1>7, <1>25
    <3> QED BY <1>5, <1>20, <1>21, <3>1, <3>2, <3>3 DEF Counts
  <2> QED BY <2>1, <2>2
<1>26. op.at + 1 \in Nat /\ op.at \in Nat
  BY <1>1, <1>3
<1> DEFINE o == [op EXCEPT !.at = op.at + 1, !.null = FALSE]
<1>13. op' = o
  BY DEF NewStaging
<1>14. /\ o \in IOs /\ o.kind = "write" /\ o.off = op.off /\ o.len = op.len /\ o.at = a + 1 /\ ~o.null /\ (o.merged <=> op.merged)
  <2>1. /\ o \in IOs /\ o.kind = "write" /\ o.off = op.off /\ o.len = op.len /\ o.at = op.at + 1 /\ ~o.null
        /\ o.merged = op.merged
    BY <1>1, <1>26 DEF IOs
  <2> QED BY <1>2, <1>22, <2>1
<1> HIDE DEF o
<1>15. ~Mergeable(gs, a)
  <2> SUFFICES ASSUME Mergeable(gs, a) PROVE FALSE
    OBVIOUS
  <2>1. ~files[a].staging /\ files[a].size < files[a].length /\ End(files[a]) >= op.off
    BY <1>7, <1>9, <1>22, <1>25, <1>6 DEF Mergeable
  <2>2. op.null
    BY <1>2, <1>22, <2>1 DEF NewStaging, NeedsStaging, Full
  <2>3. End(files[a]) < op.off /\ End(files[a]) \in Nat
    BY <1>1, <1>3, <1>22, <2>1, <2>2, FileFacts DEF IOFits, Short
  <2> QED BY <1>2, <2>1, <2>3
<1>16. Apart(gs, a + 1)
  <2>1. (a + 1) - 1 = a /\ a + 1 > 1
    BY <1>6, <1>3
  <2> QED BY <1>15, <2>1 DEF Apart
<1>17. \A i \in Reals(gs) : i <= a + 1 => gs[i].offset <= op.off
  <2> SUFFICES ASSUME NEW i \in Reals(gs), i <= a + 1 PROVE gs[i].offset <= op.off
    OBVIOUS
  <2>1. \A j \in Reals(files) : j \in 1 .. Len(files)
    BY <1>3 DEF Reals
  <2>2. i \in Reals(files) /\ i <= a
    <3>1. i \in 1 .. Len(gs) /\ i # b
      BY <1>25, Geometry DEF Reals
    <3>2. i <= a
      BY <1>3, <1>6, <1>23, <1>25, <3>1
    <3> QED BY <1>25, <3>2
  <2>3. i \in 1 .. a
    BY <1>6, <2>1, <2>2
  <2> QED BY <1>1, <1>22, <1>25, <2>2, <2>3 DEF IOFits
<1>18. IOFits(o, gs)
  <2>1. a + 1 \in 1 .. Len(gs)
    BY <1>6, <1>3, <1>25
  <2> QED BY <1>1, <1>14, <1>16, <1>17, <1>25, <2>1 DEF IOFits
<1>19. OpFits(op', files')
  BY <1>21, <1>13, <1>14, <1>18 DEF OpFits
<1> QED BY <1>11, <1>12, <1>19 DEF IInv, NewStaging

LEMMA ReadFileStep ==
  ASSUME IInv, ReadFile
  PROVE  IInv'
<1> DEFINE f == files[op.at]
           n == ReadLength(f)
<1>1. /\ op.kind = "read" /\ IOFits(op, files) /\ op \in IOs /\ ~op.null /\ op.at \in 1 .. Len(files)
      /\ op.off \in Nat /\ op.len \in Nat /\ op.len >= 1 /\ op.off + op.len <= Total /\ Total \in Nat
      /\ f \in Files
  BY InStep DEF ReadFile, Writing
<1>2. Shaped(files) /\ Len(files) \in Nat \ {0} /\ DOMAIN files = 1 .. Len(files)
  BY HereFacts
<1>3. End(f) \in Nat
  BY <1>1, FileFacts
<1>4. n \in 0 .. op.len /\ (n < op.len => op.off + n = End(f))
  <2> HIDE DEF f
  <2> QED BY <1>1, <1>3 DEF ReadLength, Least
<1> HIDE DEF n
<1>5. Passed(op, files)
  BY <1>1 DEF IOFits
<1>6. ASSUME n < op.len, op.at = Len(files)
      PROVE  Stored[op.off + n] = Unknown
  <2> DEFINE c == op.off + n
  <2>1. c \in Cells /\ op.off <= c /\ c = End(f)
    BY <1>1, <1>4, <1>6, Extents
  <2> HIDE DEF c
  <2>2. \A i \in 1 .. Len(files) : ~Holds(files, i, c)
    <3> SUFFICES ASSUME NEW i \in 1 .. Len(files) PROVE ~Holds(files, i, c)
      OBVIOUS
    <3>1. CASE i < op.at
      BY <1>5, <2>1, <3>1 DEF Passed
    <3>2. CASE i = op.at
      BY <1>3, <2>1, <3>2 DEF Holds, Covers
    <3>3. op.at = Len(files) /\ Len(files) \in Nat
      BY <1>2, <1>6
    <3>4. i < op.at \/ i = op.at
      BY <3>3
    <3> QED BY <3>1, <3>2, <3>4
  <2>3. Stored[c] = Unknown
    BY <1>2, <2>1, <2>2 DEF Stored, StoredIn
  <2> QED BY <2>3 DEF c
<1>7. \A i \in Reals(files) : i <= op.at => files[i].offset <= op.off
  BY <1>1 DEF IOFits
<1>8. OpFits(Advance(files, n), files)
  BY <1>1, <1>2, <1>4, <1>5, <1>6, <1>7, AdvanceFits
<1> QED BY <1>8, Stable DEF ReadFile, IInv, n, disk, stage

LEMMA PutFacts ==
  ASSUME NEW f \in Files, NEW c \in Nat, NEW d \in Nat, d <= Total, NEW val,
         \A b \in Cells : b \in c .. d - 1 => val[b] \in Versions \cup {Unknown},
         NEW g, g = Put(f, c, d, val)
  PROVE  /\ g \in Files /\ Alike(f, g) /\ g.size = Most(f.size, d - f.offset) /\ g.size \in Nat
         /\ g.size >= f.size
         /\ (g.opened <=> f.opened) /\ (g.readonly <=> f.readonly)
<1>1. /\ f.offset \in Nat /\ f.size \in Nat /\ f.disk \in Int /\ f.offset + f.size <= Total
      /\ -1 <= f.disk /\ f.offset + f.disk <= Total /\ Total \in Nat /\ f.data \in Bytes
  BY FileFacts DEF Bytes
<1> DEFINE past == Most(f.size, d - f.offset)
           dsk == Most(f.disk, past)
           bytes == [b \in Cells |-> IF b \in c .. d - 1 THEN val[b] ELSE f.data[b]]
<1>2. g = GrownTo(f, past, dsk, bytes)
  BY DEF Put, GrownTo
<1>3. past \in Nat /\ f.offset + past <= Total /\ past >= f.size
  BY <1>1 DEF Most
<1>4. dsk \in Int /\ -1 <= dsk /\ f.offset + dsk <= Total
  <2> HIDE DEF past
  <2> QED BY <1>1, <1>3 DEF Most
<1>5. bytes \in Bytes
  BY <1>1 DEF Bytes
<1>6. past = Most(f.size, d - f.offset)
  OBVIOUS
<1> HIDE DEF past, dsk, bytes
<1>7. /\ g \in Files /\ Alike(f, g) /\ g.size = past
      /\ (g.opened <=> f.opened) /\ (g.readonly <=> f.readonly)
  BY <1>2, <1>3, <1>4, <1>5, GrownToFacts
<1> QED BY <1>3, <1>6, <1>7

LEMMA ReplacedFacts ==
  ASSUME NEW fs, Shaped(fs), NEW i \in 1 .. Len(fs), NEW g \in Files, Alike(fs[i], g), g.opened <=> fs[i].opened,
         NEW gs, gs = Replaced(fs, i, g)
  PROVE  /\ Rewritten(fs, gs) /\ Shaped(gs) /\ gs[i] = g /\ Len(gs) = Len(fs)
         /\ \A j \in 1 .. Len(fs) : j # i => gs[j] = fs[j]
         /\ Cardinality(Opened(gs)) = Cardinality(Opened(fs))
<1> DEFINE hs == [fs EXCEPT ![i] = g]
<1>1. gs = hs
  BY DEF Replaced
<1>2. Rewritten(fs, hs) /\ Shaped(hs) /\ hs[i] = g /\ (\A j \in 1 .. Len(fs) : j # i => hs[j] = fs[j])
  BY ChangeOne
<1>3. Cardinality(Opened(hs)) = Cardinality(Opened(fs))
  <2>1. Cardinality(Opened(fs)) \in Nat
    BY ChangeOne
  <2>2. CASE g.opened
    <3>1. Cardinality(Opened(hs)) = Cardinality(Opened(fs)) + 1 - 1
      BY <2>2, ChangeOne
    <3> QED BY <2>1, <3>1
  <2>3. CASE ~g.opened
    <3>1. Cardinality(Opened(hs)) = Cardinality(Opened(fs)) + 0 - 0
      BY <2>3, ChangeOne
    <3> QED BY <2>1, <3>1
  <2> QED BY <2>2, <2>3
<1> HIDE DEF hs
<1> QED BY <1>1, <1>2, <1>3 DEF Rewritten

\* An entry is rewritten without being opened or closed.
LEMMA RewriteGood ==
  ASSUME NEW s, Good(s), NEW i \in 1 .. Len(s.f), NEW g \in Files, Alike(s.f[i], g), g.opened <=> s.f[i].opened,
         NEW t, t.f = Replaced(s.f, i, g), t.n = s.n, t.r \in Nat, t = [f |-> t.f, n |-> t.n, r |-> t.r]
  PROVE  /\ Good(t) /\ Rewritten(s.f, t.f) /\ Len(t.f) = Len(s.f)
         /\ t.f[i] = g /\ \A j \in 1 .. Len(s.f) : j # i => t.f[j] = s.f[j]
<1>1. /\ s \in States /\ Shaped(s.f) /\ s.n \in Int /\ s.n = Cardinality(Opened(s.f)) /\ s.n <= MaxOpen + 1
  BY DEF Good, States
<1> DEFINE gs == t.f
           fs == s.f
<1>2. Shaped(fs) /\ i \in 1 .. Len(fs) /\ Alike(fs[i], g) /\ gs = Replaced(fs, i, g)
  BY <1>1
<1>3. s.n = Cardinality(Opened(fs)) /\ (g.opened <=> fs[i].opened)
  BY <1>1
<1> HIDE DEF gs, fs
<1>4. Rewritten(fs, gs) /\ Shaped(gs) /\ gs[i] = g /\ (\A j \in 1 .. Len(fs) : j # i => gs[j] = fs[j])
  BY <1>2, <1>3, ReplacedFacts
<1>5. Cardinality(Opened(gs)) = Cardinality(Opened(fs))
  BY <1>2, <1>3, ReplacedFacts
<1>6. gs \in Seq(Files)
  BY <1>4 DEF Shaped
<1>7. t \in States
  BY <1>1, <1>6 DEF States, gs
<1>8. Good(t)
  BY <1>1, <1>3, <1>4, <1>5, <1>7 DEF Good, gs
<1> QED BY <1>4, <1>8 DEF gs, fs, Rewritten

\* The length of a write: to the end of the file, but for the last.
LEMMA WriteLengthFacts ==
  ASSUME IInv, InFile, Writing, NEW n, n = WriteLength(files, op.at)
  PROVE  /\ n \in 0 .. op.len /\ n \in Nat
         /\ n < op.len /\ ~files[op.at].staging => op.off + n = files[op.at].offset + files[op.at].length
         /\ op.at = Len(files) => n = op.len
<1>1. /\ IOFits(op, files) /\ op.at \in 1 .. Len(files)
      /\ op.off \in Nat /\ op.len \in Nat /\ op.len >= 1 /\ op.off + op.len <= Total /\ Total \in Nat
      /\ files[op.at] \in Files
  BY InStep
<1>2. Shaped(files) /\ Len(files) \in Nat \ {0} /\ DOMAIN files = 1 .. Len(files)
  BY HereFacts
<1>3. \A i \in 1 .. Len(files) : files[i].offset \in Nat /\ files[i].length \in Nat
  BY <1>2, Geometry, FileFacts
<1>4. CASE ~files[op.at].staging
  <2>1. n = IF op.off > files[op.at].offset + files[op.at].length THEN op.len
            ELSE Least(op.len, (files[op.at].offset + files[op.at].length) - op.off)
    BY <1>1, <1>3, <1>4, IOFields DEF WriteLength
  <2>2. ASSUME op.at = Len(files)
        PROVE  files[op.at].offset + files[op.at].length = Total
    <3>1. op.at \in Reals(files) /\ \A j \in Reals(files) : j <= op.at
      BY <1>1, <1>2, <1>4, <2>2 DEF Reals
    <3> QED BY <1>2, <3>1, LastReal
  <2> DEFINE e == files[op.at].offset + files[op.at].length
  <2>3. e \in Nat /\ (op.at = Len(files) => e = Total)
    BY <1>1, <1>3, <2>2
  <2>4. n = IF op.off > e THEN op.len ELSE Least(op.len, e - op.off)
    BY <2>1
  <2> HIDE DEF e
  <2>5. n \in 0 .. op.len /\ n \in Nat /\ (n < op.len => op.off + n = e) /\ (op.at = Len(files) => n = op.len)
    BY <1>1, <2>3, <2>4 DEF Least
  <2> QED BY <2>5 DEF e
<1>5. CASE files[op.at].staging /\ (op.at = Len(files) \/ op.off > files[op.at + 1].offset)
  <2>1. n = op.len
    BY <1>5 DEF WriteLength
  <2> QED BY <1>1, <1>5, <2>1
<1>6. CASE files[op.at].staging /\ op.at # Len(files) /\ ~(op.off > files[op.at + 1].offset)
  <2> DEFINE e == files[op.at + 1].offset
  <2>1. e \in Nat
    BY <1>1, <1>2, <1>3, <1>6
  <2>2. n = Least(op.len, e - op.off) /\ ~(op.off > e)
    BY <1>6 DEF WriteLength
  <2> HIDE DEF e
  <2>3. n \in 0 .. op.len /\ n \in Nat
    BY <1>1, <2>1, <2>2 DEF Least
  <2> QED BY <1>6, <2>3
<1> QED BY <1>4, <1>5, <1>6

LEMMA WriteFileStep ==
  ASSUME IInv, WriteFile
  PROVE  IInv'
<1>1. PICK n : n = WriteLength(files, op.at) OBVIOUS
<1>2. /\ op.kind = "write" /\ IOFits(op, files) /\ op \in IOs /\ ~op.null /\ op.at \in 1 .. Len(files)
      /\ op.off \in Nat /\ op.len \in Nat /\ op.len >= 1 /\ op.off + op.len <= Total /\ Total \in Nat
      /\ files[op.at] \in Files /\ op.v \in Versions \cup {Unknown}
  BY InStep, IOFields DEF WriteFile, Writing
<1>3. /\ n \in 0 .. op.len /\ n \in Nat
      /\ n < op.len /\ ~files[op.at].staging => op.off + n = files[op.at].offset + files[op.at].length
      /\ op.at = Len(files) => n = op.len
  BY <1>1, WriteLengthFacts DEF WriteFile
<1>4. Good(Here) /\ Here.f = files /\ Here.n = nopened /\ Here.r = refusals /\ Here = [f |-> files, n |-> nopened, r |-> refusals]
      /\ Shaped(files) /\ refusals \in Nat /\ DOMAIN files = 1 .. Len(files) /\ Len(files) \in Nat
  BY HereFacts DEF Here
<1>5. PICK a : a = op.at OBVIOUS
<1>6. PICK f : f = files[a] OBVIOUS
<1>7. PICK g : g = Put(f, op.off, op.off + n, [c \in Cells |-> op.v]) OBVIOUS
<1>8. /\ g \in Files /\ Alike(f, g) /\ g.size = Most(f.size, (op.off + n) - f.offset) /\ g.size \in Nat
      /\ (g.opened <=> f.opened) /\ (g.readonly <=> f.readonly)
  <2> DEFINE d == op.off + n
             val == [c \in Cells |-> op.v]
  <2>1. d \in Nat /\ d <= Total /\ \A b \in Cells : val[b] \in Versions \cup {Unknown}
    BY <1>2, <1>3
  <2>2. f \in Files /\ op.off \in Nat /\ g = Put(f, op.off, d, val)
    BY <1>2, <1>5, <1>6, <1>7
  <2>3. d = op.off + n
    OBVIOUS
  <2> HIDE DEF d, val
  <2>4. /\ g \in Files /\ Alike(f, g) /\ g.size = Most(f.size, d - f.offset) /\ g.size \in Nat
        /\ (g.opened <=> f.opened) /\ (g.readonly <=> f.readonly)
    BY <2>1, <2>2, PutFacts
  <2> QED BY <2>3, <2>4
<1>9. PICK fs : fs = [files EXCEPT ![op.at] = Put(@, op.off, op.off + n, [c \in Cells |-> op.v])]
  OBVIOUS
<1>10. fs = [files EXCEPT ![a] = g]
  BY <1>5, <1>6, <1>7, <1>9
<1>11. PICK s : s = [Here EXCEPT !.f = fs] OBVIOUS
<1>12. s.f = fs /\ s.n = nopened /\ s.r = refusals /\ s = [f |-> s.f, n |-> s.n, r |-> s.r]
  BY <1>4, <1>11
<1>13. /\ Good(s) /\ Rewritten(files, fs) /\ Len(fs) = Len(files)
       /\ fs[a] = g /\ \A j \in 1 .. Len(files) : j # a => fs[j] = files[j]
  <2>1. a \in 1 .. Len(Here.f) /\ Alike(Here.f[a], g) /\ (g.opened <=> Here.f[a].opened)
    BY <1>2, <1>4, <1>5, <1>6, <1>8
  <2>2. s.f = Replaced(Here.f, a, g) /\ s.n = Here.n /\ s.r \in Nat /\ g \in Files
    BY <1>4, <1>8, <1>10, <1>12 DEF Replaced
  <2> HIDE DEF Here
  <2>3. /\ Good(s) /\ Rewritten(Here.f, s.f) /\ Len(s.f) = Len(Here.f)
        /\ s.f[a] = g /\ \A j \in 1 .. Len(Here.f) : j # a => s.f[j] = Here.f[j]
    BY <1>4, <1>12, <2>1, <2>2, RewriteGood
  <2> QED BY <1>4, <1>12, <2>3
<1>14. PICK t : t = IF fs[op.at].size = 0 THEN Close(s, op.at) ELSE s OBVIOUS
<1>15. Opens(s, t)
  <2>1. CASE fs[op.at].size = 0
    <3>1. t = Close(s, a) /\ a \in 1 .. Len(s.f)
      BY <1>2, <1>5, <1>12, <1>13, <1>14, <2>1
    <3> QED BY <1>13, <3>1, CloseFacts
  <2>2. CASE fs[op.at].size # 0
    <3>1. t = s
      BY <1>14, <2>2
    <3> QED BY <1>13, <3>1, OpensItself
  <2> QED BY <2>1, <2>2
<1>16. PICK gs : gs = t.f OBVIOUS
<1>17. /\ Good(t) /\ Len(gs) = Len(files) /\ Shaped(gs) /\ Rewritten(fs, gs) /\ Reals(gs) = Reals(files)
       /\ \A d : InDir(gs, d) = InDir(files, d)
       /\ \A i \in 1 .. Len(files) : Same(fs[i], gs[i])
  <2>1. Good(t) /\ Rewritten(fs, gs) /\ Len(gs) = Len(files)
    BY <1>12, <1>13, <1>15, <1>16 DEF Opens, Rewritten
  <2>2. Shaped(gs) /\ Shaped(fs)
    BY <1>12, <1>13, <1>16, <2>1 DEF Good
  <2>3. Reals(fs) = Reals(files) /\ \A d : InDir(fs, d) = InDir(files, d)
    BY <1>4, <1>13, RewrittenShaped
  <2>4. Reals(gs) = Reals(fs) /\ \A d : InDir(gs, d) = InDir(fs, d)
    BY <2>1, <2>2, RewrittenShaped
  <2>5. \A i \in 1 .. Len(files) : Same(fs[i], gs[i])
    BY <1>12, <1>13, <1>15, <1>16 DEF Opens
  <2> QED BY <2>1, <2>2, <2>3, <2>4, <2>5
<1>18. \A i \in 1 .. Len(files) : gs[i].offset = files[i].offset /\ gs[i].length = files[i].length
                                  /\ gs[i].staging = files[i].staging
  BY <1>13, <1>17 DEF Same, Rewritten, Alike
<1>19. gs[a].size = g.size
  BY <1>2, <1>5, <1>13, <1>17 DEF Same
<1>20. OpFits(Advance(gs, n), gs)
  <2>1. \A i \in Reals(gs) : i <= op.at => gs[i].offset <= op.off
    <3>1. \A i \in Reals(gs) : i \in Reals(files) /\ i \in 1 .. Len(files)
      BY <1>4, <1>17 DEF Reals
    <3> QED BY <1>2, <1>18, <3>1 DEF IOFits
  <2>2. ASSUME n < op.len
        PROVE  gs[op.at].staging \/ gs[op.at].size >= gs[op.at].length
    <3>1. f.offset \in Nat /\ f.length \in Nat /\ f.size \in Nat
      BY <1>2, <1>5, <1>6, FileFacts
    <3>2. ~f.staging => (op.off + n) - f.offset = f.length
      BY <1>2, <1>3, <1>5, <1>6, <2>2, <3>1, SMTT(60)
    <3>3. ~f.staging => g.size >= f.length
      BY <1>8, <3>1, <3>2 DEF Most
    <3> QED BY <1>2, <1>5, <1>6, <1>18, <1>19, <3>3
  <2>3. op.at \in 1 .. Len(gs) /\ (op.at = Len(gs) => n = op.len)
    BY <1>2, <1>3, <1>17
  <2>4. ~(n < op.len /\ op.at = Len(gs)) /\ op.kind # "read"
    BY <1>2, <2>3
  <2> QED BY <1>2, <1>3, <1>17, <2>1, <2>2, <2>3, <2>4, AdvanceFits
<1>21. Advance(gs, n) = Advance(fs, n)
  <2>1. Len(gs) = Len(fs)
    BY <1>13, <1>17
  <2>2. ASSUME op.at # Len(fs)
        PROVE  gs[op.at + 1].offset = fs[op.at + 1].offset
    <3>1. op.at + 1 \in 1 .. Len(files)
      BY <1>2, <1>4, <1>13, <2>2
    <3> QED BY <1>17, <3>1 DEF Same, Alike
  <2> QED BY <2>1, <2>2 DEF Advance
<1>22. SetTo(t) /\ op' = Advance(fs, n) /\ failed' = (failed /\ n = 0) /\ need' = (need \/ Reaches(fs, op.at))
       /\ UNCHANGED <<stage, unmerged>>
  BY <1>1, <1>9, <1>11, <1>14 DEF WriteFile
<1>23. files' = gs /\ nopened' = t.n /\ refusals' = t.r /\ Sound(gs, t.n, t.r)
  BY <1>16, <1>17, <1>22, GoodSound DEF SetTo
<1>24. Counts(files', stagedir', stagecount')
  BY <1>17, <1>22, <1>23 DEF IInv, Counts, stage
<1>25. need' \in BOOLEAN /\ failed' \in BOOLEAN /\ unmerged' \in BOOLEAN
  BY <1>22 DEF IInv, Reaches
<1> QED BY <1>20, <1>21, <1>22, <1>23, <1>24, <1>25 DEF IInv

LEMMA WriteRefusedStep ==
  ASSUME IInv, WriteRefused
  PROVE  IInv'
<1>1. PICK n : n = WriteLength(files, op.at) OBVIOUS
<1>2. /\ op.kind = "write" /\ op \in IOs /\ op.at \in 1 .. Len(files)
      /\ op.off \in Nat /\ op.len \in Nat /\ op.off + op.len <= Total /\ Total \in Nat
      /\ files[op.at] \in Files
  BY InStep DEF WriteRefused, Writing
<1>3. n \in 0 .. op.len /\ n \in Nat
  BY <1>1, WriteLengthFacts DEF WriteRefused
<1>4. /\ Good(Here) /\ Here.f = files /\ Here.n = nopened /\ Here.r = refusals
      /\ Here = [f |-> files, n |-> nopened, r |-> refusals]
      /\ refusals \in Nat /\ Shaped(files)
  BY HereFacts, SMTT(60) DEF Here
<1>5. PICK a : a = op.at OBVIOUS
<1>6. PICK f : f = files[a] OBVIOUS
<1>7. PICK d \in f.disk .. Most(f.disk, op.off + n - f.offset) :
        SetTo(Refused([Here EXCEPT !.f[op.at] =
                [f EXCEPT !.disk = d,
                          !.data = [c \in Cells |-> IF c \in op.off .. op.off + n - 1 THEN Unknown ELSE @[c]]]]))
  BY <1>1, <1>5, <1>6 DEF WriteRefused
<1> DEFINE bytes == [c \in Cells |-> IF c \in op.off .. op.off + n - 1 THEN Unknown ELSE f.data[c]]
<1>8. PICK g : g = StoredAs(f, d, bytes) OBVIOUS
<1>9. PICK s : s = [f |-> [files EXCEPT ![a] = g], n |-> nopened, r |-> refusals - 1] OBVIOUS
<1>10. SetTo(s)
  <2> DEFINE h == [f EXCEPT !.disk = d,
                            !.data = [c \in Cells |-> IF c \in op.off .. op.off + n - 1 THEN Unknown ELSE @[c]]]
  <2>2. h = g
    BY <1>8 DEF StoredAs
  <2> HIDE DEF h
  <2>3. Refused([Here EXCEPT !.f[op.at] = h]) = s
    <3>1. [Here EXCEPT !.f[op.at] = h] = [f |-> [files EXCEPT ![a] = g], n |-> nopened, r |-> refusals]
      BY <1>5, <2>2 DEF Here
    <3>2. PICK x : x = [Here EXCEPT !.f[op.at] = h] OBVIOUS
    <3>3. x = [f |-> [files EXCEPT ![a] = g], n |-> nopened, r |-> refusals]
      BY <3>1, <3>2
    <3>4. Refused(x) = s
      BY <1>9, <3>3 DEF Refused
    <3> QED BY <3>2, <3>4
  <2>1. Refused([Here EXCEPT !.f[op.at] =
                [f EXCEPT !.disk = d,
                          !.data = [c \in Cells |-> IF c \in op.off .. op.off + n - 1 THEN Unknown ELSE @[c]]]]) = s
    BY <2>3 DEF h
  <2> QED BY <1>7, <2>1
<1>11. /\ f \in Files /\ f.offset \in Nat /\ f.disk \in Int /\ -1 <= f.disk /\ f.offset + f.disk <= Total
       /\ f.data \in Bytes
  <2>1. f \in Files
    BY <1>2, <1>5, <1>6
  <2>2. /\ f.offset \in 0 .. Total - 1 /\ f.disk \in Int /\ -1 <= f.disk /\ f.offset + f.disk <= Total
        /\ f.data \in [Cells -> Versions \cup {Unknown}]
    BY <2>1, FileFacts
  <2> QED BY <1>2, <2>1, <2>2 DEF Bytes
<1>12. bytes \in Bytes
  BY <1>11 DEF Bytes
<1>13. d \in Int /\ -1 <= d /\ f.offset + d <= Total
  <2>1. op.off + n - f.offset = (op.off + n) - f.offset
    BY <1>2, <1>3, <1>11
  <2> QED BY <1>2, <1>3, <1>11, <2>1, SMTT(60) DEF Most
<1> HIDE DEF bytes
<1>14. g \in Files /\ Alike(f, g) /\ (g.opened <=> f.opened)
  BY <1>8, <1>11, <1>12, <1>13, StoredAsFacts
<1>15. Good(s) /\ Rewritten(files, s.f)
  <2>1. a \in 1 .. Len(Here.f) /\ Alike(Here.f[a], g) /\ (g.opened <=> Here.f[a].opened)
    BY <1>2, <1>4, <1>5, <1>6, <1>14
  <2>2. /\ s.f = Replaced(Here.f, a, g) /\ s.n = Here.n /\ s.r \in Nat /\ g \in Files
        /\ s = [f |-> s.f, n |-> s.n, r |-> s.r]
    BY <1>4, <1>9, <1>14 DEF WriteRefused, Replaced
  <2> HIDE DEF Here
  <2>3. Good(s) /\ Rewritten(Here.f, s.f)
    BY <1>4, <2>1, <2>2, RewriteGood
  <2> QED BY <1>4, <2>3
<1>16. files' = s.f /\ nopened' = s.n /\ refusals' = s.r /\ Sound(s.f, s.n, s.r)
  BY <1>10, <1>15, GoodSound DEF SetTo
<1>17. Counts(files', stagedir', stagecount')
  BY <1>4, <1>15, <1>16, RewrittenShaped DEF IInv, Counts, stage, WriteRefused, Fails
<1> QED BY <1>16, <1>17, Small DEF IInv, WriteRefused, Fails

-----------------------------------------------------------------------------
(* The steps of a merge.                                                   *)

\* The list is rewritten.
LEMMA GoodStep ==
  ASSUME IInv, NEW s, Good(s), Rewritten(files, s.f), SetTo(s), stagedir' = stagedir, stagecount' = stagecount,
         need' \in BOOLEAN, failed' \in BOOLEAN, unmerged' \in BOOLEAN, OpFits(op', s.f)
  PROVE  IInv'
<1>1. files' = s.f /\ nopened' = s.n /\ refusals' = s.r
  BY DEF SetTo
<1>2. Sound(files', nopened', refusals')
  BY <1>1, GoodSound
<1>3. Counts(files', stagedir', stagecount')
  BY <1>1, HereFacts, RewrittenShaped DEF IInv, Counts
<1> QED BY <1>1, <1>2, <1>3 DEF IInv

LEMMA BackOp ==
  ASSUME NEW fs, Shaped(fs), NEW back, BackFits(back, fs)
  PROVE  /\ OpFits(back, fs) /\ back.kind \in {"idle", "extend", "write"}
         /\ \A merged : OpFits(Return(back, merged), fs)
<1>1. OpFits(back, fs) /\ back.kind \in {"idle", "extend", "write"}
  <2>1. CASE back = Idle
    BY <2>1, Small DEF Idle
  <2>2. CASE back.kind = "extend" /\ back = Extending(back.wanted)
    <3>1. 1 \in 1 .. Len(fs) + 1
      BY Geometry
    <3>2. back = [kind |-> "extend", at |-> 1, wanted |-> back.wanted]
      BY <2>2 DEF Extending
    <3>3. back.at = 1
      BY <3>2
    <3> QED BY <2>2, <3>1, <3>2, <3>3 DEF OpFits, ExtendFits
  <2>3. CASE HeldFits(back, fs)
    BY <2>3 DEF HeldFits, OpFits
  <2> QED BY <2>1, <2>2, <2>3 DEF BackFits
<1> QED BY <1>1, Small DEF Return

LEMMA StartMergeStep ==
  ASSUME IInv, StartMerge
  PROVE  IInv'
<1>1. PICK all \in BOOLEAN : op' = MergeOp(all, Idle)
  BY DEF StartMerge
<1>2. op' = [kind |-> "merge", all |-> all, merged |-> FALSE, tries |-> 1, back |-> Idle]
  BY <1>1 DEF MergeOp
<1>3. BackFits(Idle, files) /\ Idle.kind # "write"
  BY Small DEF Idle
<1>4. MergeFits(op', files)
  BY <1>2, <1>3 DEF MergeFits
<1> QED BY <1>4, Stable DEF StartMerge, IInv, OpFits, disk, stage

LEMMA MergeNoneStep ==
  ASSUME IInv, MergeNone
  PROVE  IInv'
<1>1. BackFits(op.back, files)
  BY Kinds DEF MergeNone, Merging, IInv, MergeFits
<1>2. OpFits(op', files)
  BY <1>1, BackOp, HereFacts DEF MergeNone
<1> QED BY <1>2, Stable DEF MergeNone, IInv, disk, stage

LEMMA MergeFailsStep ==
  ASSUME IInv, op.tries \in Nat, NEW s, Good(s), Rewritten(files, s.f), BackFits(op.back, s.f), MergeFails(s),
         failed' \in BOOLEAN
  PROVE  IInv'
<1>1. OpFits(op', s.f)
  <2>1. CASE op.tries > 1
    <3>1. op' = [kind |-> "merge", all |-> FALSE, merged |-> FALSE, tries |-> op.tries - 1, back |-> op.back]
      BY <2>1 DEF MergeFails, MergeOp
    <3>2. op.tries - 1 \in Nat
      BY <2>1
    <3>3. MergeFits(op', s.f)
      BY <3>1, <3>2 DEF MergeFits
    <3> QED BY <3>3 DEF OpFits
  <2>2. CASE ~(op.tries > 1)
    <3>1. Shaped(s.f)
      BY DEF Good
    <3> QED BY <2>2, <3>1, BackOp DEF MergeFails
  <2> QED BY <2>1, <2>2
<1>2. need' \in BOOLEAN /\ unmerged' \in BOOLEAN /\ stagedir' = stagedir /\ stagecount' = stagecount /\ SetTo(s)
  BY DEF MergeFails, IInv, stage
<1> QED BY <1>1, <1>2, GoodStep

\* The first file that can be merged with the one behind it, which no interrupted write is at.
LEMMA CandidateFacts ==
  ASSUME IInv, Merging, Candidates # {}, NEW dst, dst = Min(Candidates)
  PROVE  /\ dst \in 1 .. Len(files) - 1 /\ dst + 1 \in 1 .. Len(files) /\ dst \in Nat
         /\ Mergeable(files, dst) /\ ~files[dst].staging /\ files[dst + 1].staging
         /\ MergeFits(op, files)
         /\ op.back.kind = "write" => op.back.at # dst + 1 /\ HeldFits(op.back, files)
<1>1. Len(files) \in Nat /\ DOMAIN files = 1 .. Len(files)
  BY HereFacts
<1>2. Candidates \in SUBSET Nat
  BY <1>1 DEF Candidates
<1>3. dst \in Candidates
  BY <1>2, MinIs
<1>4. dst \in 1 .. Len(files) /\ Mergeable(files, dst)
  BY <1>1, <1>3 DEF Candidates
<1>5. /\ dst \in 1 .. Len(files) - 1 /\ dst + 1 \in 1 .. Len(files) /\ dst \in Nat
      /\ ~files[dst].staging /\ files[dst + 1].staging
  BY <1>1, <1>4 DEF Mergeable
<1>6. MergeFits(op, files)
  BY Kinds DEF Merging, IInv
<1>7. ASSUME op.back.kind = "write"
      PROVE  op.back.at # dst + 1 /\ HeldFits(op.back, files)
  <2>1. HeldFits(op.back, files)
    BY <1>6, <1>7 DEF MergeFits, BackFits, Idle
  <2>2. ASSUME op.back.at = dst + 1
        PROVE  FALSE
    <3>1. Apart(files, op.back.at)
      BY <1>5, <2>1, <2>2 DEF HeldFits
    <3>2. op.back.at - 1 = dst
      BY <1>5, <2>2
    <3> QED BY <1>4, <3>1, <3>2 DEF Apart
  <2> QED BY <2>1, <2>2
<1> QED BY <1>4, <1>5, <1>6, <1>7

LEMMA MergeOpenStep ==
  ASSUME IInv, MergeOpen
  PROVE  IInv'
<1>1. PICK dst : dst = Min(Candidates) OBVIOUS
<1>2. /\ dst \in 1 .. Len(files) - 1 /\ dst + 1 \in 1 .. Len(files) /\ dst \in Nat
      /\ ~files[dst].staging /\ files[dst + 1].staging
      /\ MergeFits(op, files)
      /\ op.back.kind = "write" => op.back.at # dst + 1
  BY <1>1, CandidateFacts DEF MergeOpen
<1>3. PICK src : src = dst + 1 OBVIOUS
<1>4. /\ End(files[src]) > End(files[dst])
      /\ \E r \in Open(Here, src, FALSE, 0) :
           IF ~r.ok THEN MergeFails(r.s)
           ELSE \E q \in Open(r.s, dst, TRUE, src) :
             IF ~q.ok THEN MergeFails(q.s)
             ELSE SetTo(q.s) /\ op' = CopyOp(dst) /\ UNCHANGED <<need, stage, unmerged>>
  BY <1>1, <1>3 DEF MergeOpen
<1>5. PICK r \in Open(Here, src, FALSE, 0) :
           IF ~r.ok THEN MergeFails(r.s)
           ELSE \E q \in Open(r.s, dst, TRUE, src) :
             IF ~q.ok THEN MergeFails(q.s)
             ELSE SetTo(q.s) /\ op' = CopyOp(dst) /\ UNCHANGED <<need, stage, unmerged>>
  BY <1>4
<1>6. /\ Good(Here) /\ Here.f = files /\ src \in 1 .. Len(Here.f) /\ dst \in 1 .. Len(files)
      /\ Len(files) \in Nat
  BY <1>2, <1>3, HereFacts
<1>7. failed' \in BOOLEAN /\ op.tries \in Nat /\ BackFits(op.back, files)
  BY <1>2 DEF MergeOpen, IInv, MergeFits
<1>8. PICK write : write = FALSE OBVIOUS
<1>9. PICK keep : keep = 0 OBVIOUS
<1>10. Opens(Here, r.s) /\ r.ok \in BOOLEAN /\ (r.ok => Usable(r.s.f[src], FALSE)) /\ Good(r.s)
  <2>1. r \in Open(Here, src, write, keep) /\ write \in BOOLEAN
    BY <1>5, <1>8, <1>9
  <2>2. Opens(Here, r.s) /\ r.ok \in BOOLEAN /\ (r.ok => Usable(r.s.f[src], write))
    BY <1>6, <2>1, OpenFacts
  <2> QED BY <1>8, <2>2 DEF Opens
<1>11. \A s : Opens(Here, s) => Good(s) /\ Rewritten(files, s.f) /\ BackFits(op.back, s.f)
  BY <1>6, <1>7, OpensFits DEF Opens
<1>12. CASE ~r.ok
  <2>1. MergeFails(r.s)
    BY <1>5, <1>12
  <2> QED BY <1>7, <1>10, <1>11, <2>1, MergeFailsStep
<1>13. CASE r.ok
  <2>1. PICK q \in Open(r.s, dst, TRUE, src) :
             IF ~q.ok THEN MergeFails(q.s)
             ELSE SetTo(q.s) /\ op' = CopyOp(dst) /\ UNCHANGED <<need, stage, unmerged>>
    BY <1>5, <1>13
  <2>2. PICK t : t = r.s OBVIOUS
  <2>3. Good(t) /\ Len(t.f) = Len(files)
    BY <1>6, <1>10, <2>2 DEF Opens, Rewritten
  <2>4. PICK yes : yes = TRUE OBVIOUS
  <2>5. q \in Open(t, dst, yes, src) /\ yes \in BOOLEAN /\ dst \in 1 .. Len(t.f)
    BY <1>6, <2>1, <2>2, <2>3, <2>4
  <2>6. /\ Opens(t, q.s) /\ q.ok \in BOOLEAN /\ (q.ok => Usable(q.s.f[dst], yes))
        /\ src \in 1 .. Len(t.f) /\ src # dst => q.s.f[src] = t.f[src]
    BY <2>3, <2>5, OpenFacts
  <2>7. Opens(Here, q.s)
    BY <1>6, <1>10, <2>2, <2>6, OpensTransitive
  <2>8. CASE ~q.ok
    <3>1. MergeFails(q.s)
      BY <2>1, <2>8
    <3> QED BY <1>7, <1>11, <2>7, <3>1, MergeFailsStep
  <2>9. CASE q.ok
    <3>1. PICK s : s = q.s OBVIOUS
    <3>2. SetTo(s) /\ op' = CopyOp(dst) /\ UNCHANGED <<need, stage, unmerged>>
      BY <2>1, <2>9, <3>1
    <3>3. Usable(s.f[dst], TRUE) /\ Usable(s.f[src], FALSE)
      BY <1>2, <1>3, <1>6, <1>10, <1>13, <2>2, <2>3, <2>4, <2>6, <2>9, <3>1
    <3>4. /\ Opens(Here, s) /\ Len(s.f) = Len(files)
          /\ \A i \in 1 .. Len(files) : End(s.f[i]) = End(files[i]) /\ Same(files[i], s.f[i])
      BY <2>7, <3>1, OpensFits
    <3>5. ~s.f[dst].staging /\ s.f[src].staging
      BY <1>2, <1>3, <1>6, <3>4 DEF Same, Alike
    <3>6. op' = [kind |-> "copy", all |-> op.all, merged |-> op.merged, tries |-> op.tries, back |-> op.back,
                 dst |-> dst, pos |-> End(files[dst])]
      BY <3>2 DEF CopyOp
    <3>7. End(files[dst]) = End(s.f[dst]) /\ End(files[dst]) <= End(s.f[dst + 1])
      <4>1. End(files[dst]) \in Nat /\ End(files[src]) \in Nat
        BY <1>6, HereFacts, FileFacts
      <4> QED BY <1>2, <1>3, <1>4, <1>6, <3>4, <4>1
    <3>8. CopyFits(op', s.f)
      BY <1>2, <1>3, <1>6, <1>7, <1>11, <3>3, <3>4, <3>5, <3>6, <3>7 DEF CopyFits, MergeFits
    <3>9. OpFits(op', s.f)
      BY <3>8 DEF OpFits
    <3>10. need' \in BOOLEAN /\ unmerged' \in BOOLEAN /\ stagedir' = stagedir /\ stagecount' = stagecount
      BY <3>2 DEF IInv, stage
    <3> QED BY <1>7, <1>11, <3>2, <3>4, <3>9, <3>10, GoodStep
  <2> QED BY <2>6, <2>8, <2>9
<1> QED BY <1>10, <1>12, <1>13

\* Only file i changes, in its size and what it holds.
LEMMA GrownBack ==
  ASSUME NEW fs, Shaped(fs), NEW gs, Rewritten(fs, gs), NEW i \in 1 .. Len(fs),
         \A j \in 1 .. Len(fs) : j # i => gs[j] = fs[j],
         NEW o, BackFits(o, fs), o.kind = "write" => o.at # i + 1
  PROVE  BackFits(o, gs)
<1>1. Len(gs) = Len(fs) /\ Reals(gs) = Reals(fs) /\ Len(fs) \in Nat
  BY RewrittenShaped, Geometry DEF Rewritten
<1>2. \A j \in 1 .. Len(fs) : gs[j].offset = fs[j].offset /\ (gs[j].staging <=> fs[j].staging)
  BY DEF Rewritten, Alike
<1>3. CASE HeldFits(o, fs)
  <2>1. /\ o.kind = "write" /\ o \in IOs /\ o.at \in 1 .. Len(fs) /\ o.off + o.len <= Total /\ ~o.null /\ o.merged
        /\ (\A j \in Reals(fs) : j <= o.at => fs[j].offset <= o.off)
        /\ (fs[o.at].staging => Apart(fs, o.at)) /\ o.at # i + 1
    BY <1>3 DEF HeldFits, IOFits
  <2>2. \A j \in Reals(gs) : j <= o.at => gs[j].offset <= o.off
    <3>1. \A j \in Reals(fs) : j \in 1 .. Len(fs)
      BY Geometry DEF Reals
    <3> QED BY <1>1, <1>2, <2>1, <3>1
  <2>3. ASSUME gs[o.at].staging
        PROVE  Apart(gs, o.at)
    <3>1. o.at > 1 /\ ~Mergeable(fs, o.at - 1)
      BY <1>2, <2>1, <2>3 DEF Apart
    <3>2. o.at - 1 \in 1 .. Len(fs) /\ o.at - 1 # i /\ (o.at - 1) + 1 = o.at
      BY <1>1, <2>1, <3>1
    <3>3. gs[o.at - 1] = fs[o.at - 1]
      BY <3>2
    <3>4. Mergeable(gs, o.at - 1) <=> Mergeable(fs, o.at - 1)
      BY <1>1, <1>2, <2>1, <3>2, <3>3 DEF Mergeable
    <3> QED BY <3>1, <3>4 DEF Apart
  <2>4. IOFits(o, gs)
    BY <1>1, <2>1, <2>2 DEF IOFits
  <2> QED BY <2>1, <2>3, <2>4 DEF BackFits, HeldFits
<1> QED BY <1>3 DEF BackFits

LEMMA CopyFacts ==
  ASSUME IInv, Copying
  PROVE  /\ CopyFits(op, files) /\ op.dst \in 1 .. Len(files) - 1 /\ op.dst \in Nat
         /\ op.dst \in 1 .. Len(files) /\ op.dst + 1 \in 1 .. Len(files)
         /\ ~files[op.dst].staging /\ files[op.dst + 1].staging
         /\ op.pos = End(files[op.dst]) /\ op.pos \in Nat /\ op.pos <= End(files[op.dst + 1])
         /\ End(files[op.dst + 1]) \in Nat /\ End(files[op.dst + 1]) <= Total
         /\ files[op.dst].offset \in Nat /\ files[op.dst].size \in Nat
         /\ op.pos = files[op.dst].offset + files[op.dst].size
         /\ BackFits(op.back, files) /\ (op.back.kind = "write" => op.back.at # op.dst + 1 /\ ~op.all)
         /\ op.tries \in Nat
<1>1. CopyFits(op, files)
  BY Kinds DEF Copying, IInv
<1>2. op.dst \in 1 .. Len(files) - 1 /\ Len(files) \in Nat
  BY <1>1, HereFacts DEF CopyFits
<1>3. op.dst \in Nat /\ op.dst \in 1 .. Len(files) /\ op.dst + 1 \in 1 .. Len(files)
  BY <1>2
<1>4. files[op.dst] \in Files /\ files[op.dst + 1] \in Files
  BY <1>3, HereFacts
<1>5. /\ End(files[op.dst]) \in Nat /\ End(files[op.dst + 1]) \in Nat /\ End(files[op.dst + 1]) <= Total
      /\ files[op.dst].offset \in Nat /\ files[op.dst].size \in Nat
      /\ End(files[op.dst]) = files[op.dst].offset + files[op.dst].size
  BY <1>4, FileFacts
<1> QED BY <1>1, <1>2, <1>3, <1>5 DEF CopyFits

\* The next chunk is not empty.
LEMMA ChunkFacts ==
  ASSUME IInv, Copying, ~Copied, NEW e, e = ChunkEnd
  PROVE  e \in Nat /\ op.pos < e /\ e <= End(files[op.dst + 1]) /\ e <= Total
<1>1. op.pos < End(files[op.dst + 1])
  BY CopyFacts DEF Copied
<1>2. CopySize \in Nat \ {0} /\ Total \in Nat
  BY StagingAssumption, Extents DEF StagingAssumption
<1>3. PICK x : x = End(files[op.dst + 1]) OBVIOUS
<1>4. PICK p : p = op.pos OBVIOUS
<1>5. x \in Nat /\ x <= Total /\ p \in Nat /\ p < x
  BY <1>1, <1>3, <1>4, CopyFacts
<1>6. e = Least(p + CopySize, x)
  BY <1>3, <1>4 DEF ChunkEnd
<1>7. e \in Nat /\ p < e /\ e <= x /\ e <= Total
  BY <1>2, <1>5, <1>6 DEF Least
<1> QED BY <1>3, <1>4, <1>7

LEMMA MergeCopyStep ==
  ASSUME IInv, MergeCopy
  PROVE  IInv'
<1>1. PICK dst : dst = op.dst OBVIOUS
<1>2. PICK e : e = ChunkEnd OBVIOUS
<1>3. PICK f : f = files[dst] OBVIOUS
<1>4. PICK src : src = dst + 1 OBVIOUS
<1>5. /\ CopyFits(op, files) /\ dst \in 1 .. Len(files) - 1 /\ dst \in 1 .. Len(files) /\ src \in 1 .. Len(files)
      /\ dst \in Nat /\ src # dst
      /\ op.pos = f.offset + f.size /\ op.pos \in Nat /\ f.offset \in Nat /\ f.size \in Nat
      /\ BackFits(op.back, files) /\ (op.back.kind = "write" => op.back.at # dst + 1 /\ ~op.all)
  BY <1>1, <1>3, <1>4, CopyFacts DEF MergeCopy
<1>6. e \in Nat /\ op.pos < e /\ e <= End(files[src]) /\ e <= Total
  BY <1>1, <1>2, <1>4, ChunkFacts DEF MergeCopy
<1>7. /\ Good(Here) /\ Here.f = files /\ Here.n = nopened /\ Here.r = refusals /\ Shaped(files) /\ f \in Files
      /\ refusals \in Nat /\ files[src] \in Files
  BY <1>3, <1>5, HereFacts
<1>8. PICK val : val = files[src].data OBVIOUS
<1>9. PICK g : g = Put(f, op.pos, e, val) OBVIOUS
<1>10. \A b \in Cells : val[b] \in Versions \cup {Unknown}
  BY <1>7, <1>8, FileFacts
<1>11. /\ g \in Files /\ Alike(f, g) /\ g.size = Most(f.size, e - f.offset) /\ g.size \in Nat
       /\ (g.opened <=> f.opened) /\ (g.readonly <=> f.readonly)
  BY <1>5, <1>6, <1>7, <1>9, <1>10, PutFacts
<1>12. End(g) = e
  <2>1. g.size = e - f.offset /\ g.offset = f.offset
    BY <1>5, <1>6, <1>11 DEF Most, Alike
  <2> QED BY <1>5, <1>6, <2>1 DEF End
<1>13. PICK s : s = [f |-> Replaced(files, dst, g), n |-> nopened, r |-> refusals] OBVIOUS
<1>14. SetTo(s)
  <2>1. files' = Replaced(files, dst, g)
    BY <1>1, <1>2, <1>3, <1>4, <1>8, <1>9 DEF MergeCopy, Replaced
  <2>2. nopened' = nopened /\ refusals' = refusals
    BY DEF MergeCopy
  <2> QED BY <1>13, <2>1, <2>2 DEF SetTo
<1>15. /\ Good(s) /\ Rewritten(files, s.f) /\ Len(s.f) = Len(files)
       /\ s.f[dst] = g /\ \A j \in 1 .. Len(files) : j # dst => s.f[j] = files[j]
  <2>1. dst \in 1 .. Len(Here.f) /\ Alike(Here.f[dst], g) /\ (g.opened <=> Here.f[dst].opened)
    BY <1>3, <1>5, <1>7, <1>11
  <2>2. /\ s.f = Replaced(Here.f, dst, g) /\ s.n = Here.n /\ s.r \in Nat /\ g \in Files
        /\ s = [f |-> s.f, n |-> s.n, r |-> s.r]
    BY <1>7, <1>11, <1>13
  <2> HIDE DEF Here
  <2>3. /\ Good(s) /\ Rewritten(Here.f, s.f) /\ Len(s.f) = Len(Here.f)
        /\ s.f[dst] = g /\ \A j \in 1 .. Len(Here.f) : j # dst => s.f[j] = Here.f[j]
    BY <1>7, <2>1, <2>2, RewriteGood
  <2> QED BY <1>7, <2>3
<1>16. BackFits(op.back, s.f)
  BY <1>5, <1>7, <1>15, GrownBack, SMTT(60)
<1>17. op' = [kind |-> "copy", all |-> op.all, merged |-> op.merged, tries |-> op.tries, back |-> op.back,
              dst |-> dst, pos |-> e]
  BY <1>1, <1>2, <1>5 DEF MergeCopy, CopyFits
<1>18. Usable(s.f[dst], TRUE) /\ Usable(s.f[src], FALSE) /\ ~s.f[dst].staging /\ s.f[src].staging
  <2>1. Usable(files[dst], TRUE) /\ Usable(files[src], FALSE) /\ ~files[dst].staging /\ files[src].staging
    BY <1>1, <1>4, <1>5 DEF CopyFits
  <2> QED BY <1>3, <1>5, <1>11, <1>15, <2>1 DEF Usable, Alike
<1>19. s.f[dst + 1] = s.f[src] /\ s.f[src] = files[src] /\ Len(s.f) = Len(files)
  BY <1>4, <1>5, <1>15
<1>20. /\ op.all \in BOOLEAN /\ op.merged \in BOOLEAN /\ op.tries \in Nat
  BY <1>5 DEF CopyFits
<1>21. CopyFits(op', s.f)
  BY <1>5, <1>6, <1>12, <1>15, <1>16, <1>17, <1>18, <1>19, <1>20 DEF CopyFits
<1>22. /\ stagedir' = stagedir /\ stagecount' = stagecount /\ need' \in BOOLEAN /\ failed' \in BOOLEAN
       /\ unmerged' \in BOOLEAN
  BY DEF MergeCopy, stage, IInv
<1> QED BY <1>14, <1>15, <1>21, <1>22, GoodStep DEF OpFits

LEMMA MergeCopyRefusedStep ==
  ASSUME IInv, MergeCopyRefused
  PROVE  IInv'
<1>1. PICK dst : dst = op.dst OBVIOUS
<1>2. PICK e : e = ChunkEnd OBVIOUS
<1>3. PICK f : f = files[dst] OBVIOUS
<1>4. PICK val : val = files[dst + 1].data OBVIOUS
<1>5. /\ dst \in 1 .. Len(files) /\ dst + 1 \in 1 .. Len(files) /\ dst \in Nat
      /\ op.pos \in Nat
      /\ BackFits(op.back, files) /\ (op.back.kind = "write" => op.back.at # dst + 1) /\ op.tries \in Nat
  BY <1>1, CopyFacts DEF MergeCopyRefused
<1>6. e \in Nat /\ e <= Total /\ Total \in Nat
  BY <1>1, <1>2, ChunkFacts, Extents DEF MergeCopyRefused
<1>7. /\ Good(Here) /\ Here.f = files /\ Here.n = nopened /\ Here.r = refusals /\ Shaped(files) /\ f \in Files
      /\ refusals \in Nat /\ files[dst + 1] \in Files
  BY <1>3, <1>5, HereFacts
<1>8. /\ f.offset \in Nat /\ f.disk \in Int /\ -1 <= f.disk /\ f.offset + f.disk <= Total
      /\ f.data \in Bytes /\ val \in Bytes
  BY <1>4, <1>7, FileFacts, SMTT(60) DEF Bytes
<1>9. PICK d \in f.disk .. Most(f.disk, e - f.offset) :
           MergeFails(Refused([Here EXCEPT !.f[dst] =
             [f EXCEPT !.disk = d,
                       !.data = [c \in Cells |-> IF c \in op.pos .. e - 1 /\ c < f.offset + d
                                                THEN val[c] ELSE @[c]]]]))
  BY <1>1, <1>2, <1>3, <1>4 DEF MergeCopyRefused
<1> DEFINE bytes == [c \in Cells |-> IF c \in op.pos .. e - 1 /\ c < f.offset + d THEN val[c] ELSE f.data[c]]
<1>10. bytes \in Bytes
  BY <1>8 DEF Bytes
<1>11. PICK g : g = StoredAs(f, d, bytes) OBVIOUS
<1>12. PICK s : s = [f |-> Replaced(files, dst, g), n |-> nopened, r |-> refusals - 1] OBVIOUS
<1>13. MergeFails(s)
  <2> DEFINE h == [f EXCEPT !.disk = d,
                       !.data = [c \in Cells |-> IF c \in op.pos .. e - 1 /\ c < f.offset + d
                                                THEN val[c] ELSE @[c]]]
  <2>1. h = g
    BY <1>11 DEF StoredAs
  <2>2. MergeFails(Refused([Here EXCEPT !.f[dst] = h]))
    BY <1>9
  <2> HIDE DEF h
  <2>3. PICK x : x = [Here EXCEPT !.f[dst] = h] OBVIOUS
  <2>4. x = [f |-> Replaced(files, dst, g), n |-> nopened, r |-> refusals]
    BY <2>1, <2>3 DEF Here, Replaced
  <2>5. Refused(x) = s
    BY <1>12, <2>4 DEF Refused
  <2> QED BY <2>2, <2>3, <2>5
<1>14. d \in Int /\ -1 <= d /\ f.offset + d <= Total
  BY <1>6, <1>8 DEF Most
<1> HIDE DEF bytes
<1>15. g \in Files /\ Alike(f, g) /\ (g.opened <=> f.opened)
  BY <1>7, <1>10, <1>11, <1>14, StoredAsFacts
<1>16. Good(s) /\ Rewritten(files, s.f) /\ \A j \in 1 .. Len(files) : j # dst => s.f[j] = files[j]
  <2>1. dst \in 1 .. Len(Here.f) /\ Alike(Here.f[dst], g) /\ (g.opened <=> Here.f[dst].opened)
    BY <1>3, <1>5, <1>7, <1>15
  <2>2. /\ s.f = Replaced(Here.f, dst, g) /\ s.n = Here.n /\ s.r \in Nat /\ g \in Files
        /\ s = [f |-> s.f, n |-> s.n, r |-> s.r]
    BY <1>7, <1>12, <1>15 DEF MergeCopyRefused
  <2> HIDE DEF Here
  <2>3. /\ Good(s) /\ Rewritten(Here.f, s.f) /\ Len(s.f) = Len(Here.f)
        /\ s.f[dst] = g /\ \A j \in 1 .. Len(Here.f) : j # dst => s.f[j] = Here.f[j]
    BY <1>7, <2>1, <2>2, RewriteGood, SMTT(60)
  <2> QED BY <1>7, <2>3
<1>17. BackFits(op.back, s.f)
  BY <1>5, <1>7, <1>16, GrownBack, SMTT(60)
<1>18. failed' \in BOOLEAN
  BY DEF MergeCopyRefused
<1> QED BY <1>5, <1>13, <1>16, <1>17, <1>18, MergeFailsStep

LEMMA CountIsNumber ==
  ASSUME NEW n \in Nat, NEW S \in SUBSET (1 .. n)
  PROVE  Cardinality(S) \in Nat /\ IsFiniteSet(S)
<1>1. IsFiniteSet(1 .. n)
  BY FS_Interval
<1>2. IsFiniteSet(S)
  BY <1>1, FS_Subset
<1> QED BY <1>2, FS_CardinalityType

LEMMA Taken ==
  ASSUME NEW fs, Shaped(fs), NEW k \in 1 .. Len(fs) - 1, NEW m, m = k + 1, fs[m].staging,
         NEW gs, gs = RemoveAt(fs, m)
  PROVE  Without(fs, m, gs)
<1>1. gs = RemoveAt(fs, k + 1) /\ fs[k + 1].staging
  OBVIOUS
<1>2. /\ Shaped(gs) /\ Len(gs) = Len(fs) - 1
      /\ \A j \in 1 .. k : gs[j] = fs[j]
      /\ \A j \in k + 1 .. Len(fs) - 1 : gs[j] = fs[j + 1]
      /\ \A j \in Reals(gs) : (j <= k /\ j \in Reals(fs)) \/ (j > k /\ j + 1 \in Reals(fs))
      /\ \A i \in Reals(fs) : (i <= k /\ i \in Reals(gs)) \/ (i > k + 1 /\ i - 1 \in Reals(gs))
  BY <1>1, RemoveShaped
<1>3. Cardinality({i \in DOMAIN fs : fs[i].opened}) =
        Cardinality({i \in DOMAIN gs : gs[i].opened}) + (IF fs[k + 1].opened THEN 1 ELSE 0)
  BY <1>1, RemoveCount
<1>4. DirsLess(fs, k + 1, gs)
  BY <1>1, RemoveCount
<1>6. ASSUME ~fs[m].opened
      PROVE  Cardinality(Opened(gs)) = Cardinality(Opened(fs))
  <2>1. Cardinality(Opened(fs)) = Cardinality(Opened(gs)) + (IF fs[k + 1].opened THEN 1 ELSE 0)
    BY <1>3 DEF Opened
  <2>2. Cardinality(Opened(gs)) \in Nat
    <3>1. Opened(gs) \in SUBSET (1 .. Len(gs)) /\ Len(gs) \in Nat
      BY <1>2, Geometry DEF Opened
    <3> QED BY <3>1, CountIsNumber
  <2> QED BY <1>6, <2>1, <2>2
<1>7. k \in Nat /\ m - 1 = k /\ m \in Nat
  BY Geometry
<1>8. \A j \in 1 .. m - 1 : gs[j] = fs[j]
  BY <1>2, <1>7
<1>9. ASSUME NEW j \in Reals(gs)
      PROVE  (j < m /\ j \in Reals(fs)) \/ (j >= m /\ j + 1 \in Reals(fs))
  <2>1. j \in Nat
    BY <1>2, Geometry DEF Reals
  <2> QED BY <1>2, <1>7, <2>1
<1> QED BY <1>2, <1>4, <1>6, <1>8, <1>9 DEF Without

LEMMA MovedFits ==
  ASSUME NEW fs, Shaped(fs), NEW k \in 1 .. Len(fs) - 1, NEW m, m = k + 1, fs[m].staging,
         NEW gs, gs = RemoveAt(fs, m), NEW o, HeldFits(o, fs), o.at # m, NEW b, b = Moved(o, m)
  PROVE  IOFits(b, gs) /\ b.kind = "write"
<1>1. /\ o.kind = "write" /\ o \in IOs /\ o.at \in 1 .. Len(fs) /\ o.off + o.len <= Total /\ ~o.null /\ o.merged
      /\ \A j \in Reals(fs) : j <= o.at => fs[j].offset <= o.off
  BY DEF HeldFits, IOFits
<1>10. Without(fs, m, gs)
  BY Taken
<1>11. k \in Nat /\ m - 1 = k /\ m \in Nat /\ Len(fs) \in Nat
  BY Geometry
<1>2. /\ Shaped(gs) /\ Len(gs) = Len(fs) - 1
      /\ \A j \in 1 .. k : gs[j] = fs[j]
      /\ \A j \in m .. Len(fs) - 1 : gs[j] = fs[j + 1]
      /\ \A j \in Reals(gs) : (j <= k /\ j \in Reals(fs)) \/ (j > k /\ j + 1 \in Reals(fs))
  <2>1. Shaped(gs) /\ \A j \in Reals(gs) : j \in Nat
    BY <1>10, Geometry DEF Reals, Without
  <2> QED BY <1>10, <1>11, <2>1 DEF Without
<1>3. Len(fs) \in Nat /\ k \in Nat /\ m \in Nat /\ o.at \in Nat
  BY <1>1, Geometry
<1>4. /\ b \in IOs /\ b.kind = "write" /\ b.off = o.off /\ b.len = o.len /\ ~b.null /\ b.merged
      /\ b.at = IF o.at > m THEN o.at - 1 ELSE o.at
  <2>1. CASE o.at > m
    <3>1. o.at - 1 \in Nat /\ o.at >= m
      BY <1>1, <1>3, <2>1
    <3>2. b = [o EXCEPT !.at = o.at - 1]
      BY <1>1, <3>1 DEF Moved
    <3>3. /\ b \in IOs /\ b.kind = o.kind /\ b.off = o.off /\ b.len = o.len /\ b.null = o.null /\ b.merged = o.merged
          /\ b.at = o.at - 1
      BY <1>1, <3>1, <3>2 DEF IOs
    <3> QED BY <1>1, <2>1, <3>3
  <2>2. CASE ~(o.at > m)
    <3>1. ~(o.at >= m)
      BY <1>3, <2>2
    <3>2. b = o
      BY <3>1 DEF Moved
    <3> QED BY <1>1, <2>2, <3>2
  <2> QED BY <2>1, <2>2
<1>5. b.at \in 1 .. Len(gs)
  BY <1>1, <1>2, <1>3, <1>4
<1>6. ASSUME NEW j \in Reals(gs), j <= b.at
      PROVE  gs[j].offset <= b.off
  <2>1. j \in 1 .. Len(gs)
    BY <1>2, Geometry DEF Reals
  <2>2. CASE j <= k /\ j \in Reals(fs)
    <3>1. gs[j] = fs[j] /\ j <= o.at
      BY <1>2, <1>3, <1>4, <1>6, <2>1, <2>2
    <3> QED BY <1>1, <1>4, <2>2, <3>1
  <2>3. CASE j > k /\ j + 1 \in Reals(fs)
    <3>1. j \in m .. Len(fs) - 1
      BY <1>2, <1>3, <2>1, <2>3
    <3>2. gs[j] = fs[j + 1] /\ j + 1 <= o.at
      BY <1>2, <1>3, <1>4, <1>6, <2>1, <2>3, <3>1
    <3> QED BY <1>1, <1>4, <2>3, <3>2
  <2> QED BY <1>2, <2>2, <2>3
<1> QED BY <1>1, <1>4, <1>5, <1>6 DEF IOFits

LEMMA DeleteStep ==
  ASSUME IInv, NEW dst \in 1 .. Len(files) - 1, files[dst + 1].staging, op.all \in BOOLEAN,
         BackFits(op.back, files), op.back.kind = "write" => ~op.all /\ op.back.at # dst + 1,
         NEW s, Opens(Here, s), Delete(dst, s)
  PROVE  IInv'
<1>1. PICK m : m = dst + 1 OBVIOUS
<1>2. /\ Good(Here) /\ Here.f = files /\ Shaped(files) /\ Len(files) \in Nat /\ DOMAIN files = 1 .. Len(files)
      /\ dst \in Nat /\ m \in 1 .. Len(files)
  BY <1>1, HereFacts
<1>3. PICK t : t = Close(s, m) OBVIOUS
<1>4. Opens(Here, t) /\ ~t.f[m].opened
  <2>1. Good(s) /\ Len(s.f) = Len(files)
    BY <1>2 DEF Opens, Rewritten
  <2>2. Opens(s, t) /\ ~t.f[m].opened
    BY <1>2, <1>3, <2>1, CloseFacts
  <2> QED BY <1>2, <2>2, OpensTransitive
<1>5. PICK fs : fs = t.f OBVIOUS
<1>6. /\ Good(t) /\ Shaped(fs) /\ Len(fs) = Len(files) /\ BackFits(op.back, fs)
      /\ t.n = Cardinality(Opened(fs)) /\ t.n <= MaxOpen + 1 /\ t.r \in Nat
      /\ \A d : InDir(fs, d) = InDir(files, d)
      /\ \A i \in 1 .. Len(files) : Same(files[i], fs[i])
  <2>1. Good(t) /\ t.r \in Nat /\ Rewritten(files, fs)
    BY <1>2, <1>4, <1>5, GoodFacts DEF Opens
  <2>2. \A d : InDir(fs, d) = InDir(files, d)
    BY <1>2, <2>1, RewrittenShaped
  <2> QED BY <1>4, <1>5, <2>1, <2>2, OpensFits DEF Good
<1>7. fs[m].staging /\ fs[m].dir = files[m].dir /\ ~fs[m].opened /\ dst \in 1 .. Len(fs) - 1
  BY <1>1, <1>2, <1>4, <1>5, <1>6 DEF Same, Alike
<1>8. PICK gs : gs = RemoveAt(fs, m) OBVIOUS
<1>9. /\ Shaped(gs) /\ Len(gs) = Len(fs) - 1
      /\ Cardinality(Opened(gs)) = Cardinality(Opened(fs))
      /\ \A d : Cardinality(InDir(fs, d)) = Cardinality(InDir(gs, d)) + (IF fs[m].dir = d THEN 1 ELSE 0)
  <2>1. Without(fs, m, gs)
    BY <1>1, <1>6, <1>7, <1>8, Taken
  <2> QED BY <1>7, <2>1 DEF Without, DirsLess
<1>10. files' = gs /\ nopened' = t.n /\ refusals' = t.r
  <2>1. SetTo([Close(s, dst + 1) EXCEPT !.f = RemoveAt(@, dst + 1)])
    BY DEF Delete
  <2>2. Close(s, dst + 1) = t /\ t \in States
    BY <1>1, <1>3, <1>6 DEF Good
  <2>3. PICK u : u = [t EXCEPT !.f = RemoveAt(@, dst + 1)] OBVIOUS
  <2>4. u.f = gs /\ u.n = t.n /\ u.r = t.r
    BY <1>1, <1>5, <1>8, <2>2, <2>3 DEF States
  <2>5. SetTo(u)
    BY <2>1, <2>2, <2>3
  <2> QED BY <2>4, <2>5 DEF SetTo
<1>11. Sound(files', nopened', refusals')
  BY <1>6, <1>9, <1>10 DEF Sound
<1>12. Counts(files', stagedir', stagecount')
  <2> DEFINE D == Cells \cup {NoDir}
             x == files[m].dir
             of == stagecount > 0 /\ stagedir \in {NoDir, x}
  <2>1. /\ stagecount' = stagecount - (IF of THEN 1 ELSE 0)
        /\ stagedir' = IF of /\ stagecount = 1 THEN NoDir ELSE stagedir
    BY <1>1 DEF Delete, OfStageDir
  <2>2. stagedir \in D /\ stagecount \in Nat /\ NoDir \in D
        /\ (stagedir # NoDir => stagecount = Cardinality(InDir(files, stagedir)))
    BY DEF IInv, Counts
  <2>3. \A d : Cardinality(InDir(gs, d)) \in Nat
    <3>1. \A d : InDir(gs, d) \in SUBSET (1 .. Len(gs)) /\ Len(gs) \in Nat
      BY <1>9, Geometry DEF InDir
    <3> QED BY <3>1, CountIsNumber
  <2>4. stagedir # NoDir => stagecount = Cardinality(InDir(gs, stagedir)) + (IF x = stagedir THEN 1 ELSE 0)
    BY <1>6, <1>7, <1>9, <2>2
  <2>5. stagecount' \in Nat /\ stagedir' \in D
    <3> HIDE DEF D, x
    <3> QED BY <2>1, <2>2
  <2>6. ASSUME stagedir' # NoDir
        PROVE  stagecount' = Cardinality(InDir(gs, stagedir'))
    <3>1. stagedir' = stagedir /\ stagedir # NoDir
      BY <2>1, <2>6
    <3>2. PICK k : k = Cardinality(InDir(gs, stagedir)) OBVIOUS
    <3>3. k \in Nat /\ stagecount = k + (IF x = stagedir THEN 1 ELSE 0)
      BY <2>3, <2>4, <3>1, <3>2
    <3> HIDE DEF x
    <3>4. CASE x = stagedir
      <4>1. of
        BY <3>3, <3>4
      <4>2. stagecount = k + 1 /\ stagecount' = stagecount - 1
        BY <2>1, <3>3, <3>4, <4>1
      <4> QED BY <3>1, <3>2, <3>3, <4>2
    <3>5. CASE x # stagedir
      <4>1. ~of
        BY <3>1, <3>5
      <4>2. stagecount = k + 0 /\ stagecount' = stagecount - 0
        BY <2>1, <3>3, <3>5, <4>1
      <4> QED BY <3>1, <3>2, <3>3, <4>2
    <3> QED BY <3>4, <3>5
  <2> QED BY <1>10, <2>5, <2>6 DEF Counts
<1>13. PICK b : b = Moved(op.back, m) OBVIOUS
<1>14. op' = Resume(dst + 1) /\ UNCHANGED <<need, failed, unmerged>>
  BY DEF Delete
<1>15. op' = IF op.all THEN [MergeOp(TRUE, b) EXCEPT !.merged = TRUE] ELSE b
  BY <1>1, <1>13, <1>14 DEF Resume, Moved
<1>16. OpFits(op', gs)
  <2>1. CASE op.back.kind = "write"
    <3>1. HeldFits(op.back, fs)
      BY <1>6, <2>1 DEF BackFits, Idle
    <3>2. IOFits(b, gs) /\ b.kind = "write"
      BY <1>1, <1>6, <1>7, <1>8, <1>13, <2>1, <3>1, MovedFits
    <3>3. op' = b
      BY <1>15, <2>1
    <3> QED BY <3>2, <3>3 DEF OpFits
  <2>2. CASE op.back.kind # "write"
    <3>1. b = op.back
      BY <1>13, <2>2 DEF Moved
    <3>2. BackFits(b, gs)
      BY <1>6, <2>2, <3>1 DEF BackFits, HeldFits
    <3>3. CASE op.all
      <4>1. op' = [kind |-> "merge", all |-> TRUE, merged |-> TRUE, tries |-> 1, back |-> b]
        BY <1>15, <3>3 DEF MergeOp
      <4>2. MergeFits(op', gs)
        BY <2>2, <3>1, <3>2, <4>1 DEF MergeFits
      <4> QED BY <4>2 DEF OpFits
    <3>4. CASE ~op.all
      BY <1>9, <1>15, <3>2, <3>4, BackOp
    <3> QED BY <3>3, <3>4
  <2> QED BY <2>1, <2>2
<1> QED BY <1>10, <1>11, <1>12, <1>14, <1>16 DEF IInv

LEMMA MergePresentStep ==
  ASSUME IInv, MergePresent
  PROVE  IInv'
<1>1. PICK dst : dst = Min(Candidates) OBVIOUS
<1>2. /\ dst \in 1 .. Len(files) - 1 /\ files[dst + 1].staging /\ MergeFits(op, files)
      /\ op.back.kind = "write" => op.back.at # dst + 1
  BY <1>1, CandidateFacts DEF MergePresent
<1>3. Delete(dst, Here)
  BY <1>1 DEF MergePresent
<1>4. Opens(Here, Here)
  BY HereFacts, OpensItself
<1> QED BY <1>2, <1>3, <1>4, DeleteStep DEF MergeFits

LEMMA MergeDoneStep ==
  ASSUME IInv, MergeDone
  PROVE  IInv'
<1>1. PICK dst : dst = op.dst OBVIOUS
<1>2. /\ CopyFits(op, files) /\ dst \in 1 .. Len(files) - 1 /\ dst \in 1 .. Len(files) /\ files[dst + 1].staging
      /\ BackFits(op.back, files) /\ op.back.kind = "write" => op.back.at # dst + 1 /\ ~op.all
  BY <1>1, CopyFacts DEF MergeDone
<1>3. PICK s : s = IF files[dst].size = files[dst].length THEN Close(Here, dst) ELSE Here OBVIOUS
<1>4. Delete(dst, s)
  BY <1>1, <1>3 DEF MergeDone
<1>5. Opens(Here, s)
  <2>1. Good(Here) /\ Here.f = files
    BY HereFacts
  <2>2. CASE files[dst].size = files[dst].length
    <3>1. s = Close(Here, dst) /\ dst \in 1 .. Len(Here.f)
      BY <1>2, <1>3, <2>1, <2>2
    <3> HIDE DEF Here
    <3> QED BY <2>1, <3>1, CloseFacts
  <2>3. CASE files[dst].size # files[dst].length
    BY <1>3, <2>1, <2>3, OpensItself
  <2> QED BY <2>2, <2>3
<1>6. op.all \in BOOLEAN /\ (op.back.kind = "write" => ~op.all /\ op.back.at # dst + 1)
  BY <1>1, CopyFacts DEF MergeDone, CopyFits
<1>7. BackFits(op.back, files)
  BY <1>2 DEF CopyFits
<1> QED BY <1>2, <1>4, <1>5, <1>6, <1>7, DeleteStep

-----------------------------------------------------------------------------
(* The steps of the loop and of the start, but for the restart itself.     *)

LEMMA CloseAllFilesStep ==
  ASSUME IInv, CloseAllFiles
  PROVE  IInv'
<1>1. PICK gs : gs = files' OBVIOUS
<1>2. PICK shut : shut = {i \in Reals(files) : files[i].opened} OBVIOUS
<1>3. /\ gs = [i \in DOMAIN files |-> IF i \in shut THEN [files[i] EXCEPT !.opened = FALSE, !.readonly = FALSE]
                                      ELSE files[i]]
      /\ nopened' = nopened - Cardinality(shut) /\ op = Idle
      /\ UNCHANGED <<refusals, need, failed, stage, op, unmerged>>
  BY <1>1, <1>2 DEF CloseAllFiles
<1>4. /\ Shaped(files) /\ Len(files) \in Nat \ {0} /\ DOMAIN files = 1 .. Len(files)
      /\ \A i \in 1 .. Len(files) : files[i] \in Files
      /\ refusals \in Nat /\ nopened \in Nat
      /\ nopened = Cardinality(Opened(files)) /\ nopened <= MaxOpen + 1 /\ MaxOpen \in Nat
  BY HereFacts, StagingAssumption DEF IInv, Sound, StagingAssumption
<1>5. ASSUME NEW i \in 1 .. Len(files)
      PROVE  gs[i] \in Files /\ Alike(files[i], gs[i]) /\ (gs[i].opened <=> files[i].opened /\ i \notin shut)
  <2>1. CASE i \in shut
    <3>1. PICK f : f = files[i] OBVIOUS
    <3>2. PICK g : g = gs[i] OBVIOUS
    <3>3. PICK no : no = FALSE OBVIOUS
    <3>4. g = OpenedAs(f, no, no)
      BY <1>3, <1>4, <2>1, <3>1, <3>2, <3>3 DEF OpenedAs
    <3>5. g \in Files /\ Alike(f, g) /\ (g.opened <=> no)
      BY <1>4, <3>1, <3>3, <3>4, OpenedAsFacts
    <3> QED BY <2>1, <3>1, <3>2, <3>3, <3>5
  <2>2. CASE i \notin shut
    <3>1. gs[i] = files[i]
      BY <1>3, <1>4, <2>2
    <3> QED BY <1>4, <2>2, <3>1 DEF Alike
  <2> QED BY <2>1, <2>2
<1>6. gs \in Seq(Files) /\ Len(gs) = Len(files) /\ DOMAIN gs = 1 .. Len(files)
  <2>1. DOMAIN gs = 1 .. Len(files) /\ gs = [i \in 1 .. Len(files) |-> gs[i]]
    BY <1>3, <1>4
  <2>2. gs \in [1 .. Len(files) -> Files]
    BY <1>5, <2>1
  <2> HIDE DEF Files
  <2> QED BY <1>4, <2>1, <2>2
<1>7. Rewritten(files, gs) /\ Shaped(gs) /\ \A d : InDir(gs, d) = InDir(files, d)
  <2>1. Rewritten(files, gs)
    BY <1>5, <1>6 DEF Rewritten
  <2> QED BY <1>4, <2>1, RewrittenShaped
<1>8. Cardinality(Opened(gs)) = nopened - Cardinality(shut) /\ Cardinality(shut) \in Nat
  <2>1. Opened(gs) = Opened(files) \ shut /\ shut \subseteq Opened(files)
    BY <1>2, <1>4, <1>5, <1>6 DEF Opened, Reals
  <2>2. Opened(files) \in SUBSET (1 .. Len(files))
    BY <1>4 DEF Opened
  <2>3. IsFiniteSet(Opened(files)) /\ Cardinality(Opened(files)) \in Nat
    BY <1>4, <2>2, CountIsNumber
  <2>4. shut \in SUBSET (1 .. Len(files)) /\ Opened(files) \cap shut = shut
    BY <2>1, <2>2
  <2>5. Cardinality(shut) \in Nat
    BY <1>4, <2>4, CountIsNumber
  <2>6. Cardinality(Opened(files) \ shut) = Cardinality(Opened(files)) - Cardinality(Opened(files) \cap shut)
    <3>1. IsFiniteSet(shut)
      BY <1>4, <2>4, CountIsNumber
    <3> QED BY <2>3, <3>1, FS_Difference
  <2> QED BY <1>4, <2>1, <2>4, <2>5, <2>6
<1>9. Sound(files', nopened', refusals')
  <2>1. nopened' = Cardinality(Opened(gs)) /\ nopened' <= MaxOpen + 1
    <3>1. PICK k : k = Cardinality(shut) OBVIOUS
    <3>2. nopened' = nopened - k
      BY <1>2, <3>1 DEF CloseAllFiles
    <3>3. k \in Nat /\ Cardinality(Opened(gs)) = nopened - k
      BY <1>8, <3>1
    <3>4. nopened \in Nat /\ nopened <= MaxOpen + 1 /\ MaxOpen \in Nat
      BY <1>4
    <3> QED BY <3>2, <3>3, <3>4
  <2> QED BY <1>1, <1>3, <1>4, <1>7, <2>1 DEF Sound
<1>10. Counts(files', stagedir', stagecount')
  BY <1>1, <1>3, <1>7 DEF IInv, Counts, stage
<1> QED BY <1>3, <1>9, <1>10, Small DEF IInv

LEMMA RetryStep ==
  ASSUME IInv, Retry
  PROVE  IInv'
BY Stable, Small DEF Retry, IInv, disk, stage

LEMMA CreateNoneStep ==
  ASSUME IInv, CreateNone
  PROVE  IInv'
BY Stable, Small DEF CreateNone, IInv, disk, stage

LEMMA RunStep ==
  ASSUME IInv, Run
  PROVE  IInv'
BY Stable, Small DEF Run, IInv, disk, stage

LEMMA CreateSparseStep ==
  ASSUME IInv, NEW wanted, CreateSparse(wanted)
  PROVE  IInv'
<1>1. op' = [kind |-> "merge", all |-> TRUE, merged |-> TRUE, tries |-> 1, back |-> Extending(wanted)]
  BY DEF CreateSparse, MergeOp
<1>2. BackFits(Extending(wanted), files) /\ Extending(wanted).kind # "write"
  BY Small DEF Extending
<1>3. MergeFits(op', files)
  BY <1>1, <1>2 DEF MergeFits
<1> QED BY <1>3, Stable DEF CreateSparse, IInv, OpFits, disk, stage

LEMMA ExtendSkipStep ==
  ASSUME IInv, ExtendSkip
  PROVE  IInv'
<1>1. ExtendFits(op, files) /\ Len(files) \in Nat
  BY Kinds, HereFacts DEF ExtendSkip, Extend, IInv
<1>2. CASE op.at > Len(files)
  <2>1. op' = [kind |-> "merge", all |-> TRUE, merged |-> FALSE, tries |-> 1, back |-> Extending(op.wanted)]
    BY <1>2 DEF ExtendSkip, MergeOp
  <2>2. BackFits(Extending(op.wanted), files) /\ Extending(op.wanted).kind # "write"
    BY Small DEF Extending
  <2>3. MergeFits(op', files)
    BY <2>1, <2>2 DEF MergeFits
  <2> QED BY <2>3, Stable DEF ExtendSkip, IInv, OpFits, disk, stage
<1>3. CASE ~(op.at > Len(files))
  <2>1. op.at + 1 \in 1 .. Len(files) + 1
    BY <1>1, <1>3 DEF ExtendFits
  <2>2. op' = [kind |-> "extend", at |-> op.at + 1, wanted |-> op.wanted]
    BY <1>1, <1>3 DEF ExtendSkip, ExtendFits
  <2>3. ExtendFits(op', files)
    BY <2>1, <2>2 DEF ExtendFits
  <2> QED BY <2>3, Stable DEF ExtendSkip, IInv, OpFits, disk, stage
<1> QED BY <1>2, <1>3

\* A file is extended to the next, or, the last of them, to its length.
LEMMA NewSizeFacts ==
  ASSUME NEW fs, Shaped(fs), NEW i \in Reals(fs), NEW new, new = NewSize(fs, i)
  PROVE  new \in Nat /\ fs[i].offset + new <= Total
<1>1. /\ Len(fs) \in Nat /\ DOMAIN fs = 1 .. Len(fs) /\ i \in 1 .. Len(fs)
      /\ fs[i].offset \in Nat /\ fs[i].length \in Nat /\ fs[i].offset + fs[i].length <= Total
  BY Geometry, FileFacts DEF Reals
<1>2. CASE i < Len(fs)
  <2>1. i + 1 \in 1 .. Len(fs)
    BY <1>1, <1>2
  <2>2. fs[i + 1].offset \in 0 .. Total - 1 /\ Total \in Nat
    BY <2>1, Geometry, FileFacts
  <2>3. fs[i].offset <= fs[i + 1].offset
    <3>1. i < i + 1
      BY <1>1
    <3> QED BY <1>1, <2>1, <3>1 DEF Shaped, Ordered
  <2>4. new = fs[i + 1].offset - fs[i].offset
    BY <1>2 DEF NewSize
  <2> QED BY <1>1, <2>2, <2>3, <2>4
<1>3. CASE ~(i < Len(fs))
  BY <1>1, <1>3 DEF NewSize
<1> QED BY <1>2, <1>3

LEMMA ExtendFileStep ==
  ASSUME IInv, ExtendFile
  PROVE  IInv'
<1>1. PICK i : i = op.at OBVIOUS
<1>2. ExtendFits(op, files) /\ Shaped(files) /\ Len(files) \in Nat /\ DOMAIN files = 1 .. Len(files)
  BY Kinds, HereFacts DEF ExtendFile, Extend, IInv
<1>3. i \in 1 .. Len(files) /\ ~files[i].staging /\ i \in Reals(files)
  BY <1>1, <1>2 DEF ExtendFile, Skipped, ExtendFits, Reals
<1>4. PICK new : new = NewSize(files, i) OBVIOUS
<1>5. new \in Nat /\ files[i].offset + new <= Total
  BY <1>2, <1>3, <1>4, NewSizeFacts, SMTT(60)
<1> DEFINE cut(f) == [f EXCEPT !.size = new, !.disk = new,
                        !.data = [c \in Cells |-> IF c < f.offset + new THEN @[c] ELSE Unknown]]
<1>6. PICK r \in Open(Here, op.at, TRUE, 0) : \E done \in IF r.ok /\ r.s.r > 0 THEN BOOLEAN ELSE {r.ok} :
       LET s == IF done THEN [r.s EXCEPT !.f[op.at] = cut(@)] ELSE IF r.ok THEN Refused(r.s) ELSE r.s
       IN  /\ SetTo(Close(s, op.at))
           /\ op' = IF done THEN [op EXCEPT !.at = @ + 1] ELSE Created
           /\ unmerged' = (unmerged \/ ~done)
  BY <1>1, <1>4 DEF ExtendFile
<1>7. PICK done \in IF r.ok /\ r.s.r > 0 THEN BOOLEAN ELSE {r.ok} :
       LET s == IF done THEN [r.s EXCEPT !.f[op.at] = cut(@)] ELSE IF r.ok THEN Refused(r.s) ELSE r.s
       IN  /\ SetTo(Close(s, op.at))
           /\ op' = IF done THEN [op EXCEPT !.at = @ + 1] ELSE Created
           /\ unmerged' = (unmerged \/ ~done)
  BY <1>6
<1>8. PICK t : t = r.s OBVIOUS
<1>9. Opens(Here, t) /\ r.ok \in BOOLEAN
  <2>1. Good(Here) /\ Here.f = files
    BY HereFacts
  <2>2. PICK yes : yes = TRUE OBVIOUS
  <2>3. PICK keep : keep = 0 OBVIOUS
  <2>4. r \in Open(Here, i, yes, keep) /\ yes \in BOOLEAN /\ i \in 1 .. Len(Here.f)
    BY <1>1, <1>3, <1>6, <2>1, <2>2, <2>3
  <2>5. Opens(Here, r.s) /\ r.ok \in BOOLEAN
    BY <2>1, <2>4, OpenFacts
  <2> QED BY <1>8, <2>5
<1>10. /\ Good(t) /\ t \in States /\ Shaped(t.f) /\ Len(t.f) = Len(files) /\ t.r \in Nat /\ Rewritten(files, t.f)
       /\ \A j \in 1 .. Len(t.f) : t.f[j] \in Files
  BY <1>9, HereFacts, GoodFacts, SMTT(60) DEF Opens, Rewritten
<1>11. PICK s : s = IF done THEN [t EXCEPT !.f[i] = cut(@)] ELSE IF r.ok THEN Refused(t) ELSE t
  OBVIOUS
<1>12. /\ SetTo(Close(s, i))
       /\ op' = IF done THEN [op EXCEPT !.at = @ + 1] ELSE Created
       /\ unmerged' = (unmerged \/ ~done)
  BY <1>1, <1>7, <1>8, <1>11
<1>13. Good(s) /\ Rewritten(t.f, s.f)
  <2>1. CASE done
    <3>1. PICK f : f = t.f[i] OBVIOUS
    <3>2. f \in Files /\ f.offset = files[i].offset
      BY <1>3, <1>10, <3>1 DEF Rewritten, Alike
    <3> DEFINE bytes == [c \in Cells |-> IF c < f.offset + new THEN f.data[c] ELSE Unknown]
    <3>3. bytes \in Bytes
      BY <3>2, FileFacts DEF Bytes
    <3>4. PICK g : g = GrownTo(f, new, new, bytes) OBVIOUS
    <3>5. g = cut(f)
      BY <3>4 DEF GrownTo
    <3> HIDE DEF bytes, cut
    <3>6. new \in Int /\ -1 <= new /\ f.offset + new <= Total
      BY <1>5, <3>2
    <3>7. g \in Files /\ Alike(f, g) /\ (g.opened <=> f.opened)
      BY <1>5, <3>2, <3>3, <3>4, <3>6, GrownToFacts
    <3>8. s = [t EXCEPT !.f = Replaced(t.f, i, g)]
      BY <1>11, <2>1, <3>1, <3>5 DEF Replaced
    <3>9. s.f = Replaced(t.f, i, g) /\ s.n = t.n /\ s.r = t.r /\ s = [f |-> s.f, n |-> s.n, r |-> s.r]
      BY <1>10, <3>8 DEF States
    <3>10. i \in 1 .. Len(t.f) /\ Alike(t.f[i], g) /\ (g.opened <=> t.f[i].opened) /\ s.r \in Nat
      BY <1>3, <1>10, <3>1, <3>7, <3>9
    <3>11. /\ Good(s) /\ Rewritten(t.f, s.f) /\ Len(s.f) = Len(t.f)
           /\ s.f[i] = g /\ \A j \in 1 .. Len(t.f) : j # i => s.f[j] = t.f[j]
      BY <1>10, <3>7, <3>9, <3>10, RewriteGood
    <3> QED BY <3>11
  <2>2. CASE ~done /\ r.ok
    <3>1. s = Refused(t)
      BY <1>11, <2>2
    <3>2. t.r > 0
      <4>1. done \in IF r.ok /\ t.r > 0 THEN BOOLEAN ELSE {r.ok}
        BY <1>8
      <4> QED BY <2>2, <4>1
    <3>3. t.r # 0
      BY <1>10, <3>2
    <3> QED BY <1>10, <3>1, <3>3, RefusedFacts DEF Opens
  <2>3. CASE ~done /\ ~r.ok
    <3>1. s = t
      BY <1>11, <2>3
    <3> QED BY <1>10, <3>1, OpensItself DEF Opens
  <2> QED BY <2>1, <2>2, <2>3
<1>14. PICK u : u = Close(s, i) OBVIOUS
<1>15. Good(u) /\ Rewritten(s.f, u.f)
  <2>1. i \in 1 .. Len(s.f)
    BY <1>3, <1>10, <1>13 DEF Rewritten
  <2> QED BY <1>13, <1>14, <2>1, CloseFacts DEF Opens
<1>16. Rewritten(files, u.f)
  BY <1>10, <1>13, <1>15 DEF Rewritten, Alike
<1>17. OpFits(op', u.f)
  <2>1. CASE done
    <3>1. op' = [kind |-> "extend", at |-> i + 1, wanted |-> op.wanted]
      BY <1>1, <1>2, <1>12, <2>1 DEF ExtendFits
    <3>2. i + 1 \in 1 .. Len(u.f) + 1
      BY <1>2, <1>3, <1>16 DEF Rewritten
    <3>3. ExtendFits(op', u.f)
      BY <3>1, <3>2 DEF ExtendFits
    <3> QED BY <3>3 DEF OpFits
  <2>2. CASE ~done
    BY <1>12, <2>2, Small
  <2> QED BY <2>1, <2>2
<1>18. /\ need' \in BOOLEAN /\ failed' \in BOOLEAN /\ unmerged' \in BOOLEAN /\ stagedir' = stagedir
       /\ stagecount' = stagecount
  BY <1>12 DEF ExtendFile, IInv, stage
<1> QED BY <1>12, <1>14, <1>15, <1>16, <1>17, <1>18, GoodStep

-----------------------------------------------------------------------------
(* Starting.                                                               *)

LEMMA FreshShaped ==
  ASSUME NEW fs, Fresh(fs)
  PROVE  Shaped(fs)
<1> DEFINE L == Len(FileLengths)
<1>1. L \in Nat \ {0} /\ DOMAIN FileLengths = 1 .. L
  BY Lengths
<1>2. fs \in Seq(Files) /\ Len(fs) = L /\ DOMAIN fs = 1 .. L
  BY DEF Fresh
<1>3. \A k \in 1 .. L : fs[k].offset = FileEnd[k - 1] /\ fs[k].length = FileLengths[k] /\ ~fs[k].staging
  BY DEF Fresh
<1> HIDE DEF L
<1>4. Reals(fs) = 1 .. L
  BY <1>2, <1>3 DEF Reals
<1>5. {Extent(fs[i]) : i \in Reals(fs)} = RealSet
  <2>1. \A k \in 1 .. L : Extent(fs[k]) = <<FileEnd[k - 1], FileLengths[k]>>
    BY <1>3 DEF Extent
  <2> QED BY <1>1, <1>4, <2>1 DEF RealSet
<1>6. Ordered(fs)
  <2> SUFFICES ASSUME NEW i \in 1 .. L, NEW j \in 1 .. L, i < j
               PROVE  fs[i].offset <= fs[j].offset /\ fs[i].offset < fs[j].offset
    BY <1>2, <1>4 DEF Ordered
  <2> DEFINE a == i - 1
             b == j - 1
  <2>1. a \in 0 .. L /\ b \in 0 .. L /\ a < b
    BY <1>1
  <2>2. fs[i].offset = FileEnd[a] /\ fs[j].offset = FileEnd[b]
    BY <1>3
  <2> HIDE DEF a, b
  <2>3. FileEnd[a] < FileEnd[b] /\ FileEnd[a] \in Nat /\ FileEnd[b] \in Nat
    BY <1>1, <2>1, Extents, FileEndRecursive DEF L
  <2> QED BY <2>2, <2>3
<1>7. Len(fs) >= 1 /\ ~fs[1].staging
  BY <1>1, <1>2, <1>3
<1> QED BY <1>2, <1>5, <1>6, <1>7 DEF Shaped

LEMMA FirstFiles ==
  ASSUME NEW k \in 1 .. Len(FileLengths), NEW f, f = File(FileEnd[k - 1], FileLengths[k], FALSE, NoDir)
  PROVE  f \in Files /\ f.offset = FileEnd[k - 1] /\ f.length = FileLengths[k] /\ ~f.staging /\ ~f.opened
<1> DEFINE D == Cells \cup {NoDir}
           off == FileEnd[k - 1]
           len == FileLengths[k]
<1>1. off \in Cells /\ len \in Nat /\ Total \in Nat
  <2> DEFINE a == k - 1
             L == Len(FileLengths)
  <2>1. a \in 0 .. L /\ k \in 0 .. L /\ a < k
    BY Lengths
  <2> HIDE DEF a
  <2>2. FileEnd[a] < FileEnd[k] /\ FileEnd[a] \in 0 .. Total /\ FileEnd[k] \in 0 .. Total
    BY <2>1, Extents
  <2>3. FileEnd[a] \in Cells
    BY <2>2, Extents
  <2> QED BY <2>3, Lengths, Extents DEF a
<1> HIDE DEF off, len
<1>2. f = File(off, len, FALSE, NoDir)
  BY DEF off, len
<1>3. /\ f \in [offset : Cells, length : Nat, size : Nat, disk : Int, data : Bytes,
                staging : BOOLEAN, dir : D, opened : BOOLEAN, readonly : BOOLEAN]
      /\ f.offset = off /\ f.length = len /\ f.size = 0 /\ f.disk = -1 /\ ~f.staging
      /\ ~f.opened
  <2>1. [c \in Cells |-> Unknown] \in Bytes /\ NoDir \in D
    BY DEF Bytes
  <2> HIDE DEF D
  <2> QED BY <1>1, <1>2, <2>1 DEF File
<1>4. f \in Recs
  BY <1>3 DEF Recs, Bytes
<1>5. off + 0 <= Total /\ off + (-1) <= Total /\ -1 <= -1
  BY <1>1, Extents
<1> QED BY <1>3, <1>4, <1>5 DEF Files, End, off, len

\* No file is open.
LEMMA NoneOpen ==
  ASSUME NEW fs, Shaped(fs), \A i \in 1 .. Len(fs) : ~fs[i].opened, NEW r \in Nat
  PROVE  Sound(fs, 0, r)
<1>1. Opened(fs) = {}
  BY Geometry DEF Opened
<1>2. Cardinality(Opened(fs)) = 0 /\ MaxOpen \in Nat
  BY <1>1, FS_EmptySet, StagingAssumption DEF StagingAssumption
<1> QED BY <1>2 DEF Sound

LEMMA InitFits ==
  ASSUME Init
  PROVE  IInv
<1> DEFINE L == Len(FileLengths)
<1>1. files = [i \in 1 .. L |-> File(FileEnd[i - 1], FileLengths[i], FALSE, NoDir)]
  BY Lengths DEF Init
<1>2. L \in Nat
  BY Lengths
<1>3. \A k \in 1 .. L : /\ files[k] \in Files /\ files[k].offset = FileEnd[k - 1] /\ files[k].length = FileLengths[k]
                        /\ ~files[k].staging /\ ~files[k].opened
  <2> TAKE k \in 1 .. L
  <2>1. PICK f : f = File(FileEnd[k - 1], FileLengths[k], FALSE, NoDir) OBVIOUS
  <2>2. files[k] = f
    BY <1>1, <2>1
  <2> QED BY <2>1, <2>2, FirstFiles, ZenonT(60)
<1>4. files \in Seq(Files) /\ Len(files) = L
  <2>1. files = [i \in 1 .. L |-> files[i]]
    BY <1>1
  <2>2. files \in [1 .. L -> Files]
    BY <1>3, <2>1
  <2> HIDE DEF Files, L
  <2> QED BY <1>2, <2>1, <2>2
<1>5. Shaped(files)
  <2>1. Fresh(files)
    BY <1>3, <1>4 DEF Fresh
  <2> QED BY <2>1, FreshShaped
<1>6. refusals \in Nat /\ nopened = 0
  BY StagingAssumption DEF StagingAssumption, Init
<1>7. Sound(files, nopened, refusals)
  BY <1>3, <1>4, <1>5, <1>6, NoneOpen
<1>8. Counts(files, stagedir, stagecount)
  BY DEF Counts, Init
<1> QED BY <1>7, <1>8, Small DEF IInv, Init

\* What a new session finds of a file.
LEMMA AgainFacts ==
  ASSUME NEW f \in Files, NEW g, g = Again(f)
  PROVE  g \in Files /\ Alike(f, g) /\ ~g.opened
<1>1. f.disk \in Int /\ f.offset \in Nat /\ f.offset + f.disk <= Total /\ f.offset + 0 <= Total
  BY FileFacts
<1> DEFINE n == IF f.disk > 0 THEN f.disk ELSE 0
<1>2. n \in Nat /\ f.offset + n <= Total
  BY <1>1
<1>3. PICK no : no = FALSE OBVIOUS
<1>4. g = FoundAs(f, n, no, no)
  BY <1>3 DEF Again, FoundAs
<1> HIDE DEF n
<1>5. no \in BOOLEAN
  BY <1>3
<1>6. g \in Files /\ Alike(f, g) /\ (g.opened <=> no)
  BY <1>2, <1>4, <1>5, FoundAsFacts
<1> QED BY <1>3, <1>6

LEMMA RealFileFacts ==
  ASSUME Shaped(files), NEW n \in 1 .. Len(FileLengths)
  PROVE  /\ RealFile(n) \in Files /\ RealFile(n).offset = FileEnd[n - 1] /\ RealFile(n).length = FileLengths[n]
         /\ ~RealFile(n).staging
<1>1. <<FileEnd[n - 1], FileLengths[n]>> \in RealSet
  BY Lengths DEF RealSet
<1>2. PICK j \in Reals(files) : Extent(files[j]) = <<FileEnd[n - 1], FileLengths[n]>>
  BY <1>1 DEF Shaped
<1>3. files[j].offset = FileEnd[n - 1]
  BY <1>2 DEF Extent
<1> DEFINE i == CHOOSE x \in Reals(files) : files[x].offset = FileEnd[n - 1]
<1>4. i \in Reals(files) /\ files[i].offset = FileEnd[n - 1]
  BY <1>3
<1>5. RealFile(n) = files[i]
  BY DEF RealFile
<1> HIDE DEF i
<1>6. Extent(files[i]) \in RealSet
  BY <1>4 DEF Shaped
<1>7. PICK m \in 1 .. Len(FileLengths) : Extent(files[i]) = <<FileEnd[m - 1], FileLengths[m]>>
  BY <1>6, Lengths DEF RealSet
<1>8. FileEnd[m - 1] = FileEnd[n - 1] /\ files[i].length = FileLengths[m]
  BY <1>4, <1>7 DEF Extent
<1>9. m = n
  <2> DEFINE a == m - 1
             b == n - 1
  <2>1. a \in 0 .. Len(FileLengths) /\ b \in 0 .. Len(FileLengths) /\ (a = b => m = n)
    BY Lengths
  <2>2. FileEnd[a] = FileEnd[b]
    BY <1>8
  <2> HIDE DEF a, b
  <2>3. FileEnd[a] \in Nat
    BY <2>1, FileEndRecursive
  <2>4. ~(a < b) /\ ~(b < a)
    BY <2>1, <2>2, <2>3, Extents
  <2> QED BY <2>1, <2>4
<1>10. i \in 1 .. Len(files) /\ ~files[i].staging
  BY <1>4, Geometry DEF Reals
<1> QED BY <1>4, <1>5, <1>8, <1>9, <1>10, Geometry

\* A file found again is put behind all real files that begin before it, or where it does.
LEMMA PlaceFacts ==
  ASSUME NEW fs, Shaped(fs), NEW off \in Cells, NEW k, k = Place(fs, off)
  PROVE  k \in 1 .. Len(fs) /\ \A i \in Reals(fs) : i <= k => fs[i].offset <= off
<1>1. Len(fs) \in Nat \ {0} /\ DOMAIN fs = 1 .. Len(fs) /\ off \in Nat /\ 1 \in Reals(fs)
  BY Geometry, Extents
<1>2. \A i \in 1 .. Len(fs) : fs[i].offset \in Nat /\ fs[i].length \in Nat
  BY Geometry, FileFacts
<1> DEFINE S == {x \in DOMAIN fs : x = Len(fs) \/ off < fs[x + 1].offset}
<1>3. S \in SUBSET Nat /\ Len(fs) \in S
  BY <1>1
<1>4. k = Min(S)
  BY DEF Place
<1> HIDE DEF S
<1>5. k \in S /\ \A m \in S : k <= m
  BY <1>3, <1>4, MinIs
<1>6. k \in 1 .. Len(fs)
  BY <1>1, <1>5 DEF S
<1>7. fs[1].offset = 0
  <2>1. 0 \in Cells
    BY Extents
  <2>2. PICK i \in Reals(fs) : fs[i].offset <= 0 /\ 0 < fs[i].offset + fs[i].length
    BY <2>1, Geometry
  <2>3. i \in 1 .. Len(fs)
    BY <1>1 DEF Reals
  <2>4. i = 1 \/ 1 < i
    BY <2>3
  <2>5. 1 < i => fs[1].offset + fs[1].length <= fs[i].offset
    BY <1>1, Geometry
  <2> QED BY <1>1, <1>2, <2>2, <2>3, <2>4, <2>5
<1>8. ASSUME NEW i \in Reals(fs), i <= k
      PROVE  fs[i].offset <= off
  <2>1. i \in 1 .. Len(fs)
    BY <1>1 DEF Reals
  <2>2. CASE i = 1
    BY <1>1, <1>7, <2>2
  <2>3. CASE i # 1
    <3>1. i - 1 \in 1 .. Len(fs) /\ i - 1 < k /\ (i - 1) + 1 = i
      BY <1>1, <1>6, <1>8, <2>1, <2>3
    <3>2. i - 1 \notin S
      BY <1>5, <1>6, <3>1
    <3>3. ~(off < fs[i].offset)
      BY <1>1, <3>1, <3>2 DEF S
    <3> QED BY <1>1, <1>2, <2>1, <3>3
  <2> QED BY <2>2, <2>3
<1> QED BY <1>6, <1>8

-----------------------------------------------------------------------------

LEMMA SetupsExist ==
  ASSUME NEW L \in Nat
  PROVE  \E f : Setups(f, L)
<1> DEFINE T == {n \in Nat : \E f : Setups(f, n)}
<1>2. 0 \in T
  <2>1. Setups([i \in 0 .. 0 |-> SetupBase], 0)
    BY DEF Setups
  <2> QED BY <2>1
<1>3. ASSUME NEW n \in 0 .. L - 1, n \in T
      PROVE  n + 1 \in T
  <2>1. PICK f : Setups(f, n)
    BY <1>3
  <2> DEFINE m == n + 1
             g == [i \in 0 .. m |-> IF i = m THEN SetupStep(m, f[n]) ELSE f[i]]
  <2>2. g = [i \in 0 .. m |-> g[i]]
    OBVIOUS
  <2>3. g[0] = f[0]
    OBVIOUS
  <2>4. ASSUME NEW i \in 1 .. m
        PROVE  g[i] = SetupStep(i, g[i - 1])
    <3>1. CASE i = m
      <4>1. g[i - 1] = f[n] /\ g[i] = SetupStep(m, f[n])
        BY <3>1
      <4> QED BY <3>1, <4>1
    <3>2. CASE i # m
      <4>1. i \in 1 .. n /\ i - 1 # m /\ i - 1 \in 0 .. m /\ i \in 0 .. m
        BY <3>2
      <4>2. f[i] = SetupStep(i, f[i - 1])
        BY <2>1, <4>1 DEF Setups
      <4>3. g[i] = f[i] /\ g[i - 1] = f[i - 1]
        BY <3>2, <4>1
      <4> QED BY <4>2, <4>3
    <3> QED BY <3>1, <3>2
  <2> HIDE DEF g
  <2>5. Setups(g, m)
    BY <2>1, <2>2, <2>3, <2>4 DEF Setups
  <2>6. Setups(g, n + 1) /\ n + 1 \in Nat
    BY <2>5
  <2>7. \E h : Setups(h, n + 1)
    BY <2>6
  <2> QED BY <2>6, <2>7
<1>5. \A n \in 0 .. L : n \in T
  <2> HIDE DEF T
  <2>1. 0 \in 0 .. L
    OBVIOUS
  <2> QED BY <1>2, <1>3, <2>1, Climb
<1>4. L \in T
  <2> HIDE DEF T
  <2> QED BY <1>5
<1> QED BY <1>4

\* The recursive definition has such a function.
LEMMA SetupRecursive ==
  ASSUME NEW L \in Nat, L = Len(files)
  PROVE  /\ Setup[0] = SetupBase
         /\ \A n \in 1 .. L : Setup[n] = SetupStep(n, Setup[n - 1])
<1>1. PICK f : Setups(f, L)
  BY SetupsExist
<1>2. f = [n \in 0 .. L |-> IF n = 0 THEN SetupBase ELSE SetupStep(n, f[n - 1])]
  <2>1. \A n \in 0 .. L : f[n] = IF n = 0 THEN SetupBase ELSE SetupStep(n, f[n - 1])
    BY <1>1, SMTT(60) DEF Setups
  <2> QED BY <1>1, <2>1 DEF Setups
<1>3. Setup = [n \in 0 .. L |-> IF n = 0 THEN SetupBase ELSE SetupStep(n, Setup[n - 1])]
  BY <1>2, Zenon DEF Setup, SetupBase, SetupStep
<1> HIDE DEF Setup
<1> QED BY <1>3

\* SetupFiles finds a list in order, whatever the session before left.
LEMMA SetupFits ==
  ASSUME IInv
  PROVE  LET fs == Setup[Len(files)]
         IN  Shaped(fs) /\ \A i \in 1 .. Len(fs) : ~fs[i].opened
<1>1. /\ Shaped(files) /\ Len(files) \in Nat /\ \A i \in 1 .. Len(files) : files[i] \in Files
  BY HereFacts
<1> DEFINE L == Len(files)
           Ok(fs) == Shaped(fs) /\ \A i \in 1 .. Len(fs) : ~fs[i].opened
           T == {n \in 0 .. L : Ok(Setup[n])}
<1>2. Setup[0] = SetupBase /\ \A n \in 1 .. L : Setup[n] = SetupStep(n, Setup[n - 1])
  BY <1>1, SetupRecursive
<1>3. Ok(SetupBase)
  <2> DEFINE N == Len(FileLengths)
  <2>1. N \in Nat /\ SetupBase = [k \in 1 .. N |-> Again(RealFile(k))]
    BY Lengths DEF SetupBase
  <2>2. ASSUME NEW k \in 1 .. N
        PROVE  /\ SetupBase[k] \in Files /\ SetupBase[k].offset = FileEnd[k - 1]
               /\ SetupBase[k].length = FileLengths[k] /\ ~SetupBase[k].staging /\ ~SetupBase[k].opened
    <3>1. PICK f : f = RealFile(k) OBVIOUS
    <3>2. PICK g : g = Again(f) OBVIOUS
    <3>3. f \in Files /\ f.offset = FileEnd[k - 1] /\ f.length = FileLengths[k] /\ ~f.staging
      BY <1>1, <3>1, RealFileFacts
    <3>4. g \in Files /\ Alike(f, g) /\ ~g.opened
      BY <3>2, <3>3, AgainFacts
    <3>5. SetupBase[k] = g
      BY <2>1, <3>1, <3>2
    <3> QED BY <3>3, <3>4, <3>5 DEF Alike
  <2>3. SetupBase \in Seq(Files) /\ Len(SetupBase) = N
    <3>1. SetupBase = [k \in 1 .. N |-> SetupBase[k]]
      BY <2>1
    <3>2. SetupBase \in [1 .. N -> Files]
      BY <2>2, <3>1
    <3> HIDE DEF Files, N
    <3> QED BY <2>1, <3>1, <3>2
  <2>4. Fresh(SetupBase)
    BY <2>2, <2>3 DEF Fresh
  <2> QED BY <2>2, <2>3, <2>4, FreshShaped
<1>4. ASSUME NEW n \in 1 .. L, NEW fs, Ok(fs)
      PROVE  Ok(SetupStep(n, fs))
  <2>1. CASE ~Found(files[n])
    BY <1>4, <2>1 DEF SetupStep
  <2>2. CASE Found(files[n])
    <3>1. PICK f : f = files[n] OBVIOUS
    <3>2. PICK g : g = Again(f) OBVIOUS
    <3>3. PICK k : k = Place(fs, f.offset) OBVIOUS
    <3>4. PICK b : b = k + 1 OBVIOUS
    <3>5. PICK gs : gs = InsertAt(fs, b, g) OBVIOUS
    <3>6. SetupStep(n, fs) = gs
      BY <2>2, <3>1, <3>2, <3>3, <3>4, <3>5 DEF SetupStep
    <3>7. f \in Files /\ f.offset \in Cells /\ f.staging
      BY <1>1, <2>2, <3>1, FileFacts, Extents DEF Found
    <3>8. g \in Files /\ g.staging /\ g.offset = f.offset /\ ~g.opened
      BY <3>2, <3>7, AgainFacts DEF Alike
    <3>9. k \in 1 .. Len(fs) /\ \A i \in Reals(fs) : i <= k => fs[i].offset <= g.offset
      BY <1>4, <3>3, <3>7, <3>8, PlaceFacts
    <3>10. /\ Shaped(gs) /\ Len(gs) = Len(fs) + 1
           /\ \A j \in 1 .. k : gs[j] = fs[j]
           /\ gs[b] = g
           /\ \A j \in b .. Len(fs) : gs[j + 1] = fs[j]
      BY <1>4, <3>4, <3>5, <3>8, <3>9, Placed
    <3>11. ASSUME NEW i \in 1 .. Len(gs)
           PROVE  ~gs[i].opened
      <4>1. Len(fs) \in Nat /\ k \in Nat /\ b \in Nat
        BY <1>4, <3>4, <3>9, Geometry
      <4>2. i \in 1 .. k \/ i = b \/ (i - 1 \in b .. Len(fs) /\ (i - 1) + 1 = i)
        BY <3>4, <3>9, <3>10, <4>1
      <4>3. CASE i \in 1 .. k
        BY <1>4, <3>9, <3>10, <4>1, <4>3
      <4>4. CASE i = b
        BY <3>8, <3>10, <4>4
      <4>5. CASE i - 1 \in b .. Len(fs) /\ (i - 1) + 1 = i
        <5>1. gs[i] = fs[i - 1] /\ i - 1 \in 1 .. Len(fs)
          BY <3>4, <3>9, <3>10, <4>1, <4>5
        <5> QED BY <1>4, <5>1
      <4> QED BY <4>2, <4>3, <4>4, <4>5
    <3> QED BY <3>6, <3>10, <3>11
  <2> QED BY <2>1, <2>2
<1>5. 0 \in T
  BY <1>1, <1>2, <1>3
<1>6. ASSUME NEW n \in 0 .. L - 1, n \in T
      PROVE  n + 1 \in T
  <2>1. n + 1 \in 1 .. L /\ (n + 1) - 1 = n /\ n + 1 \in 0 .. L
    BY <1>1
  <2>2. Setup[n + 1] = SetupStep(n + 1, Setup[n])
    BY <1>2, <2>1
  <2>3. Ok(Setup[n])
    BY <1>6
  <2> HIDE DEF Ok
  <2>4. Ok(SetupStep(n + 1, Setup[n]))
    BY <1>4, <2>1, <2>3
  <2> QED BY <2>1, <2>2, <2>4
<1>7. \A n \in 0 .. L : n \in T
  <2> HIDE DEF T
  <2>1. 0 \in 0 .. L
    BY <1>1
  <2> QED BY <1>1, <1>5, <1>6, <2>1, Climb
<1>8. L \in T
  <2> HIDE DEF T
  <2> QED BY <1>1, <1>7
<1> QED BY <1>8

LEMMA RestartStep ==
  ASSUME IInv, Restart
  PROVE  IInv'
<1>1. PICK fs : fs = Setup[Len(files)] OBVIOUS
<1>2. Shaped(fs) /\ \A i \in 1 .. Len(fs) : ~fs[i].opened
  BY <1>1, SetupFits
<1>3. files' = fs /\ nopened' = 0 /\ refusals' = refusals /\ refusals \in Nat
  BY <1>1, HereFacts DEF Restart
<1>4. Sound(files', nopened', refusals')
  BY <1>2, <1>3, NoneOpen
<1>5. Counts(files', stagedir', stagecount')
  <2>1. CASE Dirs(files') = {} /\ stagedir' = NoDir /\ stagecount' = 0
    BY <2>1 DEF Counts
  <2>2. CASE \E d \in Dirs(files') : stagedir' = d /\ stagecount' = Cardinality(InDir(files', d))
    <3>1. PICK d \in Dirs(fs) : stagedir' = d /\ stagecount' = Cardinality(InDir(fs, d))
      BY <1>3, <2>2
    <3>2. Len(fs) \in Nat /\ DOMAIN fs = 1 .. Len(fs) /\ \A i \in 1 .. Len(fs) : fs[i] \in Files
      BY <1>2, Geometry
    <3>3. d \in Cells \cup {NoDir}
      <4>1. PICK i \in 1 .. Len(fs) : d = fs[i].dir
        BY <3>2 DEF Dirs
      <4> QED BY <3>2, <4>1, FileFacts
    <3>4. InDir(fs, d) \in SUBSET (1 .. Len(fs))
      BY <3>2 DEF InDir
    <3>5. Cardinality(InDir(fs, d)) \in Nat
      BY <3>2, <3>4, CountIsNumber
    <3> QED BY <1>3, <3>1, <3>3, <3>5 DEF Counts
  <2> QED BY <2>1, <2>2 DEF Restart
<1>6. op' \in {Ended, Starting} /\ need' \in BOOLEAN /\ failed' \in BOOLEAN /\ unmerged' \in BOOLEAN
  BY DEF Restart
<1> QED BY <1>4, <1>5, <1>6, Small DEF IInv

-----------------------------------------------------------------------------
\* Every step keeps the invariant.
LEMMA StepFits ==
  ASSUME IInv, [Next]_vars
  PROVE  IInv'
<1>1. CASE UNCHANGED vars
  BY <1>1 DEF vars, disk, stage, IInv
<1>2. CASE Next
  <2>1. ASSUME NEW off \in Cells, NEW len \in 1 .. PieceLength, NEW v \in Versions, Write(off, len, v)
        PROVE  IInv'
    BY <2>1, WriteStep
  <2>2. ASSUME NEW off \in Cells, Read(off, Least(PieceLength, Total - off))
        PROVE  IInv'
    BY <2>2, ReadStep
  <2>3. ASSUME NEW wanted, CreateSparse(wanted)
        PROVE  IInv'
    BY <2>3, CreateSparseStep
  <2> QED BY <1>2, <2>1, <2>2, <2>3, NewStagingStep, NotFoundStep, OpenFileStep, OpenNoSpaceStep, ReadFileStep,
       WriteFileStep, WriteRefusedStep, StartMergeStep, MergeNoneStep, MergeOpenStep, MergeCopyStep,
       MergeCopyRefusedStep, MergePresentStep, MergeDoneStep, CloseAllFilesStep, RetryStep, RestartStep,
       CreateNoneStep, ExtendSkipStep, ExtendFileStep, RunStep DEF Next
<1> QED BY <1>1, <1>2

\* The list stays in order, the counts kept beside it agree with it, and the operation that runs is at
\* a file of it that has, or may have, the byte it is about: through IO, the merges an open
\* begins in the midst of it, and restarts.
THEOREM IInvAlways == Spec => []IInv
<1>1. Init => IInv
  BY InitFits
<1>2. IInv /\ [Next]_vars => IInv'
  BY StepFits
<1> QED BY <1>1, <1>2, PTL DEF Spec

LEMMA IInvType ==
  ASSUME IInv
  PROVE  TypeOK
<1>1. /\ Shaped(files) /\ DOMAIN files = 1 .. Len(files) /\ Len(files) \in Nat
      /\ \A i \in 1 .. Len(files) : files[i] \in Files /\ nopened \in Nat
  BY HereFacts
<1>2. ASSUME NEW i \in DOMAIN files
      PROVE  LET f == files[i]
             IN  /\ f.offset \in Cells /\ f.size \in 0 .. Total /\ f.disk \in -1 .. Total
                 /\ f.data \in [Cells -> Versions \cup {Unknown}]
                 /\ f.staging \in BOOLEAN /\ f.dir \in Cells \cup {NoDir}
                 /\ f.opened \in BOOLEAN /\ f.readonly \in BOOLEAN
  <2>1. PICK f : f = files[i] OBVIOUS
  <2>2. f \in Files
    BY <1>1, <1>2, <2>1
  <2>3. /\ f.offset \in 0 .. Total - 1 /\ f.size \in Nat /\ f.disk \in Int
        /\ f.data \in [Cells -> Versions \cup {Unknown}]
        /\ f.staging \in BOOLEAN /\ f.opened \in BOOLEAN /\ f.readonly \in BOOLEAN /\ f.dir \in Cells \cup {NoDir}
        /\ f.offset + f.size <= Total
        /\ -1 <= f.disk /\ f.offset + f.disk <= Total
        /\ Total \in Nat
    BY <2>2, FileFacts
  <2>4. f.offset \in Cells
    BY <2>3, Extents
  <2>5. f.size \in 0 .. Total /\ f.disk \in -1 .. Total
    BY <2>3
  <2> QED BY <2>1, <2>3, <2>4, <2>5
<1>3. {<<files[i].offset, files[i].length>> : i \in Reals(files)}
        = {<<FileEnd[n - 1], FileLengths[n]>> : n \in DOMAIN FileLengths}
  BY <1>1 DEF Shaped, Extent, RealSet
<1>4. /\ nopened \in Nat /\ stagecount \in Nat /\ stagedir \in Cells \cup {NoDir}
      /\ need \in BOOLEAN /\ failed \in BOOLEAN /\ unmerged \in BOOLEAN
  BY HereFacts DEF IInv, Counts
<1> QED BY <1>2, <1>3, <1>4 DEF TypeOK

LEMMA IInvExact ==
  ASSUME IInv
  PROVE  OpenExact
<1>1. TypeOK
  BY IInvType
<1>2. nopened = Cardinality({i \in DOMAIN files : files[i].opened}) /\ nopened <= MaxOpen + 1
  BY DEF IInv, Sound, Opened
<1>3. stagedir # NoDir => stagecount = Cardinality(InDir(files, stagedir))
  BY DEF IInv, Counts
<1>4. Copying => Usable(files[op.dst + 1], FALSE) /\ Usable(files[op.dst], TRUE)
  BY CopyFacts DEF CopyFits
<1>5. op.kind = "crash" => op.reading
  BY Kinds DEF IInv
<1> QED BY <1>1, <1>2, <1>3, <1>4, <1>5 DEF OpenExact

\* Everything has its type, and the real files in the list are those of the torrent, though staging files
\* come and go between them (SetupFiles, IO, MergeStaging).
THEOREM TypeCorrect == Spec => []TypeOK
<1>1. IInv => TypeOK
  BY IInvType
<1> QED BY <1>1, IInvAlways, PTL

\* m_total_opened and m_stagecount count what is in the list, at most one file over the limit is open, both
\* ends of a copy stay open, and no operation follows a file that MergeStaging has deleted or, unless it reads
\* bytes never written, the next of the last file (IO, _btf_open, _btf_close, MergeStaging).
THEOREM OpenFilesExact == Spec => []OpenExact
<1>1. IInv => OpenExact
  BY IInvExact
<1> QED BY <1>1, IInvAlways, PTL
-----------------------------------------------------------------------------
(* Lists whose staging files are in their place.                           *)

LEMMA ListFacts ==
  ASSUME NEW fs, Shaped(fs)
  PROVE  /\ Len(fs) \in Nat \ {0} /\ DOMAIN fs = 1 .. Len(fs) /\ 1 \in Reals(fs)
         /\ \A i \in 1 .. Len(fs) : /\ fs[i].offset \in Nat /\ fs[i].size \in Nat /\ fs[i].length \in Nat
                                    /\ End(fs[i]) = fs[i].offset + fs[i].size /\ End(fs[i]) \in Nat
                                    /\ fs[i].staging \in BOOLEAN /\ fs[i].data \in Bytes
         /\ \A i \in 1 .. Len(fs) : i \in Reals(fs) <=> ~fs[i].staging
         /\ \A i \in Reals(fs) : i \in 1 .. Len(fs)
<1>1. /\ Len(fs) \in Nat \ {0} /\ DOMAIN fs = 1 .. Len(fs) /\ 1 \in Reals(fs)
      /\ \A i \in 1 .. Len(fs) : fs[i] \in Files
  BY Geometry
<1>2. \A i \in 1 .. Len(fs) : /\ fs[i].offset \in Nat /\ fs[i].size \in Nat /\ fs[i].length \in Nat
                              /\ End(fs[i]) = fs[i].offset + fs[i].size /\ End(fs[i]) \in Nat
                              /\ fs[i].staging \in BOOLEAN /\ fs[i].data \in Bytes
  BY <1>1, FileFacts DEF Bytes
<1> QED BY <1>1, <1>2 DEF Reals

LEMMA NeatIs ==
  ASSUME IInv, ~Tangled
  PROVE  Neat(files)
<1>1. /\ Len(files) \in Nat /\ DOMAIN files = 1 .. Len(files)
      /\ \A i \in 1 .. Len(files) : /\ files[i].offset \in Nat /\ files[i].size \in Nat /\ files[i].length \in Nat
                                    /\ End(files[i]) \in Nat
      /\ \A i \in Reals(files) : i \in 1 .. Len(files)
  BY HereFacts, ListFacts
<1>2. \A i \in Reals(files) : files[i].size <= files[i].length
  BY <1>1 DEF Tangled
<1>3. \A i \in Reals(files), j \in 1 .. Len(files) : files[j].staging /\ i < j => End(files[i]) <= End(files[j])
  BY <1>1 DEF Tangled
<1>4. ASSUME NEW j \in 1 .. Len(files) - 1, files[j].staging
      PROVE  End(files[j]) <= files[j + 1].offset
  <2>1. j \in DOMAIN files /\ j < Len(files) /\ j + 1 \in 1 .. Len(files) /\ j \in 1 .. Len(files)
    BY <1>1
  <2>2. ~(End(files[j]) > files[j + 1].offset)
    BY <1>4, <2>1 DEF Tangled
  <2> QED BY <1>1, <2>1, <2>2
<1> QED BY <1>2, <1>3, <1>4 DEF Neat

\* What is in the files may change, and whether they are open.
LEMMA NeatSame ==
  ASSUME NEW fs, Shaped(fs), NEW gs, Shaped(gs), Rewritten(fs, gs), \A i \in 1 .. Len(fs) : gs[i].size = fs[i].size,
         Neat(gs)
  PROVE  Neat(fs)
<1>1. /\ Len(gs) = Len(fs) /\ Len(fs) \in Nat /\ Reals(gs) = Reals(fs)
      /\ \A i \in Reals(fs) : i \in 1 .. Len(fs)
  BY ListFacts, RewrittenShaped DEF Rewritten
<1>2. \A i \in 1 .. Len(fs) : /\ gs[i].offset = fs[i].offset /\ gs[i].length = fs[i].length /\ gs[i].size = fs[i].size
                              /\ gs[i].staging = fs[i].staging /\ End(gs[i]) = End(fs[i])
  BY DEF Rewritten, Alike, End
<1>3. \A j \in 1 .. Len(fs) - 1 : j \in 1 .. Len(fs) /\ j + 1 \in 1 .. Len(fs)
  BY <1>1
<1> QED BY <1>1, <1>2, <1>3 DEF Neat

\* The offsets rise.
LEMMA Upward ==
  ASSUME NEW fs, Shaped(fs), Neat(fs)
  PROVE  \A i, j \in 1 .. Len(fs) : i <= j => fs[i].offset <= fs[j].offset
<1>1. /\ Len(fs) \in Nat /\ DOMAIN fs = 1 .. Len(fs)
      /\ \A i \in 1 .. Len(fs) : /\ fs[i].offset \in Nat /\ fs[i].size \in Nat
                                 /\ End(fs[i]) = fs[i].offset + fs[i].size /\ fs[i].staging \in BOOLEAN
      /\ \A i \in 1 .. Len(fs) : i \in Reals(fs) <=> ~fs[i].staging
  BY ListFacts
<1>2. ASSUME NEW j \in 1 .. Len(fs) - 1
      PROVE  fs[j].offset <= fs[j + 1].offset
  <2>1. j \in 1 .. Len(fs) /\ j + 1 \in 1 .. Len(fs) /\ j < j + 1
    BY <1>1
  <2>2. CASE fs[j].staging
    <3>1. End(fs[j]) <= fs[j + 1].offset
      BY <2>2 DEF Neat
    <3> QED BY <1>1, <2>1, <3>1
  <2>3. CASE ~fs[j].staging
    BY <1>1, <2>1, <2>3 DEF Shaped, Ordered
  <2> QED BY <2>2, <2>3
<1>3. ASSUME NEW i \in 1 .. Len(fs), NEW j \in 1 .. Len(fs), i <= j
      PROVE  fs[i].offset <= fs[j].offset
  <2> DEFINE T == {n \in i .. Len(fs) : fs[i].offset <= fs[n].offset}
  <2>1. i \in T
    BY <1>1
  <2>2. ASSUME NEW n \in i .. Len(fs) - 1, n \in T
        PROVE  n + 1 \in T
    <3>1. fs[n].offset <= fs[n + 1].offset /\ n \in 1 .. Len(fs) /\ n + 1 \in 1 .. Len(fs) /\ n + 1 \in i .. Len(fs)
      BY <1>1, <1>2
    <3> QED BY <1>1, <2>2, <3>1
  <2>3. \A n \in i .. Len(fs) : n \in T
    <3> HIDE DEF T
    <3>1. i \in 0 .. Len(fs)
      BY <1>1
    <3> QED BY <1>1, <2>1, <2>2, <3>1, Climb
  <2>4. j \in i .. Len(fs)
    BY <1>1, <1>3
  <2> QED BY <2>3, <2>4
<1> QED BY <1>3

\* In a neat list a file that has a byte is the place for it: no staging file reaches beyond the real
\* file it is to become part of.
LEMMA CoversHolds ==
  ASSUME NEW fs, Shaped(fs), Neat(fs), NEW i \in 1 .. Len(fs), NEW c \in Cells, Covers(fs[i], c)
  PROVE  Holds(fs, i, c)
<1>1. /\ Len(fs) \in Nat /\ DOMAIN fs = 1 .. Len(fs)
      /\ \A k \in 1 .. Len(fs) : /\ fs[k].offset \in Nat /\ End(fs[k]) \in Nat /\ fs[k].staging \in BOOLEAN
      /\ \A k \in 1 .. Len(fs) : k \in Reals(fs) <=> ~fs[k].staging
      /\ \A k \in Reals(fs) : k \in 1 .. Len(fs)
  BY ListFacts
<1> c \in Nat
  BY Extents
<1>2. ASSUME fs[i].staging
      PROVE  \E j \in 1 .. i - 1 : ~fs[j].staging /\ c < fs[j].offset + fs[j].length
  <2>1. PICK j \in Reals(fs) : fs[j].offset <= c /\ c < fs[j].offset + fs[j].length
    BY Geometry
  <2>2. j \in 1 .. Len(fs) /\ ~fs[j].staging /\ j # i
    BY <1>1, <1>2
  <2>3. ASSUME i < j
        PROVE  FALSE
    <3>1. i \in 1 .. Len(fs) - 1 /\ i + 1 \in 1 .. Len(fs) /\ i + 1 <= j
      BY <1>1, <2>2, <2>3
    <3>2. End(fs[i]) <= fs[i + 1].offset
      BY <1>2, <3>1 DEF Neat
    <3>3. fs[i + 1].offset <= fs[j].offset
      BY <2>2, <3>1, Upward
    <3>4. c < End(fs[i])
      BY DEF Covers
    <3> QED BY <1>1, <2>1, <2>2, <3>1, <3>2, <3>3, <3>4
  <2>4. j \in 1 .. i - 1
    BY <1>1, <2>2, <2>3
  <2> QED BY <2>1, <2>2, <2>4
<1> QED BY <1>2 DEF Holds

\* A search for a byte that is in a file finds it.
LEMMA SearchFinds ==
  ASSUME NEW fs, Shaped(fs), Neat(fs), NEW c \in Cells, NEW p, NEW write \in BOOLEAN, ~write,
         p = FindFirst(fs, c, write), p.null
  PROVE  \A i \in 1 .. Len(fs) : ~Holds(fs, i, c)
<1>1. Len(fs) \in Nat /\ c \in Nat /\ \A k \in 1 .. Len(fs) : fs[k].offset \in Nat
  BY ListFacts, Extents
<1>2. PICK stop \in 1 .. Len(fs) + 1 : Stops(fs, c, stop)
  BY SearchFacts
<1>3. ASSUME NEW i \in 1 .. Len(fs), i >= stop
      PROVE  ~Holds(fs, i, c)
  <2>1. stop \in 1 .. Len(fs) /\ stop <= i
    BY <1>1, <1>3
  <2>2. fs[stop].offset <= fs[i].offset /\ c < fs[stop].offset
    BY <1>1, <1>2, <2>1, Upward DEF Stops
  <2> QED BY <1>1, <2>1, <2>2 DEF Holds, Covers
<1>4. \A i \in 1 .. Len(fs) : i < stop => ~Holds(fs, i, c)
  BY <1>1, <1>2 DEF Stops
<1>5. \A i \in 1 .. Len(fs) : i < stop \/ i >= stop
  BY <1>1
<1> QED BY <1>3, <1>4, <1>5
-----------------------------------------------------------------------------
(* What can be merged is known to need it.                                 *)

\* A step of an operation that makes nothing mergeable.
LEMMA AwareKept ==
  ASSUME Aware, ~Begins(op), UNCHANGED <<need, unmerged>>, op'.kind # "copy", CanMerge(files') => CanMerge(files)
  PROVE  Aware'
  BY DEF Aware, Begins

LEMMA AwareIO ==
  ASSUME op.kind \in {"read", "write", "idle"}
  PROVE  ~Begins(op)
  BY DEF Begins

LEMMA MergeableSame ==
  ASSUME NEW fs, NEW gs, Len(fs) \in Nat, DOMAIN fs = 1 .. Len(fs), DOMAIN gs = 1 .. Len(gs), Len(gs) = Len(fs),
         \A i \in 1 .. Len(fs) : /\ gs[i].offset = fs[i].offset /\ gs[i].length = fs[i].length
                                 /\ gs[i].size = fs[i].size /\ gs[i].staging = fs[i].staging
  PROVE  CanMerge(gs) => CanMerge(fs)
<1> SUFFICES ASSUME NEW i \in DOMAIN gs, Mergeable(gs, i) PROVE CanMerge(fs)
  BY DEF CanMerge
<1>1. i \in 1 .. Len(fs) /\ i + 1 \in 1 .. Len(fs)
  BY DEF Mergeable
<1>2. Mergeable(fs, i)
  BY <1>1 DEF Mergeable, End
<1> QED BY <1>1, <1>2 DEF CanMerge

LEMMA OpensMerge ==
  ASSUME IInv, NEW s, Opens(Here, s)
  PROVE  CanMerge(s.f) => CanMerge(files)
<1>1. /\ Len(s.f) = Len(files) /\ Shaped(s.f) /\ \A i \in 1 .. Len(files) : Mergeable(s.f, i) <=> Mergeable(files, i)
  BY OpensFits
<1>2. DOMAIN s.f = 1 .. Len(s.f) /\ DOMAIN files = 1 .. Len(files)
  BY <1>1, HereFacts, ListFacts
<1> QED BY <1>1, <1>2 DEF CanMerge

LEMMA OpenFileAware ==
  ASSUME IInv, Aware, OpenFile
  PROVE  Aware'
<1>1. PICK r \in Open(Here, op.at, Writing, 0) : SetTo(r.s) /\ op' = IF r.ok THEN op ELSE Idle
  BY DEF OpenFile
<1>2. op.kind \in {"read", "write"} /\ op.at \in 1 .. Len(files)
  BY InStep DEF OpenFile
<1>3. Opens(Here, r.s)
  <2>1. op.at \in 1 .. Len(Here.f) /\ Good(Here) /\ Writing \in BOOLEAN
    BY <1>2, HereFacts DEF Writing
  <2> HIDE DEF Here, Writing
  <2> QED BY <2>1, OpenFacts
<1>4. CanMerge(files') => CanMerge(files)
  BY <1>1, <1>3, OpensMerge DEF SetTo
<1>5. op'.kind # "copy"
  BY <1>1, <1>2 DEF Idle
<1> QED BY <1>2, <1>4, <1>5, AwareKept, AwareIO DEF OpenFile

LEMMA OpenNoSpaceAware ==
  ASSUME IInv, Aware, OpenNoSpace
  PROVE  Aware'
<1>1. PICK t \in IF nopened >= MaxOpen THEN CloseOldest(Here, 0) ELSE {Here} : SetTo(Refused(t))
  BY DEF OpenNoSpace
<1>2. op.kind \in {"read", "write"} /\ refusals > 0
  BY InStep DEF OpenNoSpace
<1>3. Good(Here) /\ Here.r = refusals /\ refusals \in Nat
  BY HereFacts
<1>4. Opens(Here, t) /\ t.r = refusals /\ Good(t)
  <2>1. CASE nopened >= MaxOpen
    <3>1. t \in CloseOldest(Here, 0)
      BY <2>1
    <3>2. Opens(Here, t) /\ t.r = Here.r
      BY <1>3, <3>1, OldestFacts
    <3> QED BY <1>3, <3>2 DEF Opens
  <2>2. CASE ~(nopened >= MaxOpen)
    BY <1>3, <2>2, OpensItself
  <2> QED BY <2>1, <2>2
<1> DEFINE s == Refused(t)
<1>5. Opens(t, s)
  BY <1>2, <1>3, <1>4, RefusedFacts
<1>6. Opens(Here, s) /\ files' = s.f
  BY <1>1, <1>3, <1>4, <1>5, OpensTransitive DEF SetTo
<1> HIDE DEF s
<1>7. CanMerge(files') => CanMerge(files)
  BY <1>6, OpensMerge
<1>8. op'.kind # "copy"
  BY DEF OpenNoSpace, MergeOp
<1> QED BY <1>2, <1>7, <1>8, AwareKept, AwareIO DEF OpenNoSpace

\* A staging file begins where no real file before it ends that may still grow.
LEMMA NewStagingAware ==
  ASSUME IInv, Aware, NewStaging
  PROVE  Aware'
<1>1. op.kind = "write" /\ IOFits(op, files) /\ op \in IOs /\ op.at \in 1 .. Len(files)
  BY Kinds DEF NewStaging, NeedsStaging, IInv, IOFits
<1>2. op.off \in Cells /\ op.off \in Nat /\ op.null \in BOOLEAN
  BY <1>1, IOFields
<1>3. /\ Shaped(files) /\ Len(files) \in Nat \ {0} /\ DOMAIN files = 1 .. Len(files)
      /\ \A i \in 1 .. Len(files) : files[i] \in Files
  BY HereFacts
<1>4. stagedir' \in Cells \cup {NoDir}
  <2>1. stagedir' \in {op.off, stagedir} /\ stagedir \in Cells \cup {NoDir}
    BY DEF NewStaging, IInv, Counts
  <2> QED BY <1>2, <2>1
<1>5. PICK a : a = op.at OBVIOUS
<1>6. PICK b : b = a + 1 OBVIOUS
<1>7. PICK g : g = EmptyStaging(op.off, stagedir') OBVIOUS
<1>8. PICK gs : gs = files' OBVIOUS
<1>9. gs = InsertAt(files, b, g) /\ a \in 1 .. Len(files)
  BY <1>1, <1>5, <1>6, <1>7, <1>8 DEF NewStaging, EmptyStaging
<1>10. g \in Files /\ g.offset = op.off /\ g.staging
  BY <1>2, <1>4, <1>7, NewFile
<1>11. \A i \in Reals(files) : i <= a => files[i].offset <= g.offset
  BY <1>1, <1>5, <1>10 DEF IOFits
<1>12. /\ Shaped(gs) /\ Len(gs) = Len(files) + 1
       /\ \A j \in 1 .. a : gs[j] = files[j]
       /\ gs[b] = g
       /\ \A j \in b .. Len(files) : gs[j + 1] = files[j]
       /\ (\A i \in Reals(gs) : i <= a => i \in Reals(files)) /\ b \notin Reals(gs)
       /\ Cardinality(Opened(gs)) = Cardinality(Opened(files)) + (IF g.opened THEN 1 ELSE 0)
       /\ \A x : Cardinality(InDir(gs, x)) = Cardinality(InDir(files, x)) + (IF g.dir = x THEN 1 ELSE 0)
  <2>1. Shaped(files) /\ g \in Files /\ g.staging
    BY <1>3, <1>10
  <2> QED BY <1>6, <1>9, <1>11, <2>1, Placed, SMTT(60)
<1>13. ~Mergeable(gs, a)
  <2> SUFFICES ASSUME Mergeable(gs, a) PROVE FALSE
    OBVIOUS
  <2>1. ~files[a].staging /\ files[a].size < files[a].length /\ End(files[a]) >= op.off
    BY <1>6, <1>9, <1>10, <1>12 DEF Mergeable
  <2>2. op.null
    BY <1>2, <1>5, <2>1 DEF NewStaging, NeedsStaging, Full
  <2>3. End(files[a]) < op.off /\ End(files[a]) \in Nat
    BY <1>1, <1>3, <1>5, <2>1, <2>2, FileFacts DEF IOFits, Short
  <2> QED BY <1>2, <2>1, <2>3
<1>14. ASSUME NEW i \in DOMAIN gs, Mergeable(gs, i)
       PROVE  CanMerge(files)
  <2>1. i \in 1 .. Len(gs) - 1 /\ i # a /\ i # b /\ a \in Nat /\ b \in Nat
    <3>1. i < Len(gs) /\ ~gs[i].staging /\ DOMAIN gs = 1 .. Len(gs) /\ Len(gs) \in Nat
      BY <1>12, <1>14, ListFacts DEF Mergeable
    <3>2. i # a /\ i # b
      BY <1>10, <1>12, <1>13, <1>14, <3>1
    <3> QED BY <1>3, <1>6, <1>9, <3>1, <3>2
  <2>2. CASE i < a
    <3>1. gs[i] = files[i] /\ gs[i + 1] = files[i + 1] /\ i \in 1 .. Len(files) /\ i < Len(files)
      BY <1>3, <1>9, <1>12, <2>1, <2>2
    <3> QED BY <1>3, <1>14, <3>1 DEF Mergeable, CanMerge
  <2>3. CASE i > a
    <3>1. PICK j : j = i - 1 OBVIOUS
    <3>2. j \in b .. Len(files) /\ j + 1 \in b .. Len(files) /\ i = j + 1 /\ j \in 1 .. Len(files) /\ j < Len(files)
      BY <1>3, <1>6, <1>9, <1>12, <2>1, <2>3, <3>1
    <3>3. gs[i] = files[j] /\ gs[i + 1] = files[j + 1]
      BY <1>12, <3>2
    <3> QED BY <1>3, <1>14, <3>2, <3>3 DEF Mergeable, CanMerge
  <2> QED BY <2>1, <2>2, <2>3
<1>15. op'.kind # "copy"
  BY <1>1, <1>2 DEF NewStaging, IOs
<1>16. CanMerge(files') => CanMerge(files)
  BY <1>8, <1>14 DEF CanMerge
<1> QED BY <1>1, <1>15, <1>16, AwareKept, AwareIO DEF NewStaging
LEMMA AdvanceKind ==
  ASSUME NEW fs, NEW n, op \in IOs
  PROVE  Advance(fs, n).kind \in {"read", "write", "idle", "crash"}
<1>1. PICK o : o = Advance(fs, n) OBVIOUS
<1>2. CASE n = op.len
  BY <1>1, <1>2 DEF Advance, Idle
<1>3. CASE n # op.len /\ op.at = Len(fs)
  BY <1>1, <1>3 DEF Advance, Crashed
<1>4. CASE n # op.len /\ op.at # Len(fs)
  <2>1. op.kind \in {"read", "write"} /\ op \in IOs
    BY IOFields
  <2>2. o = [op EXCEPT !.off = op.off + n, !.len = op.len - n, !.null = TRUE]
        \/ o = [op EXCEPT !.off = op.off + n, !.len = op.len - n, !.at = op.at + 1]
    BY <1>1, <1>4 DEF Advance
  <2> QED BY <1>1, <2>1, <2>2 DEF IOs
<1> QED BY <1>2, <1>3, <1>4

\* A write brings no file but its own to the one behind it.
LEMMA WriteFileAware ==
  ASSUME IInv, Aware, WriteFile
  PROVE  Aware'
<1>1. PICK n : n = WriteLength(files, op.at) OBVIOUS
<1>2. PICK a : a = op.at OBVIOUS
<1>3. PICK f : f = files[a] OBVIOUS
<1>4. PICK g : g = Put(f, op.off, op.off + n, [c \in Cells |-> op.v]) OBVIOUS
<1>5. PICK fs : fs = [files EXCEPT ![a] = g] OBVIOUS
<1>6. /\ op.kind = "write" /\ op \in IOs /\ a \in 1 .. Len(files) /\ f \in Files
      /\ op.off \in Nat /\ op.off + op.len <= Total /\ Total \in Nat /\ op.len \in Nat
      /\ op.v \in Versions \cup {Unknown}
  BY <1>2, <1>3, InStep, IOFields DEF WriteFile, Writing
<1>7. n \in 0 .. op.len
  BY <1>1, WriteLengthFacts DEF WriteFile
<1>8. Len(files) \in Nat /\ DOMAIN files = 1 .. Len(files) /\ \A i \in 1 .. Len(files) : files[i] \in Files
  BY HereFacts
<1>9. PICK s : s = [Here EXCEPT !.f = fs] OBVIOUS
<1>10. /\ SetTo(IF fs[a].size = 0 THEN Close(s, a) ELSE s) /\ need' = (need \/ Reaches(fs, a))
       /\ op' = Advance(fs, n) /\ unmerged' = unmerged
  BY <1>1, <1>2, <1>3, <1>4, <1>5, <1>9 DEF WriteFile
<1>11. g \in Files /\ Alike(f, g)
  <2> DEFINE d == op.off + n
             val == [c \in Cells |-> op.v]
  <2>1. d \in Nat /\ d <= Total /\ \A b \in Cells : val[b] \in Versions \cup {Unknown}
    BY <1>6, <1>7
  <2>2. f \in Files /\ op.off \in Nat /\ g = Put(f, op.off, d, val)
    BY <1>4, <1>6
  <2> HIDE DEF d, val
  <2> QED BY <2>1, <2>2, PutFacts
<1>12. s.f = fs /\ fs[a] = g /\ DOMAIN fs = 1 .. Len(files) /\ \A i \in 1 .. Len(files) : i # a => fs[i] = files[i]
  BY <1>5, <1>6, <1>8, <1>9 DEF Here
<1>13. /\ \A i \in 1 .. Len(files) : i # a => files'[i] = fs[i]
       /\ /\ files'[a].offset = g.offset /\ files'[a].length = g.length /\ files'[a].size = g.size
          /\ files'[a].staging = g.staging
  <2>1. CASE files' = fs
    BY <1>12, <2>1
  <2>2. CASE files' # fs
    <3>1. g.opened /\ files' = [fs EXCEPT ![a] = [g EXCEPT !.opened = FALSE, !.readonly = FALSE]]
      BY <1>10, <1>12, <2>2 DEF SetTo, Close, Here
    <3>2. files'[a] = [g EXCEPT !.opened = FALSE, !.readonly = FALSE]
      BY <1>6, <1>12, <3>1
    <3>3. \A i \in 1 .. Len(files) : i # a => files'[i] = fs[i]
      BY <1>12, <3>1
    <3>4. g \in Recs
      BY <1>11, FileFacts
    <3> QED BY <3>2, <3>3, <3>4 DEF Recs
  <2> QED BY <2>1, <2>2
<1>14. Len(files') = Len(files) /\ DOMAIN files' = 1 .. Len(files)
  <2>1. DOMAIN files' = 1 .. Len(files)
    BY <1>10, <1>12 DEF SetTo, Close, Here
  <2>2. Shaped(files')
    <3>1. IInv'
      BY WriteFileStep
    <3> QED BY <3>1 DEF IInv, Sound
  <2>3. DOMAIN files' = 1 .. Len(files') /\ Len(files') \in Nat
    BY <2>2, ListFacts
  <2> QED BY <1>8, <2>1, <2>3
<1>15. ASSUME NEW i \in DOMAIN files', Mergeable(files', i)
       PROVE  need' \/ CanMerge(files)
  <2>1. i \in 1 .. Len(files) /\ i + 1 \in 1 .. Len(files) /\ i < Len(files) /\ i + 1 # i
    BY <1>8, <1>14, <1>15 DEF Mergeable
  <2>2. g.offset = f.offset /\ g.length = f.length /\ g.staging = f.staging
    BY <1>11 DEF Alike
  <2>3. CASE i = a
    <3>1. fs[i + 1] = files'[i + 1] /\ Len(fs) = Len(files)
      BY <1>8, <1>12, <1>13, <2>1, <2>3
    <3>2. Reaches(fs, a)
      BY <1>12, <1>13, <1>15, <2>1, <2>3, <3>1 DEF Mergeable, Reaches, End
    <3> QED BY <1>10, <3>2
  <2>4. CASE i # a
    <3>1. files'[i] = files[i] /\ files'[i + 1].offset = files[i + 1].offset
          /\ files'[i + 1].staging = files[i + 1].staging
      BY <1>3, <1>12, <1>13, <2>1, <2>2, <2>4
    <3>2. Mergeable(files, i)
      BY <1>15, <2>1, <3>1 DEF Mergeable
    <3> QED BY <1>8, <2>1, <3>2 DEF CanMerge
  <2> QED BY <2>3, <2>4
<1>16. op'.kind # "copy"
  BY <1>6, <1>10, AdvanceKind
<1>17. CASE need'
  BY <1>17 DEF Aware
<1>18. CASE ~need'
  <2>1. CanMerge(files') => CanMerge(files)
    BY <1>15, <1>18 DEF CanMerge
  <2>2. need' = need \/ need
    BY <1>10, <1>18 DEF IInv
  <2> QED BY <1>6, <1>10, <1>16, <1>18, <2>1 DEF Aware, Begins
<1> QED BY <1>17, <1>18

LEMMA WriteRefusedAware ==
  ASSUME IInv, Aware, WriteRefused
  PROVE  Aware'
<1>1. op.kind = "write" /\ op.at \in 1 .. Len(files) /\ files[op.at] \in Files
  BY InStep DEF WriteRefused, Writing
<1>2. Len(files) \in Nat /\ DOMAIN files = 1 .. Len(files)
  BY HereFacts, SMTT(60)
<1>3. PICK d, e : files' = [files EXCEPT ![op.at] = [files[op.at] EXCEPT !.disk = d, !.data = e]]
  BY DEF WriteRefused, SetTo, Refused, Here
<1>4. PICK g : g = [files[op.at] EXCEPT !.disk = d, !.data = e] OBVIOUS
<1>5. /\ g.offset = files[op.at].offset /\ g.length = files[op.at].length /\ g.size = files[op.at].size
      /\ g.staging = files[op.at].staging
  <2>1. files[op.at] \in Recs
    BY <1>1, FileFacts
  <2> QED BY <1>4, <2>1 DEF Recs
<1>6. files' = [files EXCEPT ![op.at] = g]
  BY <1>3, <1>4
<1>7. Len(files') = Len(files) /\ DOMAIN files' = 1 .. Len(files')
  BY <1>2, <1>6
<1>8. \A i \in 1 .. Len(files) : /\ files'[i].offset = files[i].offset /\ files'[i].length = files[i].length
                                 /\ files'[i].size = files[i].size /\ files'[i].staging = files[i].staging
  BY <1>1, <1>2, <1>5, <1>6
<1>9. CanMerge(files') => CanMerge(files)
  BY <1>2, <1>7, <1>8, MergeableSame
<1>10. op'.kind # "copy"
  BY DEF WriteRefused, Fails, Idle
<1> QED BY <1>1, <1>9, <1>10, AwareKept, AwareIO DEF WriteRefused, Fails

LEMMA CloseAllFilesAware ==
  ASSUME IInv, Aware, CloseAllFiles
  PROVE  Aware'
<1>1. PICK shut : shut = {i \in Reals(files) : files[i].opened} OBVIOUS
<1>2. /\ files' = [i \in DOMAIN files |-> IF i \in shut THEN [files[i] EXCEPT !.opened = FALSE, !.readonly = FALSE]
                                          ELSE files[i]]
      /\ op = Idle /\ UNCHANGED <<op, need, unmerged>>
  BY <1>1 DEF CloseAllFiles
<1>3. Len(files) \in Nat /\ DOMAIN files = 1 .. Len(files) /\ \A i \in 1 .. Len(files) : files[i] \in Recs
  BY HereFacts, FileFacts
<1>4. Len(files') = Len(files) /\ DOMAIN files' = 1 .. Len(files')
  <2>1. IInv'
    BY CloseAllFilesStep
  <2>2. Shaped(files')
    BY <2>1 DEF IInv, Sound
  <2>3. DOMAIN files' = 1 .. Len(files') /\ Len(files') \in Nat
    BY <2>2, ListFacts
  <2>4. DOMAIN files' = 1 .. Len(files)
    BY <1>2, <1>3
  <2>5. Len(files) \in Nat
    BY <1>3
  <2>6. Len(files') = Len(files)
    BY <2>3, <2>4, <2>5
  <2> QED BY <2>3, <2>6
<1>5. \A i \in 1 .. Len(files) : /\ files'[i].offset = files[i].offset /\ files'[i].length = files[i].length
                                 /\ files'[i].size = files[i].size /\ files'[i].staging = files[i].staging
  <2> SUFFICES ASSUME NEW i \in 1 .. Len(files)
               PROVE  /\ files'[i].offset = files[i].offset /\ files'[i].length = files[i].length
                      /\ files'[i].size = files[i].size /\ files'[i].staging = files[i].staging
    OBVIOUS
  <2>1. PICK f : f = files[i] OBVIOUS
  <2>2. f \in Recs
    BY <1>3, <2>1
  <2>3. files'[i] = f \/ files'[i] = [f EXCEPT !.opened = FALSE, !.readonly = FALSE]
    BY <1>2, <1>3, <2>1
  <2> QED BY <2>1, <2>2, <2>3 DEF Recs
<1>6. CanMerge(files') => CanMerge(files)
  BY <1>3, <1>4, <1>5, MergeableSame
<1> QED BY <1>2, <1>6, AwareKept, AwareIO DEF Idle
-----------------------------------------------------------------------------
LEMMA MergeFailsAware ==
  ASSUME Begins(op) \/ unmerged \/ need, op.kind \in {"merge", "copy"},
         op.back.kind \in {"idle", "extend", "write"}, NEW s, MergeFails(s)
  PROVE  Aware'
<1>1. need' = need /\ unmerged' = (unmerged \/ op.back.kind = "extend")
  BY DEF MergeFails
<1> QED BY <1>1 DEF Aware, Begins

\* The file a merge opens is one that can be merged.
LEMMA MergeOpenAware ==
  ASSUME IInv, Aware, MergeOpen
  PROVE  Aware'
<1>1. MergeFits(op, files) /\ op.kind = "merge"
  BY CandidateFacts DEF MergeOpen, Merging
<1>2. op.back.kind \in {"idle", "extend", "write"}
  BY <1>1, HereFacts, BackOp DEF MergeFits
<1>3. CanMerge(files)
  BY DEF MergeOpen, Candidates, CanMerge
<1>4. Begins(op) \/ unmerged \/ need
  BY <1>3 DEF Aware
<1>5. \/ \E s : MergeFails(s)
      \/ op' = CopyOp(Min(Candidates)) /\ UNCHANGED <<need, unmerged>>
  BY DEF MergeOpen
<1>6. ASSUME op' = CopyOp(Min(Candidates)) /\ UNCHANGED <<need, unmerged>>
      PROVE  Aware'
  <2>1. op'.kind = "copy" /\ op'.back = op.back
    BY <1>6 DEF CopyOp
  <2>2. Begins(op) => Begins(op')
    BY <1>1, <2>1 DEF Begins
  <2> QED BY <1>4, <1>6, <2>2 DEF Aware
<1> QED BY <1>1, <1>2, <1>4, <1>5, <1>6, MergeFailsAware

LEMMA MergeNoneAware ==
  ASSUME IInv, MergeNone
  PROVE  Aware'
<1>1. BackFits(op.back, files)
  BY Kinds DEF MergeNone, Merging, IInv, MergeFits
<1>2. op'.kind # "copy"
  BY <1>1, HereFacts, BackOp DEF MergeNone, Return, Created
<1>3. ~CanMerge(files')
  BY DEF MergeNone, Candidates, CanMerge, disk
<1> QED BY <1>2, <1>3 DEF Aware

LEMMA MergeCopyAware ==
  ASSUME IInv, Aware, MergeCopy
  PROVE  Aware'
<1>1. CopyFits(op, files)
  BY CopyFacts DEF MergeCopy
<1>2. op'.kind = op.kind /\ op'.back = op.back
  BY <1>1 DEF MergeCopy, CopyFits
<1>3. op.kind = "copy" /\ UNCHANGED <<need, unmerged>>
  BY DEF MergeCopy, Copying
<1> QED BY <1>2, <1>3 DEF Aware, Begins

LEMMA MergeCopyRefusedAware ==
  ASSUME IInv, Aware, MergeCopyRefused
  PROVE  Aware'
<1>1. op.kind = "copy" /\ op.back.kind \in {"idle", "extend", "write"}
  BY CopyFacts, HereFacts, BackOp DEF MergeCopyRefused, Copying
<1>2. \E s : MergeFails(s)
  BY DEF MergeCopyRefused
<1> QED BY <1>1, <1>2, MergeFailsAware DEF Aware

\* A merge at the start goes on until there is nothing to merge.
LEMMA DeleteAware ==
  ASSUME Begins(op) \/ unmerged \/ need, op.kind \in {"merge", "copy"},
         op.back.kind \in {"idle", "extend", "write"}, NEW dst, NEW s, Delete(dst, s)
  PROVE  Aware'
<1>1. need' = need /\ unmerged' = unmerged /\ op' = Resume(dst + 1)
  BY DEF Delete
<1>2. ASSUME op.back.kind = "extend"
      PROVE  Begins(op')
  <2>1. op' = [MergeOp(TRUE, op.back) EXCEPT !.merged = TRUE] \/ op' = op.back
    BY <1>1, <1>2 DEF Resume
  <2> QED BY <1>2, <2>1 DEF Begins, MergeOp
<1> QED BY <1>1, <1>2 DEF Aware, Begins

LEMMA MergePresentAware ==
  ASSUME IInv, Aware, MergePresent
  PROVE  Aware'
<1>1. MergeFits(op, files) /\ op.kind = "merge"
  BY CandidateFacts DEF MergePresent, Merging
<1>2. op.back.kind \in {"idle", "extend", "write"}
  BY <1>1, HereFacts, BackOp DEF MergeFits
<1>3. Begins(op) \/ unmerged \/ need
  BY DEF MergePresent, Candidates, CanMerge, Aware
<1>4. \E s : Delete(Min(Candidates), s)
  BY DEF MergePresent
<1> QED BY <1>1, <1>2, <1>3, <1>4, DeleteAware

LEMMA MergeDoneAware ==
  ASSUME IInv, Aware, MergeDone
  PROVE  Aware'
<1>1. op.kind = "copy" /\ op.back.kind \in {"idle", "extend", "write"}
  BY CopyFacts, HereFacts, BackOp DEF MergeDone, Copying
<1>2. Begins(op) \/ unmerged \/ need
  BY <1>1 DEF Aware
<1>3. \E s : Delete(op.dst, s)
  BY DEF MergeDone
<1> QED BY <1>1, <1>2, <1>3, DeleteAware

LEMMA ReadFileAware ==
  ASSUME IInv, Aware, ReadFile
  PROVE  Aware'
<1>1. op.kind \in {"read", "write"} /\ op \in IOs
  BY InStep DEF ReadFile
<1>2. op'.kind # "copy"
  BY <1>1, AdvanceKind DEF ReadFile
<1> QED BY <1>1, <1>2, AwareKept, AwareIO DEF ReadFile, disk

LEMMA ExtendAware ==
  ASSUME IInv, ExtendFile
  PROVE  Aware'
<1>1. op = [kind |-> "extend", at |-> op.at, wanted |-> op.wanted]
  BY Kinds DEF ExtendFile, Extend, IInv, ExtendFits
<1>2. unmerged' \/ op' = [op EXCEPT !.at = @ + 1]
  <2>1. PICK done : /\ op' = IF done THEN [op EXCEPT !.at = @ + 1] ELSE Created
                    /\ unmerged' = (unmerged \/ ~done)
    BY DEF ExtendFile
  <2> QED BY <2>1
<1>3. unmerged' \/ op'.kind = "extend"
  BY <1>1, <1>2
<1> QED BY <1>3 DEF Aware, Begins

LEMMA StepAware ==
  ASSUME IInv, Aware, [Next]_vars
  PROVE  Aware'
<1>1. CASE UNCHANGED vars
  BY <1>1 DEF vars, disk, Aware, Begins, CanMerge
<1>2. ASSUME NEW off, NEW len, NEW v, Write(off, len, v) \/ Read(off, len)
      PROVE  Aware'
  <2>1. op.kind = "idle" /\ op'.kind # "copy" /\ UNCHANGED <<files, need, unmerged>>
    BY <1>2 DEF Write, Read, StartIO, Idle, disk
  <2> QED BY <2>1, AwareKept, AwareIO
<1>3. CASE NotFound \/ Retry \/ Run \/ StartMerge
  <2>1. op.kind \in {"read", "idle", "created"} /\ UNCHANGED <<files, need, unmerged>>
    BY <1>3 DEF NotFound, Fails, Retry, Run, StartMerge, Idle, Created, disk
  <2>2. op'.kind # "copy"
    BY <1>3 DEF NotFound, Fails, Retry, Run, StartMerge, Idle, Created, MergeOp
  <2>3. ~Begins(op)
    BY <2>1 DEF Begins
  <2> QED BY <2>1, <2>2, <2>3, AwareKept
<1>4. CASE CreateNone
  BY <1>4 DEF CreateNone, Aware
<1>5. ASSUME NEW wanted, CreateSparse(wanted)
      PROVE  Aware'
  BY <1>5 DEF CreateSparse, MergeOp, Extending, Aware, Begins
<1>6. CASE Restart
  BY <1>6 DEF Restart, Ended, Starting, Aware, Begins
<1>7. CASE ExtendSkip
  <2>1. op' = MergeOp(TRUE, Extending(op.wanted)) \/ op' = [op EXCEPT !.at = @ + 1]
    BY <1>7 DEF ExtendSkip
  <2>2. ExtendFits(op, files)
    BY <1>7, Kinds DEF ExtendSkip, Extend, IInv
  <2>3. Begins(op')
    BY <2>1, <2>2 DEF MergeOp, Extending, Begins, ExtendFits
  <2> QED BY <2>3 DEF Aware
<1>8. CASE ExtendFile
  BY <1>8, ExtendAware
<1> QED BY <1>1, <1>2, <1>3, <1>4, <1>5, <1>6, <1>7, <1>8, NewStagingAware, OpenFileAware, OpenNoSpaceAware, ReadFileAware,
     WriteFileAware, WriteRefusedAware, MergeNoneAware, MergeOpenAware, MergeCopyAware, MergeCopyRefusedAware,
     MergePresentAware, MergeDoneAware, CloseAllFilesAware DEF Next
LEMMA InitAware ==
  ASSUME Init
  PROVE  Aware
  BY DEF Init, Starting, Aware, Begins

\* The end of a real file is the beginning of a byte that some file has, or of nothing; a staging file
\* with it follows on a file that is next to it.
LEMMA EndsMerge ==
  ASSUME NEW fs, Shaped(fs), Neat(fs), NEW i \in Reals(fs), fs[i].size < fs[i].length,
         NEW j \in 1 .. Len(fs), NEW c \in Cells, c = End(fs[i]), Holds(fs, j, c)
  PROVE  Mergeable(fs, i)
<1>1. /\ Len(fs) \in Nat /\ DOMAIN fs = 1 .. Len(fs)
      /\ \A k \in 1 .. Len(fs) : /\ fs[k].offset \in Nat /\ fs[k].size \in Nat /\ fs[k].length \in Nat
                                 /\ End(fs[k]) = fs[k].offset + fs[k].size /\ End(fs[k]) \in Nat
      /\ \A k \in 1 .. Len(fs) : k \in Reals(fs) <=> ~fs[k].staging
      /\ \A k \in Reals(fs) : k \in 1 .. Len(fs)
  BY ListFacts
<1>2. i \in 1 .. Len(fs) /\ ~fs[i].staging /\ c < fs[i].offset + fs[i].length
  BY <1>1
<1>3. fs[j].offset <= c /\ c < End(fs[j]) /\ j # i
  BY <1>1, <1>2 DEF Holds, Covers
<1>4. \A m, n \in Reals(fs) : m < n => fs[m].offset + fs[m].length <= fs[n].offset
  BY Geometry
<1>5. ASSUME NEW k \in Reals(fs), i < k
      PROVE  c < fs[k].offset
  <2>1. fs[i].offset + fs[i].length <= fs[k].offset
    BY <1>4, <1>5
  <2>2. k \in 1 .. Len(fs)
    BY <1>1
  <2>3. fs[k].offset \in Nat /\ fs[i].offset \in Nat /\ fs[i].length \in Nat /\ c \in Nat
    BY <1>1, <1>2, <2>2
  <2> QED BY <1>2, <2>1, <2>3
<1>6. i < j
  <2> SUFFICES ASSUME j < i PROVE FALSE
    BY <1>1, <1>2, <1>3
  <2>1. CASE fs[j].staging
    <3>1. PICK k \in 1 .. j - 1 : ~fs[k].staging /\ c < fs[k].offset + fs[k].length
      BY <2>1 DEF Holds
    <3>4. k \in 1 .. Len(fs) /\ k < i
      BY <1>1, <1>2, <3>1
    <3>2. k \in Reals(fs) /\ k < i
      BY <1>1, <3>1, <3>4
    <3>3. fs[k].offset + fs[k].length <= fs[i].offset
      BY <1>4, <3>2
    <3>5. c >= fs[i].offset
      BY <1>1, <1>2
    <3>6. fs[k].offset \in Nat /\ fs[k].length \in Nat /\ fs[i].offset \in Nat /\ c \in Nat
      BY <1>1, <1>2, <3>4
    <3> QED BY <3>1, <3>3, <3>5, <3>6
  <2>2. CASE ~fs[j].staging
    <3>1. j \in Reals(fs)
      BY <1>1, <2>2
    <3>2. fs[j].offset + fs[j].length <= fs[i].offset /\ fs[j].size <= fs[j].length
      BY <1>4, <3>1 DEF Neat
    <3> QED BY <1>1, <1>2, <1>3, <3>2, SMTT(60)
  <2> QED BY <2>1, <2>2
<1>7. i + 1 \in 1 .. Len(fs) /\ i < Len(fs) /\ i + 1 <= j
  BY <1>1, <1>2, <1>6
<1>8. fs[i + 1].offset <= fs[j].offset
  BY <1>7, Upward
<1>9. fs[i + 1].staging
  <2> SUFFICES ASSUME ~fs[i + 1].staging PROVE FALSE
    OBVIOUS
  <2>1. i + 1 \in Reals(fs) /\ i < i + 1
    BY <1>1, <1>2, <1>7
  <2>2. c < fs[i + 1].offset
    BY <1>5, <2>1
  <2> QED BY <1>1, <1>2, <1>3, <1>7, <1>8, <2>2
<1> QED BY <1>1, <1>2, <1>3, <1>7, <1>8, <1>9, SMTT(60) DEF Mergeable

LEMMA NotStored ==
  ASSUME NEW fs, NEW c \in Cells, \A i \in DOMAIN fs : ~Holds(fs, i, c)
  PROVE  StoredIn(fs)[c] = Unknown
  BY DEF StoredIn

LEMMA AwareKnown ==
  ASSUME IInv, Aware
  PROVE  MergeKnown
<1> SUFFICES ASSUME op = Idle, ~unmerged
             PROVE  /\ Candidates # {} => need
                    /\ (~Tangled /\ ~need /\ \A c \in Cells : Stored[c] # Unknown) =>
                         \A i \in Reals(files) : files[i].size = files[i].length
  BY DEF MergeKnown
<1>1. need \/ ~CanMerge(files)
  BY DEF Aware, Idle, Begins
<1>2. Candidates # {} => need
  BY <1>1 DEF Candidates, CanMerge
<1>3. ASSUME ~Tangled, ~need, \A c \in Cells : Stored[c] # Unknown, NEW i \in Reals(files)
      PROVE  files[i].size = files[i].length
  <2>1. Neat(files) /\ Shaped(files)
    BY <1>3, NeatIs, HereFacts
  <2>2. /\ i \in 1 .. Len(files) /\ files[i].offset \in Nat /\ files[i].size \in Nat /\ files[i].length \in Nat
        /\ End(files[i]) = files[i].offset + files[i].size
    BY <2>1, ListFacts
  <2>3. files[i].size <= files[i].length
    BY <2>1 DEF Neat
  <2> SUFFICES ASSUME files[i].size < files[i].length PROVE FALSE
    BY <2>2, <2>3
  <2>4. PICK c : c = End(files[i]) OBVIOUS
  <2>5. c \in Cells
    <3>1. files[i].offset + files[i].length <= Total
      BY <2>1, Geometry
    <3>2. Cells = 0 .. Total - 1 /\ Total \in Nat
      BY Extents
    <3> QED BY <2>2, <2>4, <3>1, <3>2
  <2>6. PICK j \in DOMAIN files : Holds(files, j, c)
    BY <1>3, <2>5, NotStored DEF Stored
  <2>7. Mergeable(files, i)
    <3>1. j \in 1 .. Len(files)
      BY HereFacts
    <3> QED BY <2>1, <2>4, <2>5, <2>6, <3>1, EndsMerge
  <2>8. i \in DOMAIN files
    BY DEF Reals
  <2> QED BY <1>1, <1>3, <2>7, <2>8 DEF CanMerge
<1> QED BY <1>2, <1>3

\* A real file that reaches the staging file behind it is known to need a merge, but for one that the start of
\* this session could not merge; so when all has been written, and nothing needs to be merged, all of it is in the
\* torrent's files (m_need_merge, IO, FindAndMerge, CreateFiles).
THEOREM MergesKnown == Spec => []MergeKnown
<1>1. Init => Aware
  BY InitAware
<1>2. IInv /\ Aware /\ [Next]_vars => Aware'
  BY StepAware
<1>3. IInv /\ Aware => MergeKnown
  BY AwareKnown
<1> QED BY <1>1, <1>2, <1>3, IInvAlways, PTL DEF Spec
-----------------------------------------------------------------------------
(* Reads.                                                                  *)

LEMMA ReadStart ==
  ASSUME IInv, NEW off, NEW len, Read(off, len), off \in Cells
  PROVE  ReadAt(op', files')
<1>1. PICK write : write = ("read" = "write") OBVIOUS
<1>2. write \in BOOLEAN /\ ~write
  BY <1>1
<1>3. PICK p : p = FindFirst(files, off, write) OBVIOUS
<1>4. op'.null = p.null /\ op'.at = p.at /\ op'.off = off /\ op'.kind = "read" /\ files' = files
  BY <1>1, <1>3 DEF Read, StartIO, disk
<1>5. /\ Shaped(files) /\ p.null \in BOOLEAN /\ p.at \in 1 .. Len(files)
      /\ ~p.null => Takes(files[p.at], off, write)
  BY <1>2, <1>3, HereFacts, SearchFacts
<1>6. ASSUME Neat(files), p.null
      PROVE  \A i \in 1 .. Len(files) : ~Holds(files, i, off)
  BY <1>2, <1>3, <1>5, <1>6, SearchFinds
<1>7. ASSUME ~p.null
      PROVE  files[p.at].offset <= off /\ off <= End(files[p.at])
  <2>1. files[p.at].offset <= off /\ off < End(files[p.at])
    BY <1>2, <1>5, <1>7 DEF Takes, Covers
  <2>2. off \in Nat /\ End(files[p.at]) \in Nat
    BY <1>5, ListFacts, Extents
  <2> QED BY <2>1, <2>2
<1> QED BY <1>4, <1>6, <1>7 DEF ReadAt

LEMMA ReadLengthFacts ==
  ASSUME NEW f, End(f) \in Nat, op.off \in Nat, op.len \in Nat, op.off <= End(f), NEW n, n = ReadLength(f)
  PROVE  n \in 0 .. op.len /\ op.off + n <= End(f) /\ (n # op.len => op.off + n = End(f))
  BY DEF ReadLength, Least

\* In a neat list a file ends no later than the next.
LEMMA NextEnds ==
  ASSUME NEW fs, Shaped(fs), Neat(fs), NEW i \in 1 .. Len(fs) - 1, fs[i + 1].offset <= End(fs[i])
  PROVE  End(fs[i]) <= End(fs[i + 1])
<1>1. /\ Len(fs) \in Nat
      /\ \A k \in 1 .. Len(fs) : /\ fs[k].offset \in Nat /\ fs[k].size \in Nat /\ fs[k].length \in Nat
                                 /\ End(fs[k]) = fs[k].offset + fs[k].size /\ fs[k].staging \in BOOLEAN
      /\ \A k \in 1 .. Len(fs) : k \in Reals(fs) <=> ~fs[k].staging
  BY ListFacts
<1>2. i \in 1 .. Len(fs) /\ i + 1 \in 1 .. Len(fs) /\ i < i + 1
  BY <1>1
<1>6. PICK j : j = i + 1 OBVIOUS
<1>7. /\ j \in 1 .. Len(fs) /\ fs[j].offset \in Nat /\ fs[j].size \in Nat /\ End(fs[j]) = fs[j].offset + fs[j].size
      /\ fs[i].offset \in Nat /\ fs[i].size \in Nat /\ fs[i].length \in Nat
      /\ End(fs[i]) = fs[i].offset + fs[i].size
  BY <1>1, <1>2, <1>6
<1>3. CASE fs[i].staging
  <2>1. End(fs[i]) <= fs[j].offset
    BY <1>3, <1>6 DEF Neat
  <2> QED BY <1>6, <1>7, <2>1
<1>4. CASE ~fs[i].staging /\ fs[i + 1].staging
  BY <1>1, <1>2, <1>4 DEF Neat
<1>5. CASE ~fs[i].staging /\ ~fs[i + 1].staging
  <2>1. i \in Reals(fs) /\ i + 1 \in Reals(fs)
    BY <1>1, <1>2, <1>5
  <2>2. fs[i].offset + fs[i].length <= fs[i + 1].offset
    BY <1>2, <2>1, Geometry
  <2>3. fs[i].size <= fs[i].length
    BY <2>1 DEF Neat
  <2>4. End(fs[i]) <= fs[j].offset
    BY <1>6, <1>7, <2>2, <2>3
  <2> QED BY <1>6, <1>7, <2>4
<1> QED BY <1>1, <1>2, <1>3, <1>4, <1>5

LEMMA ReadOn ==
  ASSUME IInv, ReadAt(op, files), ReadFile
  PROVE  ReadAt(op', files')
<1>1. /\ op.kind = "read" /\ IOFits(op, files) /\ op \in IOs /\ ~op.null /\ op.at \in 1 .. Len(files)
      /\ op.off \in Nat /\ op.len \in Nat /\ op.off + op.len <= Total /\ Total \in Nat
  BY InStep DEF ReadFile, Writing
<1>2. Shaped(files) /\ files' = files
  BY HereFacts DEF ReadFile, disk
<1>3. /\ Len(files) \in Nat
      /\ \A k \in 1 .. Len(files) : files[k].offset \in Nat /\ End(files[k]) \in Nat
  BY <1>2, ListFacts
<1>4. PICK n : n = ReadLength(files[op.at]) OBVIOUS
<1>5. op' = Advance(files, n)
  BY <1>4 DEF ReadFile
<1> SUFFICES ASSUME op'.kind = "read", Neat(files)
             PROVE  IF op'.null THEN \A i \in 1 .. Len(files) : ~Holds(files, i, op'.off)
                    ELSE files[op'.at].offset <= op'.off /\ op'.off <= End(files[op'.at])
  BY <1>2 DEF ReadAt
<1>6. files[op.at].offset <= op.off /\ op.off <= End(files[op.at])
  BY <1>1 DEF ReadAt
<1>7. n \in 0 .. op.len /\ (n # op.len => op.off + n = End(files[op.at]))
  BY <1>1, <1>3, <1>4, <1>6, ReadLengthFacts
<1>8. n # op.len /\ op.at # Len(files)
  BY <1>5 DEF Advance, Idle, Crashed
<1>9. op.at + 1 \in 1 .. Len(files) /\ op.at \in 1 .. Len(files) - 1
  BY <1>1, <1>3, <1>8
<1>10. PICK c : c = op.off + n OBVIOUS
<1>11. c = End(files[op.at]) /\ c \in Cells /\ op.off <= c
  <2>1. c = End(files[op.at]) /\ c < Total /\ c \in Nat /\ op.off <= c
    BY <1>1, <1>7, <1>8, <1>10
  <2> QED BY <2>1, Extents
<1>12. op.off \in Cells /\ op.len - n \in Int
  BY <1>1, <1>7, IOFields
<1>13. CASE c < files[op.at + 1].offset
  <2>1. op' = [op EXCEPT !.off = c, !.len = op.len - n, !.null = TRUE]
    BY <1>5, <1>8, <1>10, <1>13 DEF Advance
  <2>2. op'.off = c /\ op'.null
    BY <1>1, <2>1 DEF IOs
  <2>3. ASSUME NEW i \in 1 .. Len(files)
        PROVE  ~Holds(files, i, c)
    <3>1. CASE i < op.at
      BY <1>1, <1>11, <3>1 DEF IOFits, Passed
    <3>2. CASE i = op.at
      BY <1>3, <1>11, <3>2 DEF Holds, Covers
    <3>3. CASE op.at + 1 <= i
      <4>1. files[op.at + 1].offset <= files[i].offset
        BY <1>2, <1>9, <3>3, Upward
      <4>3. files[op.at + 1].offset \in Nat /\ files[i].offset \in Nat /\ c \in Nat
        BY <1>1, <1>3, <1>9, <1>11
      <4>4. ~(files[i].offset <= c)
        BY <1>13, <4>1, <4>3
      <4>2. ~Covers(files[i], c)
        BY <4>4 DEF Covers
      <4> QED BY <4>2 DEF Holds
    <3> QED BY <1>1, <1>3, <3>1, <3>2, <3>3
  <2> QED BY <2>2, <2>3
<1>14. CASE ~(c < files[op.at + 1].offset)
  <2>1. op' = [op EXCEPT !.off = c, !.len = op.len - n, !.at = op.at + 1]
    BY <1>5, <1>8, <1>10, <1>14 DEF Advance
  <2>2. op'.off = c /\ op'.at = op.at + 1 /\ op'.null = op.null
    BY <1>1, <2>1 DEF IOs
  <2>3. files[op.at + 1].offset <= c
    BY <1>3, <1>9, <1>11, <1>14
  <2>4. c <= End(files[op.at + 1])
    BY <1>2, <1>9, <1>11, <2>3, NextEnds
  <2> QED BY <1>1, <2>2, <2>3, <2>4
<1> QED BY <1>13, <1>14

LEMMA ReadOpens ==
  ASSUME IInv, ReadAt(op, files), OpenFile
  PROVE  ReadAt(op', files')
<1>1. PICK r \in Open(Here, op.at, Writing, 0) : SetTo(r.s) /\ op' = IF r.ok THEN op ELSE Idle
  BY DEF OpenFile
<1>2. op.kind \in {"read", "write"} /\ op.at \in 1 .. Len(files) /\ op \in IOs
  BY InStep DEF OpenFile
<1>3. Opens(Here, r.s)
  <2>1. op.at \in 1 .. Len(Here.f) /\ Good(Here) /\ Writing \in BOOLEAN
    BY <1>2, HereFacts DEF Writing
  <2> HIDE DEF Here, Writing
  <2> QED BY <2>1, OpenFacts
<1>4. PICK gs : gs = r.s.f OBVIOUS
<1>5. /\ files' = gs /\ Rewritten(files, gs) /\ Shaped(gs) /\ Shaped(files) /\ Len(gs) = Len(files)
      /\ \A i \in 1 .. Len(files) : Same(files[i], gs[i])
  BY <1>1, <1>3, <1>4, HereFacts DEF SetTo, Opens, Good, Rewritten
<1>6. ASSUME Neat(gs)
      PROVE  Neat(files)
  <2>1. \A i \in 1 .. Len(files) : gs[i].size = files[i].size
    BY <1>5 DEF Same
  <2> QED BY <1>5, <1>6, <2>1, NeatSame
<1>7. \A i \in 1 .. Len(files), c \in Cells : Holds(gs, i, c) <=> Holds(files, i, c)
  BY <1>5, SameFits
<1>8. \A i \in 1 .. Len(files) : gs[i].offset = files[i].offset /\ End(gs[i]) = End(files[i])
  BY <1>5 DEF Same, Alike, End
<1>9. op.off \in Cells
  BY <1>2, IOFields
<1>10. CASE op' = op
  BY <1>2, <1>5, <1>6, <1>7, <1>8, <1>9, <1>10 DEF ReadAt
<1>11. CASE op' = Idle
  BY <1>11 DEF ReadAt, Idle
<1> QED BY <1>1, <1>10, <1>11
\* No other step goes on with a read.
LEMMA BackNoRead ==
  ASSUME NEW fs, Shaped(fs), NEW back, BackFits(back, fs), NEW merged
  PROVE  back.kind # "read" /\ Return(back, merged).kind # "read"
<1>1. back.kind \in {"idle", "extend", "write"}
  BY BackOp
<1> QED BY <1>1 DEF Return, Created

LEMMA MergeNoRead ==
  ASSUME IInv, MergeNone \/ MergeOpen \/ MergeCopy \/ MergeCopyRefused \/ MergePresent \/ MergeDone
  PROVE  op'.kind # "read"
<1>1. op.kind \in {"merge", "copy"}
  BY DEF MergeNone, MergeOpen, MergeCopy, MergeCopyRefused, MergePresent, MergeDone, Merging, Copying
<1>2. BackFits(op.back, files) /\ Shaped(files)
  BY <1>1, Kinds, HereFacts DEF IInv, MergeFits, CopyFits
<1>3. op.back.kind \in {"idle", "extend", "write"} /\ Return(op.back, op.merged).kind # "read"
  BY <1>2, BackOp, BackNoRead
<1>4. ASSUME NEW s, MergeFails(s)
      PROVE  op'.kind # "read"
  BY <1>3, <1>4 DEF MergeFails, MergeOp
<1>5. ASSUME NEW dst, NEW s, Delete(dst, s)
      PROVE  op'.kind # "read"
  <2>1. op' = Resume(dst + 1)
    BY <1>5 DEF Delete
  <2>2. \/ op' = Crashed
        \/ \E b : op' = [MergeOp(TRUE, b) EXCEPT !.merged = TRUE]
        \/ op' = op.back
        \/ op.back.kind = "write" /\ op' = [op.back EXCEPT !.at = @ - 1]
    BY <2>1 DEF Resume
  <2>3. ASSUME op.back.kind = "write", op' = [op.back EXCEPT !.at = @ - 1]
        PROVE  op'.kind = "write"
    <3>1. op.back \in IOs
      BY <1>2, <2>3 DEF BackFits, HeldFits, IOFits, Idle
    <3> QED BY <2>3, <3>1 DEF IOs
  <2>4. ASSUME NEW b, op' = [MergeOp(TRUE, b) EXCEPT !.merged = TRUE]
        PROVE  op'.kind = "merge"
    BY <2>4 DEF MergeOp
  <2>5. Crashed.kind = "crash"
    BY DEF Crashed
  <2> QED BY <1>3, <2>2, <2>3, <2>4, <2>5
<1>6. CASE MergeNone
  BY <1>3, <1>6 DEF MergeNone
<1>7. CASE MergeOpen
  <2>1. \/ \E s : MergeFails(s)
        \/ op' = CopyOp(Min(Candidates))
    BY <1>7 DEF MergeOpen
  <2> QED BY <1>4, <2>1 DEF CopyOp
<1>8. CASE MergeCopy
  <2>1. CopyFits(op, files)
    BY <1>8, CopyFacts DEF MergeCopy
  <2> QED BY <1>8, <2>1 DEF MergeCopy, CopyFits
<1>9. CASE MergeCopyRefused
  <2>1. \E s : MergeFails(s)
    BY <1>9 DEF MergeCopyRefused
  <2> QED BY <1>4, <2>1, SMTT(60)
<1>10. CASE MergePresent
  <2>1. \E dst, s : Delete(dst, s)
    BY <1>10 DEF MergePresent
  <2> QED BY <1>5, <2>1
<1>11. CASE MergeDone
  <2>1. \E dst, s : Delete(dst, s)
    BY <1>11 DEF MergeDone
  <2> QED BY <1>5, <2>1
<1> QED BY <1>6, <1>7, <1>8, <1>9, <1>10, <1>11, SMTT(60)

LEMMA OtherNoRead ==
  ASSUME IInv,
         \/ NewStaging \/ NotFound \/ OpenNoSpace \/ WriteFile \/ WriteRefused \/ StartMerge \/ CloseAllFiles \/ Retry
         \/ Restart \/ CreateNone \/ ExtendSkip \/ ExtendFile \/ Run
  PROVE  op'.kind # "read"
<1>1. CASE NotFound \/ WriteRefused \/ CloseAllFiles \/ Retry
  <2>1. op' = Idle
    BY <1>1 DEF NotFound, Fails, WriteRefused, CloseAllFiles, Retry
  <2> QED BY <2>1, SMTT(60) DEF Idle
<1>6. CASE OpenNoSpace
  BY <1>6 DEF OpenNoSpace, MergeOp
<1>7. CASE StartMerge
  BY <1>7 DEF StartMerge, MergeOp
<1>2. CASE Restart \/ CreateNone \/ Run
  BY <1>2 DEF Restart, CreateNone, Run, Ended, Starting, Created, Idle
<1>3. CASE NewStaging
  <2>1. op.kind = "write" /\ op \in IOs
    BY <1>3, Kinds DEF NewStaging, NeedsStaging, IInv, IOFits
  <2> QED BY <1>3, <2>1 DEF NewStaging, IOs
<1>4. CASE WriteFile
  <2>1. op.kind = "write" /\ op \in IOs
    BY <1>4, InStep DEF WriteFile, Writing
  <2>2. PICK fs, n : op' = Advance(fs, n)
    BY <1>4 DEF WriteFile
  <2>3. \/ op' = Idle \/ op'.kind = "crash"
        \/ op' = [op EXCEPT !.off = op.off + n, !.len = op.len - n, !.null = TRUE]
        \/ op' = [op EXCEPT !.off = op.off + n, !.len = op.len - n, !.at = op.at + 1]
    BY <2>2 DEF Advance, Crashed
  <2>4. /\ [op EXCEPT !.off = op.off + n, !.len = op.len - n, !.null = TRUE].kind = "write"
        /\ [op EXCEPT !.off = op.off + n, !.len = op.len - n, !.at = op.at + 1].kind = "write"
    BY <2>1 DEF IOs
  <2>5. Idle.kind = "idle"
    BY DEF Idle
  <2> QED BY <2>3, <2>4, <2>5
<1>5. CASE ExtendSkip \/ ExtendFile
  <2>1. op = [kind |-> "extend", at |-> op.at, wanted |-> op.wanted]
    BY <1>5, Kinds, ZenonT(60) DEF ExtendSkip, ExtendFile, Extend, IInv, ExtendFits
  <2>2. op' = [op EXCEPT !.at = @ + 1] \/ op' = Created \/ op' = MergeOp(TRUE, Extending(op.wanted))
    BY <1>5 DEF ExtendSkip, ExtendFile
  <2>3. [op EXCEPT !.at = @ + 1].kind = "extend"
    BY <2>1
  <2>4. Created.kind = "created" /\ \A w : MergeOp(TRUE, w).kind = "merge"
    BY DEF Created, MergeOp
  <2> QED BY <2>2, <2>3, <2>4, ZenonT(60)
<1> QED BY <1>1, <1>2, <1>3, <1>4, <1>5, <1>6, <1>7

LEMMA StepReads ==
  ASSUME IInv, ReadAt(op, files), [Next]_vars
  PROVE  ReadAt(op', files')
<1>1. CASE UNCHANGED vars
  BY <1>1 DEF vars, disk
<1>2. ASSUME NEW off \in Cells, Read(off, Least(PieceLength, Total - off))
      PROVE  ReadAt(op', files')
  BY <1>2, ReadStart
<1>3. ASSUME NEW off, NEW len, NEW v, Write(off, len, v)
      PROVE  op'.kind # "read"
  BY <1>3 DEF Write, StartIO
<1>4. ASSUME NEW wanted, CreateSparse(wanted)
      PROVE  op'.kind # "read"
  BY <1>4 DEF CreateSparse, MergeOp
<1>5. ASSUME op'.kind # "read"
      PROVE  ReadAt(op', files')
  BY <1>5 DEF ReadAt
<1> QED BY <1>1, <1>2, <1>3, <1>4, <1>5, ReadOn, ReadOpens, MergeNoRead, OtherNoRead DEF Next

\* The first file that has a byte has its value.
LEMMA FirstHolder ==
  ASSUME NEW fs, Shaped(fs), NEW i \in 1 .. Len(fs), NEW c \in Cells, Holds(fs, i, c),
         \A j \in 1 .. i - 1 : ~Holds(fs, j, c)
  PROVE  StoredIn(fs)[c] = fs[i].data[c]
<1>1. DOMAIN fs = 1 .. Len(fs) /\ Len(fs) \in Nat
  BY ListFacts
<1>2. ASSUME NEW k \in DOMAIN fs, Holds(fs, k, c), \A j \in 1 .. k - 1 : ~Holds(fs, j, c)
      PROVE  k = i
  <2>1. ~(k < i) /\ ~(i < k)
    BY <1>1, <1>2
  <2> QED BY <1>1, <2>1
<1>3. i \in DOMAIN fs
  BY <1>1
<1>4. (CHOOSE k \in DOMAIN fs : Holds(fs, k, c) /\ \A j \in 1 .. k - 1 : ~Holds(fs, j, c)) = i
  BY <1>2, <1>3
<1> QED BY <1>3, <1>4 DEF StoredIn

LEMMA ReadsWell ==
  ASSUME IInv, ReadAt(op, files)
  PROVE  ReadsBack
<1> SUFFICES ASSUME op.kind = "read", ~Tangled, \A c \in op.off .. op.off + op.len - 1 : Stored[c] # Unknown
             PROVE  /\ ~op.null
                    /\ Usable(files[op.at], FALSE) =>
                         \A c \in op.off .. op.off + ReadLength(files[op.at]) - 1 :
                           Covers(files[op.at], c) /\ files[op.at].data[c] = Stored[c]
  BY DEF ReadsBack
<1>1. IOFits(op, files) /\ op \in IOs /\ op.at \in 1 .. Len(files) /\ op.off + op.len <= Total
  BY Kinds DEF IInv, IOFits
<1>2. op.off \in Cells /\ op.off \in Nat /\ op.len \in Nat /\ op.len >= 1
  BY <1>1, IOFields
<1>3. Shaped(files) /\ Neat(files) /\ DOMAIN files = 1 .. Len(files)
  BY HereFacts, NeatIs
<1>4. ~op.null
  <2> SUFFICES ASSUME op.null PROVE FALSE
    OBVIOUS
  <2>1. \A i \in DOMAIN files : ~Holds(files, i, op.off)
    BY <1>3 DEF ReadAt
  <2>2. Stored[op.off] = Unknown
    BY <1>2, <2>1, NotStored DEF Stored
  <2>3. op.off \in op.off .. op.off + op.len - 1
    BY <1>2
  <2> QED BY <2>2, <2>3
<1>5. files[op.at].offset <= op.off /\ op.off <= End(files[op.at])
  BY <1>3, <1>4 DEF ReadAt
<1>6. files[op.at].offset \in Nat /\ End(files[op.at]) \in Nat
  BY <1>1, <1>3, ListFacts
<1>7. PICK n : n = ReadLength(files[op.at]) OBVIOUS
<1>8. n \in 0 .. op.len /\ op.off + n <= End(files[op.at])
  BY <1>2, <1>5, <1>6, <1>7, ReadLengthFacts
<1>9. ASSUME NEW c \in op.off .. op.off + n - 1
      PROVE  Covers(files[op.at], c) /\ files[op.at].data[c] = Stored[c]
  <2>1. c \in Nat /\ c < op.off + n /\ op.off <= c
    BY <1>2, <1>8
  <2>2. Covers(files[op.at], c)
    BY <1>2, <1>5, <1>6, <1>8, <2>1 DEF Covers
  <2>3. c \in Cells
    <3>1. c < Total /\ Total \in Nat
      BY <1>1, <1>2, <1>8, <2>1, Extents
    <3> QED BY <2>1, <3>1, Extents
  <2>4. Holds(files, op.at, c)
    BY <1>1, <1>3, <2>2, <2>3, CoversHolds
  <2>5. \A j \in 1 .. op.at - 1 : ~Holds(files, j, c)
    <3>1. \A j \in 1 .. op.at - 1 : j \in 1 .. Len(files) /\ j < op.at
      BY <1>1
    <3> QED BY <1>1, <2>1, <2>3, <3>1 DEF IOFits, Passed
  <2> QED BY <1>1, <1>3, <2>2, <2>3, <2>4, <2>5, FirstHolder DEF Stored
<1> QED BY <1>4, <1>7, <1>9

\* What is read is what the first file with the byte has: a read over several files, which goes from each to the
\* next of the list, finds every byte that was written, and where the search for it alone would find it, unless
\* staging files are tangled (IO, _btf_open).
THEOREM ReadsRight == Spec => []ReadsBack
<1>1. Init => ReadAt(op, files)
  BY DEF Init, Starting, ReadAt
<1>2. IInv /\ ReadAt(op, files) /\ [Next]_vars => ReadAt(op, files)'
  BY StepReads
<1>3. IInv /\ ReadAt(op, files) => ReadsBack
  BY ReadsWell
<1> QED BY <1>1, <1>2, <1>3, IInvAlways, PTL DEF Spec
-----------------------------------------------------------------------------
(* Pieces in files.                                                        *)

LEMMA RunsExist ==
  ASSUME NEW fs, NEW c, NEW L \in Nat, L = Len(fs), DOMAIN fs = 1 .. L
  PROVE  \E to : Runs(fs, c, to)
<1> DEFINE K(j) == {k \in j .. L : ~Joined(fs, c, k)}
           to == [j \in 1 .. L |-> CHOOSE k \in K(j) : \A x \in K(j) : k <= x]
<1>1. ~Joined(fs, c, L)
  BY DEF Joined
<1>2. ASSUME NEW j \in 1 .. L, Joined(fs, c, j)
      PROVE  to[j] = to[j + 1]
  <2>1. j < L /\ j + 1 \in 1 .. L
    BY <1>2 DEF Joined
  <2>2. K(j) = K(j + 1)
    <3>1. \A k \in K(j) : k \in K(j + 1)
      <4> SUFFICES ASSUME NEW k \in K(j) PROVE k \in K(j + 1)
        OBVIOUS
      <4>1. k \in j .. L /\ k # j
        BY <1>2
      <4> QED BY <2>1, <4>1
    <3>2. \A k \in K(j + 1) : k \in K(j)
      BY <2>1
    <3> QED BY <3>1, <3>2
  <2>3. to[j] = CHOOSE k \in K(j) : \A x \in K(j) : k <= x
    OBVIOUS
  <2>4. to[j + 1] = CHOOSE k \in K(j + 1) : \A x \in K(j + 1) : k <= x
    BY <2>1
  <2> HIDE DEF to, K
  <2> QED BY <2>2, <2>3, <2>4
<1>3. ASSUME NEW j \in 1 .. L, ~Joined(fs, c, j)
      PROVE  to[j] = j
  <2>1. j \in K(j) /\ \A x \in K(j) : j <= x
    BY <1>3
  <2>2. ASSUME NEW k \in K(j), \A x \in K(j) : k <= x
        PROVE  k = j
    <3>1. k <= j /\ j <= k /\ k \in Int
      BY <2>1, <2>2
    <3> QED BY <3>1
  <2>3. to[j] = CHOOSE k \in K(j) : \A x \in K(j) : k <= x
    OBVIOUS
  <2> HIDE DEF to, K
  <2> QED BY <2>1, <2>2, <2>3
<1>4. to = [j \in 1 .. L |-> to[j]]
  OBVIOUS
<1> HIDE DEF to
<1>5. \A j \in 1 .. L : to[j] = IF Joined(fs, c, j) THEN to[j + 1] ELSE j
  BY <1>2, <1>3
<1>6. to = [j \in DOMAIN fs |-> IF Joined(fs, c, j) THEN to[j + 1] ELSE j]
  BY <1>4, <1>5
<1> QED BY <1>6 DEF Runs

LEMMA ReachIs ==
  ASSUME NEW fs, NEW c, NEW i, \E to : Runs(fs, c, to)
  PROVE  \E to : Runs(fs, c, to) /\ Reach(fs, c, i) = to[i]
<1> DEFINE to == CHOOSE f : Runs(fs, c, f)
<1>1. Runs(fs, c, to)
  OBVIOUS
<1>2. Reach(fs, c, i) = to[i]
  BY DEF Reach, Runs, Joined
<1> HIDE DEF to
<1> QED BY <1>1, <1>2

LEMMA ReachFar ==
  ASSUME NEW fs, NEW c, NEW L \in Nat, L = Len(fs), DOMAIN fs = 1 .. L, NEW i \in 1 .. L
  PROVE  Far(fs, c, i, Reach(fs, c, i))
<1>1. PICK to : Runs(fs, c, to) /\ Reach(fs, c, i) = to[i]
  BY RunsExist, ReachIs
<1>2. \A j \in 1 .. L : to[j] = IF Joined(fs, c, j) THEN to[j + 1] ELSE j
  BY <1>1 DEF Runs
<1> DEFINE T == {n \in Nat : n >= L \/ Far(fs, c, L - n, to[L - n])}
<1>3. 0 \in T
  <2>1. ~Joined(fs, c, L) /\ L \in 1 .. L
    BY DEF Joined
  <2>2. to[L] = L
    BY <1>2, <2>1
  <2>3. Far(fs, c, L, L)
    BY <2>1 DEF Far
  <2>4. L - 0 = L
    OBVIOUS
  <2> QED BY <2>2, <2>3, <2>4
<1>4. ASSUME NEW n \in 0 .. L - 1, n \in T
      PROVE  n + 1 \in T
  <2> SUFFICES ASSUME n + 1 < L PROVE n + 1 \in T
    OBVIOUS
  <2>1. PICK j : j = L - (n + 1) OBVIOUS
  <2>2. j \in 1 .. L - 1 /\ L - n = j + 1 /\ n < L /\ j + 1 \in 1 .. L
    BY <2>1
  <2>3. Far(fs, c, j + 1, to[j + 1])
    BY <1>4, <2>2
  <2>4. CASE Joined(fs, c, j)
    <3>1. to[j] = to[j + 1]
      BY <1>2, <2>2, <2>4
    <3>2. PICK m : m = to[j] OBVIOUS
    <3>3. m \in j + 1 .. L /\ ~Joined(fs, c, m) /\ \A k \in j + 1 .. m - 1 : Joined(fs, c, k)
      BY <2>3, <3>1, <3>2 DEF Far
    <3>4. ASSUME NEW k \in j .. m - 1
          PROVE  Joined(fs, c, k)
      <4>1. k = j \/ k \in j + 1 .. m - 1
        BY <2>2
      <4> QED BY <2>4, <3>3, <4>1
    <3>5. m \in j .. L
      BY <2>2, <3>3
    <3>6. Far(fs, c, j, m)
      BY <3>3, <3>4, <3>5 DEF Far
    <3> QED BY <2>1, <3>2, <3>6
  <2>5. CASE ~Joined(fs, c, j)
    <3>1. to[j] = j
      BY <1>2, <2>2, <2>5
    <3>2. Far(fs, c, j, j)
      BY <2>2, <2>5 DEF Far
    <3> QED BY <2>1, <3>1, <3>2
  <2> QED BY <2>4, <2>5
<1>5. \A n \in 0 .. L : n \in T
  <2> HIDE DEF T
  <2>1. 0 \in 0 .. L
    OBVIOUS
  <2> QED BY <1>3, <1>4, <2>1, Climb
<1>6. L - i \in 0 .. L /\ L - (L - i) = i /\ ~(L - i >= L)
  OBVIOUS
<1>7. Far(fs, c, i, to[i])
  BY <1>5, <1>6
<1> QED BY <1>1, <1>7

LEMMA PieceMapIs ==
  ASSUME NEW fs, \E f : Rows(fs, f)
  PROVE  \E f : Rows(fs, f) /\ PieceMap(fs) = f[0][1]
<1> DEFINE from == CHOOSE f : Rows(fs, f)
<1>1. Rows(fs, from)
  OBVIOUS
<1>2. PieceMap(fs) = from[0][1]
  BY DEF PieceMap, Rows, FromRow, Starts, OffsetOf, LastOf
<1> HIDE DEF from
<1> QED BY <1>1, <1>2

LEMMA LastRow ==
  ASSUME NEW fs, NEW x, NEW y
  PROVE  FromRow(fs, NPieces, x) = FromRow(fs, NPieces, y)
  BY DEF FromRow

LEMMA PiecesCount == NPieces \in Nat
<1>1. PieceLength \in Nat \ {0} /\ Total \in Nat \ {0}
  BY StagingAssumption, Extents DEF StagingAssumption
<1>2. Total + PieceLength - 1 \in Nat
  BY <1>1
<1> QED BY <1>1, <1>2 DEF NPieces

LEMMA RowsExist ==
  ASSUME NEW fs
  PROVE  \E f : Rows(fs, f)
<1> DEFINE N == NPieces
           Part(f, n) == \A p \in n .. N : f[p] = FromRow(fs, p, f[p + 1])
           T == {n \in Nat : n <= N => \E f : f = [p \in 0 .. N |-> f[p]] /\ Part(f, N - n)}
<1>1. N \in Nat
  BY PiecesCount
<1> HIDE DEF N
<1>2. 0 \in T
  <2> DEFINE f == [p \in 0 .. N |-> FromRow(fs, p, {})]
  <2>1. f = [p \in 0 .. N |-> f[p]]
    OBVIOUS
  <2>2. f[N] = FromRow(fs, N, {})
    BY <1>1
  <2> HIDE DEF f
  <2>3. f[N] = FromRow(fs, N, f[N + 1])
    BY <2>2, LastRow DEF N
  <2>4. N - 0 = N /\ \A p \in N .. N : p = N
    BY <1>1
  <2>5. Part(f, N - 0)
    BY <2>3, <2>4
  <2> QED BY <2>1, <2>5
<1>3. ASSUME NEW n \in 0 .. N - 1, n \in T
      PROVE  n + 1 \in T
  <2>1. PICK f : f = [p \in 0 .. N |-> f[p]] /\ Part(f, N - n)
    BY <1>1, <1>3
  <2>2. PICK q : q = N - (n + 1) OBVIOUS
  <2>3. q \in 0 .. N - 1 /\ N - n = q + 1 /\ n + 1 \in Nat
    BY <1>1, <2>2
  <2> DEFINE g == [p \in 0 .. N |-> IF p = q THEN FromRow(fs, q, f[q + 1]) ELSE f[p]]
  <2>4. g = [p \in 0 .. N |-> g[p]]
    OBVIOUS
  <2>5. g[q] = FromRow(fs, q, f[q + 1]) /\ \A p \in q + 1 .. N : g[p] = f[p]
    BY <1>1, <2>3
  <2> HIDE DEF g
  <2>6. ASSUME NEW p \in q .. N
        PROVE  g[p] = FromRow(fs, p, g[p + 1])
    <3>1. CASE p = q
      <4>1. g[q + 1] = f[q + 1]
        BY <1>1, <2>3, <2>5
      <4> QED BY <2>5, <3>1, <4>1
    <3>2. CASE p # q /\ p # N
      <4>1. p \in q + 1 .. N /\ p + 1 \in q + 1 .. N
        BY <1>1, <2>3, <3>2
      <4>2. g[p] = f[p] /\ g[p + 1] = f[p + 1] /\ f[p] = FromRow(fs, p, f[p + 1])
        BY <2>1, <2>3, <2>5, <4>1
      <4> QED BY <4>2
    <3>3. CASE p # q /\ p = N
      <4>1. p \in q + 1 .. N
        BY <1>1, <2>3, <3>3
      <4>2. g[p] = f[p] /\ f[p] = FromRow(fs, p, f[p + 1])
        BY <2>1, <2>3, <2>5, <4>1
      <4>3. FromRow(fs, p, f[p + 1]) = FromRow(fs, p, g[p + 1])
        BY <3>3, LastRow DEF N
      <4> QED BY <4>2, <4>3
    <3> QED BY <3>1, <3>2, <3>3
  <2>7. Part(g, N - (n + 1))
    BY <2>2, <2>6
  <2> HIDE DEF Part
  <2>8. \E h : h = [p \in 0 .. N |-> h[p]] /\ Part(h, N - (n + 1))
    BY <2>4, <2>7
  <2> QED BY <2>3, <2>8
<1>4. N \in T
  <2> HIDE DEF T
  <2>1. 0 \in 0 .. N
    BY <1>1
  <2>2. \A n \in 0 .. N : n \in T
    BY <1>1, <1>2, <1>3, <2>1, Climb
  <2> QED BY <1>1, <2>2
<1>5. PICK f : f = [p \in 0 .. N |-> f[p]] /\ Part(f, N - N)
  BY <1>1, <1>4
<1>6. N - N = 0
  BY <1>1
<1>7. \A p \in 0 .. N : f[p] = FromRow(fs, p, f[p + 1])
  BY <1>5, <1>6
<1> HIDE DEF Part
<1>8. f = [p \in 0 .. N |-> FromRow(fs, p, f[p + 1])]
  BY <1>5, <1>7
<1> QED BY <1>8 DEF Rows, N

LEMMA Division ==
  ASSUME NEW a \in Nat, NEW b \in Nat \ {0}
  PROVE  /\ a \div b \in Nat /\ a % b \in 0 .. b - 1
         /\ a = b * (a \div b) + (a % b)
  BY SMTT(60)

LEMMA InPieces ==
  ASSUME NEW c \in Cells, NEW p, c \div PieceLength = p
  PROVE  OffsetOf(p) <= c /\ c <= LastOf(p) /\ OffsetOf(p) \in Nat /\ LastOf(p) \in Int
<1>1. PieceLength \in Nat \ {0} /\ Total \in Nat \ {0} /\ c \in Nat /\ c < Total
  BY StagingAssumption, Extents DEF StagingAssumption
<1>2. PICK l : l = PieceLength OBVIOUS
<1>3. PICK r : r = c % l OBVIOUS
<1>4. p \in Nat /\ r \in 0 .. l - 1 /\ c = l * p + r
  BY <1>1, <1>2, <1>3, Division
<1>5. PICK o : o = p * l OBVIOUS
<1>6. o \in Nat /\ OffsetOf(p) = o
  BY <1>1, <1>2, <1>4, <1>5 DEF OffsetOf
<1>8. c = o + r /\ r \in Nat /\ r < l
  BY <1>1, <1>2, <1>4, <1>5
<1>7. LastOf(p) = Least(o + l, Total) - 1
  BY <1>2, <1>6 DEF LastOf
<1> QED BY <1>1, <1>2, <1>6, <1>7, <1>8 DEF Least

\* The files from k to m follow on each other and hold all from the beginning of a piece to its end.
LEMMA ChainFills ==
  ASSUME NEW fs, Shaped(fs), NEW p, NEW k \in 1 .. Len(fs), fs[k].size > 0, fs[k].offset <= OffsetOf(p),
         NEW m, Far(fs, LastOf(p), k, m), LastOf(p) <= LastByte(fs[m])
  PROVE  Filled(fs, p)
<1>1. /\ Len(fs) \in Nat /\ DOMAIN fs = 1 .. Len(fs)
      /\ \A j \in 1 .. Len(fs) : /\ fs[j].offset \in Nat /\ fs[j].size \in Nat /\ End(fs[j]) \in Nat
                                 /\ End(fs[j]) = fs[j].offset + fs[j].size
  BY ListFacts
<1> SUFFICES ASSUME NEW c \in Cells, c \div PieceLength = p
             PROVE  \/ \E j \in DOMAIN fs : Covers(fs[j], c)
                    \/ \E j \in DOMAIN fs : fs[j].offset = c /\ fs[j].size = 0
  BY DEF Filled
<1>2. OffsetOf(p) <= c /\ c <= LastOf(p) /\ OffsetOf(p) \in Nat /\ LastOf(p) \in Int /\ c \in Nat
  BY InPieces, Extents
<1>3. m \in k .. Len(fs) /\ m \in 1 .. Len(fs) /\ \A j \in k .. m - 1 : Joined(fs, LastOf(p), j)
  BY <1>1 DEF Far
<1>4. \A j \in 1 .. Len(fs) : LastByte(fs[j]) \in Int
  BY <1>1 DEF LastByte
<1> DEFINE T == {j \in k .. m : c <= LastByte(fs[j])}
<1>5. m \in T
  BY <1>2, <1>3, <1>4
<1>6. PICK j \in T : \A x \in T : j <= x
  <2>1. T \in SUBSET Nat /\ T # {}
    BY <1>5
  <2> HIDE DEF T
  <2> QED BY <2>1, LeastNumber
<1>7. j \in k .. m /\ j \in 1 .. Len(fs) /\ c <= LastByte(fs[j])
  BY <1>3, <1>6
<1>8. fs[j].offset <= c
  <2>1. CASE j = k
    BY <1>1, <1>2, <1>7, <2>1
  <2>2. CASE j # k
    <3>1. PICK i : i = j - 1 OBVIOUS
    <3>2. i \in k .. m - 1 /\ i \in 1 .. Len(fs) /\ j = i + 1 /\ i < j
      BY <1>3, <1>7, <2>2, <3>1
    <3>3. i \notin T
      BY <1>6, <3>2
    <3>6. i \in k .. m /\ LastByte(fs[i]) \in Int /\ c \in Int
      BY <1>2, <1>3, <1>4, <3>2
    <3>7. ~(c <= LastByte(fs[i]))
      BY <3>3, <3>6
    <3>4. c > LastByte(fs[i])
      BY <3>6, <3>7
    <3>5. fs[j].offset <= LastByte(fs[i]) + 1
      BY <1>3, <3>2 DEF Joined
    <3> QED BY <1>1, <1>2, <1>4, <1>7, <3>2, <3>4, <3>5, SMTT(60)
  <2> QED BY <2>1, <2>2
<1>9. CASE fs[j].size > 0
  <2>1. c < End(fs[j])
    BY <1>1, <1>2, <1>7, <1>9 DEF LastByte
  <2> QED BY <1>1, <1>7, <1>8, <2>1 DEF Covers
<1>10. CASE ~(fs[j].size > 0)
  <2>1. fs[j].size = 0 /\ LastByte(fs[j]) = fs[j].offset
    BY <1>1, <1>7, <1>10 DEF LastByte
  <2>2. fs[j].offset = c
    BY <1>1, <1>2, <1>7, <1>8, <2>1
  <2> QED BY <1>1, <1>7, <2>1, <2>2
<1> QED BY <1>9, <1>10

\* All that a row finds is whole when all that the row after it finds is.
LEMMA RowFills ==
  ASSUME NEW fs, Shaped(fs), NEW p, p # NPieces, NEW next,
         \A i \in 1 .. Len(fs) : \A q \in next[i] : Filled(fs, q),
         NEW i \in 1 .. Len(fs), NEW q \in FromRow(fs, p, next)[i]
  PROVE  Filled(fs, q)
<1>1. Len(fs) \in Nat /\ DOMAIN fs = 1 .. Len(fs)
  BY ListFacts
<1>2. PICK k : k = Min(Starts(fs, p, i)) OBVIOUS
<1>3. PICK m : m = Reach(fs, LastOf(p), k) OBVIOUS
<1>4. FromRow(fs, p, next)[i] =
        IF OffsetOf(p) < fs[i].offset THEN next[i]
        ELSE IF Starts(fs, p, i) = {} \/ OffsetOf(p) > LastByte(fs[k]) THEN {}
        ELSE IF OffsetOf(p) < fs[k].offset THEN next[k]
        ELSE next[m] \cup (IF LastOf(p) <= LastByte(fs[m]) THEN {p} ELSE {})
  BY <1>1, <1>2, <1>3 DEF FromRow
<1>5. CASE OffsetOf(p) < fs[i].offset
  BY <1>4, <1>5
<1>6. CASE ~(OffsetOf(p) < fs[i].offset)
  <2>1. Starts(fs, p, i) # {} /\ q \in (IF OffsetOf(p) < fs[k].offset THEN next[k]
          ELSE next[m] \cup (IF LastOf(p) <= LastByte(fs[m]) THEN {p} ELSE {}))
    BY <1>4, <1>6
  <2>2. Starts(fs, p, i) \in SUBSET Nat
    BY <1>1 DEF Starts
  <2>3. k \in Starts(fs, p, i)
    BY <1>2, <2>1, <2>2, MinIs
  <2>4. k \in 1 .. Len(fs) /\ fs[k].size > 0
    <3>1. k \in i .. Len(fs) /\ fs[k].size > 0
      BY <2>3, Zenon DEF Starts
    <3>2. i \in Nat /\ i >= 1
      BY <1>1
    <3> QED BY <1>1, <3>1, <3>2
  <2>5. CASE OffsetOf(p) < fs[k].offset
    BY <2>1, <2>4, <2>5
  <2>6. CASE ~(OffsetOf(p) < fs[k].offset)
    <3>1. Far(fs, LastOf(p), k, m)
      BY <1>1, <1>3, <2>4, ReachFar
    <3>2. m \in 1 .. Len(fs)
      BY <1>1, <2>4, <3>1 DEF Far
    <3>3. CASE q \in next[m]
      BY <3>2, <3>3
    <3>4. CASE q \notin next[m]
      <4>1. q = p /\ LastOf(p) <= LastByte(fs[m])
        BY <2>1, <2>6, <3>4
      <4>2. ASSUME fs[k].offset <= OffsetOf(p) PROVE Filled(fs, p)
        BY <2>4, <3>1, <4>1, <4>2, ChainFills
      <4>3. fs[k].offset <= OffsetOf(p) \/ \A c \in Cells : c \div PieceLength # p
        <5>1. ASSUME NEW c \in Cells, c \div PieceLength = p
              PROVE  fs[k].offset <= OffsetOf(p)
          <6>1. OffsetOf(p) \in Nat
            BY <5>1, InPieces
          <6>2. fs[k].offset \in Nat
            BY <2>4, ListFacts
          <6> QED BY <2>6, <6>1, <6>2
        <5> QED BY <5>1
      <4> QED BY <4>1, <4>2, <4>3 DEF Filled
    <3> QED BY <3>3, <3>4
  <2> QED BY <2>5, <2>6
<1> QED BY <1>5, <1>6

LEMMA RowsFill ==
  ASSUME NEW fs, Shaped(fs), NEW f, Rows(fs, f)
  PROVE  \A q \in f[0][1] : Filled(fs, q)
<1> DEFINE N == NPieces
           Whole(p) == \A i \in 1 .. Len(fs) : \A q \in f[p][i] : Filled(fs, q)
           T == {n \in Nat : n <= N => Whole(N - n)}
<1>1. N \in Nat /\ \A p \in 0 .. N : f[p] = FromRow(fs, p, f[p + 1])
  <2>1. NPieces \in Nat
    BY PiecesCount
  <2> QED BY <2>1 DEF Rows
<1>2. 0 \in T
  <2>1. f[N] = FromRow(fs, N, f[N + 1])
    BY <1>1
  <2>2. \A i \in 1 .. Len(fs) : f[N][i] = {}
    <3>1. DOMAIN fs = 1 .. Len(fs)
      BY ListFacts
    <3> QED BY <2>1, <3>1 DEF FromRow
  <2>3. N - 0 = N
    BY <1>1
  <2> HIDE DEF N
  <2> QED BY <2>2, <2>3
<1> HIDE DEF N
<1>3. ASSUME NEW n \in 0 .. N - 1, n \in T
      PROVE  n + 1 \in T
  <2>1. PICK p : p = N - (n + 1) OBVIOUS
  <2>2. p \in 0 .. N /\ p # N /\ N - n = p + 1 /\ n + 1 \in Nat /\ n <= N
    BY <1>1, <2>1
  <2>3. Whole(p + 1)
    BY <1>3, <2>2
  <2>4. f[p] = FromRow(fs, p, f[p + 1])
    BY <1>1, <2>2
  <2>5. ASSUME NEW i \in 1 .. Len(fs), NEW q \in f[p][i]
        PROVE  Filled(fs, q)
    <3>1. p # NPieces /\ q \in FromRow(fs, p, f[p + 1])[i]
      BY <2>2, <2>4 DEF N
    <3>2. PICK next : next = f[p + 1] OBVIOUS
    <3>3. \A j \in 1 .. Len(fs) : \A r \in next[j] : Filled(fs, r)
      BY <2>3, <3>2
    <3>4. q \in FromRow(fs, p, next)[i]
      BY <3>1, <3>2
    <3> HIDE DEF Whole, T
    <3> QED BY <3>1, <3>3, <3>4, RowFills
  <2> QED BY <2>1, <2>2, <2>5
<1>4. N \in T
  <2> HIDE DEF T
  <2>1. 0 \in 0 .. N
    BY <1>1
  <2>2. \A n \in 0 .. N : n \in T
    BY <1>1, <1>2, <1>3, <2>1, Climb
  <2> QED BY <1>1, <2>2
<1>5. N - N = 0
  BY <1>1
<1>6. Whole(0)
  BY <1>1, <1>4, <1>5
<1>7. 1 \in 1 .. Len(fs)
  BY ListFacts
<1> QED BY <1>6, <1>7

LEMMA PiecesWell ==
  ASSUME IInv
  PROVE  PiecesInFiles
<1> SUFFICES ASSUME ~Tangled, NEW q \in PieceMap(files), NEW c \in Cells, c \div PieceLength = q
             PROVE  \/ ~FindFirst(files, c, FALSE).null
                    \/ \E i \in DOMAIN files : files[i].offset = c /\ files[i].size = 0
  BY DEF PiecesInFiles
<1>1. Shaped(files) /\ Neat(files)
  BY HereFacts, NeatIs
<1>2. PICK f : Rows(files, f) /\ PieceMap(files) = f[0][1]
  BY RowsExist, PieceMapIs
<1>3. Filled(files, q)
  BY <1>1, <1>2, RowsFill
<1>4. ASSUME NEW j \in DOMAIN files, Covers(files[j], c)
      PROVE  ~FindFirst(files, c, FALSE).null
  <2>1. j \in 1 .. Len(files)
    BY <1>1, ListFacts
  <2>2. Holds(files, j, c)
    BY <1>1, <1>4, <2>1, CoversHolds
  <2>3. PICK write \in BOOLEAN : write = FALSE OBVIOUS
  <2>4. PICK p : p = FindFirst(files, c, write) OBVIOUS
  <2>5. p.null \in BOOLEAN
    BY <1>1, <2>4, SearchFacts
  <2>6. ASSUME p.null PROVE FALSE
    BY <1>1, <2>1, <2>2, <2>3, <2>4, <2>6, SearchFinds
  <2> QED BY <2>3, <2>4, <2>6
<1> QED BY <1>3, <1>4 DEF Filled

\* pBFPieces says of a piece that its files are all there, so that it is read and hashed at the start,
\* only if every byte of it is found by a read, but for one that is the first of an empty file.
THEOREM PiecesWhole == Spec => []PiecesInFiles
<1>1. IInv => PiecesInFiles
  BY PiecesWell
<1> QED BY <1>1, IInvAlways, PTL

-----------------------------------------------------------------------------
(* The refinement of Store: the value of a byte is that of the first file that holds it. *)

LEMMA SomeFirst ==
  ASSUME NEW fs, Shaped(fs), NEW c, NEW i \in 1 .. Len(fs), Holds(fs, i, c)
  PROVE  \E k \in 1 .. i : FirstHas(fs, k, c)
<1>1. Len(fs) \in Nat
  BY ListFacts
<1>2. PICK T : T = {k \in 1 .. Len(fs) : Holds(fs, k, c)} OBVIOUS
<1>3. T \in SUBSET Nat /\ i \in T
  BY <1>1, <1>2
<1>4. PICK k \in T : \A m \in T : k <= m
  BY <1>3, LeastNumber
<1>5. k \in 1 .. Len(fs) /\ Holds(fs, k, c) /\ k <= i
  BY <1>2, <1>3, <1>4
<1>6. \A j \in 1 .. k - 1 : ~Holds(fs, j, c)
  <2> SUFFICES ASSUME NEW j \in 1 .. k - 1, Holds(fs, j, c) PROVE FALSE
    OBVIOUS
  <2>1. j \in T
    BY <1>1, <1>2, <1>5
  <2> QED BY <1>4, <1>5, <2>1
<1> QED BY <1>1, <1>5, <1>6 DEF FirstHas

LEMMA FirstValue ==
  ASSUME NEW fs, Shaped(fs), NEW c \in Cells, NEW k \in 1 .. Len(fs), FirstHas(fs, k, c)
  PROVE  StoredIn(fs)[c] = fs[k].data[c]
BY FirstHolder DEF FirstHas

LEMMA ValueIs ==
  ASSUME NEW fs, Shaped(fs), NEW c \in Cells, NEW v,
         \A i \in 1 .. Len(fs) : Holds(fs, i, c) => fs[i].data[c] = v,
         v # Unknown => \E i \in 1 .. Len(fs) : Holds(fs, i, c)
  PROVE  StoredIn(fs)[c] = v
<1>1. DOMAIN fs = 1 .. Len(fs) /\ Len(fs) \in Nat
  BY ListFacts
<1>2. CASE \E i \in 1 .. Len(fs) : Holds(fs, i, c)
  <2>1. PICK i \in 1 .. Len(fs) : Holds(fs, i, c)
    BY <1>2
  <2>2. PICK k \in 1 .. i : FirstHas(fs, k, c)
    BY <2>1, SomeFirst
  <2>3. k \in 1 .. Len(fs)
    BY <1>1, <2>1, <2>2
  <2> QED BY <2>2, <2>3, FirstValue DEF FirstHas
<1>3. CASE ~\E i \in 1 .. Len(fs) : Holds(fs, i, c)
  BY <1>1, <1>3, NotStored
<1> QED BY <1>2, <1>3

LEMMA ValueBefore ==
  ASSUME NEW fs, Shaped(fs), NEW gs, Shaped(gs), NEW c \in Cells,
         NEW k \in 1 .. Len(fs), k \in 1 .. Len(gs), FirstHas(fs, k, c),
         \A i \in 1 .. k : Holds(gs, i, c) <=> Holds(fs, i, c),
         gs[k].data[c] = fs[k].data[c]
  PROVE  StoredIn(gs)[c] = StoredIn(fs)[c]
<1>1. FirstHas(gs, k, c)
  BY ListFacts DEF FirstHas
<1> QED BY <1>1, FirstValue

LEMMA ValueKept ==
  ASSUME NEW fs, Shaped(fs), NEW gs, Shaped(gs), Len(gs) = Len(fs), NEW c \in Cells,
         \A i \in 1 .. Len(fs) : Holds(gs, i, c) <=> Holds(fs, i, c),
         \A i \in 1 .. Len(fs) : Holds(fs, i, c) => gs[i].data[c] = fs[i].data[c]
  PROVE  StoredIn(gs)[c] = StoredIn(fs)[c]
<1>1. /\ DOMAIN fs = 1 .. Len(fs) /\ Len(fs) \in Nat
      /\ DOMAIN gs = 1 .. Len(gs)
  BY ListFacts
<1>2. CASE \E i \in 1 .. Len(fs) : Holds(fs, i, c)
  <2>1. PICK i \in 1 .. Len(fs) : Holds(fs, i, c)
    BY <1>2
  <2>2. PICK k \in 1 .. i : FirstHas(fs, k, c)
    BY <2>1, SomeFirst
  <2>3. k \in 1 .. Len(fs) /\ \A j \in 1 .. k : j \in 1 .. Len(fs)
    BY <1>1, <2>1, <2>2
  <2>4. gs[k].data[c] = fs[k].data[c]
    BY <2>2, <2>3 DEF FirstHas
  <2> QED BY <2>2, <2>3, <2>4, ValueBefore
<1>3. CASE ~\E i \in 1 .. Len(fs) : Holds(fs, i, c)
  <2>1. StoredIn(fs)[c] = Unknown
    BY <1>1, <1>3, NotStored
  <2>2. StoredIn(gs)[c] = Unknown
    BY <1>1, <1>3, NotStored
  <2> QED BY <2>1, <2>2
<1> QED BY <1>2, <1>3

LEMMA StoredFunction ==
  ASSUME NEW fs
  PROVE  StoredIn(fs) = [c \in Cells |-> StoredIn(fs)[c]]
BY DEF StoredIn

LEMMA StoredEqual ==
  ASSUME NEW fs, NEW gs, \A c \in Cells : StoredIn(gs)[c] = StoredIn(fs)[c]
  PROVE  StoredIn(gs) = StoredIn(fs)
<1>1. StoredIn(gs) = [c \in Cells |-> StoredIn(gs)[c]]
  BY StoredFunction
<1>2. StoredIn(fs) = [c \in Cells |-> StoredIn(fs)[c]]
  BY StoredFunction
<1> QED BY <1>1, <1>2, Zenon

LEMMA HoldsIs ==
  ASSUME NEW fs, NEW i, NEW c
  PROVE  Holds(fs, i, c) <=>
           /\ Covers(fs[i], c)
           /\ fs[i].staging => \E j \in 1 .. i - 1 : ~fs[j].staging /\ c < fs[j].offset + fs[j].length
BY DEF Holds

LEMMA HoldsSame ==
  ASSUME NEW fs, NEW gs, NEW i \in Nat, i >= 1, NEW c, \A j \in 1 .. i : Alike(fs[j], gs[j]),
         Covers(gs[i], c) <=> Covers(fs[i], c)
  PROVE  Holds(gs, i, c) <=> Holds(fs, i, c)
<1>1. gs[i].staging = fs[i].staging
  BY DEF Alike
<1>2. \A j \in 1 .. i - 1 : gs[j].staging = fs[j].staging /\ gs[j].offset = fs[j].offset /\ gs[j].length = fs[j].length
  BY DEF Alike
<1> QED BY <1>1, <1>2 DEF Holds

LEMMA SameStored ==
  ASSUME NEW fs, Shaped(fs), NEW gs, Rewritten(fs, gs), \A i \in 1 .. Len(fs) : Same(fs[i], gs[i])
  PROVE  StoredIn(gs) = StoredIn(fs)
<1>1. /\ Len(gs) = Len(fs) /\ Shaped(gs)
      /\ \A i \in 1 .. Len(fs), c \in Cells : Holds(gs, i, c) <=> Holds(fs, i, c)
  BY SameFits
<1>2. \A i \in 1 .. Len(fs), c \in Cells : Holds(fs, i, c) => gs[i].data[c] = fs[i].data[c]
  <2> SUFFICES ASSUME NEW i \in 1 .. Len(fs), NEW c \in Cells, Holds(fs, i, c)
               PROVE  gs[i].data[c] = fs[i].data[c]
    OBVIOUS
  <2>1. fs[i].offset <= c /\ c < fs[i].offset + fs[i].size
    BY DEF Holds, Covers, End
  <2>2. fs[i].offset \in Nat /\ fs[i].size \in Nat /\ c \in Nat
    BY ListFacts, Extents
  <2>3. fs[i].size # 0
    BY <2>1, <2>2
  <2>4. Same(fs[i], gs[i])
    OBVIOUS
  <2> QED BY <2>2, <2>3, <2>4 DEF Same
<1>3. \A c \in Cells : StoredIn(gs)[c] = StoredIn(fs)[c]
  BY <1>1, <1>2, ValueKept
<1> QED BY <1>3, StoredEqual

LEMMA ValueShift ==
  ASSUME NEW fs, Shaped(fs), NEW gs, Shaped(gs), NEW m \in 1 .. Len(fs), Len(gs) = Len(fs) - 1, fs[m].staging,
         \A j \in 1 .. m - 1 : gs[j] = fs[j],
         \A j \in m .. Len(fs) - 1 : gs[j] = fs[j + 1],
         NEW c \in Cells, Holds(fs, m, c) => \E i \in 1 .. m - 1 : Holds(fs, i, c)
  PROVE  StoredIn(gs)[c] = StoredIn(fs)[c]
<1>1. /\ DOMAIN fs = 1 .. Len(fs) /\ Len(fs) \in Nat
      /\ DOMAIN gs = 1 .. Len(gs) /\ Len(gs) \in Nat
  BY ListFacts
<1>2. \A j \in 1 .. m - 1 : Holds(gs, j, c) <=> Holds(fs, j, c)
  <2> SUFFICES ASSUME NEW j \in 1 .. m - 1 PROVE Holds(gs, j, c) <=> Holds(fs, j, c)
    OBVIOUS
  <2>1. \A i \in 1 .. j : gs[i] = fs[i]
    BY <1>1
  <2>2. j \in 1 .. j /\ \A i \in 1 .. j - 1 : i \in 1 .. j
    BY <1>1
  <2> QED BY <2>1, <2>2, HoldsIs
<1>3. ASSUME NEW j \in m .. Len(fs) - 1
      PROVE  Holds(gs, j, c) <=> Holds(fs, j + 1, c)
  <2>1. gs[j] = fs[j + 1]
    OBVIOUS
  <2>2. (\E i \in 1 .. j - 1 : ~gs[i].staging /\ c < gs[i].offset + gs[i].length)
          <=> \E i \in 1 .. j : ~fs[i].staging /\ c < fs[i].offset + fs[i].length
    <3>1. ASSUME NEW i \in 1 .. j - 1, ~gs[i].staging, c < gs[i].offset + gs[i].length
          PROVE  \E k \in 1 .. j : ~fs[k].staging /\ c < fs[k].offset + fs[k].length
      <4>1. CASE i < m
        <5>1. gs[i] = fs[i] /\ i \in 1 .. j
          BY <1>1, <4>1
        <5> QED BY <3>1, <5>1
      <4>2. CASE i >= m
        <5>1. gs[i] = fs[i + 1] /\ i + 1 \in 1 .. j
          BY <1>1, <4>2
        <5> QED BY <3>1, <5>1
      <4> QED BY <1>1, <4>1, <4>2
    <3>2. ASSUME NEW i \in 1 .. j, ~fs[i].staging, c < fs[i].offset + fs[i].length
          PROVE  \E k \in 1 .. j - 1 : ~gs[k].staging /\ c < gs[k].offset + gs[k].length
      <4>1. CASE i < m
        <5>1. gs[i] = fs[i] /\ i \in 1 .. j - 1
          BY <1>1, <4>1
        <5> QED BY <3>2, <5>1
      <4>2. CASE i > m
        <5> DEFINE k == i - 1
        <5>1. k \in m .. Len(fs) - 1 /\ k \in 1 .. j - 1 /\ k + 1 = i
          BY <1>1, <4>2
        <5>2. gs[k] = fs[i]
          BY <5>1
        <5> QED BY <3>2, <5>1, <5>2
      <4> QED BY <1>1, <3>2, <4>1, <4>2
    <3> QED BY <3>1, <3>2
  <2>3. (j + 1) - 1 = j
    BY <1>1
  <2> QED BY <2>1, <2>2, <2>3, HoldsIs
<1>4. CASE \E i \in 1 .. Len(fs) : Holds(fs, i, c)
  <2>1. PICK i \in 1 .. Len(fs) : Holds(fs, i, c)
    BY <1>4
  <2>2. PICK k \in 1 .. i : FirstHas(fs, k, c)
    BY <2>1, SomeFirst
  <2>3. k \in 1 .. Len(fs) /\ Holds(fs, k, c) /\ \A j \in 1 .. k - 1 : ~Holds(fs, j, c)
    BY <1>1, <2>1, <2>2 DEF FirstHas
  <2>4. k # m
    BY <2>3
  <2>5. CASE k < m
    <3>1. /\ k \in 1 .. Len(gs) /\ gs[k] = fs[k]
          /\ \A j \in 1 .. k : Holds(gs, j, c) <=> Holds(fs, j, c)
      BY <1>1, <1>2, <2>3, <2>5
    <3> QED BY <2>2, <2>3, <3>1, ValueBefore
  <2>6. CASE k > m
    <3> DEFINE h == k - 1
    <3>1. h \in m .. Len(fs) - 1 /\ h \in 1 .. Len(gs) /\ h + 1 = k
      BY <1>1, <2>3, <2>6
    <3>2. Holds(gs, h, c) /\ gs[h].data[c] = fs[k].data[c]
      BY <1>3, <2>3, <3>1
    <3>3. \A j \in 1 .. h - 1 : ~Holds(gs, j, c)
      <4> SUFFICES ASSUME NEW j \in 1 .. h - 1 PROVE ~Holds(gs, j, c)
        OBVIOUS
      <4>1. CASE j < m
        <5>1. j \in 1 .. m - 1 /\ j \in 1 .. k - 1
          BY <1>1, <3>1, <4>1
        <5> QED BY <1>2, <2>3, <5>1
      <4>2. CASE j >= m
        <5>1. j \in m .. Len(fs) - 1 /\ j + 1 \in 1 .. k - 1
          BY <1>1, <3>1, <4>2
        <5> QED BY <1>3, <2>3, <5>1
      <4> QED BY <1>1, <4>1, <4>2
    <3>4. FirstHas(gs, h, c)
      BY <3>2, <3>3 DEF FirstHas
    <3>5. StoredIn(gs)[c] = gs[h].data[c]
      BY <3>1, <3>4, FirstValue
    <3>6. StoredIn(fs)[c] = fs[k].data[c]
      BY <2>2, <2>3, FirstValue
    <3> QED BY <3>2, <3>5, <3>6
  <2> QED BY <1>1, <2>3, <2>4, <2>5, <2>6
<1>5. CASE ~\E i \in 1 .. Len(fs) : Holds(fs, i, c)
  <2>1. \A j \in 1 .. Len(gs) : ~Holds(gs, j, c)
    <3> SUFFICES ASSUME NEW j \in 1 .. Len(gs) PROVE ~Holds(gs, j, c)
      OBVIOUS
    <3>1. CASE j < m
      <4>1. j \in 1 .. m - 1 /\ j \in 1 .. Len(fs)
        BY <1>1, <3>1
      <4> QED BY <1>2, <1>5, <4>1
    <3>2. CASE j >= m
      <4>1. j \in m .. Len(fs) - 1 /\ j + 1 \in 1 .. Len(fs)
        BY <1>1, <3>2
      <4> QED BY <1>3, <1>5, <4>1
    <3> QED BY <1>1, <3>1, <3>2
  <2>2. StoredIn(gs)[c] = Unknown
    BY <1>1, <2>1, NotStored
  <2>3. StoredIn(fs)[c] = Unknown
    BY <1>1, <1>5, NotStored
  <2> QED BY <2>2, <2>3
<1> QED BY <1>4, <1>5

-----------------------------------------------------------------------------
(* What is known besides, while operations run.                            *)

LEMMA InStartIs == InStart <=> Begins(op)
BY DEF InStart, Begins
LEMMA CurrentIs == CurrentWrite = WritePart(Current(op))
BY DEF CurrentWrite, WritePart, Current

LEMMA Stutter ==
  ASSUME Stored' = Stored, WritePart(Current(op')) = WritePart(Current(op)), Begins(op') <=> Begins(op)
  PROVE  FlatStep
<1>1. CurrentWrite' = CurrentWrite
  BY CurrentIs DEF CurrentWrite, WritePart, Current
<1>2. InStart' <=> InStart
  BY DEF InStart, Begins
<1>3. InStart' = InStart
  BY <1>2 DEF InStart
<1> QED BY <1>1, <1>3 DEF FlatStep

LEMMA StepBegin ==
  ASSUME Stored' = Stored, WritePart(Current(op')) = WritePart(Current(op)), Begins(op), ~Begins(op')
  PROVE  FlatStep
<1>1. CurrentWrite' = CurrentWrite
  BY DEF CurrentWrite, WritePart, Current
<1>2. InStart /\ ~InStart'
  BY DEF InStart, Begins
<1> QED BY <1>1, <1>2 DEF FlatStep, Flat!Next, Flat!Begin

LEMMA StepRefuse ==
  ASSUME CurrentWrite # Flat!NoWrite, CurrentWrite' = Flat!NoWrite, InStart' <=> InStart,
         NEW lost \in SUBSET Flat!First(CurrentWrite.len),
         \A c \in Cells : Stored'[c] = IF c \in lost THEN Unknown ELSE Stored[c]
  PROVE  FlatStep
<1>0. Stored' = [c \in Cells |-> Stored'[c]]
  BY StoredFunction DEF Stored
<1>1. Stored' = [c \in Cells |-> IF c \in lost THEN Unknown ELSE Stored[c]]
  BY <1>0
<1>2. InStart' = InStart
  BY DEF InStart
<1> QED BY <1>1, <1>2 DEF FlatStep, Flat!Next, Flat!Refuse

LEMMA StepRestart ==
  ASSUME InStart', CurrentWrite' = Flat!NoWrite, \A c \in Cells : c \notin Loose => Stored'[c] = Stored[c]
  PROVE  FlatStep
BY DEF FlatStep, Flat!Next, Flat!Restart, Flat!Holding

LEMMA StepSettle ==
  ASSUME CurrentWrite' = CurrentWrite, InStart' <=> InStart, Tangled, \A c \in Cells : c \notin Loose => Stored'[c] = Stored[c]
  PROVE  FlatStep
<1>1. InStart' = InStart
  BY DEF InStart
<1> QED BY <1>1 DEF FlatStep, Flat!Next, Flat!Settle, Flat!Holding

LEMMA StepAsk ==
  ASSUME ~InStart, ~InStart', CurrentWrite = Flat!NoWrite, Stored' = Stored,
         CurrentWrite'.off .. CurrentWrite'.off + CurrentWrite'.len - 1 \subseteq Cells, CurrentWrite'.v \in Versions
  PROVE  FlatStep
<1>1. InStart' = InStart
  BY DEF InStart
<1> QED BY <1>1 DEF FlatStep, Flat!Next, Flat!Ask

LEMMA StepDo ==
  ASSUME InStart' <=> InStart, NEW n \in 1 .. CurrentWrite.len,
         CurrentWrite' = IF n = CurrentWrite.len THEN Flat!NoWrite
                         ELSE [CurrentWrite EXCEPT !.off = @ + n, !.len = @ - n],
         NEW lost \in SUBSET Flat!First(n), ~Tangled => lost = {},
         \A c \in Cells : Stored'[c] = IF c \in Flat!First(n) \ lost THEN CurrentWrite.v ELSE Stored[c]
  PROVE  FlatStep
<1>1. InStart' = InStart
  BY DEF InStart
<1>0. Stored' = [c \in Cells |-> Stored'[c]]
  BY StoredFunction DEF Stored
<1>2. Stored' = [c \in Cells |-> IF c \in Flat!First(n) \ lost THEN CurrentWrite.v ELSE Stored[c]]
  BY <1>0
<1>3. lost \in IF Tangled THEN SUBSET Flat!First(n) ELSE {{}}
  OBVIOUS
<1>4. Flat!Do(n)
  BY <1>1, <1>2, <1>3 DEF Flat!Do
<1> QED BY <1>4 DEF FlatStep, Flat!Next

-----------------------------------------------------------------------------
(* Steps that write no byte: a read, a merge that begins, a file that is created or skipped. *)

LEMMA Inside ==
  ASSUME IInv
  PROVE  InList(op, files)
<1>1. Shaped(files) /\ OpFits(op, files)
  BY DEF IInv, Sound
<1>2. CASE op \in {Idle, Starting, Ended, Created} \/ op = [kind |-> "crash", reading |-> TRUE]
  BY <1>2 DEF InList, Current, Idle, Starting, Ended, Created
<1>3. CASE op.kind \in {"read", "write"} /\ IOFits(op, files)
  BY <1>3 DEF InList, Current, IOFits
<1>4. CASE MergeFits(op, files)
  <2>1. op.kind = "merge" /\ BackFits(op.back, files)
    BY <1>4 DEF MergeFits
  <2> QED BY <2>1 DEF InList, Current, BackFits, HeldFits, IOFits, Idle
<1>5. CASE CopyFits(op, files)
  <2>1. op.kind = "copy" /\ BackFits(op.back, files) /\ op.dst \in 1 .. Len(files) - 1
    BY <1>5 DEF CopyFits
  <2> QED BY <2>1 DEF InList, Current, BackFits, HeldFits, IOFits, Idle
<1>6. CASE ExtendFits(op, files)
  BY <1>6 DEF InList, Current, ExtendFits
<1> QED BY <1>1, <1>2, <1>3, <1>4, <1>5, <1>6 DEF OpFits

LEMMA OnDiskSame ==
  ASSUME NEW f \in Files, NEW g, Same(f, g), OnDisk(f)
  PROVE  OnDisk(g)
<1>1. g.offset = f.offset /\ g.size = f.size /\ f.offset \in Nat /\ f.size \in Nat /\ f.disk \in Int
  BY FileFacts DEF Same, Alike
<1> QED BY <1>1 DEF Same, OnDisk

LEMMA WriteAtSame ==
  ASSUME NEW fs, Shaped(fs), NEW gs, Rewritten(fs, gs), \A i \in 1 .. Len(fs) : gs[i].size = fs[i].size,
         NEW o, o.kind = "write" => o.at \in 1 .. Len(fs), WriteAt(o, fs)
  PROVE  WriteAt(o, gs)
<1>1. Shaped(gs) /\ Reals(gs) = Reals(fs) /\ \A i \in Reals(fs) : i \in 1 .. Len(fs)
  BY RewrittenShaped, ListFacts
<1>2. Neat(gs) => Neat(fs)
  BY <1>1, NeatSame
<1>3. \A i \in 1 .. Len(fs) : /\ gs[i].offset = fs[i].offset /\ gs[i].staging = fs[i].staging /\ End(gs[i]) = End(fs[i])
  BY DEF Rewritten, Alike, End
<1> SUFFICES ASSUME o.kind = "write", ~o.null PROVE WriteAt(o, gs)
  BY DEF WriteAt
<1>4. gs[o.at].offset <= o.off /\ (~gs[o.at].staging => o.off <= End(gs[o.at]))
  BY <1>3 DEF WriteAt
<1>5. ASSUME gs[o.at].staging, Neat(gs)
      PROVE  \A i \in Reals(gs) : i < o.at => End(gs[i]) <= o.off
  BY <1>1, <1>2, <1>3, <1>5 DEF WriteAt
<1>6. ASSUME gs[o.at].staging, o.off > End(gs[o.at])
      PROVE  \E i \in Reals(gs) : i < o.at /\ o.off <= End(gs[i])
  <2>1. fs[o.at].staging /\ o.off > End(fs[o.at])
    BY <1>3, <1>6
  <2>2. PICK i \in Reals(fs) : i < o.at /\ o.off <= End(fs[i])
    BY <2>1 DEF WriteAt
  <2> QED BY <1>1, <1>3, <2>2
<1> QED BY <1>4, <1>5, <1>6 DEF WriteAt

LEMMA SortedSame ==
  ASSUME NEW fs, NEW gs, Rewritten(fs, gs), Sorted(fs)
  PROVE  Sorted(gs)
<1>1. \A i \in 1 .. Len(fs) : gs[i].offset = fs[i].offset
  BY DEF Rewritten, Alike
<1> QED BY <1>1 DEF Sorted, Rewritten

LEMMA PlacingSame ==
  ASSUME NEW fs, Shaped(fs), NEW gs, Rewritten(fs, gs), \A i \in 1 .. Len(fs) : gs[i].size = fs[i].size,
         AllOnDisk(gs), NEW o, InList(o, fs), Placing(o, fs)
  PROVE  Placing(o, gs)
<1>1. Begins(o) => Sorted(gs)
  BY SortedSame DEF Placing
<1>2. WriteAt(Current(o), gs)
  BY WriteAtSame DEF Placing, InList
<1>3. \A i \in 1 .. Len(fs) : gs[i].offset = fs[i].offset /\ gs[i].staging = fs[i].staging
  BY DEF Rewritten, Alike
<1>4. EmptyBack(o, gs)
  <2> SUFFICES ASSUME o.kind \in {"merge", "copy"}, o.back.kind = "write", gs[o.back.at].staging
               PROVE  gs[o.back.at].size = 0
    BY DEF EmptyBack
  <2>1. o.back.at \in 1 .. Len(fs)
    BY DEF InList, Current
  <2> QED BY <1>3, <2>1 DEF Placing, EmptyBack
<1>5. CopyAt(o, gs)
  <2> SUFFICES ASSUME o.kind = "copy"
               PROVE  gs[o.dst + 1].offset <= o.pos
    BY DEF CopyAt
  <2>1. o.dst + 1 \in 1 .. Len(fs)
    BY ListFacts DEF InList
  <2> QED BY <1>3, <2>1 DEF Placing, CopyAt
<1> QED BY <1>1, <1>2, <1>4, <1>5 DEF Placing

LEMMA PlacingOpens ==
  ASSUME IInv, NEW s, Opens(Here, s), NEW o, InList(o, files), Placing(o, files)
  PROVE  Placing(o, s.f) /\ StoredIn(s.f) = Stored
<1>1. Here.f = files /\ Shaped(files) /\ \A i \in 1 .. Len(files) : files[i] \in Files
  BY HereFacts
<1>2. Rewritten(files, s.f) /\ \A i \in 1 .. Len(files) : Same(files[i], s.f[i])
  BY <1>1 DEF Opens
<1>3. AllOnDisk(s.f)
  BY <1>1, <1>2, OnDiskSame DEF AllOnDisk, Rewritten, Placing
<1>4. \A i \in 1 .. Len(files) : s.f[i].size = files[i].size
  BY <1>2 DEF Same
<1>5. Placing(o, s.f)
  BY <1>1, <1>2, <1>3, <1>4, PlacingSame
<1>6. StoredIn(s.f) = Stored
  BY <1>1, <1>2, SameStored DEF Stored
<1> QED BY <1>5, <1>6

LEMMA PlacingOther ==
  ASSUME NEW fs, AllOnDisk(fs), NEW o, o.kind \notin {"write", "merge", "copy"}, Begins(o) => Sorted(fs)
  PROVE  Placing(o, fs)
BY DEF Placing, WriteAt, EmptyBack, CopyAt, Current

LEMMA PlacingBack ==
  ASSUME NEW fs, NEW o, Placing(o, fs), o.kind \in {"merge", "copy"}, o.back.kind \in {"idle", "extend", "write"},
         NEW merged
  PROVE  Placing(Return(o.back, merged), fs)
<1>1. AllOnDisk(fs)
  BY DEF Placing
<1>2. CASE o.back.kind = "extend" /\ ~merged
  <2>1. Return(o.back, merged) = Created
    BY <1>2 DEF Return
  <2> QED BY <1>1, <2>1, PlacingOther DEF Begins, Created
<1>3. CASE ~(o.back.kind = "extend" /\ ~merged)
  <2>1. Return(o.back, merged) = o.back
    BY <1>3 DEF Return
  <2>2. CASE o.back.kind = "write"
    <3>1. WriteAt(o.back, fs)
      BY DEF Placing, Current
    <3> QED BY <1>1, <2>1, <2>2, <3>1 DEF Placing, Current, Begins, EmptyBack, CopyAt
  <2>3. CASE o.back.kind = "idle"
    BY <1>1, <2>1, <2>3, PlacingOther DEF Begins
  <2>4. CASE o.back.kind = "extend"
    <3>1. Sorted(fs)
      BY <2>4 DEF Placing, Begins
    <3> QED BY <1>1, <2>1, <2>4, <3>1, PlacingOther
  <2> QED BY <2>2, <2>3, <2>4
<1> QED BY <1>2, <1>3

LEMMA PlacingMerge ==
  ASSUME NEW fs, NEW o, Placing(o, fs), o.kind \in {"merge", "copy"}, NEW p, p.kind = "merge", p.back = o.back
  PROVE  Placing(p, fs)
<1>1. Current(p) = Current(o) /\ (Begins(p) => Begins(o))
  BY DEF Current, Begins
<1>2. EmptyBack(p, fs) /\ CopyAt(p, fs)
  BY DEF EmptyBack, CopyAt, Placing
<1> QED BY <1>1, <1>2 DEF Placing

LEMMA Quiet ==
  ASSUME FInv, files' = files, op.kind \notin {"write", "merge", "copy"}, op'.kind \notin {"write", "merge", "copy"},
         Begins(op') <=> Begins(op)
  PROVE  FInv' /\ FlatStep
<1>1. AllOnDisk(files) /\ (Begins(op) => Sorted(files))
  BY DEF FInv, Placing
<1>2. Placing(op', files')
  BY <1>1, PlacingOther
<1>3. Stored' = Stored
  BY DEF Stored
<1>4. WritePart(Current(op')) = WritePart(Current(op))
  BY DEF WritePart, Current
<1> QED BY <1>2, <1>3, <1>4, Stutter DEF FInv

LEMMA StepRead ==
  ASSUME FInv, NEW off, NEW len, Read(off, len)
  PROVE  FInv' /\ FlatStep
<1>1. files' = files /\ op.kind = "idle" /\ op'.kind = "read"
  BY DEF Read, Idle, StartIO, disk
<1> QED BY <1>1, Quiet DEF Begins

LEMMA StepNotFound ==
  ASSUME FInv, NotFound
  PROVE  FInv' /\ FlatStep
<1>1. files' = files /\ op.kind = "read" /\ op'.kind = "idle"
  BY DEF NotFound, Fails, Idle, disk
<1> QED BY <1>1, Quiet DEF Begins

LEMMA StepRetry ==
  ASSUME FInv, Retry
  PROVE  FInv' /\ FlatStep
<1>1. files' = files /\ op.kind = "idle" /\ op'.kind = "idle"
  BY DEF Retry, Idle, disk
<1> QED BY <1>1, Quiet DEF Begins

LEMMA StepRun ==
  ASSUME FInv, Run
  PROVE  FInv' /\ FlatStep
<1>1. files' = files /\ op.kind = "created" /\ op'.kind = "idle"
  BY DEF Run, Idle, Created, disk
<1> QED BY <1>1, Quiet DEF Begins

LEMMA StepReadFile ==
  ASSUME IInv, FInv, ReadFile
  PROVE  FInv' /\ FlatStep
<1>1. InFile /\ files' = files /\ op' = Advance(files, ReadLength(files[op.at])) /\ ~Writing
  BY DEF ReadFile, disk
<1>2. op \in IOs /\ op.kind = "read"
  BY <1>1, InStep DEF Writing
<1>3. op'.kind \in {"read", "idle", "crash"}
  BY <1>1, <1>2 DEF Advance, Idle, Crashed, IOs
<1> QED BY <1>1, <1>2, <1>3, Quiet DEF Begins

LEMMA NewMerge ==
  ASSUME NEW fs, AllOnDisk(fs), NEW o, o.kind = "merge", o.back.kind \in {"idle", "extend"},
         o.back.kind = "extend" => Sorted(fs)
  PROVE  Placing(o, fs)
BY DEF Placing, Begins, Current, WriteAt, EmptyBack, CopyAt

LEMMA StepStartMerge ==
  ASSUME FInv, StartMerge
  PROVE  FInv' /\ FlatStep
<1>1. files' = files /\ op = Idle /\ op'.kind = "merge" /\ op'.back = Idle
  BY DEF StartMerge, MergeOp, disk
<1>2. AllOnDisk(files)
  BY DEF FInv, Placing
<1>3. Placing(op', files')
  BY <1>1, <1>2, NewMerge DEF Idle
<1>4. Stored' = Stored
  BY <1>1 DEF Stored
<1>5. WritePart(Current(op')) = WritePart(Current(op)) /\ ~Begins(op') /\ ~Begins(op)
  BY <1>1 DEF WritePart, Current, Idle, Begins
<1> QED BY <1>3, <1>4, <1>5, Stutter DEF FInv

LEMMA StepCreateNone ==
  ASSUME FInv, CreateNone
  PROVE  FInv' /\ FlatStep
<1>1. files' = files /\ op = Starting /\ op' = Created
  BY DEF CreateNone, disk
<1>2. AllOnDisk(files)
  BY DEF FInv, Placing
<1>3. Placing(op', files')
  BY <1>1, <1>2, PlacingOther DEF Created, Begins
<1>4. Stored' = Stored
  BY <1>1 DEF Stored
<1>5. WritePart(Current(op')) = WritePart(Current(op)) /\ ~Begins(op') /\ Begins(op)
  BY <1>1 DEF WritePart, Current, Starting, Created, Begins
<1> QED BY <1>3, <1>4, <1>5, StepBegin DEF FInv

LEMMA StepCreateSparse ==
  ASSUME FInv, NEW wanted, CreateSparse(wanted)
  PROVE  FInv' /\ FlatStep
<1>1. files' = files /\ op = Starting /\ op'.kind = "merge" /\ op'.back = Extending(wanted)
  BY DEF CreateSparse, MergeOp, disk
<1>2. AllOnDisk(files) /\ Sorted(files)
  BY <1>1 DEF FInv, Placing, Begins, Starting
<1>3. Placing(op', files')
  BY <1>1, <1>2, NewMerge DEF Extending
<1>4. Stored' = Stored
  BY <1>1 DEF Stored
<1>5. WritePart(Current(op')) = WritePart(Current(op)) /\ Begins(op') /\ Begins(op)
  BY <1>1 DEF WritePart, Current, Starting, Extending, Begins
<1> QED BY <1>3, <1>4, <1>5, Stutter DEF FInv

LEMMA StepExtendSkip ==
  ASSUME IInv, FInv, ExtendSkip
  PROVE  FInv' /\ FlatStep
<1>1. files' = files /\ op.kind = "extend"
      /\ op' = IF op.at > Len(files) THEN MergeOp(TRUE, Extending(op.wanted)) ELSE [op EXCEPT !.at = @ + 1]
  BY DEF ExtendSkip, Extend, disk
<1>2. AllOnDisk(files) /\ Sorted(files)
  BY <1>1 DEF FInv, Placing, Begins
<1>3. CASE op' = MergeOp(TRUE, Extending(op.wanted))
  <2>1. op'.kind = "merge" /\ op'.back.kind = "extend"
    BY <1>3 DEF MergeOp, Extending
  <2>2. Placing(op', files')
    BY <1>1, <1>2, <2>1, NewMerge
  <2>3. Stored' = Stored
    BY <1>1 DEF Stored
  <2>4. WritePart(Current(op')) = WritePart(Current(op)) /\ Begins(op') /\ Begins(op)
    BY <1>1, <2>1 DEF WritePart, Current, Begins
  <2> QED BY <2>2, <2>3, <2>4, Stutter DEF FInv
<1>4. CASE op' = [op EXCEPT !.at = @ + 1]
  <2>1. op = [kind |-> "extend", at |-> op.at, wanted |-> op.wanted]
    BY <1>1, Kinds DEF IInv, ExtendFits
  <2>2. op'.kind = "extend"
    BY <1>4, <2>1
  <2> QED BY <1>1, <2>2, Quiet DEF Begins
<1> QED BY <1>1, <1>3, <1>4

LEMMA StepMergeNone ==
  ASSUME IInv, FInv, MergeNone
  PROVE  FInv' /\ FlatStep
<1>1. files' = files /\ op.kind = "merge" /\ op' = Return(op.back, op.merged)
  BY DEF MergeNone, Merging, disk
<1>2. Shaped(files) /\ BackFits(op.back, files)
  BY <1>1, Kinds DEF IInv, Sound, MergeFits
<1>3. op.back.kind \in {"idle", "extend", "write"}
  BY <1>2, BackOp
<1>4. Placing(op', files')
  BY <1>1, <1>3, PlacingBack DEF FInv
<1>5. Stored' = Stored
  BY <1>1 DEF Stored
<1>6. CASE op.back.kind = "extend" /\ ~op.merged
  <2>1. op' = Created
    BY <1>1, <1>6 DEF Return
  <2>2. WritePart(Current(op')) = WritePart(Current(op)) /\ ~Begins(op') /\ Begins(op)
    BY <1>1, <1>6, <2>1 DEF WritePart, Current, Created, Begins
  <2> QED BY <1>4, <1>5, <2>2, StepBegin DEF FInv
<1>7. CASE ~(op.back.kind = "extend" /\ ~op.merged)
  <2>1. op' = op.back
    BY <1>1, <1>7 DEF Return
  <2>2. Current(op) = op.back /\ Current(op') = op.back
    BY <1>1, <1>3, <2>1 DEF Current
  <2>3. Begins(op') <=> Begins(op)
    BY <1>1, <1>3, <2>1 DEF Begins
  <2> QED BY <1>4, <1>5, <2>2, <2>3, Stutter DEF FInv
<1> QED BY <1>6, <1>7

\* A merge that fails leaves each byte as it was.
LEMMA StepMergeFails ==
  ASSUME op.kind \in {"merge", "copy"}, op.back.kind \in {"idle", "extend", "write"},
         NEW s, MergeFails(s), Placing(op, s.f), StoredIn(s.f) = Stored
  PROVE  FInv' /\ FlatStep
<1>1. files' = s.f
      /\ op' = IF op.tries > 1 THEN [MergeOp(FALSE, op.back) EXCEPT !.tries = op.tries - 1]
               ELSE Return(op.back, op.merged)
  BY DEF MergeFails, SetTo
<1>2. Stored' = Stored
  BY <1>1 DEF Stored
<1>3. CASE op.tries > 1
  <2>1. op'.kind = "merge" /\ op'.back = op.back
    BY <1>1, <1>3 DEF MergeOp
  <2>2. Placing(op', files')
    BY <1>1, <2>1, PlacingMerge
  <2>3. Current(op') = Current(op) /\ (Begins(op') <=> Begins(op))
    BY <2>1 DEF Current, Begins
  <2> QED BY <1>2, <2>2, <2>3, Stutter DEF FInv
<1>4. CASE ~(op.tries > 1)
  <2>1. op' = Return(op.back, op.merged)
    BY <1>1, <1>4
  <2>2. Placing(op', files')
    BY <1>1, <2>1, PlacingBack
  <2>3. CASE op.back.kind = "extend" /\ ~op.merged
    <3>1. op' = Created
      BY <2>1, <2>3 DEF Return
    <3>2. WritePart(Current(op')) = WritePart(Current(op)) /\ ~Begins(op') /\ Begins(op)
      BY <2>3, <3>1 DEF WritePart, Current, Created, Begins
    <3> QED BY <1>2, <2>2, <3>2, StepBegin DEF FInv
  <2>4. CASE ~(op.back.kind = "extend" /\ ~op.merged)
    <3>1. op' = op.back
      BY <2>1, <2>4 DEF Return
    <3>2. Current(op') = Current(op) /\ (Begins(op') <=> Begins(op))
      BY <3>1 DEF Current, Begins
    <3> QED BY <1>2, <2>2, <3>2, Stutter DEF FInv
  <2> QED BY <2>3, <2>4
<1> QED BY <1>3, <1>4

-----------------------------------------------------------------------------
(* A file is opened, a write refused, a staging file added, everything closed. *)

LEMMA WriteRuns ==
  ASSUME IInv, op.kind = "write"
  PROVE  /\ CurrentWrite = [off |-> op.off, len |-> op.len, v |-> op.v]
         /\ CurrentWrite # Flat!NoWrite
         /\ ~InStart /\ ~Begins(op)
         /\ op \in IOs /\ IOFits(op, files)
<1>1. IOFits(op, files) /\ op \in IOs
  BY Kinds DEF IInv, IOFits
<1>2. CurrentWrite = [off |-> op.off, len |-> op.len, v |-> op.v]
  BY CurrentIs DEF WritePart, Current
<1>3. op.len # 0
  BY <1>1, IOFields
<1>4. CurrentWrite # Flat!NoWrite
  BY <1>2, <1>3 DEF Flat!NoWrite
<1>5. ~Begins(op) /\ ~InStart
  BY InStartIs DEF Begins
<1> QED BY <1>1, <1>2, <1>4, <1>5

LEMMA WriteOver ==
  ASSUME op'.kind \notin {"write", "merge", "copy"}
  PROVE  CurrentWrite' = Flat!NoWrite
BY DEF CurrentWrite, Flat!NoWrite

LEMMA StepOpenFile ==
  ASSUME IInv, FInv, OpenFile
  PROVE  FInv' /\ FlatStep
<1>1. PICK r \in Open(Here, op.at, Writing, 0) : SetTo(r.s) /\ op' = IF r.ok THEN op ELSE Idle
  BY DEF OpenFile
<1>2. op.kind \in {"read", "write"} /\ op.at \in 1 .. Len(files)
  BY InStep DEF OpenFile
<1>3. Opens(Here, r.s)
  <2>1. op.at \in 1 .. Len(Here.f) /\ Good(Here) /\ Writing \in BOOLEAN
    BY <1>2, HereFacts DEF Writing
  <2> HIDE DEF Here, Writing
  <2> QED BY <2>1, OpenFacts
<1>4. Placing(op, r.s.f) /\ StoredIn(r.s.f) = Stored
  BY <1>3, Inside, PlacingOpens DEF FInv
<1>5. files' = r.s.f
  BY <1>1 DEF SetTo
<1>6. Stored' = Stored
  BY <1>4, <1>5 DEF Stored
<1>7. CASE r.ok
  <2>1. op' = op
    BY <1>1, <1>7
  <2>2. Placing(op', files')
    BY <1>4, <1>5, <2>1
  <2> QED BY <1>6, <2>1, <2>2, Stutter DEF FInv
<1>8. CASE ~r.ok
  <2>1. op' = Idle /\ op'.kind = "idle"
    BY <1>1, <1>8 DEF Idle
  <2>2. ~Begins(op) /\ ~Begins(op')
    BY <1>2, <2>1 DEF Begins
  <2>3. AllOnDisk(files')
    BY <1>4, <1>5 DEF Placing
  <2>4. FInv'
    BY <2>1, <2>2, <2>3, PlacingOther DEF FInv
  <2>5. CASE op.kind = "read"
    <3>1. WritePart(Current(op')) = WritePart(Current(op))
      BY <2>1, <2>5 DEF WritePart, Current
    <3> QED BY <1>6, <2>2, <2>4, <3>1, Stutter
  <2>6. CASE op.kind = "write"
    <3>1. CurrentWrite # Flat!NoWrite /\ CurrentWrite' = Flat!NoWrite
      BY <2>1, <2>6, WriteRuns, WriteOver
    <3>2. InStart' <=> InStart
      BY <2>2 DEF InStart, Begins
    <3>3. PICK lost : lost = {} OBVIOUS
    <3>4. lost \in SUBSET Flat!First(CurrentWrite.len)
          /\ \A c \in Cells : Stored'[c] = IF c \in lost THEN Unknown ELSE Stored[c]
      BY <1>6, <3>3
    <3> QED BY <2>4, <3>1, <3>2, <3>4, StepRefuse
  <2> QED BY <1>2, <2>5, <2>6
<1> QED BY <1>7, <1>8

LEMMA StepOpenNoSpace ==
  ASSUME IInv, FInv, OpenNoSpace
  PROVE  FInv' /\ FlatStep
<1>1. PICK t \in IF nopened >= MaxOpen THEN CloseOldest(Here, 0) ELSE {Here} : SetTo(Refused(t))
  BY DEF OpenNoSpace
<1>2. /\ op.kind = "write" /\ op.at \in 1 .. Len(files) /\ op \in IOs /\ ~op.null
      /\ ~op.merged /\ files[op.at].size = 0 /\ refusals > 0
  BY InStep DEF OpenNoSpace, Writing
<1>3. Good(Here) /\ Here.r = refusals /\ refusals \in Nat /\ Here.f = files
  BY HereFacts
<1>4. Opens(Here, t) /\ t.r = refusals /\ Good(t)
  <2>1. CASE nopened >= MaxOpen
    <3>1. t \in CloseOldest(Here, 0)
      BY <2>1
    <3>2. Opens(Here, t) /\ t.r = Here.r
      BY <1>3, <3>1, OldestFacts
    <3> QED BY <1>3, <3>2 DEF Opens
  <2>2. CASE ~(nopened >= MaxOpen)
    BY <1>3, <2>2, OpensItself
  <2> QED BY <2>1, <2>2
<1> DEFINE s == Refused(t)
<1>5. Opens(t, s)
  BY <1>2, <1>3, <1>4, RefusedFacts
<1>6. Opens(Here, s) /\ SetTo(s)
  BY <1>1, <1>3, <1>4, <1>5, OpensTransitive
<1> HIDE DEF s
<1> DEFINE b == [op EXCEPT !.merged = TRUE]
<1>7. /\ b.kind = "write" /\ b.off = op.off /\ b.len = op.len /\ b.v = op.v /\ b.at = op.at /\ ~b.null
  BY <1>2 DEF IOs
<1>8. op'.kind = "merge" /\ op'.back = b
  BY DEF OpenNoSpace, MergeOp
<1> HIDE DEF b
<1>9. Placing(op, s.f) /\ StoredIn(s.f) = Stored
  BY <1>6, Inside, PlacingOpens DEF FInv
<1>10. files' = s.f
  BY <1>6 DEF SetTo
<1>11. s.f[op.at].size = 0
  BY <1>2, <1>3, <1>6 DEF Opens, Same
<1>12. WriteAt(op, s.f) /\ AllOnDisk(s.f)
  BY <1>2, <1>9 DEF Placing, Current
<1>13. WriteAt(b, s.f)
  BY <1>2, <1>7, <1>12 DEF WriteAt
<1>14. Current(op') = b /\ ~Begins(op') /\ ~Begins(op) /\ Current(op) = op
  BY <1>2, <1>7, <1>8 DEF Current, Begins
<1>15. EmptyBack(op', s.f) /\ CopyAt(op', s.f)
  BY <1>7, <1>8, <1>11 DEF EmptyBack, CopyAt
<1>16. Placing(op', files')
  BY <1>10, <1>12, <1>13, <1>14, <1>15 DEF Placing
<1>17. WritePart(Current(op')) = WritePart(Current(op))
  BY <1>2, <1>7, <1>14 DEF WritePart
<1>18. Stored' = Stored
  BY <1>9, <1>10 DEF Stored
<1> QED BY <1>14, <1>16, <1>17, <1>18, Stutter DEF FInv

LEMMA StepWrite ==
  ASSUME IInv, FInv, NEW off \in Cells, NEW len \in 1 .. PieceLength, NEW v \in Versions, Write(off, len, v)
  PROVE  FInv' /\ FlatStep
<1>1. PICK write : write = TRUE OBVIOUS
<1>2. PICK p : p = FindFirst(files, off, write) OBVIOUS
<1>3. /\ op' = [kind |-> "write", off |-> off, len |-> len, v |-> v, at |-> p.at, null |-> p.null, merged |-> FALSE]
      /\ op = Idle /\ files' = files /\ InPiece(off, len)
  BY <1>1, <1>2 DEF Write, StartIO, disk
<1>4. Shaped(files) /\ Total \in Nat /\ len \in Nat /\ off \in Nat /\ Cells = 0 .. Total - 1
  BY HereFacts, Extents, StagingAssumption DEF StagingAssumption
<1>5. /\ p.at \in 1 .. Len(files)
      /\ ~p.null => Takes(files[p.at], off, write)
      /\ files[p.at].offset <= off
      /\ \A i \in Reals(files) : i <= p.at => files[i].offset <= off
      /\ \A i \in Reals(files) : i < p.at => ~Takes(files[i], off, write)
  BY <1>1, <1>2, <1>4, SearchFacts
<1>6. /\ Len(files) \in Nat
      /\ \A i \in 1 .. Len(files) : files[i].offset \in Nat /\ End(files[i]) \in Nat
      /\ \A i \in Reals(files) : i \in 1 .. Len(files)
  BY <1>4, ListFacts
<1>7. ~p.null => off <= End(files[p.at])
  BY <1>4, <1>5, <1>6 DEF Takes, Covers
<1>8. ASSUME NEW i \in Reals(files), i < p.at
      PROVE  End(files[i]) <= off
  <2>1. files[i].offset <= off /\ ~Takes(files[i], off, write) /\ End(files[i]) \in Nat
    BY <1>5, <1>6, <1>8
  <2> QED BY <1>4, <2>1 DEF Takes, Covers
<1>9. op'.kind = "write" /\ op'.off = off /\ op'.len = len /\ op'.v = v /\ op'.at = p.at /\ (op'.null <=> p.null)
  BY <1>3
<1>10. WriteAt(op', files)
  BY <1>4, <1>5, <1>6, <1>7, <1>8, <1>9 DEF WriteAt
<1>11. ~Begins(op) /\ ~Begins(op') /\ Current(op') = op' /\ Current(op) = Idle
  BY <1>3, <1>9 DEF Begins, Current, Idle
<1>12. AllOnDisk(files) /\ EmptyBack(op', files) /\ CopyAt(op', files)
  BY <1>9 DEF FInv, Placing, EmptyBack, CopyAt
<1>13. Placing(op', files')
  BY <1>3, <1>10, <1>11, <1>12 DEF Placing
<1>14. Stored' = Stored
  BY <1>3 DEF Stored
<1>15. CurrentWrite' = [off |-> off, len |-> len, v |-> v]
  BY <1>9 DEF CurrentWrite
<1>16. CurrentWrite = Flat!NoWrite
  BY <1>11, CurrentIs DEF WritePart, Idle, Flat!NoWrite
<1>17. ~InStart /\ ~InStart'
  BY <1>11 DEF InStart, Begins
<1>18. off .. off + len - 1 \subseteq Cells
  <2>1. off + len <= Total
    BY <1>3, <1>4, PieceFits
  <2> QED BY <1>4, <2>1
<1>19. FlatStep
  BY <1>14, <1>15, <1>16, <1>17, <1>18, StepAsk
<1> QED BY <1>13, <1>19 DEF FInv

LEMMA NewStagingIs ==
  ASSUME IInv, NewStaging
  PROVE  /\ op.kind = "write" /\ op.at \in 1 .. Len(files)
         /\ \E d \in Cells \cup {NoDir} : files' = InsertAt(files, op.at + 1, EmptyStaging(op.off, d))
         /\ op' = [op EXCEPT !.at = @ + 1, !.null = FALSE]
<1>1. op.kind = "write" /\ IOFits(op, files)
  BY Kinds DEF NewStaging, NeedsStaging, IInv
<1>2. op.off \in Cells /\ op.at \in 1 .. Len(files)
  BY <1>1, IOFields DEF IOFits
<1>3. stagedir' \in Cells \cup {NoDir}
  BY <1>2 DEF NewStaging, IInv, Counts
<1> QED BY <1>1, <1>2, <1>3 DEF NewStaging, EmptyStaging

LEMMA EmptyHolds ==
  ASSUME NEW fs, NEW i, fs[i].offset \in Nat, fs[i].size = 0, NEW c \in Cells
  PROVE  ~Holds(fs, i, c)
<1>1. c \in Nat
  BY Extents
<1> QED BY <1>1 DEF Holds, Covers, End

LEMMA StepNewStaging ==
  ASSUME IInv, FInv, NewStaging
  PROVE  FInv' /\ FlatStep
<1>1. op.kind = "write" /\ IOFits(op, files) /\ op \in IOs /\ op.at \in 1 .. Len(files)
  BY NewStagingIs, WriteRuns
<1>2. op.off \in Cells /\ op.off \in Nat
  BY <1>1, IOFields
<1>3. /\ Shaped(files) /\ Len(files) \in Nat \ {0} /\ DOMAIN files = 1 .. Len(files)
      /\ \A i \in 1 .. Len(files) : files[i] \in Files
  BY HereFacts
<1>4. PICK d \in Cells \cup {NoDir} : files' = InsertAt(files, op.at + 1, EmptyStaging(op.off, d))
  BY NewStagingIs
<1>5. PICK gs : gs = files' OBVIOUS
<1>6. PICK a : a = op.at OBVIOUS
<1>7. PICK b : b = a + 1 OBVIOUS
<1>8. PICK g : g = EmptyStaging(op.off, d) OBVIOUS
<1>9. gs = InsertAt(files, b, g) /\ a \in 1 .. Len(files)
  BY <1>1, <1>4, <1>5, <1>6, <1>7, <1>8
<1>10. /\ g \in Files /\ g.offset = op.off /\ g.size = 0 /\ g.disk = -1 /\ g.staging
  BY <1>2, <1>8, NewFile
<1>11. \A c \in Cells : g.data[c] = Unknown
  BY <1>8 DEF EmptyStaging, File
<1>12. \A i \in Reals(files) : i <= a => files[i].offset <= g.offset
  BY <1>1, <1>6, <1>10 DEF IOFits
<1>13. /\ Shaped(gs) /\ Len(gs) = Len(files) + 1
       /\ \A j \in 1 .. a : gs[j] = files[j]
       /\ gs[b] = g
       /\ \A j \in b .. Len(files) : gs[j + 1] = files[j]
  <2>1. Shaped(files) /\ a \in 1 .. Len(files) /\ b = a + 1 /\ g \in Files /\ g.staging
    BY <1>3, <1>7, <1>9, <1>10
  <2>2. gs = InsertAt(files, a + 1, g)
    BY <1>7, <1>9
  <2>3. /\ Shaped(gs) /\ Len(gs) = Len(files) + 1
        /\ \A j \in 1 .. a : gs[j] = files[j]
        /\ gs[a + 1] = g
        /\ \A j \in a + 1 .. Len(files) : gs[j + 1] = files[j]
    BY <1>12, <2>1, <2>2, InsertShaped
  <2> QED BY <2>1, <2>3
<1>14. op'.kind = "write" /\ op'.off = op.off /\ op'.len = op.len /\ op'.v = op.v /\ op'.at = b /\ ~op'.null
  <2>1. op' = [op EXCEPT !.at = a + 1, !.null = FALSE]
    BY <1>6, NewStagingIs
  <2> QED BY <1>1, <1>7, <2>1 DEF IOs
<1>15. AllOnDisk(files)
  BY DEF FInv, Placing
<1>16. OnDisk(g)
  BY <1>10, <1>11 DEF OnDisk
<1>17. AllOnDisk(gs)
  <2> SUFFICES ASSUME NEW i \in 1 .. Len(gs) PROVE OnDisk(gs[i])
    BY DEF AllOnDisk
  <2>1. CASE i <= a
    <3>1. i \in 1 .. a /\ i \in 1 .. Len(files)
      BY <1>3, <1>9, <2>1
    <3> QED BY <1>13, <1>15, <3>1 DEF AllOnDisk
  <2>2. CASE i = b
    BY <1>13, <1>16, <2>2
  <2>3. CASE i > b
    <3>1. i - 1 \in b .. Len(files) /\ i - 1 \in 1 .. Len(files) /\ (i - 1) + 1 = i
      BY <1>3, <1>7, <1>9, <1>13, <2>3
    <3> QED BY <1>13, <1>15, <3>1 DEF AllOnDisk
  <2> QED BY <1>3, <1>7, <1>9, <2>1, <2>2, <2>3
<1>18. b \in 1 .. Len(gs) /\ gs[b].staging /\ gs[b].offset = op.off /\ End(gs[b]) = op.off
  BY <1>2, <1>3, <1>7, <1>9, <1>10, <1>13 DEF End
<1>19. WriteAt(op', gs)
  <2>1. gs[op'.at].offset <= op'.off /\ gs[op'.at].staging /\ ~(op'.off > End(gs[op'.at]))
    BY <1>2, <1>14, <1>18
  <2>2. Neat(gs) => \A i \in Reals(gs) : i < op'.at => End(gs[i]) <= op'.off
    BY <1>14, <1>18 DEF Neat
  <2> QED BY <2>1, <2>2 DEF WriteAt
<1>20. Current(op') = op' /\ ~Begins(op') /\ ~Begins(op) /\ Current(op) = op
  BY <1>1, <1>14 DEF Current, Begins
<1>21. Placing(op', gs)
  BY <1>14, <1>17, <1>19, <1>20 DEF Placing, EmptyBack, CopyAt
<1>22. WritePart(Current(op')) = WritePart(Current(op))
  BY <1>1, <1>14, <1>20 DEF WritePart
<1>23. ASSUME NEW c \in Cells
       PROVE  StoredIn(gs)[c] = StoredIn(files)[c]
  <2>1. ~Holds(gs, b, c)
    BY <1>2, <1>10, <1>13, EmptyHolds
  <2>2. Len(files) = Len(gs) - 1 /\ \A j \in b .. Len(gs) - 1 : files[j] = gs[j + 1]
    BY <1>3, <1>13
  <2>3. \A j \in 1 .. b - 1 : files[j] = gs[j]
    BY <1>3, <1>7, <1>9, <1>13
  <2>4. StoredIn(files)[c] = StoredIn(gs)[c]
    BY <1>3, <1>13, <1>18, <2>1, <2>2, <2>3, ValueShift
  <2> QED BY <2>4
<1>24. Stored' = Stored
  BY <1>5, <1>23, StoredEqual DEF Stored
<1> QED BY <1>5, <1>20, <1>21, <1>22, <1>24, Stutter DEF FInv

LEMMA StepMergeOpen ==
  ASSUME IInv, FInv, MergeOpen
  PROVE  FInv' /\ FlatStep
<1>1. PICK dst : dst = Min(Candidates) OBVIOUS
<1>2. /\ dst \in 1 .. Len(files) - 1 /\ dst + 1 \in 1 .. Len(files) /\ dst \in Nat
      /\ Mergeable(files, dst) /\ MergeFits(op, files)
  BY <1>1, CandidateFacts DEF MergeOpen
<1>3. PICK src : src = dst + 1 OBVIOUS
<1>4. PICK r \in Open(Here, src, FALSE, 0) :
           IF ~r.ok THEN MergeFails(r.s)
           ELSE \E q \in Open(r.s, dst, TRUE, src) :
             IF ~q.ok THEN MergeFails(q.s)
             ELSE SetTo(q.s) /\ op' = CopyOp(dst) /\ UNCHANGED <<need, stage, unmerged>>
  BY <1>1, <1>3 DEF MergeOpen
<1>5. /\ Good(Here) /\ Here.f = files /\ src \in 1 .. Len(Here.f) /\ dst \in 1 .. Len(files)
      /\ Len(files) \in Nat /\ Shaped(files)
  BY <1>2, <1>3, HereFacts
<1>6. op.kind = "merge" /\ op.back.kind \in {"idle", "extend", "write"}
  BY <1>2, <1>5, BackOp DEF MergeFits
<1>7. Opens(Here, r.s) /\ Good(r.s) /\ r.ok \in BOOLEAN
  <2>1. PICK write : write = FALSE OBVIOUS
  <2>2. PICK keep : keep = 0 OBVIOUS
  <2>3. r \in Open(Here, src, write, keep) /\ write \in BOOLEAN
    BY <1>4, <2>1, <2>2
  <2> QED BY <1>5, <2>3, OpenFacts DEF Opens
<1>8. ASSUME NEW s, Opens(Here, s)
      PROVE  Placing(op, s.f) /\ StoredIn(s.f) = Stored
  BY <1>8, Inside, PlacingOpens DEF FInv
<1>9. CASE ~r.ok
  <2>1. MergeFails(r.s)
    BY <1>4, <1>9
  <2> QED BY <1>6, <1>7, <1>8, <2>1, StepMergeFails
<1>10. CASE r.ok
  <2>1. PICK q \in Open(r.s, dst, TRUE, src) :
             IF ~q.ok THEN MergeFails(q.s)
             ELSE SetTo(q.s) /\ op' = CopyOp(dst) /\ UNCHANGED <<need, stage, unmerged>>
    BY <1>4, <1>10
  <2>2. PICK t : t = r.s OBVIOUS
  <2>3. Good(t) /\ Len(t.f) = Len(files)
    BY <1>5, <1>7, <2>2 DEF Opens, Rewritten
  <2>4. PICK yes : yes = TRUE OBVIOUS
  <2>5. q \in Open(t, dst, yes, src) /\ yes \in BOOLEAN /\ dst \in 1 .. Len(t.f)
    BY <1>5, <2>1, <2>2, <2>3, <2>4
  <2>6. Opens(t, q.s) /\ q.ok \in BOOLEAN
    BY <2>3, <2>5, OpenFacts
  <2>7. Opens(Here, q.s)
    BY <1>5, <1>7, <2>2, <2>6, OpensTransitive
  <2>8. Placing(op, q.s.f) /\ StoredIn(q.s.f) = Stored
    BY <1>8, <2>7
  <2>9. CASE ~q.ok
    <3>1. MergeFails(q.s)
      BY <2>1, <2>9
    <3> QED BY <1>6, <2>8, <3>1, StepMergeFails
  <2>10. CASE q.ok
    <3>1. files' = q.s.f /\ op' = CopyOp(dst)
      BY <2>1, <2>10 DEF SetTo
    <3>2. op'.kind = "copy" /\ op'.back = op.back /\ op'.dst = dst /\ op'.pos = End(files[dst])
      BY <3>1 DEF CopyOp
    <3>3. Current(op') = Current(op) /\ (Begins(op') <=> Begins(op))
      BY <1>6, <3>2 DEF Current, Begins
    <3>4. EmptyBack(op', files')
      BY <1>6, <2>8, <3>1, <3>2 DEF EmptyBack, Placing
    <3>5. q.s.f[dst + 1].offset = files[dst + 1].offset
      BY <1>2, <1>5, <2>7 DEF Opens, Same, Alike
    <3>6. CopyAt(op', files')
      BY <1>2, <3>1, <3>2, <3>5 DEF CopyAt, Mergeable
    <3>7. Placing(op', files')
      BY <2>8, <3>1, <3>3, <3>4, <3>6 DEF Placing
    <3>8. Stored' = Stored
      BY <2>8, <3>1 DEF Stored
    <3> QED BY <3>3, <3>7, <3>8, Stutter DEF FInv
  <2> QED BY <2>6, <2>9, <2>10
<1> QED BY <1>7, <1>9, <1>10

LEMMA StepCloseAllFiles ==
  ASSUME IInv, FInv, CloseAllFiles
  PROVE  FInv' /\ FlatStep
<1>1. PICK gs : gs = files' OBVIOUS
<1>2. PICK shut : shut = {i \in Reals(files) : files[i].opened} OBVIOUS
<1>3. /\ gs = [i \in DOMAIN files |-> IF i \in shut THEN [files[i] EXCEPT !.opened = FALSE, !.readonly = FALSE]
                                      ELSE files[i]]
      /\ op = Idle /\ op' = op
  BY <1>1, <1>2 DEF CloseAllFiles
<1>4. /\ Shaped(files) /\ Len(files) \in Nat \ {0} /\ DOMAIN files = 1 .. Len(files)
      /\ \A i \in 1 .. Len(files) : files[i] \in Files
  BY HereFacts
<1>5. ASSUME NEW i \in 1 .. Len(files)
      PROVE  gs[i] \in Files /\ Same(files[i], gs[i])
  <2>1. CASE i \in shut
    <3>1. PICK f : f = files[i] OBVIOUS
    <3>2. PICK g : g = gs[i] OBVIOUS
    <3>3. PICK no : no = FALSE OBVIOUS
    <3>4. g = OpenedAs(f, no, no)
      BY <1>3, <1>4, <2>1, <3>1, <3>2, <3>3 DEF OpenedAs
    <3>5. g \in Files /\ Alike(f, g) /\ g.size = f.size /\ g.disk = f.disk /\ g.data = f.data
      BY <1>4, <3>1, <3>3, <3>4, OpenedAsFacts, ZenonT(60)
    <3> QED BY <3>1, <3>2, <3>5 DEF Same
  <2>2. CASE i \notin shut
    <3>1. gs[i] = files[i]
      BY <1>3, <1>4, <2>2
    <3> QED BY <1>4, <3>1 DEF Same, Alike
  <2> QED BY <2>1, <2>2
<1>6. gs \in Seq(Files) /\ Len(gs) = Len(files) /\ DOMAIN gs = 1 .. Len(files)
  <2>1. DOMAIN gs = 1 .. Len(files) /\ gs = [i \in 1 .. Len(files) |-> gs[i]]
    BY <1>3, <1>4
  <2>2. gs \in [1 .. Len(files) -> Files]
    BY <1>5, <2>1
  <2> HIDE DEF Files
  <2> QED BY <1>4, <2>1, <2>2
<1>7. Rewritten(files, gs)
  BY <1>5, <1>6 DEF Rewritten, Same
<1>8. Stored' = Stored
  BY <1>1, <1>4, <1>5, <1>7, SameStored DEF Stored
<1>9. AllOnDisk(gs)
  <2>1. AllOnDisk(files)
    BY DEF FInv, Placing
  <2> QED BY <1>4, <1>5, <1>6, <2>1, OnDiskSame DEF AllOnDisk
<1>10. op.kind \notin {"write", "merge", "copy"} /\ ~Begins(op)
  BY <1>3 DEF Idle, Begins
<1>11. Placing(op', gs)
  BY <1>3, <1>9, <1>10, PlacingOther
<1> QED BY <1>1, <1>3, <1>8, <1>11, Stutter DEF FInv

\* How a refused write changes its file.
LEMMA RefusalIs ==
  ASSUME IInv, NEW i, i \in 1 .. Len(files), NEW d, NEW h,
         SetTo(Refused([Here EXCEPT !.f[i] = h]))
  PROVE  files' = [files EXCEPT ![i] = h]
<1>1. [Here EXCEPT !.f[i] = h] = [f |-> [files EXCEPT ![i] = h], n |-> nopened, r |-> refusals]
  BY DEF Here
<1>2. PICK x : x = [Here EXCEPT !.f[i] = h] OBVIOUS
<1>3. x = [f |-> [files EXCEPT ![i] = h], n |-> nopened, r |-> refusals]
  BY <1>1, <1>2
<1>4. Refused(x).f = [files EXCEPT ![i] = h]
  BY <1>3 DEF Refused
<1>5. files' = Refused(x).f
  BY <1>2 DEF SetTo
<1> QED BY <1>4, <1>5

LEMMA StepWriteRefused ==
  ASSUME IInv, FInv, WriteRefused
  PROVE  FInv' /\ FlatStep
<1>1. PICK n : n = WriteLength(files, op.at) OBVIOUS
<1>2. /\ op.kind = "write" /\ op \in IOs /\ op.at \in 1 .. Len(files)
      /\ op.off \in Nat /\ op.len \in Nat /\ op.off + op.len <= Total /\ Total \in Nat
      /\ files[op.at] \in Files
  BY InStep DEF WriteRefused, Writing
<1>3. n \in 0 .. op.len /\ n \in Nat
  BY <1>1, WriteLengthFacts DEF WriteRefused
<1>4. PICK a : a = op.at OBVIOUS
<1>5. PICK f : f = files[a] OBVIOUS
<1>10. /\ f \in Files /\ f.offset \in Nat /\ f.size \in Nat /\ f.disk \in Int /\ f.disk >= -1
       /\ f.data \in Bytes /\ f.offset + f.disk <= Total /\ f.offset + f.size <= Total
  BY <1>2, <1>4, <1>5, FileFacts DEF Bytes
<1>27. PICK most : most = Most(f.disk, op.off + n - f.offset) OBVIOUS
<1>28. most \in Int /\ f.offset + most <= Total
  <2>1. op.off + n \in Int /\ op.off + n <= Total
    BY <1>2, <1>3
  <2>2. f.disk \in Int /\ f.offset \in Int /\ Total \in Int /\ f.offset + f.disk <= Total
    BY <1>2, <1>10
  <2>3. most = f.disk \/ most = op.off + n - f.offset
    BY <1>27 DEF Most
  <2>4. CASE most = f.disk
    BY <2>2, <2>4
  <2>5. CASE most = op.off + n - f.offset
    BY <1>2, <1>3, <2>1, <2>2, <2>5, SMTT(60)
  <2> QED BY <2>3, <2>4, <2>5
<1>6. PICK d \in f.disk .. most :
        SetTo(Refused([Here EXCEPT !.f[op.at] =
                [f EXCEPT !.disk = d,
                          !.data = [c \in Cells |-> IF c \in op.off .. op.off + n - 1 THEN Unknown ELSE @[c]]]]))
  BY <1>1, <1>4, <1>5, <1>27 DEF WriteRefused
<1> DEFINE bytes == [c \in Cells |-> IF c \in op.off .. op.off + n - 1 THEN Unknown ELSE f.data[c]]
<1>7. PICK g : g = StoredAs(f, d, bytes) OBVIOUS
<1>8. PICK gs : gs = files' OBVIOUS
<1>9. gs = [files EXCEPT ![a] = g]
  <2> DEFINE h == [f EXCEPT !.disk = d,
                            !.data = [c \in Cells |-> IF c \in op.off .. op.off + n - 1 THEN Unknown ELSE @[c]]]
  <2>1. h = g
    BY <1>7 DEF StoredAs
  <2>2. SetTo(Refused([Here EXCEPT !.f[op.at] = h]))
    BY <1>6
  <2> HIDE DEF h
  <2>3. files' = [files EXCEPT ![op.at] = h]
    BY <1>2, <2>2, RefusalIs
  <2> QED BY <1>4, <1>8, <2>1, <2>3
<1>11. d \in Int /\ d >= f.disk /\ f.offset + d <= Total
  BY <1>2, <1>6, <1>10, <1>28
<1>12. bytes \in Bytes
  BY <1>10 DEF Bytes
<1>13. bytes = [c \in Cells |-> IF c \in op.off .. op.off + n - 1 THEN Unknown ELSE f.data[c]]
  OBVIOUS
<1> HIDE DEF bytes
<1>14. g \in Files /\ Alike(f, g) /\ g.size = f.size /\ g.disk = d /\ g.data = bytes
  BY <1>7, <1>10, <1>11, <1>12, StoredAsFacts
<1>15. /\ Shaped(files) /\ Len(files) \in Nat /\ DOMAIN files = 1 .. Len(files)
       /\ \A i \in 1 .. Len(files) : files[i] \in Files
  BY HereFacts
<1>16. /\ Rewritten(files, gs) /\ Shaped(gs) /\ gs[a] = g
       /\ \A j \in 1 .. Len(files) : j # a => gs[j] = files[j]
  BY <1>2, <1>4, <1>5, <1>9, <1>14, <1>15, ChangeOne
<1>17. AllOnDisk(files)
  BY DEF FInv, Placing
<1>18. OnDisk(g)
  <2>1. OnDisk(f)
    BY <1>2, <1>4, <1>5, <1>17 DEF AllOnDisk
  <2>2. g.size > 0 => g.disk >= g.size
    BY <1>10, <1>11, <1>14, <2>1 DEF OnDisk
  <2>3. ASSUME NEW c \in Cells, c >= g.offset + g.disk
        PROVE  g.data[c] = Unknown
    <3>1. g.offset = f.offset /\ c \in Nat
      BY <1>14, Extents DEF Alike
    <3>2. c >= f.offset + f.disk
      BY <1>10, <1>11, <1>14, <2>3, <3>1
    <3> QED BY <1>13, <1>14, <2>1, <3>2 DEF OnDisk
  <2> QED BY <2>2, <2>3 DEF OnDisk
<1>19. AllOnDisk(gs)
  BY <1>16, <1>17, <1>18 DEF AllOnDisk, Rewritten
<1>20. op' = Idle /\ op'.kind = "idle"
  BY DEF WriteRefused, Fails, Idle
<1>21. ~Begins(op) /\ ~Begins(op')
  BY <1>2, <1>20 DEF Begins
<1>22. FInv'
  BY <1>8, <1>19, <1>20, <1>21, PlacingOther DEF FInv
<1>23. PICK lost : lost = {c \in op.off .. op.off + n - 1 : Stored'[c] = Unknown} OBVIOUS
<1>24. \A i \in 1 .. Len(files), c \in Cells : Holds(gs, i, c) <=> Holds(files, i, c)
  <2> SUFFICES ASSUME NEW i \in 1 .. Len(files), NEW c \in Cells
               PROVE  Holds(gs, i, c) <=> Holds(files, i, c)
    OBVIOUS
  <2>1. i \in Nat /\ i >= 1 /\ \A j \in 1 .. i : j \in 1 .. Len(files)
    BY <1>15
  <2>2. \A j \in 1 .. i : Alike(files[j], gs[j])
    BY <1>16, <2>1 DEF Rewritten
  <2>3. gs[i].size = files[i].size /\ gs[i].offset = files[i].offset
    BY <1>5, <1>14, <1>16 DEF Alike
  <2>4. Covers(gs[i], c) <=> Covers(files[i], c)
    BY <2>3 DEF Covers, End
  <2> QED BY <2>1, <2>2, <2>4, HoldsSame
<1>25. ASSUME NEW c \in Cells
       PROVE  StoredIn(gs)[c] = IF c \in lost THEN Unknown ELSE StoredIn(files)[c]
  <2>1. c \in lost <=> c \in op.off .. op.off + n - 1 /\ StoredIn(gs)[c] = Unknown
    BY <1>8, <1>23 DEF Stored
  <2>2. CASE \E i \in 1 .. Len(files) : Holds(files, i, c)
    <3>1. PICK i \in 1 .. Len(files) : Holds(files, i, c)
      BY <2>2
    <3>2. PICK k \in 1 .. i : FirstHas(files, k, c)
      BY <1>15, <3>1, SomeFirst
    <3>3. k \in 1 .. Len(files) /\ \A j \in 1 .. k - 1 : j \in 1 .. Len(files)
      BY <1>15, <3>1, <3>2
    <3>4. FirstHas(gs, k, c) /\ k \in 1 .. Len(gs)
      BY <1>16, <1>24, <3>2, <3>3 DEF FirstHas, Rewritten
    <3>5. StoredIn(gs)[c] = gs[k].data[c] /\ StoredIn(files)[c] = files[k].data[c]
      BY <1>15, <1>16, <3>2, <3>3, <3>4, FirstValue
    <3>6. CASE k = a /\ c \in op.off .. op.off + n - 1
      BY <1>13, <1>14, <1>16, <2>1, <3>5, <3>6
    <3>7. CASE ~(k = a /\ c \in op.off .. op.off + n - 1)
      <4>1. gs[k].data[c] = files[k].data[c]
        BY <1>5, <1>13, <1>14, <1>16, <3>3, <3>7
      <4> QED BY <2>1, <3>5, <4>1
    <3> QED BY <3>6, <3>7
  <2>3. CASE ~\E i \in 1 .. Len(files) : Holds(files, i, c)
    <3>1. StoredIn(files)[c] = Unknown
      BY <1>15, <2>3, NotStored
    <3>2. StoredIn(gs)[c] = Unknown
      BY <1>15, <1>16, <1>24, <2>3, NotStored DEF Rewritten
    <3> QED BY <3>1, <3>2
  <2> QED BY <2>2, <2>3
<1>26. FlatStep
  <2>1. CurrentWrite # Flat!NoWrite /\ CurrentWrite' = Flat!NoWrite /\ CurrentWrite.off = op.off /\ CurrentWrite.len = op.len
    BY <1>2, <1>20, WriteRuns, WriteOver
  <2>2. InStart' <=> InStart
    BY <1>21 DEF InStart, Begins
  <2>3. lost \in SUBSET Flat!First(CurrentWrite.len)
    BY <1>2, <1>3, <1>23, <2>1 DEF Flat!First
  <2>4. \A c \in Cells : Stored'[c] = IF c \in lost THEN Unknown ELSE Stored[c]
    BY <1>8, <1>25 DEF Stored
  <2> QED BY <2>1, <2>2, <2>3, <2>4, StepRefuse
<1> QED BY <1>22, <1>26

-----------------------------------------------------------------------------
(* A merge copies a byte, or fails to.                                     *)

LEMMA NotLoose ==
  ASSUME IInv, NEW c \in Cells, c \notin Loose, NEW i \in 1 .. Len(files)
  PROVE  /\ c \notin End(files[i]) .. files[i].offset + files[i].disk - 1
         /\ Extend /\ Mergeable(files, i) => c \notin End(files[i + 1]) .. End(files[i]) - 1
         /\ Covers(files[i], c) => (files[i].staging => files[i].dir # NoDir) /\ files[i].data[c] = Stored[c]
<1>1. i \in DOMAIN files
  BY HereFacts
<1> QED BY <1>1 DEF Loose

\* A byte that is not loose keeps its value if the files that have it have it from those that had it.
LEMMA ValueHeld ==
  ASSUME IInv, NEW gs, Shaped(gs), NEW c \in Cells, c \notin Loose,
         \A i \in 1 .. Len(gs) : Holds(gs, i, c) =>
           \E j \in 1 .. Len(files) : Covers(files[j], c) /\ gs[i].data[c] = files[j].data[c],
         (\E i \in 1 .. Len(files) : Holds(files, i, c)) => \E i \in 1 .. Len(gs) : Holds(gs, i, c)
  PROVE  StoredIn(gs)[c] = Stored[c]
<1>1. Shaped(files) /\ DOMAIN files = 1 .. Len(files)
  BY HereFacts
<1>2. PICK v : v = Stored[c] OBVIOUS
<1>3. \A i \in 1 .. Len(gs) : Holds(gs, i, c) => gs[i].data[c] = v
  BY <1>2, NotLoose
<1>4. v # Unknown => \E i \in 1 .. Len(gs) : Holds(gs, i, c)
  <2> SUFFICES ASSUME ~\E i \in 1 .. Len(gs) : Holds(gs, i, c)
               PROVE  v = Unknown
    OBVIOUS
  <2>1. \A i \in DOMAIN files : ~Holds(files, i, c)
    BY <1>1
  <2> QED BY <1>2, <2>1, NotStored DEF Stored
<1> QED BY <1>2, <1>3, <1>4, ValueIs

LEMMA PutMore ==
  ASSUME NEW f \in Files, NEW c, NEW d, NEW val
  PROVE  PutIn(f, c, d, val, Put(f, c, d, val))
<1>1. f \in Recs
  BY DEF Files
<1> QED BY <1>1 DEF Put, PutIn, Recs

LEMMA PutOnDisk ==
  ASSUME NEW f \in Files, OnDisk(f), NEW c \in Nat, NEW d \in Nat, NEW val, NEW g, g = Put(f, c, d, val),
         g.offset = f.offset
  PROVE  OnDisk(g)
<1>1. f.offset \in Nat /\ f.size \in Nat /\ f.disk \in Int
  BY FileFacts
<1>0. PutIn(f, c, d, val, g)
  BY PutMore
<1>2. g.size = Most(f.size, d - f.offset) /\ g.disk = Most(f.disk, g.size)
  BY <1>0 DEF PutIn
<1>3. g.data = [b \in Cells |-> IF b \in c .. d - 1 THEN val[b] ELSE f.data[b]]
  BY <1>0 DEF PutIn
<1>4. g.size \in Nat /\ g.size >= d - f.offset /\ g.disk \in Int /\ g.disk >= g.size /\ g.disk >= f.disk
  BY <1>1, <1>2 DEF Most
<1>5. ASSUME NEW b \in Cells, b >= g.offset + g.disk
      PROVE  g.data[b] = Unknown
  <2>1. b \in Nat
    BY Extents
  <2>2. b >= d /\ b >= f.offset + f.disk
    BY <1>1, <1>4, <1>5, <2>1
  <2>3. b \notin c .. d - 1
    BY <2>1, <2>2
  <2> QED BY <1>3, <2>2, <2>3 DEF OnDisk
<1> QED BY <1>4, <1>5 DEF OnDisk

\* Where a write will go on is as it should be when files have grown.
LEMMA WriteAtGrows ==
  ASSUME NEW fs, Shaped(fs), NEW gs, Shaped(gs), Rewritten(fs, gs),
         \A i \in 1 .. Len(fs) : End(gs[i]) >= End(fs[i]),
         NEW o, o.kind = "write" => o.at \in 1 .. Len(fs) /\ (fs[o.at].staging => fs[o.at].size = 0 /\ gs[o.at].size = 0),
         o.kind = "write" => o.off \in Nat,
         WriteAt(o, fs)
  PROVE  WriteAt(o, gs)
<1> SUFFICES ASSUME o.kind = "write", ~o.null PROVE WriteAt(o, gs)
  BY DEF WriteAt
<1>1. /\ Reals(gs) = Reals(fs) /\ \A i \in Reals(fs) : i \in 1 .. Len(fs)
      /\ \A i \in 1 .. Len(fs) : End(fs[i]) \in Nat /\ fs[i].offset \in Nat
      /\ \A i \in 1 .. Len(gs) : End(gs[i]) \in Nat /\ End(gs[i]) = gs[i].offset + gs[i].size
      /\ Len(gs) = Len(fs)
  BY RewrittenShaped, ListFacts DEF Rewritten
<1>2. \A i \in 1 .. Len(fs) : gs[i].offset = fs[i].offset /\ gs[i].staging = fs[i].staging
  BY DEF Rewritten, Alike
<1>3. PICK a : a = o.at OBVIOUS
<1>4. a \in 1 .. Len(fs) /\ o.off \in Nat /\ gs[a].offset <= o.off
  BY <1>2, <1>3 DEF WriteAt
<1>5. ~gs[a].staging => o.off <= End(gs[a])
  <2> SUFFICES ASSUME ~gs[a].staging PROVE o.off <= End(gs[a])
    OBVIOUS
  <2>1. o.off <= End(fs[a])
    BY <1>2, <1>3, <1>4 DEF WriteAt
  <2> QED BY <1>1, <1>4, <2>1
<1>6. ASSUME gs[a].staging, Neat(gs), NEW i \in Reals(gs), i < a
      PROVE  End(gs[i]) <= o.off
  <2>1. End(gs[i]) <= End(gs[a])
    BY <1>1, <1>4, <1>6 DEF Neat
  <2>2. gs[a].size = 0
    BY <1>2, <1>3, <1>4, <1>6
  <2>3. End(gs[a]) = gs[a].offset
    <3>1. a \in 1 .. Len(gs) /\ gs[a].offset = fs[a].offset /\ fs[a].offset \in Nat
      BY <1>1, <1>2, <1>4
    <3> QED BY <1>1, <2>2, <3>1
  <2> QED BY <1>1, <1>4, <2>1, <2>3
<1>7. ASSUME gs[a].staging, o.off > End(gs[a])
      PROVE  \E i \in Reals(gs) : i < a /\ o.off <= End(gs[i])
  <2>1. o.off > End(fs[a]) /\ fs[a].staging
    BY <1>1, <1>2, <1>4, <1>7
  <2>2. PICK i \in Reals(fs) : i < a /\ o.off <= End(fs[i])
    BY <1>3, <2>1 DEF WriteAt
  <2>3. o.off <= End(gs[i])
    BY <1>1, <1>4, <2>2
  <2> QED BY <1>1, <2>2, <2>3
<1> QED BY <1>3, <1>4, <1>5, <1>6, <1>7 DEF WriteAt

\* In a neat list no file before a real one has a byte of it.
LEMMA NoneBefore ==
  ASSUME NEW fs, Shaped(fs), Neat(fs), NEW a \in Reals(fs), NEW c \in Cells, fs[a].offset <= c,
         NEW i \in 1 .. Len(fs), i < a
  PROVE  ~Covers(fs[i], c)
<1>1. /\ Len(fs) \in Nat /\ a \in 1 .. Len(fs) /\ c \in Nat
      /\ \A j \in 1 .. Len(fs) : fs[j].offset \in Nat /\ End(fs[j]) \in Nat /\ fs[j].length \in Nat
                                 /\ fs[j].size \in Nat /\ End(fs[j]) = fs[j].offset + fs[j].size
      /\ \A j \in 1 .. Len(fs) : j \in Reals(fs) <=> ~fs[j].staging
  BY ListFacts, Extents
<1>2. CASE fs[i].staging
  <2>1. i + 1 \in 1 .. Len(fs) /\ i \in 1 .. Len(fs) - 1 /\ i + 1 <= a
    BY <1>1
  <2>2. End(fs[i]) <= fs[i + 1].offset
    BY <1>2, <2>1 DEF Neat
  <2>3. fs[i + 1].offset <= fs[a].offset
    BY <1>1, <2>1, Upward
  <2>4. End(fs[i]) <= c
    BY <1>1, <2>1, <2>2, <2>3
  <2> QED BY <1>1, <2>4 DEF Covers
<1>3. CASE ~fs[i].staging
  <2>1. i \in Reals(fs)
    BY <1>1, <1>3
  <2>2. fs[i].offset + fs[i].length <= fs[a].offset
    BY <2>1, Geometry
  <2>3. fs[i].size <= fs[i].length
    BY <2>1 DEF Neat
  <2>4. End(fs[i]) <= c
    BY <1>1, <2>2, <2>3, SMTT(60)
  <2> QED BY <1>1, <2>4 DEF Covers
<1> QED BY <1>2, <1>3

LEMMA StepMergeCopyRefused ==
  ASSUME IInv, FInv, MergeCopyRefused
  PROVE  FInv' /\ FlatStep
<1>1. PICK dst : dst = op.dst OBVIOUS
<1>2. PICK e : e = ChunkEnd OBVIOUS
<1>3. PICK f : f = files[dst] OBVIOUS
<1>4. PICK val : val = files[dst + 1].data OBVIOUS
<1>5. /\ dst \in 1 .. Len(files) /\ dst + 1 \in 1 .. Len(files)
      /\ op.pos \in Nat /\ op.pos = End(f) /\ op.kind = "copy"
      /\ BackFits(op.back, files) /\ f.offset \in Nat /\ f.size \in Nat
  BY <1>1, <1>3, CopyFacts DEF MergeCopyRefused, Copying
<1>6. e \in Nat /\ e <= Total /\ Total \in Nat
  BY <1>1, <1>2, ChunkFacts, Extents DEF MergeCopyRefused
<1>7. /\ Shaped(files) /\ Len(files) \in Nat /\ DOMAIN files = 1 .. Len(files) /\ f \in Files
      /\ files[dst + 1] \in Files /\ \A i \in 1 .. Len(files) : files[i] \in Files
  BY <1>3, <1>5, HereFacts
<1>8. /\ f.disk \in Int /\ -1 <= f.disk /\ f.offset + f.disk <= Total
      /\ f.data \in Bytes /\ val \in Bytes
  BY <1>4, <1>7, FileFacts DEF Bytes
<1>9. PICK d \in f.disk .. Most(f.disk, e - f.offset) :
           MergeFails(Refused([Here EXCEPT !.f[dst] =
             [f EXCEPT !.disk = d,
                       !.data = [c \in Cells |-> IF c \in op.pos .. e - 1 /\ c < f.offset + d
                                                THEN val[c] ELSE @[c]]]]))
  BY <1>1, <1>2, <1>3, <1>4 DEF MergeCopyRefused
<1> DEFINE bytes == [c \in Cells |-> IF c \in op.pos .. e - 1 /\ c < f.offset + d THEN val[c] ELSE f.data[c]]
<1>10. bytes \in Bytes
  BY <1>8 DEF Bytes
<1>11. PICK g : g = StoredAs(f, d, bytes) OBVIOUS
<1>12. PICK gs : gs = Replaced(files, dst, g) OBVIOUS
<1>13. PICK s : s = [f |-> gs, n |-> nopened, r |-> refusals - 1] OBVIOUS
<1>14. MergeFails(s)
  <2> DEFINE h == [f EXCEPT !.disk = d,
                       !.data = [c \in Cells |-> IF c \in op.pos .. e - 1 /\ c < f.offset + d
                                                THEN val[c] ELSE @[c]]]
  <2>1. h = g
    BY <1>11 DEF StoredAs
  <2>2. MergeFails(Refused([Here EXCEPT !.f[dst] = h]))
    BY <1>9
  <2> HIDE DEF h
  <2>3. PICK x : x = [Here EXCEPT !.f[dst] = h] OBVIOUS
  <2>4. x = [f |-> gs, n |-> nopened, r |-> refusals]
    BY <1>12, <2>1, <2>3 DEF Here, Replaced
  <2>5. Refused(x) = s
    BY <1>13, <2>4 DEF Refused
  <2> QED BY <2>2, <2>3, <2>5
<1>15. d \in Int /\ -1 <= d /\ d >= f.disk /\ f.offset + d <= Total
  BY <1>5, <1>6, <1>8, SMTT(60) DEF Most
<1>16. bytes = [c \in Cells |-> IF c \in op.pos .. e - 1 /\ c < f.offset + d THEN val[c] ELSE f.data[c]]
  OBVIOUS
<1> HIDE DEF bytes
<1>17. g \in Files /\ Alike(f, g) /\ g.size = f.size /\ g.disk = d /\ g.data = bytes
  BY <1>7, <1>10, <1>11, <1>15, StoredAsFacts
<1>18. /\ Rewritten(files, gs) /\ Shaped(gs) /\ gs[dst] = g /\ Len(gs) = Len(files)
       /\ \A j \in 1 .. Len(files) : j # dst => gs[j] = files[j]
  <2>1. Alike(files[dst], g) /\ gs = [files EXCEPT ![dst] = g]
    BY <1>3, <1>12, <1>17 DEF Replaced
  <2>2. /\ Rewritten(files, gs) /\ Shaped(gs) /\ gs[dst] = g
        /\ \A j \in 1 .. Len(files) : j # dst => gs[j] = files[j]
    BY <1>5, <1>7, <1>17, <2>1, ChangeOne
  <2> QED BY <2>2 DEF Rewritten
<1>19. AllOnDisk(files) /\ Placing(op, files) /\ InList(op, files)
  BY Inside DEF FInv, Placing
<1>20. OnDisk(g)
  <2>1. OnDisk(f)
    BY <1>3, <1>5, <1>19 DEF AllOnDisk
  <2>2. g.size > 0 => g.disk >= g.size
    BY <1>5, <1>8, <1>15, <1>17, <2>1 DEF OnDisk
  <2>3. ASSUME NEW c \in Cells, c >= g.offset + g.disk
        PROVE  g.data[c] = Unknown
    <3>1. g.offset = f.offset /\ c \in Nat
      BY <1>17, Extents DEF Alike
    <3>2. c >= f.offset + f.disk /\ ~(c < f.offset + d)
      BY <1>5, <1>8, <1>15, <1>17, <2>3, <3>1
    <3> QED BY <1>16, <1>17, <2>1, <3>2 DEF OnDisk
  <2> QED BY <2>2, <2>3 DEF OnDisk
<1>21. AllOnDisk(gs)
  BY <1>18, <1>19, <1>20 DEF AllOnDisk
<1>22. \A i \in 1 .. Len(files) : gs[i].size = files[i].size
  BY <1>3, <1>17, <1>18
<1>23. Placing(op, gs)
  BY <1>7, <1>18, <1>19, <1>21, <1>22, PlacingSame
<1>24. ASSUME NEW c \in Cells
       PROVE  StoredIn(gs)[c] = StoredIn(files)[c]
  <2>1. \A i \in 1 .. Len(files) : Holds(gs, i, c) <=> Holds(files, i, c)
    <3> SUFFICES ASSUME NEW i \in 1 .. Len(files)
                 PROVE  Holds(gs, i, c) <=> Holds(files, i, c)
      OBVIOUS
    <3>1. i \in Nat /\ i >= 1 /\ \A j \in 1 .. i : j \in 1 .. Len(files)
      BY <1>7
    <3>2. \A j \in 1 .. i : Alike(files[j], gs[j])
      BY <1>18, <3>1 DEF Rewritten
    <3>3. gs[i].offset = files[i].offset
      BY <1>18 DEF Rewritten, Alike
    <3>4. Covers(gs[i], c) <=> Covers(files[i], c)
      BY <1>22, <3>3 DEF Covers, End
    <3> QED BY <3>1, <3>2, <3>4, HoldsSame
  <2>2. ASSUME NEW i \in 1 .. Len(files), Holds(files, i, c)
        PROVE  gs[i].data[c] = files[i].data[c]
    <3>1. CASE i = dst
      <4>1. c < End(f) /\ c \in Nat
        BY <1>3, <2>2, <3>1, Extents DEF Holds, Covers
      <4>2. c \notin op.pos .. e - 1
        BY <1>5, <4>1 DEF End
      <4>3. bytes[c] = f.data[c]
        BY <1>16, <4>2
      <4> QED BY <1>3, <1>17, <1>18, <3>1, <4>3
    <3>2. CASE i # dst
      BY <1>18, <3>2
    <3> QED BY <3>1, <3>2
  <2> QED BY <1>7, <1>18, <2>1, <2>2, ValueKept
<1>25. s.f = gs /\ StoredIn(gs) = Stored
  BY <1>13, <1>24, StoredEqual DEF Stored
<1>26. op.kind \in {"merge", "copy"} /\ op.back.kind \in {"idle", "extend", "write"}
  BY <1>5, <1>7, BackOp
<1> QED BY <1>14, <1>23, <1>25, <1>26, StepMergeFails

LEMMA StepMergeCopy ==
  ASSUME IInv, FInv, MergeCopy
  PROVE  FInv' /\ FlatStep
<1>1. PICK dst : dst = op.dst OBVIOUS
<1>2. PICK e : e = ChunkEnd OBVIOUS
<1>3. PICK f : f = files[dst] OBVIOUS
<1>4. PICK src : src = dst + 1 OBVIOUS
<1>5. /\ CopyFits(op, files) /\ dst \in 1 .. Len(files) - 1 /\ dst \in 1 .. Len(files) /\ src \in 1 .. Len(files)
      /\ dst \in Nat /\ src # dst /\ ~files[dst].staging /\ files[src].staging
      /\ op.pos = f.offset + f.size /\ op.pos \in Nat /\ f.offset \in Nat /\ f.size \in Nat
      /\ BackFits(op.back, files) /\ op.kind = "copy"
  BY <1>1, <1>3, <1>4, CopyFacts DEF MergeCopy, Copying
<1>6. e \in Nat /\ op.pos < e /\ e <= End(files[src]) /\ e <= Total
  BY <1>1, <1>2, <1>4, ChunkFacts DEF MergeCopy
<1>7. /\ Shaped(files) /\ Len(files) \in Nat /\ DOMAIN files = 1 .. Len(files) /\ f \in Files
      /\ files[src] \in Files /\ \A i \in 1 .. Len(files) : files[i] \in Files
  BY <1>3, <1>5, HereFacts
<1>8. PICK val : val = files[src].data OBVIOUS
<1>9. PICK g : g = Put(f, op.pos, e, val) OBVIOUS
<1>10. \A b \in Cells : val[b] \in Versions \cup {Unknown}
  BY <1>7, <1>8, FileFacts
<1>11. /\ g \in Files /\ Alike(f, g) /\ g.size = Most(f.size, e - f.offset) /\ g.size \in Nat
       /\ (g.opened <=> f.opened)
  BY <1>5, <1>6, <1>7, <1>9, <1>10, PutFacts
<1>12. End(g) = e /\ End(f) = op.pos /\ g.offset = f.offset
  <2>1. g.size = e - f.offset /\ g.offset = f.offset
    BY <1>5, <1>6, <1>11 DEF Most, Alike
  <2> QED BY <1>5, <1>6, <2>1 DEF End
<1>13. g.data = [b \in Cells |-> IF b \in op.pos .. e - 1 THEN val[b] ELSE f.data[b]]
  <2>1. PutIn(f, op.pos, e, val, g)
    BY <1>7, <1>9, PutMore
  <2> QED BY <2>1 DEF PutIn
<1>14. PICK gs : gs = files' OBVIOUS
<1>15. gs = Replaced(files, dst, g)
  BY <1>1, <1>2, <1>3, <1>4, <1>8, <1>9, <1>14 DEF MergeCopy, Replaced
<1>16. /\ Rewritten(files, gs) /\ Shaped(gs) /\ gs[dst] = g /\ Len(gs) = Len(files)
       /\ \A j \in 1 .. Len(files) : j # dst => gs[j] = files[j]
  <2>1. Alike(files[dst], g) /\ gs = [files EXCEPT ![dst] = g]
    BY <1>3, <1>11, <1>15 DEF Replaced
  <2>2. /\ Rewritten(files, gs) /\ Shaped(gs) /\ gs[dst] = g
        /\ \A j \in 1 .. Len(files) : j # dst => gs[j] = files[j]
    BY <1>5, <1>7, <1>11, <2>1, ChangeOne
  <2> QED BY <2>2 DEF Rewritten
<1>17. /\ op'.kind = "copy" /\ op'.back = op.back /\ op'.dst = dst /\ op'.pos = e
  BY <1>1, <1>2, <1>5 DEF MergeCopy, CopyFits
<1>18. /\ AllOnDisk(files) /\ (Begins(op) => Sorted(files)) /\ WriteAt(op.back, files)
       /\ EmptyBack(op, files) /\ files[src].offset <= op.pos
  BY <1>1, <1>4, <1>5 DEF FInv, Placing, CopyAt, Current
<1>19. op.back.kind \in {"idle", "extend", "write"}
  BY <1>5, <1>7, BackOp
<1>20. op.back.kind = "write" => op.back.at \in 1 .. Len(files) /\ op.back.off \in Nat
  <2>1. op.back.kind = "write" => HeldFits(op.back, files)
    BY <1>5 DEF BackFits, Idle
  <2> QED BY <2>1, IOFields DEF HeldFits, IOFits
<1>21. AllOnDisk(gs)
  <2>1. OnDisk(f)
    BY <1>3, <1>5, <1>18 DEF AllOnDisk
  <2>2. OnDisk(g)
    BY <1>5, <1>6, <1>7, <1>9, <1>12, <2>1, PutOnDisk
  <2> QED BY <1>16, <1>18, <2>2 DEF AllOnDisk
<1>22. Begins(op') <=> Begins(op)
  BY <1>5, <1>17 DEF Begins
<1>23. Current(op') = op.back /\ Current(op) = op.back
  BY <1>5, <1>17 DEF Current
<1>24. WriteAt(op.back, gs) /\ EmptyBack(op', gs)
  <2>1. op.back.kind = "write" /\ files[op.back.at].staging => files[op.back.at].size = 0 /\ op.back.at # dst
    BY <1>5, <1>18, <1>20 DEF EmptyBack
  <2>2. \A i \in 1 .. Len(files) : End(gs[i]) >= End(files[i])
    <3> SUFFICES ASSUME NEW i \in 1 .. Len(files) PROVE End(gs[i]) >= End(files[i])
      OBVIOUS
    <3>1. End(files[i]) \in Nat
      BY <1>7, ListFacts
    <3>2. CASE i = dst
      BY <1>3, <1>5, <1>6, <1>12, <1>16, <3>2
    <3>3. CASE i # dst
      BY <1>16, <3>1, <3>3
    <3> QED BY <3>2, <3>3
  <2>3. op.back.kind = "write" /\ files[op.back.at].staging => gs[op.back.at].size = 0
    BY <1>16, <1>20, <2>1
  <2>4. WriteAt(op.back, gs)
    BY <1>7, <1>16, <1>18, <1>20, <2>1, <2>2, <2>3, WriteAtGrows
  <2>5. EmptyBack(op', gs)
    <3>1. op.back.kind = "write" => gs[op.back.at].staging = files[op.back.at].staging
      BY <1>16, <1>20 DEF Rewritten, Alike
    <3> QED BY <1>17, <2>3, <3>1 DEF EmptyBack
  <2> QED BY <2>4, <2>5
<1>25. CopyAt(op', gs)
  <2>1. gs[op'.dst + 1] = files[src]
    BY <1>4, <1>5, <1>16, <1>17
  <2>2. files[src].offset <= e
    <3>1. files[src].offset \in Nat
      BY <1>5, <1>7, ListFacts
    <3> QED BY <1>5, <1>6, <1>18, <3>1
  <2> QED BY <1>17, <2>1, <2>2 DEF CopyAt
<1>26. Placing(op', gs)
  <2>1. Begins(op') => Sorted(gs)
    BY <1>16, <1>18, <1>22, SortedSame
  <2> QED BY <1>21, <1>23, <1>24, <1>25, <2>1 DEF Placing
<1>27. WritePart(Current(op')) = WritePart(Current(op))
  BY <1>23
<1>28. \A i \in 1 .. Len(files), c \in Cells :
         i # dst => (Holds(gs, i, c) <=> Holds(files, i, c)) /\ gs[i].data[c] = files[i].data[c]
                    /\ (Covers(gs[i], c) <=> Covers(files[i], c))
  <2> SUFFICES ASSUME NEW i \in 1 .. Len(files), NEW c \in Cells, i # dst
               PROVE  (Holds(gs, i, c) <=> Holds(files, i, c)) /\ gs[i].data[c] = files[i].data[c]
                      /\ (Covers(gs[i], c) <=> Covers(files[i], c))
    OBVIOUS
  <2>1. gs[i] = files[i]
    BY <1>16
  <2>2. i \in Nat /\ i >= 1 /\ \A j \in 1 .. i : j \in 1 .. Len(files)
    BY <1>7
  <2>3. \A j \in 1 .. i : Alike(files[j], gs[j])
    BY <1>16, <2>2 DEF Rewritten
  <2> QED BY <2>1, <2>2, <2>3, HoldsSame
<1>29. ~gs[dst].staging
  BY <1>5, <1>16 DEF Rewritten, Alike
<1>30. ASSUME NEW c \in Cells, c \in op.pos .. e - 1
       PROVE  /\ Covers(files[src], c) /\ Holds(gs, dst, c) /\ gs[dst].data[c] = files[src].data[c]
              /\ ~Covers(files[dst], c)
  <2>1. c \in Nat /\ files[src].offset \in Nat /\ End(files[src]) \in Nat
    BY <1>5, <1>7, Extents, ListFacts
  <2>2. Covers(files[src], c)
    BY <1>5, <1>6, <1>18, <1>30, <2>1, SMTT(60) DEF Covers
  <2>3. Holds(gs, dst, c)
    <3>1. Covers(gs[dst], c)
      BY <1>5, <1>6, <1>12, <1>16, <1>30, <2>1 DEF Covers
    <3> QED BY <1>29, <3>1 DEF Holds
  <2>4. gs[dst].data[c] = files[src].data[c]
    BY <1>8, <1>13, <1>16, <1>30
  <2>5. ~Covers(files[dst], c)
    BY <1>3, <1>12, <1>30, <1>5, <1>6, <2>1 DEF Covers
  <2> QED BY <2>2, <2>3, <2>4, <2>5
<1>31. ASSUME NEW c \in Cells, c \notin op.pos .. e - 1
       PROVE  StoredIn(gs)[c] = StoredIn(files)[c]
  <2>1. c \in Nat
    BY Extents
  <2>2. Covers(gs[dst], c) <=> Covers(files[dst], c)
    BY <1>3, <1>5, <1>6, <1>12, <1>16, <1>31, <2>1 DEF Covers
  <2>3. Holds(gs, dst, c) <=> Holds(files, dst, c)
    BY <1>5, <1>29, <2>2 DEF Holds
  <2>4. gs[dst].data[c] = files[dst].data[c]
    BY <1>3, <1>13, <1>16, <1>31
  <2>5. \A i \in 1 .. Len(files) : Holds(gs, i, c) <=> Holds(files, i, c)
    BY <1>28, <2>3
  <2>6. \A i \in 1 .. Len(files) : gs[i].data[c] = files[i].data[c]
    BY <1>28, <2>4
  <2> QED BY <1>7, <1>16, <2>5, <2>6, ValueKept
<1>32. CASE Neat(files)
  <2>1. ASSUME NEW c \in Cells
        PROVE  StoredIn(gs)[c] = StoredIn(files)[c]
    <3>1. CASE c \in op.pos .. e - 1
      <4>1. /\ Covers(files[src], c) /\ Holds(gs, dst, c) /\ gs[dst].data[c] = files[src].data[c]
            /\ ~Covers(files[dst], c)
        BY <1>30, <3>1
      <4>2. \A i \in 1 .. Len(files) : i < dst => ~Holds(files, i, c)
        <5>1. dst \in Reals(files) /\ files[dst].offset <= c
          <6>1. c \in Nat /\ c >= op.pos
            BY <1>5, <3>1, Extents
          <6> QED BY <1>3, <1>5, <1>7, <6>1, ListFacts, SMTT(60)
        <5>2. \A i \in 1 .. Len(files) : i < dst => ~Covers(files[i], c)
          BY <1>7, <1>32, <5>1, NoneBefore
        <5> QED BY <5>2 DEF Holds
      <4>3. FirstHas(gs, dst, c)
        <5>1. \A i \in 1 .. dst - 1 : i \in 1 .. Len(files) /\ i < dst /\ i # dst
          BY <1>5, <1>7
        <5>2. \A i \in 1 .. dst - 1 : ~Holds(gs, i, c)
          BY <1>28, <4>2, <5>1
        <5> QED BY <4>1, <5>2 DEF FirstHas
      <4>4. FirstHas(files, src, c)
        <5>1. Holds(files, src, c)
          BY <1>5, <1>7, <1>32, <4>1, CoversHolds
        <5>2. ~Holds(files, dst, c)
          BY <4>1 DEF Holds
        <5>3. \A i \in 1 .. src - 1 : i \in 1 .. Len(files) /\ (i < dst \/ i = dst)
          BY <1>4, <1>5, <1>7
        <5>4. \A i \in 1 .. src - 1 : ~Holds(files, i, c)
          BY <4>2, <5>2, <5>3
        <5> QED BY <5>1, <5>4 DEF FirstHas
      <4>5. StoredIn(gs)[c] = gs[dst].data[c]
        BY <1>5, <1>16, <4>3, FirstValue
      <4>6. StoredIn(files)[c] = files[src].data[c]
        BY <1>5, <1>7, <4>4, FirstValue
      <4> QED BY <4>1, <4>5, <4>6
    <3>2. CASE c \notin op.pos .. e - 1
      BY <1>31, <3>2
    <3> QED BY <3>1, <3>2
  <2>2. Stored' = Stored
    BY <1>14, <2>1, StoredEqual DEF Stored
  <2> QED BY <1>14, <1>22, <1>26, <1>27, <2>2, Stutter DEF FInv
<1>33. CASE ~Neat(files)
  <2>1. Tangled
    BY <1>33, NeatIs
  <2>2. ASSUME NEW c \in Cells, c \notin Loose
        PROVE  StoredIn(gs)[c] = Stored[c]
    <3>1. CASE c \in op.pos .. e - 1
      <4>1. Covers(files[src], c) /\ Holds(gs, dst, c) /\ gs[dst].data[c] = files[src].data[c]
        BY <1>30, <3>1
      <4>2. \A i \in 1 .. Len(gs) : Holds(gs, i, c) =>
              \E j \in 1 .. Len(files) : Covers(files[j], c) /\ gs[i].data[c] = files[j].data[c]
        <5> SUFFICES ASSUME NEW i \in 1 .. Len(gs), Holds(gs, i, c)
                     PROVE  \E j \in 1 .. Len(files) : Covers(files[j], c) /\ gs[i].data[c] = files[j].data[c]
          OBVIOUS
        <5>1. CASE i = dst
          BY <1>5, <4>1, <5>1
        <5>2. CASE i # dst
          <6>1. i \in 1 .. Len(files) /\ Covers(gs[i], c)
            BY <1>16 DEF Holds
          <6> QED BY <1>28, <5>2, <6>1
        <5> QED BY <5>1, <5>2
      <4>3. \E i \in 1 .. Len(gs) : Holds(gs, i, c)
        BY <1>5, <1>16, <4>1
      <4> QED BY <1>16, <2>2, <4>2, <4>3, ValueHeld
    <3>2. CASE c \notin op.pos .. e - 1
      BY <1>31, <3>2 DEF Stored
    <3> QED BY <3>1, <3>2
  <2>3. \A c \in Cells : c \notin Loose => Stored'[c] = Stored[c]
    BY <1>14, <2>2 DEF Stored
  <2>4. CurrentWrite' = CurrentWrite
    BY <1>27, CurrentIs DEF CurrentWrite, WritePart, Current
  <2>5. InStart' <=> InStart
    BY <1>22 DEF InStart, Begins
  <2> QED BY <1>14, <1>26, <2>1, <2>3, <2>4, <2>5, StepSettle DEF FInv
<1> QED BY <1>32, <1>33

-----------------------------------------------------------------------------
(* A merge takes the staging file out of the list.                         *)

LEMMA MovedIs ==
  ASSUME NEW o \in IOs, o.kind = "write", NEW m \in Nat, o.at # m, NEW b, b = Moved(o, m)
  PROVE  /\ b.kind = "write" /\ b.off = o.off /\ b.len = o.len /\ b.v = o.v /\ (b.null <=> o.null)
         /\ b.at = IF o.at > m THEN o.at - 1 ELSE o.at
<1>1. o.at \in Nat
  BY IOFields
<1>2. CASE o.at > m
  <2>1. b = [o EXCEPT !.at = o.at - 1]
    BY <1>1, <1>2 DEF Moved
  <2> QED BY <1>2, <2>1 DEF IOs
<1>3. CASE ~(o.at > m)
  <2>1. b = o
    BY <1>1, <1>3 DEF Moved
  <2> QED BY <1>3, <2>1
<1> QED BY <1>2, <1>3

LEMMA RemovedIs ==
  ASSUME NEW fs, Shaped(fs), NEW k \in 1 .. Len(fs) - 1, fs[k + 1].staging,
         NEW gs, gs = RemoveAt(fs, k + 1)
  PROVE  Removed(fs, k, gs)
<1>1. PICK m : m = k + 1 OBVIOUS
<1>2. Without(fs, m, gs)
  BY <1>1, Taken
<1>3. Len(fs) \in Nat /\ k \in Nat /\ m \in Nat /\ m - 1 = k
  BY <1>1, ListFacts
<1>4. /\ Shaped(gs) /\ Len(gs) = Len(fs) - 1
      /\ \A j \in 1 .. k : gs[j] = fs[j]
      /\ \A j \in m .. Len(fs) - 1 : gs[j] = fs[j + 1]
  BY <1>2, <1>3 DEF Without
<1>5. ASSUME NEW i \in Reals(fs)
      PROVE  (i <= k /\ i \in Reals(gs)) \/ (i > k + 1 /\ i - 1 \in Reals(gs))
  <2>1. i \in 1 .. Len(fs) /\ ~fs[i].staging /\ i # m
    BY <1>1, ListFacts
  <2>2. CASE i <= k
    <3>1. i \in 1 .. k /\ i \in 1 .. Len(gs)
      BY <1>3, <1>4, <2>1, <2>2
    <3>2. gs[i] = fs[i]
      BY <1>4, <3>1
    <3>3. i \in Reals(gs)
      BY <1>4, <2>1, <3>1, <3>2, ListFacts
    <3> QED BY <2>2, <3>3
  <2>3. CASE i > k
    <3> DEFINE h == i - 1
    <3>1. h \in m .. Len(fs) - 1 /\ h \in 1 .. Len(gs) /\ h + 1 = i /\ i > k + 1
      BY <1>1, <1>3, <1>4, <2>1, <2>3
    <3>2. gs[h] = fs[i]
      BY <1>4, <3>1
    <3>3. h \in Reals(gs)
      BY <1>4, <2>1, <3>1, <3>2, ListFacts
    <3> QED BY <3>1, <3>3
  <2> QED BY <1>3, <2>1, <2>2, <2>3
<1> QED BY <1>1, <1>4, <1>5 DEF Removed

\* A staging file that goes leaves a write that was interrupted where it was.
LEMMA RemovedWrite ==
  ASSUME NEW fs, Shaped(fs), NEW k \in 1 .. Len(fs) - 1, NEW m, m = k + 1, fs[m].staging,
         NEW gs, gs = RemoveAt(fs, m), NEW o \in IOs, o.kind = "write", o.at \in 1 .. Len(fs), o.at # m,
         WriteAt(o, fs), fs[o.at].staging => fs[o.at].size = 0, NEW b, b = Moved(o, m)
  PROVE  WriteAt(b, gs)
<1>1. /\ Shaped(gs) /\ Len(gs) = Len(fs) - 1
      /\ \A j \in 1 .. k : gs[j] = fs[j]
      /\ \A j \in k + 1 .. Len(fs) - 1 : gs[j] = fs[j + 1]
      /\ \A i \in Reals(fs) : (i <= k /\ i \in Reals(gs)) \/ (i > k + 1 /\ i - 1 \in Reals(gs))
  <2>1. fs[k + 1].staging /\ gs = RemoveAt(fs, k + 1)
    OBVIOUS
  <2>2. Removed(fs, k, gs)
    BY <2>1, RemovedIs
  <2> QED BY <2>2 DEF Removed
<1>2. Len(fs) \in Nat /\ k \in Nat /\ m \in Nat /\ o.off \in Nat
  BY ListFacts, IOFields
<1>3. /\ b.kind = "write" /\ b.off = o.off /\ (b.null <=> o.null)
      /\ b.at = IF o.at > m THEN o.at - 1 ELSE o.at
  BY <1>2, MovedIs
<1> SUFFICES ASSUME ~o.null PROVE WriteAt(b, gs)
  BY <1>3 DEF WriteAt
<1>4. PICK a : a = b.at OBVIOUS
<1>5. a \in 1 .. Len(gs) /\ gs[a] = fs[o.at]
  <2>1. CASE o.at > m
    <3>1. a = o.at - 1 /\ a \in k + 1 .. Len(fs) - 1 /\ a + 1 = o.at
      BY <1>2, <1>3, <1>4, <2>1
    <3>2. gs[a] = fs[a + 1]
      BY <1>1, <3>1
    <3>3. a \in 1 .. Len(gs)
      BY <1>1, <1>2, <3>1
    <3> QED BY <3>1, <3>2, <3>3
  <2>2. CASE ~(o.at > m)
    <3>1. a = o.at /\ a \in 1 .. k /\ a \in 1 .. Len(gs)
      BY <1>1, <1>2, <1>3, <1>4, <2>2
    <3> QED BY <1>1, <3>1
  <2> QED BY <2>1, <2>2
<1>6. /\ \A i \in 1 .. Len(gs) : End(gs[i]) \in Nat /\ End(gs[i]) = gs[i].offset + gs[i].size /\ gs[i].offset \in Nat
      /\ \A i \in Reals(gs) : i \in 1 .. Len(gs)
      /\ \A i \in Reals(fs) : i \in 1 .. Len(fs)
  BY <1>1, ListFacts, SMTT(60)
<1>7. gs[a].offset <= o.off /\ (~gs[a].staging => o.off <= End(gs[a]))
  BY <1>5 DEF WriteAt
<1>8. ASSUME gs[a].staging, Neat(gs), NEW i \in Reals(gs), i < a
      PROVE  End(gs[i]) <= o.off
  <2>1. End(gs[i]) <= End(gs[a])
    BY <1>5, <1>8 DEF Neat
  <2>2. gs[a].size = 0
    BY <1>5, <1>8
  <2>3. End(gs[a]) = gs[a].offset
    BY <1>5, <1>6, <2>2
  <2> QED BY <1>2, <1>5, <1>6, <1>7, <2>1, <2>3
<1>9. ASSUME gs[a].staging, o.off > End(gs[a])
      PROVE  \E i \in Reals(gs) : i < a /\ o.off <= End(gs[i])
  <2>1. PICK i \in Reals(fs) : i < o.at /\ o.off <= End(fs[i])
    BY <1>5, <1>9 DEF WriteAt
  <2>2. CASE i <= k /\ i \in Reals(gs)
    <3>1. i \in 1 .. k /\ i < a
      BY <1>2, <1>3, <1>4, <1>6, <2>1, <2>2
    <3>2. gs[i] = fs[i]
      BY <1>1, <3>1
    <3> QED BY <2>1, <2>2, <3>1, <3>2
  <2>3. CASE i > k + 1 /\ i - 1 \in Reals(gs)
    <3> DEFINE h == i - 1
    <3>1. h \in k + 1 .. Len(fs) - 1 /\ h < a /\ h + 1 = i
      BY <1>2, <1>3, <1>4, <1>6, <2>1, <2>3, SMTT(60)
    <3>2. gs[h] = fs[i]
      BY <1>1, <3>1
    <3>3. h \in Reals(gs)
      BY <2>3
    <3> HIDE DEF h
    <3> QED BY <2>1, <3>1, <3>2, <3>3
  <2> QED BY <1>1, <2>2, <2>3
<1> QED BY <1>3, <1>4, <1>5, <1>7, <1>8, <1>9 DEF WriteAt

LEMMA RemovedList ==
  ASSUME NEW fs, Shaped(fs), NEW k \in 1 .. Len(fs) - 1, NEW m, m = k + 1, fs[m].staging,
         NEW gs, gs = RemoveAt(fs, m)
  PROVE  (AllOnDisk(fs) => AllOnDisk(gs)) /\ (Sorted(fs) => Sorted(gs))
<1>1. /\ Shaped(gs) /\ Len(gs) = Len(fs) - 1
      /\ \A j \in 1 .. k : gs[j] = fs[j]
      /\ \A j \in k + 1 .. Len(fs) - 1 : gs[j] = fs[j + 1]
  <2>1. fs[k + 1].staging /\ gs = RemoveAt(fs, k + 1)
    OBVIOUS
  <2>2. Removed(fs, k, gs)
    BY <2>1, RemovedIs
  <2> QED BY <2>2 DEF Removed
<1>2. Len(fs) \in Nat /\ k \in Nat
  BY ListFacts
<1> DEFINE at(i) == IF i <= k THEN i ELSE i + 1
<1>3. \A i \in 1 .. Len(gs) : at(i) \in 1 .. Len(fs) /\ gs[i] = fs[at(i)]
  BY <1>1, <1>2
<1>4. \A i, j \in 1 .. Len(gs) : i < j => at(i) < at(j)
  BY <1>1, <1>2
<1> HIDE DEF at
<1>5. AllOnDisk(fs) => AllOnDisk(gs)
  BY <1>3 DEF AllOnDisk
<1>6. Sorted(fs) => Sorted(gs)
  BY <1>3, <1>4, SMTT(60) DEF Sorted
<1> QED BY <1>5, <1>6

LEMMA SpareHeld ==
  ASSUME NEW fs, Shaped(fs), NEW k \in 1 .. Len(fs) - 1, ~fs[k].staging, fs[k + 1].staging, Spare(fs, k),
         NEW c \in Cells, Holds(fs, k + 1, c)
  PROVE  Holds(fs, k, c)
<1>1. PICK m : m = k + 1 OBVIOUS
<1>2. /\ Len(fs) \in Nat /\ k \in Nat /\ m \in 1 .. Len(fs) /\ k \in 1 .. Len(fs) /\ k \in Reals(fs) /\ c \in Nat
      /\ \A i \in 1 .. Len(fs) : fs[i].offset \in Nat /\ fs[i].size \in Nat /\ fs[i].length \in Nat
                                 /\ End(fs[i]) = fs[i].offset + fs[i].size
      /\ \A i \in 1 .. Len(fs) : i \in Reals(fs) <=> ~fs[i].staging
  <2>1. Len(fs) \in Nat /\ c \in Nat
    BY ListFacts, Extents
  <2>2. k \in Nat /\ m \in 1 .. Len(fs) /\ k \in 1 .. Len(fs)
    BY <1>1, <2>1
  <2> QED BY <2>1, <2>2, ListFacts
<1>3. fs[k].offset <= fs[m].offset
  <2>1. Ordered(fs) /\ m \in DOMAIN fs /\ k < m
    BY <1>1, <1>2, ListFacts DEF Shaped
  <2> QED BY <1>2, <2>1 DEF Ordered
<1>6. End(fs[m]) \in Nat /\ End(fs[k]) \in Nat /\ fs[k].offset \in Nat
  <2>1. \A i \in 1 .. Len(fs) : End(fs[i]) \in Nat /\ fs[i].offset \in Nat
    BY ListFacts
  <2> QED BY <1>2, <2>1
<1>4. fs[m].offset <= c /\ c < End(fs[m])
  BY <1>1 DEF Holds, Covers
<1>5. c < End(fs[k])
  <2>1. CASE End(fs[m]) <= End(fs[k])
    BY <1>2, <1>4, <1>6, <2>1
  <2>2. CASE fs[k].size = fs[k].length
    <3>1. fs[m].staging /\ m - 1 = k
      BY <1>1, <1>2
    <3>2. PICK j \in 1 .. k : ~fs[j].staging /\ c < fs[j].offset + fs[j].length
      BY <1>1, <3>1, HoldsIs
    <3>3. j \in 1 .. Len(fs) /\ j \in Reals(fs)
      BY <1>2, <3>2
    <3>4. CASE j = k
      BY <1>2, <2>2, <3>2, <3>4
    <3>5. CASE j < k
      <4>1. fs[j].offset + fs[j].length <= fs[k].offset
        BY <1>2, <3>3, <3>5, Geometry
      <4>2. fs[j].offset + fs[j].length \in Nat /\ End(fs[k]) >= fs[k].offset
        <5>1. fs[j].offset \in Nat /\ fs[j].length \in Nat
          BY <1>2, <3>3
        <5>2. End(fs[k]) = fs[k].offset + fs[k].size /\ fs[k].size \in Nat
          BY <1>2
        <5>3. fs[j].offset + fs[j].length \in Nat
          BY <5>1
        <5>4. End(fs[k]) >= fs[k].offset
          BY <1>6, <5>2
        <5> QED BY <5>3, <5>4
      <4> QED BY <1>2, <1>6, <3>2, <4>1, <4>2
    <3> QED BY <1>2, <3>4, <3>5
  <2> QED BY <1>1, <2>1, <2>2 DEF Spare
<1> QED BY <1>2, <1>3, <1>4, <1>5 DEF Holds, Covers

LEMMA RemovedValue ==
  ASSUME NEW fs, Shaped(fs), NEW k \in 1 .. Len(fs) - 1, NEW m, m = k + 1, fs[m].staging, NEW gs, Removed(fs, k, gs),
         NEW c \in Cells, Holds(fs, m, c) => Holds(fs, k, c)
  PROVE  StoredIn(gs)[c] = StoredIn(fs)[c]
<1>1. Len(fs) \in Nat /\ k \in Nat /\ m - 1 = k
  BY ListFacts
<1>2. m \in 1 .. Len(fs)
  BY <1>1
<1>3. Shaped(gs)
  BY DEF Removed
<1>4. Len(gs) = Len(fs) - 1
  BY DEF Removed
<1>5. \A j \in 1 .. m - 1 : gs[j] = fs[j]
  BY <1>1 DEF Removed
<1>6. \A j \in m .. Len(fs) - 1 : gs[j] = fs[j + 1]
  BY <1>1 DEF Removed
<1>7. Holds(fs, m, c) => \E i \in 1 .. m - 1 : Holds(fs, i, c)
  BY <1>1
<1> QED BY <1>2, <1>3, <1>4, <1>5, <1>6, <1>7, ValueShift, SMTT(60)

LEMMA StepDelete ==
  ASSUME IInv, FInv, op.kind \in {"merge", "copy"}, op.all \in BOOLEAN,
         NEW dst \in 1 .. Len(files) - 1, ~files[dst].staging, files[dst + 1].staging, Spare(files, dst),
         BackFits(op.back, files), op.back.kind = "write" => ~op.all /\ op.back.at # dst + 1,
         NEW s, Opens(Here, s), Delete(dst, s)
  PROVE  FInv' /\ FlatStep
<1>1. PICK m : m = dst + 1 OBVIOUS
<1>2. /\ Good(Here) /\ Here.f = files /\ Shaped(files) /\ Len(files) \in Nat /\ DOMAIN files = 1 .. Len(files)
      /\ dst \in Nat /\ m \in 1 .. Len(files) /\ m \in Nat /\ dst \in 1 .. Len(files)
  BY <1>1, HereFacts
<1>3. PICK t : t = Close(s, m) OBVIOUS
<1>4. Opens(Here, t)
  <2>1. Good(s) /\ Len(s.f) = Len(files)
    BY <1>2 DEF Opens, Rewritten
  <2>2. Opens(s, t)
    BY <1>2, <1>3, <2>1, CloseFacts
  <2> QED BY <1>2, <2>2, OpensTransitive
<1>5. PICK fs : fs = t.f OBVIOUS
<1>6. Good(t) /\ Shaped(fs) /\ Len(fs) = Len(files) /\ \A i \in 1 .. Len(files) : Same(files[i], fs[i])
  BY <1>2, <1>4, <1>5 DEF Opens, Rewritten, Good
<1>7. ~fs[dst].staging /\ fs[m].staging /\ dst \in 1 .. Len(fs) - 1
  BY <1>1, <1>2, <1>6 DEF Same, Alike
<1>8. Placing(op, fs) /\ StoredIn(fs) = Stored
  BY <1>4, <1>5, Inside, PlacingOpens DEF FInv
<1>9. PICK gs : gs = RemoveAt(fs, m) OBVIOUS
<1>10. files' = gs
  <2>1. SetTo([Close(s, dst + 1) EXCEPT !.f = RemoveAt(@, dst + 1)])
    BY DEF Delete
  <2>2. Close(s, dst + 1) = t /\ t \in States
    BY <1>1, <1>3, <1>6 DEF Good
  <2>3. PICK u : u = [t EXCEPT !.f = RemoveAt(@, dst + 1)] OBVIOUS
  <2>4. u.f = gs
    BY <1>1, <1>5, <1>9, <2>2, <2>3 DEF States
  <2>5. SetTo(u)
    BY <2>1, <2>2, <2>3
  <2> QED BY <2>4, <2>5 DEF SetTo
<1>11. Removed(fs, dst, gs)
  <2>1. gs = RemoveAt(fs, dst + 1) /\ fs[dst + 1].staging
    BY <1>1, <1>7, <1>9
  <2> QED BY <1>6, <1>7, <2>1, RemovedIs
<1>12. ASSUME NEW c \in Cells
       PROVE  StoredIn(gs)[c] = StoredIn(fs)[c]
  <2>1. Holds(fs, m, c) => Holds(fs, dst, c)
    <3> SUFFICES ASSUME Holds(fs, m, c) PROVE Holds(fs, dst, c)
      OBVIOUS
    <3>1. Spare(fs, dst)
      <4>1. End(fs[dst]) = End(files[dst]) /\ End(fs[dst + 1]) = End(files[dst + 1])
            /\ fs[dst].size = files[dst].size /\ fs[dst].length = files[dst].length
        BY <1>1, <1>2, <1>6 DEF Same, Alike, End
      <4> QED BY <4>1 DEF Spare
    <3>2. Holds(fs, dst + 1, c) /\ fs[dst + 1].staging
      BY <1>1, <1>7
    <3> QED BY <1>6, <1>7, <3>1, <3>2, SpareHeld
  <2> QED BY <1>1, <1>6, <1>7, <1>11, <2>1, RemovedValue
<1>13. Stored' = Stored
  BY <1>8, <1>10, <1>12, StoredEqual DEF Stored
<1>14. (AllOnDisk(fs) => AllOnDisk(gs)) /\ (Sorted(fs) => Sorted(gs))
  BY <1>1, <1>6, <1>7, <1>9, RemovedList
<1>15. PICK b : b = Moved(op.back, m) OBVIOUS
<1>16. op' = IF op.all THEN [MergeOp(TRUE, b) EXCEPT !.merged = TRUE] ELSE b
  BY <1>1, <1>15 DEF Delete, Resume, Moved
<1>17. AllOnDisk(gs) /\ (Begins(op) => Sorted(gs))
  BY <1>8, <1>14 DEF Placing
<1>18. CASE op.back.kind = "write"
  <2>1. HeldFits(op.back, files)
    BY <1>18 DEF BackFits, Idle
  <2>2. op.back \in IOs /\ op.back.at \in 1 .. Len(fs) /\ op.back.at # m
    BY <1>1, <1>6, <1>18, <2>1 DEF HeldFits, IOFits
  <2>3. WriteAt(op.back, fs) /\ (fs[op.back.at].staging => fs[op.back.at].size = 0)
    BY <1>8, <1>18 DEF Placing, Current, EmptyBack
  <2>4. WriteAt(b, gs)
    BY <1>1, <1>6, <1>7, <1>9, <1>15, <1>18, <2>2, <2>3, RemovedWrite
  <2>5. b.kind = "write" /\ b.off = op.back.off /\ b.len = op.back.len /\ b.v = op.back.v
    BY <1>2, <1>15, <1>18, <2>2, MovedIs
  <2>6. op' = b
    BY <1>16, <1>18
  <2>7. Current(op') = b /\ Current(op) = op.back /\ ~Begins(op') /\ ~Begins(op)
    BY <1>18, <2>5, <2>6 DEF Current, Begins
  <2>8. EmptyBack(op', gs) /\ CopyAt(op', gs)
    BY <2>5, <2>6 DEF EmptyBack, CopyAt
  <2>9. Placing(op', gs)
    BY <1>17, <2>4, <2>7, <2>8 DEF Placing
  <2>10. WritePart(Current(op')) = WritePart(Current(op))
    BY <1>18, <2>5, <2>7 DEF WritePart
  <2> QED BY <1>10, <1>13, <2>7, <2>9, <2>10, Stutter DEF FInv
<1>19. CASE op.back.kind # "write"
  <2>1. b = op.back
    BY <1>15, <1>19 DEF Moved
  <2>2. b.kind \in {"idle", "extend"}
    BY <1>2, <1>19, <2>1, BackOp
  <2>3. CASE op.all
    <3>1. op'.kind = "merge" /\ op'.back = b
      BY <1>16, <2>3 DEF MergeOp
    <3>2. b.kind = "extend" => Sorted(gs)
      BY <1>17, <2>1 DEF Begins
    <3>3. Placing(op', gs)
      BY <1>17, <2>2, <3>1, <3>2, NewMerge
    <3>4. Current(op') = Current(op) /\ (Begins(op') <=> Begins(op))
      BY <2>1, <3>1 DEF Current, Begins
    <3> QED BY <1>10, <1>13, <3>3, <3>4, Stutter DEF FInv
  <2>4. CASE ~op.all
    <3>1. op' = op.back
      BY <1>16, <2>1, <2>4
    <3>2. Begins(op') <=> Begins(op)
      BY <2>1, <2>2, <3>1 DEF Begins
    <3>3. Current(op') = Current(op)
      BY <2>1, <2>2, <3>1 DEF Current
    <3>4. Placing(op', gs)
      BY <1>17, <2>1, <2>2, <3>1, <3>2, PlacingOther
    <3> QED BY <1>10, <1>13, <3>2, <3>3, <3>4, Stutter DEF FInv
  <2> QED BY <2>3, <2>4
<1> QED BY <1>18, <1>19

LEMMA StepMergePresent ==
  ASSUME IInv, FInv, MergePresent
  PROVE  FInv' /\ FlatStep
<1>1. PICK dst : dst = Min(Candidates) OBVIOUS
<1>2. /\ dst \in 1 .. Len(files) - 1 /\ ~files[dst].staging /\ files[dst + 1].staging /\ MergeFits(op, files)
      /\ op.back.kind = "write" => op.back.at # dst + 1
  BY <1>1, CandidateFacts DEF MergePresent
<1>3. Delete(dst, Here) /\ Spare(files, dst)
  BY <1>1 DEF MergePresent, Spare
<1>4. Opens(Here, Here)
  BY HereFacts, OpensItself
<1>5. /\ op.kind = "merge" /\ op.all \in BOOLEAN /\ BackFits(op.back, files)
      /\ op.back.kind = "write" => ~op.all
  BY <1>2 DEF MergeFits
<1> QED BY <1>2, <1>3, <1>4, <1>5, StepDelete

LEMMA StepMergeDone ==
  ASSUME IInv, FInv, MergeDone
  PROVE  FInv' /\ FlatStep
<1>1. PICK dst : dst = op.dst OBVIOUS
<1>2. /\ CopyFits(op, files) /\ dst \in 1 .. Len(files) - 1 /\ dst \in 1 .. Len(files)
      /\ ~files[dst].staging /\ files[dst + 1].staging /\ op.pos = End(files[dst]) /\ op.kind = "copy"
      /\ BackFits(op.back, files) /\ op.back.kind = "write" => op.back.at # dst + 1 /\ ~op.all
      /\ End(files[dst]) \in Nat
  BY <1>1, CopyFacts DEF MergeDone, Copying
<1>3. PICK s : s = IF files[dst].size = files[dst].length THEN Close(Here, dst) ELSE Here OBVIOUS
<1>4. Delete(dst, s)
  BY <1>1, <1>3 DEF MergeDone
<1>5. Opens(Here, s)
  <2>1. Good(Here) /\ Here.f = files
    BY HereFacts
  <2>2. CASE files[dst].size = files[dst].length
    <3>1. s = Close(Here, dst) /\ dst \in 1 .. Len(Here.f)
      BY <1>2, <1>3, <2>1, <2>2
    <3> HIDE DEF Here
    <3> QED BY <2>1, <3>1, CloseFacts
  <2>3. CASE files[dst].size # files[dst].length
    BY <1>3, <2>1, <2>3, OpensItself
  <2> QED BY <2>2, <2>3
<1>6. Spare(files, dst)
  <2>1. op.pos = End(files[dst + 1]) \/ files[dst].size = files[dst].length
    BY <1>1 DEF MergeDone, Copied
  <2>2. End(files[dst + 1]) = End(files[dst]) => End(files[dst + 1]) <= End(files[dst])
    BY <1>2
  <2> QED BY <1>2, <2>1, <2>2 DEF Spare
<1>7. op.all \in BOOLEAN /\ BackFits(op.back, files) /\ (op.back.kind = "write" => ~op.all /\ op.back.at # dst + 1)
  BY <1>1, CopyFacts DEF MergeDone, CopyFits
<1> QED BY <1>2, <1>4, <1>5, <1>6, <1>7, StepDelete

-----------------------------------------------------------------------------
(* A write reaches one file, and goes on to the next.                      *)

LEMMA WroteIs ==
  ASSUME IInv, FInv, WriteFile
  PROVE  \E n, fs : n = WriteLength(files, op.at) /\ Wrote(n, fs)
<1>1. PICK n : n = WriteLength(files, op.at) OBVIOUS
<1>2. /\ op.kind = "write" /\ op \in IOs /\ ~op.null /\ op.at \in 1 .. Len(files)
      /\ op.off \in Nat /\ op.len \in Nat /\ op.off + op.len <= Total /\ Total \in Nat
      /\ files[op.at] \in Files /\ op.v \in Versions \cup {Unknown}
  BY InStep, IOFields DEF WriteFile, Writing
<1>3. n \in 0 .. op.len /\ n \in Nat
  BY <1>1, WriteLengthFacts DEF WriteFile
<1>4. Good(Here) /\ Here.f = files /\ Here = [f |-> files, n |-> nopened, r |-> refusals]
      /\ Shaped(files) /\ refusals \in Nat /\ DOMAIN files = 1 .. Len(files) /\ Len(files) \in Nat
      /\ Here.n = nopened
  BY HereFacts DEF Here
<1>5. PICK a : a = op.at OBVIOUS
<1>6. PICK f : f = files[a] OBVIOUS
<1>7. PICK d : d = op.off + n OBVIOUS
<1>8. PICK val : val = [c \in Cells |-> op.v] OBVIOUS
<1>9. PICK g : g = Put(f, op.off, d, val) OBVIOUS
<1>10. d \in Nat /\ d <= Total /\ \A b \in Cells : val[b] \in Versions \cup {Unknown}
  BY <1>2, <1>3, <1>7, <1>8
<1>11. f \in Files /\ op.off \in Nat /\ a \in 1 .. Len(files)
  BY <1>2, <1>5, <1>6
<1>12. g \in Files /\ Alike(f, g) /\ (g.opened <=> f.opened)
  BY <1>9, <1>10, <1>11, PutFacts
<1>13. /\ g.size = Most(f.size, d - f.offset)
       /\ g.data = [b \in Cells |-> IF b \in op.off .. d - 1 THEN val[b] ELSE f.data[b]]
  <2>1. PutIn(f, op.off, d, val, g)
    BY <1>9, <1>11, PutMore
  <2> QED BY <2>1 DEF PutIn
<1>14. AllOnDisk(files)
  BY DEF FInv, Placing
<1>15. OnDisk(g)
  <2>1. OnDisk(f) /\ g.offset = f.offset
    BY <1>6, <1>11, <1>12, <1>14 DEF AllOnDisk, Alike
  <2> QED BY <1>9, <1>10, <1>11, <2>1, PutOnDisk
<1>16. PICK fs : fs = [files EXCEPT ![op.at] = Put(@, op.off, op.off + n, [c \in Cells |-> op.v])]
  OBVIOUS
<1>17. fs = [files EXCEPT ![a] = g]
  BY <1>5, <1>6, <1>7, <1>8, <1>9, <1>16
<1>18. PICK s : s = [Here EXCEPT !.f = fs] OBVIOUS
<1>19. s.f = fs /\ s.n = nopened /\ s.r = refusals /\ s = [f |-> s.f, n |-> s.n, r |-> s.r]
  BY <1>4, <1>18
<1>20. /\ Good(s) /\ Rewritten(files, fs) /\ Len(fs) = Len(files)
       /\ fs[a] = g /\ \A j \in 1 .. Len(files) : j # a => fs[j] = files[j]
  <2>1. a \in 1 .. Len(Here.f) /\ Alike(Here.f[a], g) /\ (g.opened <=> Here.f[a].opened)
    BY <1>4, <1>6, <1>11, <1>12
  <2>2. s.f = Replaced(Here.f, a, g) /\ s.n = Here.n /\ s.r \in Nat /\ g \in Files
    BY <1>4, <1>12, <1>17, <1>19 DEF Replaced
  <2> HIDE DEF Here
  <2>3. /\ Good(s) /\ Rewritten(Here.f, s.f) /\ Len(s.f) = Len(Here.f)
        /\ s.f[a] = g /\ \A j \in 1 .. Len(Here.f) : j # a => s.f[j] = Here.f[j]
    BY <1>4, <1>19, <2>1, <2>2, RewriteGood
  <2> QED BY <1>4, <1>19, <2>3
<1>21. PICK t : t = IF fs[op.at].size = 0 THEN Close(s, op.at) ELSE s OBVIOUS
<1>22. Opens(s, t)
  <2>1. CASE fs[op.at].size = 0
    <3>1. t = Close(s, a) /\ a \in 1 .. Len(s.f)
      BY <1>5, <1>11, <1>19, <1>20, <1>21, <2>1
    <3> QED BY <1>20, <3>1, CloseFacts
  <2>2. CASE fs[op.at].size # 0
    <3>1. t = s
      BY <1>21, <2>2
    <3> QED BY <1>20, <3>1, OpensItself
  <2> QED BY <2>1, <2>2
<1>23. SetTo(t) /\ op' = Advance(fs, n)
  BY <1>1, <1>16, <1>18, <1>21 DEF WriteFile
<1>24. PICK gs : gs = files' OBVIOUS
<1>25. Rewritten(fs, gs) /\ Shaped(gs) /\ Shaped(fs) /\ \A i \in 1 .. Len(fs) : Same(fs[i], gs[i])
  BY <1>19, <1>20, <1>22, <1>23, <1>24 DEF Opens, Good, SetTo
<1>26. AllOnDisk(fs)
  BY <1>14, <1>15, <1>20 DEF AllOnDisk
<1>27. AllOnDisk(gs)
  <2>1. \A i \in 1 .. Len(fs) : fs[i] \in Files
    BY <1>25, Geometry
  <2> QED BY <1>25, <1>26, <2>1, OnDiskSame DEF AllOnDisk, Rewritten
<1>28. StoredIn(gs) = StoredIn(fs)
  BY <1>25, SameStored
<1>29. ASSUME NEW o, InList(o, fs), Placing(o, fs)
       PROVE  Placing(o, gs)
  <2>1. \A i \in 1 .. Len(fs) : gs[i].size = fs[i].size
    BY <1>25 DEF Same
  <2> QED BY <1>25, <1>27, <1>29, <2>1, PlacingSame
<1>30. fs[op.at].size = Most(files[op.at].size, (op.off + n) - files[op.at].offset)
  BY <1>5, <1>6, <1>7, <1>13, <1>20
<1>31. fs[op.at].data = [b \in Cells |-> IF b \in op.off .. op.off + n - 1 THEN op.v ELSE files[op.at].data[b]]
  <2>0. fs[op.at] = g /\ files[op.at] = f
    BY <1>5, <1>6, <1>20
  <2>1. op.off + n - 1 = d - 1
    BY <1>2, <1>3, <1>7
  <2>2. \A b \in Cells : val[b] = op.v
    BY <1>8
  <2>3. PICK x : x = op.off .. d - 1 OBVIOUS
  <2>4. g.data = [b \in Cells |-> IF b \in x THEN val[b] ELSE f.data[b]]
    BY <1>13, <2>3
  <2>5. [b \in Cells |-> IF b \in x THEN val[b] ELSE f.data[b]] = [b \in Cells |-> IF b \in x THEN op.v ELSE f.data[b]]
    BY <2>2
  <2> QED BY <2>0, <2>1, <2>3, <2>4, <2>5
<1>32. \A j \in 1 .. Len(files) : j # op.at => fs[j] = files[j]
  BY <1>5, <1>20
<1>33. Wrote(n, fs)
  BY <1>3, <1>20, <1>23, <1>24, <1>25, <1>26, <1>28, <1>29, <1>30, <1>31, <1>32 DEF Wrote
<1> QED BY <1>1, <1>33

\* The bytes the file has after the write: those it had, those that are written, and, in a staging file, those up to
\* the first that is written.
LEMMA WroteCovers ==
  ASSUME IInv, op.kind = "write", op.at \in 1 .. Len(files), NEW n, NEW fs, Wrote(n, fs),
         files[op.at].offset <= op.off, NEW c \in Cells
  PROVE  /\ Covers(files[op.at], c) => Covers(fs[op.at], c)
         /\ c \in op.off .. op.off + n - 1 => Covers(fs[op.at], c)
         /\ c \notin op.off .. op.off + n - 1 /\ Covers(fs[op.at], c) /\ ~Covers(files[op.at], c) =>
              End(files[op.at]) <= c /\ c < op.off
<1>1. PICK f : f = files[op.at] OBVIOUS
<1>2. PICK g : g = fs[op.at] OBVIOUS
<1>3. op \in IOs /\ op.off \in Nat /\ c \in Nat /\ Shaped(files) /\ n \in Nat
  BY WriteRuns, IOFields, Extents, HereFacts DEF Wrote
<1>4. f.offset \in Nat /\ f.size \in Nat /\ End(f) = f.offset + f.size
  BY <1>1, <1>3, ListFacts
<1>5. g.offset = f.offset /\ g.size = Most(f.size, (op.off + n) - f.offset)
  BY <1>1, <1>2 DEF Wrote, Rewritten, Alike
<1>6. End(g) = Most(End(f), op.off + n)
  BY <1>3, <1>4, <1>5 DEF End, Most
<1>7. Covers(f, c) <=> f.offset <= c /\ c < End(f)
  BY DEF Covers
<1>8. Covers(g, c) <=> f.offset <= c /\ c < Most(End(f), op.off + n)
  BY <1>5, <1>6 DEF Covers
<1>9. f.offset <= op.off /\ End(f) \in Nat
  BY <1>1, <1>3, ListFacts
<1>10. /\ Covers(f, c) => Covers(g, c)
       /\ c \in op.off .. op.off + n - 1 => Covers(g, c)
       /\ c \notin op.off .. op.off + n - 1 /\ Covers(g, c) /\ ~Covers(f, c) => End(f) <= c /\ c < op.off
  BY <1>3, <1>4, <1>7, <1>8, <1>9 DEF Most
<1> QED BY <1>1, <1>2, <1>10

\* The operation after n bytes of a write.
LEMMA AdvanceWrite ==
  ASSUME op \in IOs, op.kind = "write", ~op.null, NEW n \in Nat, NEW fs,
         n # op.len => op.at # Len(fs), NEW o, o = Advance(fs, n)
  PROVE  /\ n = op.len => o = Idle
         /\ n # op.len => /\ o.kind = "write" /\ o.off = op.off + n /\ o.len = op.len - n /\ o.v = op.v
                          /\ ~o.null => o.at = op.at + 1 /\ ~(op.off + n < fs[op.at + 1].offset)
                          /\ o.null => o.at = op.at
<1>1. CASE n = op.len
  BY <1>1 DEF Advance
<1>2. CASE n # op.len /\ op.off + n < fs[op.at + 1].offset
  <2>1. o = [op EXCEPT !.off = op.off + n, !.len = @ - n, !.null = TRUE]
    BY <1>2 DEF Advance
  <2>2. o.kind = "write" /\ o.off = op.off + n /\ o.len = op.len - n /\ o.v = op.v /\ o.null /\ o.at = op.at
    BY <2>1 DEF IOs
  <2> QED BY <1>2, <2>2
<1>3. CASE n # op.len /\ ~(op.off + n < fs[op.at + 1].offset)
  <2>1. o = [op EXCEPT !.off = op.off + n, !.len = @ - n, !.at = @ + 1]
    BY <1>3 DEF Advance
  <2>2. o.kind = "write" /\ o.off = op.off + n /\ o.len = op.len - n /\ o.v = op.v /\ o.at = op.at + 1
    BY <2>1 DEF IOs
  <2>3. o.null = op.null
    BY <2>1 DEF IOs
  <2> QED BY <1>3, <2>2, <2>3
<1> QED BY <1>1, <1>2, <1>3

LEMMA WroteFacts ==
  ASSUME IInv, FInv, InFile, Writing, NEW n, NEW fs, Wrote(n, fs), NEW a, a = op.at
  PROVE  /\ op.kind = "write" /\ op \in IOs /\ ~op.null
         /\ Shaped(files) /\ Shaped(fs) /\ Len(fs) = Len(files) /\ Len(files) \in Nat /\ a \in 1 .. Len(files)
         /\ n \in Nat /\ n <= op.len /\ op.off \in Nat /\ op.len \in Nat
         /\ \A i \in 1 .. Len(files) : i # a => fs[i] = files[i]
         /\ \A i \in 1 .. Len(files) : Alike(files[i], fs[i])
         /\ files[a].offset <= op.off
         /\ ~files[a].staging => op.off <= End(files[a])
         /\ files[a].staging =>
              /\ Neat(files) => \A i \in Reals(files) : i < a => End(files[i]) <= op.off
              /\ op.off > End(files[a]) => \E i \in Reals(files) : i < a /\ op.off <= End(files[i])
         /\ fs[a].size = Most(files[a].size, (op.off + n) - files[a].offset)
         /\ \A c \in Cells : fs[a].data[c] = IF c \in op.off .. op.off + n - 1 THEN op.v ELSE files[a].data[c]
<1>1. /\ op.kind = "write" /\ op \in IOs /\ ~op.null /\ a \in 1 .. Len(files)
      /\ op.off \in Nat /\ op.len \in Nat
  BY InStep DEF Writing
<1>2. Shaped(files) /\ Len(files) \in Nat
  BY HereFacts
<1>3. WriteAt(op, files)
  BY <1>1 DEF FInv, Placing, Current
<1>4. n \in Nat /\ n <= op.len /\ Shaped(fs) /\ Len(fs) = Len(files)
  BY <1>1 DEF Wrote
<1>5. \A i \in 1 .. Len(files) : Alike(files[i], fs[i])
  BY DEF Wrote, Rewritten
<1>6. /\ \A i \in 1 .. Len(files) : i # a => fs[i] = files[i]
      /\ fs[a].size = Most(files[a].size, (op.off + n) - files[a].offset)
  BY DEF Wrote
<1>7. \A c \in Cells : fs[a].data[c] = IF c \in op.off .. op.off + n - 1 THEN op.v ELSE files[a].data[c]
  BY DEF Wrote
<1>8. /\ files[a].offset <= op.off
      /\ ~files[a].staging => op.off <= End(files[a])
      /\ files[a].staging =>
           /\ Neat(files) => \A i \in Reals(files) : i < a => End(files[i]) <= op.off
           /\ op.off > End(files[a]) => \E i \in Reals(files) : i < a /\ op.off <= End(files[i])
  BY <1>1, <1>3 DEF WriteAt
<1> QED BY <1>1, <1>2, <1>4, <1>5, <1>6, <1>7, <1>8

\* What a write changes in which bytes the files hold.
LEMMA WroteHolds ==
  ASSUME IInv, FInv, InFile, Writing, NEW n, NEW fs, Wrote(n, fs), NEW a, a = op.at, NEW c \in Cells
  PROVE  /\ \A i \in 1 .. Len(files) : i # a => (Holds(fs, i, c) <=> Holds(files, i, c))
         /\ Holds(files, a, c) => Holds(fs, a, c)
         /\ c \notin op.off .. op.off + n - 1 /\ Holds(fs, a, c) /\ ~Holds(files, a, c) =>
              \E i \in 1 .. a - 1 : Holds(files, i, c)
<1>1. /\ Shaped(files) /\ Shaped(fs) /\ Len(fs) = Len(files) /\ Len(files) \in Nat /\ a \in 1 .. Len(files)
      /\ \A i \in 1 .. Len(files) : i # a => fs[i] = files[i]
      /\ \A i \in 1 .. Len(files) : Alike(files[i], fs[i])
      /\ files[a].offset <= op.off /\ op.kind = "write" /\ op.off \in Nat /\ n \in Nat
      /\ ~files[a].staging => op.off <= End(files[a])
      /\ files[a].staging /\ op.off > End(files[a]) => \E i \in Reals(files) : i < a /\ op.off <= End(files[i])
  BY WroteFacts
<1>2. ASSUME NEW i \in 1 .. Len(files), Covers(fs[i], c) <=> Covers(files[i], c)
      PROVE  Holds(fs, i, c) <=> Holds(files, i, c)
  <2>1. i \in Nat /\ i >= 1 /\ \A j \in 1 .. i : j \in 1 .. Len(files)
    BY <1>1
  <2>2. \A j \in 1 .. i : Alike(files[j], fs[j])
    BY <1>1, <2>1
  <2> QED BY <1>2, <2>1, <2>2, HoldsSame
<1>3. \A i \in 1 .. Len(files) : i # a => (Holds(fs, i, c) <=> Holds(files, i, c))
  <2> SUFFICES ASSUME NEW i \in 1 .. Len(files), i # a PROVE Holds(fs, i, c) <=> Holds(files, i, c)
    OBVIOUS
  <2>1. Covers(fs[i], c) <=> Covers(files[i], c)
    BY <1>1
  <2> QED BY <1>2, <2>1
<1>4. /\ Covers(files[a], c) => Covers(fs[a], c)
      /\ c \notin op.off .. op.off + n - 1 /\ Covers(fs[a], c) /\ ~Covers(files[a], c) =>
           End(files[a]) <= c /\ c < op.off
  <2>1. op.at \in 1 .. Len(files) /\ files[op.at].offset <= op.off /\ op.kind = "write"
    BY <1>1
  <2> QED BY <2>1, WroteCovers
<1>5. Holds(files, a, c) => Holds(fs, a, c)
  <2> SUFFICES ASSUME Holds(files, a, c) PROVE Holds(fs, a, c)
    OBVIOUS
  <2>1. Covers(files[a], c)
    BY HoldsIs
  <2> QED BY <1>1, <1>2, <1>4, <2>1
<1>6. ASSUME c \notin op.off .. op.off + n - 1, Holds(fs, a, c), ~Holds(files, a, c)
      PROVE  \E i \in 1 .. a - 1 : Holds(files, i, c)
  <2>1. Covers(fs[a], c)
    BY <1>6, HoldsIs
  <2>2. ~Covers(files[a], c)
    BY <1>1, <1>2, <1>6, <2>1
  <2>3. End(files[a]) <= c /\ c < op.off
    BY <1>4, <1>6, <2>1, <2>2
  <2>4. /\ \A i \in 1 .. Len(files) : files[i].offset \in Nat /\ End(files[i]) \in Nat
        /\ \A i \in 1 .. Len(files) : i \in Reals(files) <=> ~files[i].staging
        /\ \A i \in Reals(files) : i \in 1 .. Len(files)
        /\ DOMAIN files = 1 .. Len(files)
    BY <1>1, ListFacts
  <2>5. c \in Nat
    BY Extents
  <2>6. op.off > End(files[a])
    BY <1>1, <2>3, <2>4, <2>5
  <2>7. PICK i \in Reals(files) : i < a /\ op.off <= End(files[i])
    BY <1>1, <2>4, <2>6
  <2>8. files[i].offset <= files[a].offset
    <3>1. Ordered(files)
      BY <1>1 DEF Shaped
    <3> QED BY <1>1, <2>4, <2>7, <3>1 DEF Ordered
  <2>9. files[a].offset <= c
    <3>1. fs[a].offset = files[a].offset
      BY <1>1 DEF Alike
    <3> QED BY <2>1, <3>1 DEF Covers
  <2>10. Covers(files[i], c)
    <3>1. i \in 1 .. Len(files) /\ files[i].offset \in Nat /\ End(files[i]) \in Nat /\ files[a].offset \in Nat
      BY <1>1, <2>4, <2>7
    <3> QED BY <1>1, <2>3, <2>5, <2>7, <2>8, <2>9, <3>1 DEF Covers
  <2>11. Holds(files, i, c)
    BY <2>4, <2>7, <2>10, HoldsIs
  <2> QED BY <1>1, <2>4, <2>7, <2>11
<1> QED BY <1>3, <1>5, <1>6

LEMMA WroteByte ==
  ASSUME IInv, FInv, InFile, Writing, NEW n, NEW fs, Wrote(n, fs), NEW c \in Cells
  PROVE  StoredIn(fs)[c] = Stored[c] \/ (c \in op.off .. op.off + n - 1 /\ StoredIn(fs)[c] = op.v)
<1>1. PICK a : a = op.at OBVIOUS
<1>2. /\ Shaped(files) /\ Shaped(fs) /\ Len(fs) = Len(files) /\ Len(files) \in Nat /\ a \in 1 .. Len(files)
      /\ \A i \in 1 .. Len(files) : i # a => fs[i] = files[i]
      /\ fs[a].data[c] = IF c \in op.off .. op.off + n - 1 THEN op.v ELSE files[a].data[c]
  BY <1>1, WroteFacts
<1>3. /\ \A i \in 1 .. Len(files) : i # a => (Holds(fs, i, c) <=> Holds(files, i, c))
      /\ Holds(files, a, c) => Holds(fs, a, c)
      /\ c \notin op.off .. op.off + n - 1 /\ Holds(fs, a, c) /\ ~Holds(files, a, c) =>
           \E i \in 1 .. a - 1 : Holds(files, i, c)
  BY <1>1, WroteHolds
<1>4. Stored[c] = StoredIn(files)[c]
  BY DEF Stored
<1>5. ASSUME Holds(fs, a, c), \A i \in 1 .. a - 1 : ~Holds(files, i, c)
      PROVE  StoredIn(fs)[c] = fs[a].data[c]
  <2>1. a \in 1 .. Len(fs) /\ \A j \in 1 .. a - 1 : j \in 1 .. Len(files) /\ j # a
    BY <1>2
  <2>2. FirstHas(fs, a, c)
    BY <1>3, <1>5, <2>1 DEF FirstHas
  <2> QED BY <1>2, <2>1, <2>2, FirstValue
<1>6. CASE \E i \in 1 .. Len(files) : Holds(files, i, c)
  <2>1. PICK i \in 1 .. Len(files) : Holds(files, i, c)
    BY <1>6
  <2>2. PICK k \in 1 .. i : FirstHas(files, k, c)
    BY <1>2, <2>1, SomeFirst
  <2>3. /\ k \in 1 .. Len(files) /\ k \in 1 .. Len(fs) /\ Holds(files, k, c)
        /\ \A j \in 1 .. k - 1 : ~Holds(files, j, c)
        /\ \A j \in 1 .. k : j \in 1 .. Len(files)
    BY <1>2, <2>1, <2>2 DEF FirstHas
  <2>4. CASE k = a
    <3>1. StoredIn(fs)[c] = fs[a].data[c]
      BY <1>3, <1>5, <2>3, <2>4
    <3>2. StoredIn(files)[c] = files[a].data[c]
      BY <1>2, <2>2, <2>3, <2>4, FirstValue
    <3> QED BY <1>2, <1>4, <3>1, <3>2
  <2>5. CASE k # a /\ (k < a \/ ~Holds(fs, a, c))
    <3>1. \A j \in 1 .. k : Holds(fs, j, c) <=> Holds(files, j, c)
      <4> SUFFICES ASSUME NEW j \in 1 .. k PROVE Holds(fs, j, c) <=> Holds(files, j, c)
        OBVIOUS
      <4>1. CASE j = a
        <5>1. ~Holds(fs, a, c)
          BY <1>2, <2>3, <2>5, <4>1
        <5> QED BY <1>3, <4>1, <5>1
      <4>2. CASE j # a
        BY <1>3, <2>3, <4>2
      <4> QED BY <4>1, <4>2
    <3>2. fs[k].data[c] = files[k].data[c]
      BY <1>2, <2>3, <2>5
    <3>3. StoredIn(fs)[c] = StoredIn(files)[c]
      BY <1>2, <2>2, <2>3, <3>1, <3>2, ValueBefore
    <3> QED BY <1>4, <3>3
  <2>6. CASE k > a /\ Holds(fs, a, c)
    <3>1. \A j \in 1 .. a - 1 : j \in 1 .. k - 1
      BY <1>2, <2>3, <2>6
    <3>2. a \in 1 .. k - 1
      BY <1>2, <2>3, <2>6
    <3>3. ~Holds(files, a, c) /\ \A j \in 1 .. a - 1 : ~Holds(files, j, c)
      BY <2>3, <3>1, <3>2
    <3>4. c \in op.off .. op.off + n - 1
      BY <1>3, <2>6, <3>3
    <3>5. StoredIn(fs)[c] = fs[a].data[c]
      BY <1>5, <2>6, <3>3
    <3> QED BY <1>2, <3>4, <3>5
  <2> QED BY <1>2, <2>3, <2>4, <2>5, <2>6
<1>7. CASE ~\E i \in 1 .. Len(files) : Holds(files, i, c)
  <2>1. \A j \in 1 .. a - 1 : ~Holds(files, j, c)
    <3>1. \A j \in 1 .. a - 1 : j \in 1 .. Len(files)
      BY <1>2
    <3> QED BY <1>7, <3>1
  <2>2. CASE Holds(fs, a, c)
    <3>1. c \in op.off .. op.off + n - 1
      BY <1>2, <1>3, <1>7, <2>1, <2>2
    <3>2. StoredIn(fs)[c] = fs[a].data[c]
      BY <1>5, <2>1, <2>2
    <3> QED BY <1>2, <3>1, <3>2
  <2>3. CASE ~Holds(fs, a, c)
    <3>1. \A i \in 1 .. Len(files) : ~Holds(files, i, c) /\ ~Holds(fs, i, c)
      BY <1>2, <1>3, <1>7, <2>3
    <3>2. DOMAIN fs = 1 .. Len(files) /\ DOMAIN files = 1 .. Len(files)
      BY <1>2, ListFacts
    <3>3. StoredIn(fs)[c] = Unknown /\ StoredIn(files)[c] = Unknown
      BY <3>1, <3>2, NotStored
    <3> QED BY <1>4, <3>3
  <2> QED BY <2>2, <2>3
<1> QED BY <1>6, <1>7

\* In a neat list what is written is where it is looked for.
LEMMA WroteNeat ==
  ASSUME IInv, FInv, InFile, Writing, Neat(files), NEW n, n = WriteLength(files, op.at), NEW fs, Wrote(n, fs),
         NEW c \in Cells, c \in op.off .. op.off + n - 1
  PROVE  StoredIn(fs)[c] = op.v
<1>1. PICK a : a = op.at OBVIOUS
<1>2. /\ Shaped(files) /\ Shaped(fs) /\ Len(fs) = Len(files) /\ Len(files) \in Nat /\ a \in 1 .. Len(files)
      /\ \A i \in 1 .. Len(files) : i # a => fs[i] = files[i]
      /\ \A i \in 1 .. Len(files) : Alike(files[i], fs[i])
      /\ files[a].offset <= op.off /\ op.kind = "write" /\ op.off \in Nat /\ n \in Nat /\ op.len \in Nat
      /\ fs[a].data[c] = IF c \in op.off .. op.off + n - 1 THEN op.v ELSE files[a].data[c]
  BY <1>1, WroteFacts
<1>3. files[a].staging =>
        /\ \A i \in Reals(files) : i < a => End(files[i]) <= op.off
        /\ op.off > End(files[a]) => \E i \in Reals(files) : i < a /\ op.off <= End(files[i])
  BY <1>1, WroteFacts
<1>4. /\ \A i \in 1 .. Len(files) : files[i].offset \in Nat /\ End(files[i]) \in Nat
      /\ \A i \in 1 .. Len(files) : i \in Reals(files) <=> ~files[i].staging
      /\ \A i \in Reals(files) : i \in 1 .. Len(files)
      /\ DOMAIN files = 1 .. Len(files) /\ c \in Nat
  <2>1. c \in Nat
    BY Extents
  <2> QED BY <1>2, <2>1, ListFacts
<1>5. op.off <= c /\ c < op.off + n
  BY <1>2, <1>4
<1>6. \A i \in 1 .. Len(files) : i # a => (Holds(fs, i, c) <=> Holds(files, i, c))
  BY <1>1, WroteHolds
<1>7. Covers(fs[a], c)
  BY <1>1, <1>2, WroteCovers
<1>8. ASSUME NEW i \in 1 .. a - 1
      PROVE  ~Covers(files[i], c)
  <2>1. i \in 1 .. Len(files) /\ i < a
    BY <1>2
  <2>2. files[a].offset <= c
    <3>1. files[a].offset \in Nat
      BY <1>2, <1>4
    <3> QED BY <1>2, <1>4, <1>5, <3>1
  <2>3. CASE ~files[a].staging
    <3>1. a \in Reals(files)
      BY <1>2, <1>4, <2>3
    <3> QED BY <1>2, <2>1, <2>2, <3>1, NoneBefore
  <2>4. CASE files[a].staging /\ ~files[i].staging
    <3>1. i \in Reals(files)
      BY <1>4, <2>1, <2>4
    <3>2. End(files[i]) <= op.off /\ End(files[i]) \in Nat
      BY <1>3, <1>4, <2>1, <2>4, <3>1
    <3>3. End(files[i]) <= c
      BY <1>2, <1>4, <1>5, <3>2
    <3> QED BY <1>4, <3>2, <3>3 DEF Covers
  <2>5. CASE files[i].staging
    <3>1. i + 1 \in 1 .. Len(files) /\ i \in 1 .. Len(files) - 1 /\ i + 1 <= a
      BY <1>2, <2>1
    <3>2. End(files[i]) <= files[i + 1].offset
      BY <2>5, <3>1 DEF Neat
    <3>3. files[i + 1].offset <= files[a].offset
      BY <1>2, <3>1, Upward
    <3>4. End(files[i]) \in Nat /\ files[i + 1].offset \in Nat /\ files[a].offset \in Nat
      BY <1>2, <1>4, <2>1, <3>1
    <3>5. End(files[i]) <= c
      BY <1>4, <2>2, <3>2, <3>3, <3>4
    <3> QED BY <1>4, <3>4, <3>5 DEF Covers
  <2> QED BY <2>3, <2>4, <2>5
<1>9. ASSUME files[a].staging
      PROVE  \E j \in 1 .. a - 1 : ~files[j].staging /\ c < files[j].offset + files[j].length
  <2>1. PICK j \in Reals(files) : files[j].offset <= c /\ c < files[j].offset + files[j].length
    BY <1>2, Geometry
  <2>2. j \in 1 .. Len(files) /\ ~files[j].staging /\ j # a /\ files[j].offset \in Nat
    BY <1>4, <1>9
  <2>3. ASSUME j > a
        PROVE  FALSE
    <3>1. a + 1 \in 1 .. Len(files) /\ a \in 1 .. Len(files) - 1 /\ a # Len(files) /\ a + 1 <= j
      BY <1>2, <2>2, <2>3
    <3>2. files[a + 1].offset <= files[j].offset
      BY <1>2, <2>2, <3>1, Upward
    <3>3. files[a + 1].offset \in Nat /\ End(files[a]) \in Nat
      BY <1>2, <1>4, <3>1
    <3>4. op.off <= End(files[a])
      <4> SUFFICES ASSUME op.off > End(files[a]) PROVE FALSE
        BY <1>2, <3>3
      <4>1. PICK i \in Reals(files) : i < a /\ op.off <= End(files[i])
        BY <1>3, <1>9
      <4>2. End(files[i]) <= End(files[a]) /\ End(files[i]) \in Nat
        BY <1>2, <1>4, <1>9, <4>1 DEF Neat
      <4> QED BY <1>2, <3>3, <4>1, <4>2
    <3>5. End(files[a]) <= files[a + 1].offset
      BY <1>9, <3>1 DEF Neat
    <3>6. op.off <= files[a + 1].offset
      BY <1>2, <3>3, <3>4, <3>5
    <3>7. n = Least(op.len, files[a + 1].offset - op.off)
      <4>1. ~(op.off > files[a + 1].offset)
        BY <1>2, <3>3, <3>6
      <4> QED BY <1>1, <1>9, <3>1, <4>1 DEF WriteLength
    <3>8. op.off + n <= files[a + 1].offset
      BY <1>2, <3>3, <3>6, <3>7, SMTT(60) DEF Least
    <3>9. c < op.off + n
      BY <1>5
    <3>10. files[a + 1].offset <= c
      BY <1>4, <2>1, <2>2, <3>2, <3>3
    <3>11. op.off + n \in Int /\ c \in Nat
      BY <1>2, <1>4
    <3> QED BY <3>3, <3>8, <3>9, <3>10, <3>11, SMTT(60)
  <2>4. j \in 1 .. a - 1
    BY <1>2, <2>2, <2>3
  <2> QED BY <2>1, <2>2, <2>4
<1>10. Holds(fs, a, c)
  <2> SUFFICES ASSUME fs[a].staging
               PROVE  \E j \in 1 .. a - 1 : ~fs[j].staging /\ c < fs[j].offset + fs[j].length
    BY <1>7, HoldsIs
  <2>1. files[a].staging
    BY <1>2 DEF Alike
  <2>2. PICK j \in 1 .. a - 1 : ~files[j].staging /\ c < files[j].offset + files[j].length
    BY <1>9, <2>1
  <2>3. fs[j] = files[j]
    BY <1>2
  <2> QED BY <2>2, <2>3
<1>11. FirstHas(fs, a, c)
  <2>1. ASSUME NEW i \in 1 .. a - 1
        PROVE  ~Holds(fs, i, c)
    <3>1. i \in 1 .. Len(files) /\ i # a
      BY <1>2
    <3>2. ~Covers(files[i], c)
      BY <1>8
    <3>3. ~Holds(files, i, c)
      BY <3>2, HoldsIs
    <3> QED BY <1>6, <3>1, <3>3
  <2> QED BY <1>10, <2>1 DEF FirstHas
<1>12. StoredIn(fs)[c] = fs[a].data[c]
  BY <1>2, <1>11, FirstValue
<1> QED BY <1>2, <1>12

\* The operation goes on with the next file, where the write comes to it.
LEMMA WroteOn ==
  ASSUME IInv, FInv, InFile, Writing, NEW n, n = WriteLength(files, op.at), NEW fs, Wrote(n, fs), n # op.len,
         NEW o, o = Advance(fs, n)
  PROVE  InList(o, fs) /\ Placing(o, fs)
<1>1. PICK a : a = op.at OBVIOUS
<1>2. /\ Shaped(files) /\ Shaped(fs) /\ Len(fs) = Len(files) /\ Len(files) \in Nat /\ a \in 1 .. Len(files)
      /\ \A i \in 1 .. Len(files) : Alike(files[i], fs[i])
      /\ files[a].offset <= op.off /\ op.off \in Nat /\ n \in Nat /\ op.len \in Nat /\ n <= op.len
      /\ op \in IOs /\ op.kind = "write" /\ ~op.null
      /\ fs[a].size = Most(files[a].size, (op.off + n) - files[a].offset)
  BY <1>1, WroteFacts
<1>3. /\ ~files[a].staging => op.off + n = files[a].offset + files[a].length
      /\ a # Len(files)
  <2>1. n < op.len
    BY <1>2
  <2> QED BY <1>1, <2>1, WriteLengthFacts
<1>4. AllOnDisk(fs)
  BY DEF Wrote
<1>5. PICK b : b = a + 1 OBVIOUS
<1>6. b \in 1 .. Len(fs) /\ a \in 1 .. Len(fs) /\ a < b /\ a \in 1 .. Len(fs) - 1
  BY <1>2, <1>3, <1>5
<1>7. PICK z : z = op.off + n OBVIOUS
<1>8. z \in Nat /\ op.off <= z
  BY <1>2, <1>7
<1>9. /\ o.kind = "write" /\ o.off = z
      /\ ~o.null => o.at = b /\ ~(z < fs[b].offset)
      /\ o.null => o.at = a
  BY <1>1, <1>2, <1>3, <1>5, <1>7, AdvanceWrite
<1>10. InList(o, fs)
  BY <1>6, <1>9 DEF InList, Current
<1>11. /\ \A i \in 1 .. Len(fs) : fs[i].offset \in Nat /\ End(fs[i]) \in Nat /\ fs[i].size \in Nat /\ fs[i].length \in Nat
       /\ \A i \in 1 .. Len(fs) : End(fs[i]) = fs[i].offset + fs[i].size
       /\ \A i \in 1 .. Len(fs) : i \in Reals(fs) <=> ~fs[i].staging
       /\ \A i \in Reals(fs) : i \in 1 .. Len(fs)
  BY <1>2, ListFacts
<1>12. /\ fs[a].offset = files[a].offset /\ fs[a].length = files[a].length /\ fs[a].staging = files[a].staging
       /\ fs[b].offset = files[b].offset /\ fs[b].staging = files[b].staging
  BY <1>2, <1>6 DEF Alike
<1>13. ~fs[a].staging => z = fs[a].offset + fs[a].length /\ z <= End(fs[a])
  <2> SUFFICES ASSUME ~fs[a].staging PROVE z = fs[a].offset + fs[a].length /\ z <= End(fs[a])
    OBVIOUS
  <2>1. z = fs[a].offset + fs[a].length
    BY <1>3, <1>7, <1>12
  <2>2. /\ fs[a].offset \in Nat /\ fs[a].size \in Nat /\ End(fs[a]) = fs[a].offset + fs[a].size
        /\ files[a].size \in Nat
    BY <1>2, <1>6, <1>11, ListFacts
  <2>3. fs[a].size >= z - fs[a].offset
    BY <1>2, <1>7, <1>8, <1>12, <2>2, SMTT(60) DEF Most
  <2> QED BY <1>8, <2>1, <2>2, <2>3
<1>14. fs[a].staging => z = fs[b].offset
  <2> SUFFICES ASSUME files[a].staging PROVE z = files[b].offset
    BY <1>12
  <2>1. files[b].offset \in Nat
    BY <1>6, <1>11, <1>12
  <2>2. n = IF op.off > files[b].offset THEN op.len ELSE Least(op.len, files[b].offset - op.off)
    BY <1>1, <1>3, <1>5 DEF WriteLength
  <2> QED BY <1>2, <1>7, <2>1, <2>2 DEF Least
<1>15. ASSUME ~o.null
       PROVE  fs[b].offset <= z
  BY <1>6, <1>8, <1>9, <1>11, <1>15
<1>16. ASSUME ~fs[b].staging
       PROVE  z <= End(fs[b])
  <2>1. b \in Reals(fs) /\ fs[b].offset \in Nat /\ End(fs[b]) = fs[b].offset + fs[b].size /\ fs[b].size \in Nat
    BY <1>6, <1>11, <1>16
  <2>2. z <= fs[b].offset
    <3>1. CASE fs[a].staging
      BY <1>8, <1>14, <3>1
    <3>2. CASE ~fs[a].staging
      <4>1. a \in Reals(fs)
        BY <1>6, <1>11, <3>2
      <4>2. fs[a].offset + fs[a].length <= fs[b].offset
        BY <1>2, <1>6, <2>1, <4>1, Geometry
      <4> QED BY <1>13, <3>2, <4>2
    <3> QED BY <3>1, <3>2
  <2> QED BY <1>8, <2>1, <2>2
<1>17. ASSUME fs[b].staging, Neat(fs), NEW i \in Reals(fs), i < b
       PROVE  End(fs[i]) <= z
  <2>1. i \in 1 .. Len(fs) /\ i <= a /\ ~fs[i].staging
    BY <1>5, <1>6, <1>11, <1>17
  <2>2. CASE fs[a].staging
    <3>1. i < a
      BY <1>6, <2>1, <2>2
    <3>2. End(fs[i]) <= End(fs[a])
      BY <1>6, <1>17, <2>2, <3>1 DEF Neat
    <3>3. End(fs[a]) <= fs[b].offset
      BY <1>5, <1>6, <1>17, <2>2 DEF Neat
    <3>4. End(fs[i]) \in Nat /\ End(fs[a]) \in Nat
      BY <1>6, <1>11, <2>1
    <3> QED BY <1>8, <1>14, <2>2, <3>2, <3>3, <3>4
  <2>3. CASE ~fs[a].staging
    <3>1. a \in Reals(fs)
      BY <1>6, <1>11, <2>3
    <3>2. fs[i].size <= fs[i].length
      BY <1>17 DEF Neat
    <3>3. /\ fs[i].offset \in Nat /\ fs[i].size \in Nat /\ fs[i].length \in Nat
          /\ End(fs[i]) = fs[i].offset + fs[i].size
      BY <1>11, <2>1
    <3>4. CASE i = a
      BY <1>13, <2>3, <3>2, <3>3, <3>4
    <3>5. CASE i < a
      <4>1. fs[i].offset + fs[i].length <= fs[a].offset
        BY <1>2, <1>17, <3>1, <3>5, Geometry
      <4>2. fs[a].offset <= op.off /\ fs[a].offset \in Nat
        BY <1>2, <1>6, <1>11, <1>12
      <4>3. fs[a].offset <= z
        BY <1>2, <1>8, <4>2
      <4>4. End(fs[i]) <= fs[a].offset
        BY <3>2, <3>3, <4>1, <4>2
      <4> QED BY <1>8, <3>3, <4>2, <4>3, <4>4
    <3> QED BY <1>6, <2>1, <3>4, <3>5
  <2> QED BY <2>2, <2>3
<1>18. ASSUME fs[b].staging, z > End(fs[b])
       PROVE  \E i \in Reals(fs) : i < b /\ z <= End(fs[i])
  <2>1. ~fs[a].staging
    <3> SUFFICES ASSUME fs[a].staging PROVE FALSE
      OBVIOUS
    <3>1. fs[b].offset \in Nat /\ fs[b].size \in Nat /\ End(fs[b]) = fs[b].offset + fs[b].size
      BY <1>6, <1>11
    <3> QED BY <1>8, <1>14, <1>18, <3>1
  <2>2. a \in Reals(fs)
    BY <1>6, <1>11, <2>1
  <2> QED BY <1>6, <1>13, <2>1, <2>2
<1>19. WriteAt(o, fs)
  BY <1>9, <1>15, <1>16, <1>17, <1>18 DEF WriteAt
<1>20. ~Begins(o) /\ Current(o) = o /\ EmptyBack(o, fs) /\ CopyAt(o, fs)
  BY <1>9 DEF Begins, Current, EmptyBack, CopyAt
<1>21. Placing(o, fs)
  BY <1>4, <1>19, <1>20 DEF Placing
<1> QED BY <1>10, <1>21

LEMMA StepWriteFile ==
  ASSUME IInv, FInv, WriteFile
  PROVE  FInv' /\ FlatStep
<1>1. PICK n, fs : n = WriteLength(files, op.at) /\ Wrote(n, fs)
  BY WroteIs
<1>2. InFile /\ Writing
  BY DEF WriteFile
<1>3. /\ op.kind = "write" /\ op \in IOs /\ ~op.null /\ n \in Nat /\ n <= op.len /\ op.off \in Nat /\ op.len \in Nat
      /\ Len(fs) = Len(files)
  BY <1>1, <1>2, WroteFacts
<1>4. op' = Advance(fs, n) /\ StoredIn(files') = StoredIn(fs) /\ AllOnDisk(fs)
  BY <1>1 DEF Wrote
<1>5. op.at = Len(files) => n = op.len
  BY <1>1, <1>2, WriteLengthFacts
<1>6. /\ n = op.len => op' = Idle
      /\ n # op.len => op'.kind = "write" /\ op'.off = op.off + n /\ op'.len = op.len - n /\ op'.v = op.v
  <2>1. n # op.len => op.at # Len(fs)
    BY <1>3, <1>5
  <2>2. PICK o : o = Advance(fs, n) OBVIOUS
  <2>3. /\ n = op.len => o = Idle
        /\ n # op.len => o.kind = "write" /\ o.off = op.off + n /\ o.len = op.len - n /\ o.v = op.v
    BY <1>3, <2>1, <2>2, AdvanceWrite
  <2> QED BY <1>4, <2>2, <2>3
<1>7. Placing(op', files')
  <2>1. PICK o : o = op' OBVIOUS
  <2>2. InList(o, fs) /\ Placing(o, fs)
    <3>1. CASE n = op.len
      <4>1. o.kind = "idle"
        BY <1>6, <2>1, <3>1 DEF Idle
      <4>2. ~Begins(o)
        BY <4>1 DEF Begins
      <4>3. InList(o, fs)
        BY <4>1 DEF InList, Current
      <4>4. Placing(o, fs)
        BY <1>4, <4>1, <4>2, PlacingOther
      <4> QED BY <4>3, <4>4
    <3>2. CASE n # op.len
      <4>1. o = Advance(fs, n)
        BY <1>4, <2>1
      <4> QED BY <1>1, <1>2, <3>2, <4>1, WroteOn
    <3> QED BY <3>1, <3>2
  <2>3. Placing(o, files')
    BY <1>1, <2>2 DEF Wrote
  <2> QED BY <2>1, <2>3
<1>8. ~Begins(op) /\ ~Begins(op')
  BY <1>3, <1>6 DEF Begins, Idle
<1>9. InStart' <=> InStart
  BY <1>8 DEF InStart, Begins
<1>10. Stored' = StoredIn(fs)
  BY <1>4 DEF Stored
<1>11. CurrentWrite = [off |-> op.off, len |-> op.len, v |-> op.v]
  BY <1>3, WriteRuns
<1>12. CurrentWrite' = IF n = op.len THEN Flat!NoWrite ELSE [off |-> op.off + n, len |-> op.len - n, v |-> op.v]
  <2>1. CASE n = op.len
    <3>1. op'.kind = "idle"
      BY <1>6, <2>1 DEF Idle
    <3> QED BY <2>1, <3>1, WriteOver
  <2>2. CASE n # op.len
    BY <1>6, <2>2 DEF CurrentWrite
  <2> QED BY <2>1, <2>2
<1>13. \A c \in Cells : StoredIn(fs)[c] = Stored[c] \/ (c \in op.off .. op.off + n - 1 /\ StoredIn(fs)[c] = op.v)
  BY <1>1, <1>2, WroteByte
<1>14. CASE n = 0
  <2>1. n # op.len
    BY <1>3, <1>14, IOFields
  <2>2. op.off + n = op.off /\ op.len - n = op.len
    BY <1>3, <1>14
  <2>3. WritePart(Current(op')) = WritePart(Current(op))
    BY <1>3, <1>6, <2>1, <2>2 DEF WritePart, Current
  <2>4. \A c \in Cells : StoredIn(fs)[c] = StoredIn(files)[c]
    <3> SUFFICES ASSUME NEW c \in Cells PROVE StoredIn(fs)[c] = StoredIn(files)[c]
      OBVIOUS
    <3>1. c \notin op.off .. op.off + n - 1
      BY <1>3, <1>14
    <3> QED BY <1>13, <3>1 DEF Stored
  <2>5. StoredIn(fs) = StoredIn(files)
    BY <2>4, StoredEqual
  <2>6. Stored' = Stored
    BY <1>10, <2>5 DEF Stored
  <2> QED BY <1>7, <1>8, <2>3, <2>6, Stutter DEF FInv
<1>15. CASE n # 0
  <2>1. n \in 1 .. CurrentWrite.len /\ CurrentWrite.len = op.len /\ CurrentWrite.v = op.v
    BY <1>3, <1>11, <1>15
  <2>2. CurrentWrite' = IF n = CurrentWrite.len THEN Flat!NoWrite
                        ELSE [CurrentWrite EXCEPT !.off = @ + n, !.len = @ - n]
    BY <1>11, <1>12
  <2>3. Flat!First(n) = op.off .. op.off + n - 1
    BY <1>11 DEF Flat!First
  <2>4. PICK lost : lost = {c \in Flat!First(n) : c \notin Cells \/ StoredIn(fs)[c] # op.v} OBVIOUS
  <2>5. lost \in SUBSET Flat!First(n)
    BY <2>4
  <2>6. Flat!First(n) \subseteq Cells
    <3>1. op.off + op.len <= Total /\ Total \in Nat
      BY <1>2, InStep
    <3> QED BY <1>3, <2>3, <3>1, Extents
  <2>7. ~Tangled => lost = {}
    <3> SUFFICES ASSUME ~Tangled, NEW c \in lost PROVE FALSE
      OBVIOUS
    <3>1. c \in Cells /\ c \in op.off .. op.off + n - 1 /\ StoredIn(fs)[c] # op.v
      BY <2>3, <2>4, <2>6
    <3>2. Neat(files)
      BY NeatIs
    <3> QED BY <1>1, <1>2, <3>1, <3>2, WroteNeat
  <2>8. \A c \in Cells : Stored'[c] = IF c \in Flat!First(n) \ lost THEN CurrentWrite.v ELSE Stored[c]
    <3> SUFFICES ASSUME NEW c \in Cells
                 PROVE  StoredIn(fs)[c] = IF c \in Flat!First(n) \ lost THEN op.v ELSE Stored[c]
      BY <1>10, <2>1
    <3>1. c \in lost <=> c \in Flat!First(n) /\ StoredIn(fs)[c] # op.v
      BY <2>4
    <3> QED BY <1>13, <2>3, <3>1
  <2>9. FlatStep
    BY <1>9, <2>1, <2>2, <2>5, <2>7, <2>8, StepDo
  <2> QED BY <1>7, <2>9 DEF FInv
<1> QED BY <1>14, <1>15

-----------------------------------------------------------------------------
(* A file is cut, or extended, at the start.                               *)

LEMMA ExtendIs ==
  ASSUME IInv, ExtendFile, NEW i, i = op.at, NEW new, new = NewSize(files, i)
  PROVE  \/ op' = Created /\ \E u : Opens(Here, u) /\ SetTo(u)
         \/ op'.kind = "extend" /\ \E t : Opens(Here, t) /\ Cut(i, new, t.f, files')
<1>2. ExtendFits(op, files) /\ Shaped(files) /\ Len(files) \in Nat /\ DOMAIN files = 1 .. Len(files)
  BY Kinds, HereFacts DEF ExtendFile, Extend, IInv
<1>3. i \in 1 .. Len(files) /\ ~files[i].staging /\ i \in Reals(files)
  BY <1>2 DEF ExtendFile, Skipped, ExtendFits, Reals
<1>5. new \in Nat /\ files[i].offset + new <= Total
  BY <1>2, <1>3, NewSizeFacts, SMTT(60)
<1> DEFINE cut(f) == [f EXCEPT !.size = new, !.disk = new,
                        !.data = [c \in Cells |-> IF c < f.offset + new THEN @[c] ELSE Unknown]]
<1>6. PICK r \in Open(Here, op.at, TRUE, 0) : \E done \in IF r.ok /\ r.s.r > 0 THEN BOOLEAN ELSE {r.ok} :
       LET s == IF done THEN [r.s EXCEPT !.f[op.at] = cut(@)] ELSE IF r.ok THEN Refused(r.s) ELSE r.s
       IN  /\ SetTo(Close(s, op.at))
           /\ op' = IF done THEN [op EXCEPT !.at = @ + 1] ELSE Created
           /\ unmerged' = (unmerged \/ ~done)
  BY DEF ExtendFile
<1>7. PICK done \in IF r.ok /\ r.s.r > 0 THEN BOOLEAN ELSE {r.ok} :
       LET s == IF done THEN [r.s EXCEPT !.f[op.at] = cut(@)] ELSE IF r.ok THEN Refused(r.s) ELSE r.s
       IN  /\ SetTo(Close(s, op.at))
           /\ op' = IF done THEN [op EXCEPT !.at = @ + 1] ELSE Created
           /\ unmerged' = (unmerged \/ ~done)
  BY <1>6
<1>8. PICK t : t = r.s OBVIOUS
<1>9. Opens(Here, t) /\ r.ok \in BOOLEAN
  <2>1. Good(Here) /\ Here.f = files
    BY HereFacts
  <2>2. PICK yes : yes = TRUE OBVIOUS
  <2>3. PICK keep : keep = 0 OBVIOUS
  <2>4. r \in Open(Here, i, yes, keep) /\ yes \in BOOLEAN /\ i \in 1 .. Len(Here.f)
    BY <1>3, <1>6, <2>1, <2>2, <2>3
  <2>5. Opens(Here, r.s) /\ r.ok \in BOOLEAN
    BY <2>1, <2>4, OpenFacts
  <2> QED BY <1>8, <2>5
<1>10. /\ Good(t) /\ t \in States /\ Shaped(t.f) /\ Len(t.f) = Len(files) /\ t.r \in Nat /\ Rewritten(files, t.f)
       /\ \A j \in 1 .. Len(t.f) : t.f[j] \in Files
  BY <1>9, HereFacts, GoodFacts, SMTT(60) DEF Opens, Rewritten
<1>11. PICK s : s = IF done THEN [t EXCEPT !.f[i] = cut(@)] ELSE IF r.ok THEN Refused(t) ELSE t
  OBVIOUS
<1>12. /\ SetTo(Close(s, i))
       /\ op' = IF done THEN [op EXCEPT !.at = @ + 1] ELSE Created
  BY <1>7, <1>8, <1>11
<1>13. PICK u : u = Close(s, i) OBVIOUS
<1>14. CASE done
  <2>1. PICK f : f = t.f[i] OBVIOUS
  <2>2. f \in Files /\ f.offset = files[i].offset
    BY <1>3, <1>10, <2>1 DEF Rewritten, Alike
  <2> DEFINE bytes == [c \in Cells |-> IF c < f.offset + new THEN f.data[c] ELSE Unknown]
  <2>3. bytes \in Bytes
    BY <2>2, FileFacts DEF Bytes
  <2>4. PICK g : g = GrownTo(f, new, new, bytes) OBVIOUS
  <2>5. g = cut(f)
    BY <2>4 DEF GrownTo
  <2>6. \A c \in Cells : bytes[c] = IF c < f.offset + new THEN f.data[c] ELSE Unknown
    OBVIOUS
  <2> HIDE DEF bytes, cut
  <2>7. new \in Int /\ -1 <= new /\ f.offset + new <= Total
    BY <1>5, <2>2
  <2>8. g \in Files /\ Alike(f, g) /\ (g.opened <=> f.opened) /\ g.size = new /\ g.disk = new /\ g.data = bytes
    BY <1>5, <2>2, <2>3, <2>4, <2>7, GrownToFacts
  <2>9. s = [t EXCEPT !.f = Replaced(t.f, i, g)]
    BY <1>11, <1>14, <2>1, <2>5 DEF Replaced
  <2>10. s.f = Replaced(t.f, i, g) /\ s.n = t.n /\ s.r = t.r /\ s = [f |-> s.f, n |-> s.n, r |-> s.r]
    BY <1>10, <2>9 DEF States
  <2>11. i \in 1 .. Len(t.f) /\ Alike(t.f[i], g) /\ (g.opened <=> t.f[i].opened) /\ s.r \in Nat
    BY <1>3, <1>10, <2>1, <2>8, <2>10
  <2>12. /\ Good(s) /\ Rewritten(t.f, s.f) /\ Len(s.f) = Len(t.f)
         /\ s.f[i] = g /\ \A j \in 1 .. Len(t.f) : j # i => s.f[j] = t.f[j]
    BY <1>10, <2>8, <2>10, <2>11, RewriteGood
  <2>13. /\ Opens(s, u)
         /\ u.f[i].data = s.f[i].data /\ u.f[i].disk = s.f[i].disk
         /\ \A j \in 1 .. Len(s.f) : j # i => u.f[j] = s.f[j]
    BY <1>3, <1>10, <1>13, <2>12, CloseFacts, SMTT(60)
  <2>14. Rewritten(s.f, u.f) /\ Shaped(u.f) /\ u.f[i].size = s.f[i].size
    BY <1>3, <1>10, <2>12, <2>13 DEF Opens, Good, Same
  <2>15. Rewritten(t.f, u.f)
    BY <2>12, <2>14 DEF Rewritten, Alike
  <2>16. \A j \in 1 .. Len(t.f) : j # i => u.f[j] = t.f[j]
    BY <2>12, <2>13
  <2>17. \A c \in Cells : u.f[i].data[c] = IF c < t.f[i].offset + new THEN t.f[i].data[c] ELSE Unknown
    BY <2>1, <2>6, <2>8, <2>12, <2>13
  <2>18. u.f[i].size = new /\ u.f[i].disk = new
    BY <2>8, <2>12, <2>13, <2>14
  <2>19. Cut(i, new, t.f, u.f)
    BY <2>14, <2>15, <2>16, <2>17, <2>18 DEF Cut
  <2>20. files' = u.f
    BY <1>12, <1>13 DEF SetTo
  <2>21. op'.kind = "extend"
    <3>1. op' = [kind |-> "extend", at |-> i + 1, wanted |-> op.wanted]
      BY <1>2, <1>12, <1>14 DEF ExtendFits
    <3> QED BY <3>1
  <2> QED BY <1>9, <2>19, <2>20, <2>21
<1>15. CASE ~done
  <2>1. Opens(t, s)
    <3>1. CASE r.ok
      <4>1. s = Refused(t)
        BY <1>11, <1>15, <3>1
      <4>2. done \in IF r.ok /\ t.r > 0 THEN BOOLEAN ELSE {r.ok}
        BY <1>8
      <4>3. t.r > 0
        BY <1>15, <3>1, <4>2
      <4>4. t.r # 0
        BY <1>10, <4>3
      <4> QED BY <1>10, <4>1, <4>4, RefusedFacts
    <3>2. CASE ~r.ok
      <4>1. s = t
        BY <1>11, <1>15, <3>2
      <4> QED BY <1>10, <4>1, OpensItself
    <3> QED BY <3>1, <3>2
  <2>2. Opens(s, u)
    <3>1. Good(s) /\ i \in 1 .. Len(s.f)
      BY <1>3, <1>10, <2>1 DEF Opens, Rewritten
    <3> QED BY <1>13, <3>1, CloseFacts
  <2>3. Opens(Here, s)
    BY <1>9, <2>1, HereFacts, OpensTransitive
  <2>4. Opens(Here, u)
    BY <2>2, <2>3, HereFacts, OpensTransitive
  <2> QED BY <1>12, <1>13, <1>15, <2>4
<1> QED BY <1>14, <1>15

\* A byte that is not loose keeps its value when a file is cut to end where the next begins.
LEMMA CutValue ==
  ASSUME IInv, FInv, ExtendFile, NEW i, i = op.at, NEW new, new = NewSize(files, i),
         NEW t, Opens(Here, t), NEW gs, Cut(i, new, t.f, gs), NEW c \in Cells, c \notin Loose
  PROVE  StoredIn(gs)[c] = Stored[c]
<1>1. PICK hs : hs = t.f OBVIOUS
<1>2. /\ Shaped(files) /\ Len(files) \in Nat /\ DOMAIN files = 1 .. Len(files)
      /\ \A j \in 1 .. Len(files) : files[j] \in Files
      /\ op.kind = "extend" /\ ExtendFits(op, files)
  BY Kinds, HereFacts DEF ExtendFile, Extend, IInv
<1>3. i \in 1 .. Len(files) /\ ~files[i].staging /\ i \in Reals(files)
      /\ ~(files[i].size > 0 /\ files[i].size >= files[i].length)
  BY <1>2 DEF ExtendFile, Skipped, ExtendFits, Reals
<1>4. Sorted(files) /\ AllOnDisk(files)
  BY <1>2 DEF FInv, Placing, Begins
<1>5. /\ Rewritten(files, hs) /\ Len(hs) = Len(files)
      /\ \A j \in 1 .. Len(files) : Same(files[j], hs[j])
  BY <1>1, HereFacts DEF Opens, Rewritten
<1>6. /\ Rewritten(hs, gs) /\ Shaped(gs) /\ Len(gs) = Len(files)
      /\ \A j \in 1 .. Len(files) : j # i => gs[j] = hs[j]
      /\ gs[i].size = new
      /\ gs[i].data[c] = IF c < hs[i].offset + new THEN hs[i].data[c] ELSE Unknown
  BY <1>1, <1>5 DEF Cut, Rewritten
<1>7. \A j \in 1 .. Len(files) : Alike(files[j], gs[j])
  BY <1>5, <1>6 DEF Rewritten, Alike
<1>8. /\ \A j \in 1 .. Len(files) : files[j].offset \in Nat /\ files[j].size \in Nat /\ files[j].length \in Nat
                                    /\ End(files[j]) = files[j].offset + files[j].size
      /\ \A j \in 1 .. Len(files) : j \in Reals(files) <=> ~files[j].staging
  BY <1>2, ListFacts
<1>9. new \in Nat /\ c \in Nat
  BY <1>2, <1>3, NewSizeFacts, Extents
<1>10. PICK f : f = files[i] OBVIOUS
<1>11. /\ f.offset \in Nat /\ f.size \in Nat /\ f.length \in Nat /\ End(f) = f.offset + f.size
       /\ hs[i].offset = f.offset /\ gs[i].offset = f.offset
  BY <1>3, <1>5, <1>7, <1>8, <1>10 DEF Alike, Rewritten
<1>12. Covers(f, c) <=> f.offset <= c /\ c < f.offset + f.size
  BY <1>11 DEF Covers
<1>13. Covers(gs[i], c) <=> f.offset <= c /\ c < f.offset + new
  BY <1>6, <1>11 DEF Covers, End
<1>14. \A j \in 1 .. Len(files) : j # i => (Covers(gs[j], c) <=> Covers(files[j], c))
  <2> SUFFICES ASSUME NEW j \in 1 .. Len(files), j # i PROVE Covers(gs[j], c) <=> Covers(files[j], c)
    OBVIOUS
  <2>1. gs[j].size = files[j].size /\ gs[j].offset = files[j].offset
    BY <1>5, <1>6 DEF Same, Alike
  <2> QED BY <2>1 DEF Covers, End
<1>15. ASSUME NEW j \in 1 .. Len(files), Covers(gs[j], c) <=> Covers(files[j], c)
       PROVE  Holds(gs, j, c) <=> Holds(files, j, c)
  <2>1. j \in Nat /\ j >= 1 /\ \A k \in 1 .. j : k \in 1 .. Len(files)
    BY <1>2
  <2>2. \A k \in 1 .. j : Alike(files[k], gs[k])
    BY <1>7, <2>1
  <2> QED BY <1>15, <2>1, <2>2, HoldsSame
<1>16. ASSUME NEW j \in 1 .. Len(files), Covers(files[j], c)
       PROVE  hs[j].data[c] = files[j].data[c]
  <2>1. files[j].size # 0
    BY <1>8, <1>9, <1>16 DEF Covers
  <2> QED BY <1>5, <2>1 DEF Same
<1>17. CASE ~Covers(f, c) /\ Covers(gs[i], c)
  <2>1. End(f) <= c /\ c < f.offset + new
    BY <1>9, <1>11, <1>12, <1>13, <1>17
  <2>2. hs[i].data[c] = Unknown
    <3>1. Same(f, hs[i])
      BY <1>3, <1>5, <1>10
    <3>2. CASE hs[i].data = f.data /\ hs[i].disk = f.disk
      <4>1. c \notin End(f) .. f.offset + f.disk - 1
        BY <1>3, <1>10, NotLoose
      <4>2. f.disk \in Int
        BY <1>2, <1>3, <1>10, FileFacts
      <4>3. c >= f.offset + f.disk
        BY <1>9, <1>11, <2>1, <4>1, <4>2
      <4>4. f.data[c] = Unknown
        BY <1>3, <1>4, <1>10, <4>3 DEF AllOnDisk, OnDisk
      <4> QED BY <3>2, <4>4
    <3>3. CASE ~(hs[i].data = f.data /\ hs[i].disk = f.disk)
      BY <3>1, <3>3 DEF Same
    <3> QED BY <3>2, <3>3
  <2>3. gs[i].data[c] = Unknown
    BY <1>6, <2>2
  <2>4. ASSUME NEW j \in 1 .. Len(files), Holds(files, j, c)
        PROVE  j < i
    <3>1. Covers(files[j], c)
      BY <2>4, HoldsIs
    <3>2. j # i
      BY <1>10, <1>17, <3>1
    <3>3. ASSUME j > i
          PROVE  FALSE
      <4>1. i + 1 \in 1 .. Len(files) /\ i < Len(files) /\ i + 1 <= j
        BY <1>2, <1>3, <3>3
      <4>2. files[i + 1].offset <= files[j].offset
        BY <1>4, <1>8, <4>1 DEF Sorted
      <4>3. new = files[i + 1].offset - f.offset
        BY <1>10, <4>1 DEF NewSize
      <4>4. files[i + 1].offset \in Nat /\ files[j].offset \in Nat /\ files[j].offset <= c
        BY <1>8, <3>1, <4>1 DEF Covers
      <4> QED BY <1>9, <1>11, <2>1, <4>2, <4>3, <4>4, SMTT(60)
    <3> QED BY <1>2, <1>3, <3>2, <3>3
  <2>5. CASE \E j \in 1 .. Len(files) : Holds(files, j, c)
    <3>1. PICK j \in 1 .. Len(files) : Holds(files, j, c)
      BY <2>5
    <3>2. PICK k \in 1 .. j : FirstHas(files, k, c)
      BY <1>2, <3>1, SomeFirst
    <3>3. /\ k \in 1 .. Len(files) /\ Holds(files, k, c) /\ k \in 1 .. Len(gs)
          /\ \A l \in 1 .. k : l \in 1 .. Len(files)
      BY <1>2, <1>6, <3>1, <3>2 DEF FirstHas
    <3>4. k < i
      BY <2>4, <3>3
    <3>5. \A l \in 1 .. k : l # i
      BY <1>2, <1>3, <3>3, <3>4
    <3>6. \A l \in 1 .. k : Holds(gs, l, c) <=> Holds(files, l, c)
      BY <1>14, <1>15, <3>3, <3>5
    <3>7. gs[k].data[c] = files[k].data[c]
      <4>1. Covers(files[k], c)
        BY <3>3, HoldsIs
      <4> QED BY <1>6, <1>16, <3>3, <3>4, <4>1
    <3>8. StoredIn(gs)[c] = StoredIn(files)[c]
      BY <1>2, <1>6, <3>2, <3>3, <3>6, <3>7, ValueBefore
    <3> QED BY <3>8 DEF Stored
  <2>6. CASE ~\E j \in 1 .. Len(files) : Holds(files, j, c)
    <3>1. Stored[c] = Unknown
      BY <1>2, <2>6, NotStored DEF Stored
    <3>2. \A j \in 1 .. Len(gs) : Holds(gs, j, c) => gs[j].data[c] = Unknown
      BY <1>6, <1>14, <1>15, <2>3, <2>6
    <3>3. StoredIn(gs)[c] = Unknown
      <4>1. PICK v : v = Unknown OBVIOUS
      <4>2. \A j \in 1 .. Len(gs) : Holds(gs, j, c) => gs[j].data[c] = v
        BY <3>2, <4>1
      <4>3. StoredIn(gs)[c] = v
        BY <1>6, <4>1, <4>2, ValueIs
      <4> QED BY <4>1, <4>3
    <3> QED BY <3>1, <3>3
  <2> QED BY <2>5, <2>6
<1>18. CASE Covers(f, c) \/ ~Covers(gs[i], c)
  <2>1. \A j \in 1 .. Len(gs) : Holds(gs, j, c) =>
           \E k \in 1 .. Len(files) : Covers(files[k], c) /\ gs[j].data[c] = files[k].data[c]
    <3> SUFFICES ASSUME NEW j \in 1 .. Len(files), Holds(gs, j, c)
                 PROVE  Covers(files[j], c) /\ gs[j].data[c] = files[j].data[c]
      BY <1>6
    <3>1. Covers(gs[j], c)
      BY HoldsIs
    <3>2. CASE j = i
      <4>1. Covers(files[i], c)
        BY <1>10, <1>18, <3>1, <3>2
      <4>2. c < hs[i].offset + new
        BY <1>11, <1>13, <3>1, <3>2
      <4> QED BY <1>6, <1>16, <3>2, <4>1, <4>2
    <3>3. CASE j # i
      <4>1. Covers(files[j], c)
        BY <1>14, <3>1, <3>3
      <4> QED BY <1>6, <1>16, <3>3, <4>1
    <3> QED BY <3>2, <3>3
  <2>2. ASSUME NEW j \in 1 .. Len(files), Holds(files, j, c)
        PROVE  \E k \in 1 .. Len(gs) : Holds(gs, k, c)
    <3>1. CASE j # i \/ Covers(gs[i], c)
      <4>1. Covers(files[j], c)
        BY <2>2, HoldsIs
      <4>2. Covers(gs[j], c) <=> Covers(files[j], c)
        BY <1>14, <3>1, <4>1
      <4> QED BY <1>6, <1>15, <2>2, <4>2
    <3>2. CASE j = i /\ ~Covers(gs[i], c)
      <4>1. Covers(f, c)
        BY <1>10, <2>2, <3>2, HoldsIs
      <4>2. f.offset <= c /\ c < f.offset + f.size /\ f.offset + new <= c
        BY <1>9, <1>11, <1>12, <1>13, <3>2, <4>1
      <4>3. f.size < f.length
        BY <1>3, <1>9, <1>10, <1>11, <4>2, SMTT(60)
      <4>4. i < Len(files)
        <5> SUFFICES ASSUME ~(i < Len(files)) PROVE FALSE
          OBVIOUS
        <5>1. new = f.length
          BY <1>10 DEF NewSize
        <5> QED BY <1>9, <1>11, <4>2, <4>3, <5>1
      <4>5. PICK m : m = i + 1 OBVIOUS
      <4>6. m \in 1 .. Len(files) /\ m # i /\ i < m
        BY <1>2, <1>3, <4>4, <4>5
      <4>7. new = files[m].offset - f.offset /\ files[m].offset \in Nat
        BY <1>8, <1>10, <4>4, <4>5, <4>6 DEF NewSize
      <4>8. files[m].offset <= c
        BY <1>9, <1>11, <4>2, <4>7, SMTT(60)
      <4>9. files[m].staging
        <5> SUFFICES ASSUME ~files[m].staging PROVE FALSE
          OBVIOUS
        <5>1. m \in Reals(files)
          BY <1>8, <4>6
        <5>2. f.offset + f.length <= files[m].offset
          BY <1>2, <1>3, <1>10, <4>6, <5>1, Geometry
        <5> QED BY <1>9, <1>11, <4>2, <4>3, <4>7, <4>8, <5>2, SMTT(60)
      <4>10. Mergeable(files, i)
        <5>1. End(files[i]) >= files[i + 1].offset
          BY <1>9, <1>10, <1>11, <4>2, <4>5, <4>7, <4>8, SMTT(60)
        <5> QED BY <1>3, <1>10, <4>3, <4>4, <4>5, <4>9, <5>1 DEF Mergeable
      <4>11. c \notin End(files[m]) .. End(f) - 1
        <5>1. Extend
          BY <1>2 DEF Extend
        <5> QED BY <1>3, <1>10, <4>5, <4>10, <5>1, NotLoose
      <4>12. c < End(files[m])
        <5>1. End(files[m]) \in Nat
          BY <1>8, <4>6, SMTT(60)
        <5> QED BY <1>9, <1>11, <4>2, <4>11, <5>1
      <4>13. Covers(files[m], c)
        BY <4>8, <4>12 DEF Covers
      <4>14. Holds(files, m, c)
        <5>1. c < files[i].offset + files[i].length
          BY <1>9, <1>10, <1>11, <4>2, <4>3, SMTT(60)
        <5>2. i \in 1 .. m - 1
          BY <1>2, <1>3, <4>5
        <5> QED BY <1>3, <4>13, <5>1, <5>2, HoldsIs
      <4>15. Holds(gs, m, c)
        BY <1>14, <1>15, <4>6, <4>14
      <4> QED BY <1>6, <4>6, <4>15
    <3> QED BY <3>1, <3>2
  <2> QED BY <1>6, <2>1, <2>2, ValueHeld
<1> QED BY <1>17, <1>18

LEMMA StepExtendFile ==
  ASSUME IInv, FInv, ExtendFile
  PROVE  FInv' /\ FlatStep
<1>1. PICK i : i = op.at OBVIOUS
<1>2. PICK new : new = NewSize(files, i) OBVIOUS
<1>3. op.kind = "extend" /\ Begins(op) /\ FInv /\ Sorted(files) /\ AllOnDisk(files)
  BY DEF ExtendFile, Extend, Begins, FInv, Placing
<1>4. CASE op' = Created /\ \E u : Opens(Here, u) /\ SetTo(u)
  <2>1. PICK u : Opens(Here, u) /\ SetTo(u)
    BY <1>4
  <2>2. files' = u.f
    BY <2>1 DEF SetTo
  <2>3. Placing(op, u.f) /\ StoredIn(u.f) = Stored
    BY <2>1, Inside, PlacingOpens DEF FInv
  <2>4. op'.kind = "created" /\ ~Begins(op')
    BY <1>4 DEF Created, Begins
  <2>5. FInv'
    <3>1. AllOnDisk(files')
      BY <2>2, <2>3 DEF Placing
    <3> QED BY <2>4, <3>1, PlacingOther DEF FInv
  <2>6. Stored' = Stored
    BY <2>2, <2>3 DEF Stored
  <2>7. WritePart(Current(op')) = WritePart(Current(op))
    BY <1>3, <2>4 DEF WritePart, Current
  <2> QED BY <1>3, <2>4, <2>5, <2>6, <2>7, StepBegin
<1>5. CASE op'.kind = "extend" /\ \E t : Opens(Here, t) /\ Cut(i, new, t.f, files')
  <2>1. PICK t : Opens(Here, t) /\ Cut(i, new, t.f, files')
    BY <1>5
  <2>2. PICK gs : gs = files' OBVIOUS
  <2>3. Cut(i, new, t.f, gs)
    BY <2>1, <2>2
  <2>4. /\ Rewritten(files, t.f) /\ Len(t.f) = Len(files)
        /\ \A j \in 1 .. Len(files) : Same(files[j], t.f[j]) /\ files[j] \in Files
    BY <2>1, HereFacts DEF Opens, Rewritten
  <2>5. AllOnDisk(t.f)
    BY <1>3, <2>4, OnDiskSame DEF AllOnDisk
  <2>6. Rewritten(files, gs)
    BY <2>3, <2>4 DEF Cut, Rewritten, Alike
  <2>7. AllOnDisk(gs)
    <3> SUFFICES ASSUME NEW j \in 1 .. Len(files) PROVE OnDisk(gs[j])
      BY <2>6 DEF AllOnDisk, Rewritten
    <3>1. CASE j # i
      BY <2>3, <2>4, <2>5, <3>1 DEF Cut, AllOnDisk
    <3>2. CASE j = i
      <4>1. new \in Nat
        <5>1. Shaped(files) /\ ExtendFits(op, files) /\ DOMAIN files = 1 .. Len(files)
          BY <1>3, HereFacts, Kinds DEF IInv
        <5>2. i \in Reals(files)
          BY <1>1, <3>2, <5>1 DEF ExtendFile, Skipped, Reals
        <5> QED BY <1>2, <5>1, <5>2, NewSizeFacts
      <4>2. gs[i].size = new /\ gs[i].disk = new
        BY <2>3 DEF Cut
      <4>3. gs[i].offset = t.f[i].offset
        BY <2>3, <2>4, <3>2 DEF Cut, Rewritten, Alike
      <4>4. gs[i].offset \in Nat
        <5>1. Shaped(gs) /\ Len(gs) = Len(files)
          BY <2>3, <2>6 DEF Cut, Rewritten
        <5> QED BY <3>2, <5>1, ListFacts
      <4>5. ASSUME NEW c \in Cells, c >= gs[i].offset + gs[i].disk
            PROVE  gs[i].data[c] = Unknown
        <5>1. ~(c < t.f[i].offset + new)
          BY <4>1, <4>2, <4>3, <4>4, <4>5, Extents
        <5> QED BY <2>3, <5>1 DEF Cut
      <4>6. gs[i].size > 0 => gs[i].disk >= gs[i].size
        BY <4>1, <4>2
      <4> QED BY <3>2, <4>5, <4>6 DEF OnDisk
    <3> QED BY <3>1, <3>2
  <2>8. Sorted(gs)
    BY <1>3, <2>6, SortedSame
  <2>9. FInv'
    BY <1>5, <2>2, <2>7, <2>8, PlacingOther DEF FInv
  <2>10. InStart'
    BY <1>5 DEF InStart
  <2>11. CurrentWrite' = Flat!NoWrite
    BY <1>5, WriteOver
  <2>12. \A c \in Cells : c \notin Loose => StoredIn(gs)[c] = Stored[c]
    BY <1>1, <1>2, <2>1, <2>3, CutValue
  <2>13. \A c \in Cells : c \notin Loose => Stored'[c] = Stored[c]
    BY <2>2, <2>12 DEF Stored
  <2> QED BY <2>9, <2>10, <2>11, <2>13, StepRestart
<1> QED BY <1>1, <1>2, <1>4, <1>5, ExtendIs

-----------------------------------------------------------------------------
(* A new session: SetupFiles finds the files again.                        *)

LEMMA AgainIs ==
  ASSUME NEW f \in Files, NEW g, g = Again(f)
  PROVE  /\ g \in Files /\ Alike(f, g)
         /\ g.size = (IF f.disk > 0 THEN f.disk ELSE 0) /\ g.disk = f.disk /\ g.data = f.data
<1>1. f.disk \in Int /\ f.offset \in Nat /\ f.offset + f.disk <= Total /\ f.offset + 0 <= Total
  BY FileFacts
<1> DEFINE n == IF f.disk > 0 THEN f.disk ELSE 0
<1>2. n \in Nat /\ f.offset + n <= Total
  BY <1>1
<1>3. PICK no : no = FALSE OBVIOUS
<1>4. g = FoundAs(f, n, no, no)
  BY <1>3 DEF Again, FoundAs
<1>5. n = IF f.disk > 0 THEN f.disk ELSE 0
  OBVIOUS
<1> HIDE DEF n
<1>6. no \in BOOLEAN
  BY <1>3
<1>7. g \in Files /\ Alike(f, g) /\ g.size = n /\ g.disk = f.disk /\ g.data = f.data
  BY <1>2, <1>4, <1>6, FoundAsFacts
<1> QED BY <1>5, <1>7

LEMMA PlaceBetween ==
  ASSUME NEW fs, Shaped(fs), Strict(fs), NEW off \in Cells, NEW k, k = Place(fs, off)
  PROVE  /\ k \in 1 .. Len(fs)
         /\ \A i \in 1 .. Len(fs) : (i <= k => fs[i].offset <= off) /\ (i > k => off < fs[i].offset)
<1>1. Len(fs) \in Nat \ {0} /\ DOMAIN fs = 1 .. Len(fs) /\ off \in Nat /\ 1 \in Reals(fs)
  BY ListFacts, Extents
<1>2. \A i \in 1 .. Len(fs) : fs[i].offset \in Nat
  BY ListFacts
<1> DEFINE S == {x \in DOMAIN fs : x = Len(fs) \/ off < fs[x + 1].offset}
<1>3. S \in SUBSET Nat /\ Len(fs) \in S
  BY <1>1
<1>4. k = Min(S)
  BY DEF Place
<1> HIDE DEF S
<1>5. k \in S /\ \A m \in S : k <= m
  BY <1>3, <1>4, MinIs
<1>6. k \in 1 .. Len(fs) /\ (k = Len(fs) \/ off < fs[k + 1].offset)
  BY <1>1, <1>5 DEF S
<1>7. ASSUME NEW i \in 1 .. Len(fs), i <= k
      PROVE  fs[i].offset <= off
  <2>1. CASE i = 1
    <3>1. 1 <= k
      BY <1>7, <2>1
    <3>2. fs[1].offset <= off
      BY <1>1, <3>1, PlaceFacts
    <3> QED BY <2>1, <3>2
  <2>2. CASE i # 1
    <3>1. i - 1 \in 1 .. Len(fs) /\ i - 1 < k /\ (i - 1) + 1 = i
      BY <1>1, <1>6, <1>7, <2>2
    <3>2. i - 1 \notin S
      BY <1>5, <1>6, <3>1
    <3>3. ~(off < fs[i].offset)
      BY <1>1, <3>1, <3>2 DEF S
    <3> QED BY <1>1, <1>2, <3>3
  <2> QED BY <2>1, <2>2
<1>8. ASSUME NEW i \in 1 .. Len(fs), i > k
      PROVE  off < fs[i].offset
  <2>1. k + 1 \in 1 .. Len(fs) /\ k # Len(fs) /\ (k + 1 = i \/ k + 1 < i)
    BY <1>1, <1>6, <1>8
  <2>2. off < fs[k + 1].offset
    BY <1>6, <2>1
  <2>3. fs[k + 1].offset <= fs[i].offset
    <3>1. CASE k + 1 = i
      BY <1>2, <3>1
    <3>2. CASE k + 1 < i
      BY <2>1, <3>2 DEF Strict
    <3> QED BY <2>1, <3>1, <3>2
  <2>4. fs[k + 1].offset \in Nat /\ fs[i].offset \in Nat
    BY <1>2, <2>1
  <2> QED BY <1>1, <2>2, <2>3, <2>4
<1> QED BY <1>6, <1>7, <1>8

LEMMA GrownStrict ==
  ASSUME NEW fs, Shaped(fs), Strict(fs), NEW k \in 1 .. Len(fs), NEW g, g.staging, NEW gs, Grown(fs, k, g, gs),
         \A i \in 1 .. Len(fs) : (i <= k => fs[i].offset <= g.offset) /\ (i > k => g.offset < fs[i].offset)
  PROVE  Strict(gs)
<1>1. Len(fs) \in Nat /\ k \in Nat /\ Len(gs) = Len(fs) + 1
  BY ListFacts DEF Grown
<1>2. \A i \in 1 .. Len(fs) : fs[i].offset \in Nat
  BY ListFacts
<1>3. g.offset \in Nat
  <2>1. k + 1 \in 1 .. Len(gs) /\ Shaped(gs) /\ gs[k + 1] = g
    BY <1>1 DEF Grown
  <2> QED BY <2>1, ListFacts
<1>4. \A i \in 1 .. Len(gs) :
        /\ i <= k => i \in 1 .. Len(fs) /\ gs[i] = fs[i]
        /\ i = k + 1 => gs[i] = g
        /\ i > k + 1 => i - 1 \in 1 .. Len(fs) /\ i - 1 > k /\ gs[i] = fs[i - 1]
  <2> SUFFICES ASSUME NEW i \in 1 .. Len(gs)
               PROVE  /\ i <= k => i \in 1 .. Len(fs) /\ gs[i] = fs[i]
                      /\ i = k + 1 => gs[i] = g
                      /\ i > k + 1 => i - 1 \in 1 .. Len(fs) /\ i - 1 > k /\ gs[i] = fs[i - 1]
    OBVIOUS
  <2>1. i <= k => i \in 1 .. Len(fs) /\ gs[i] = fs[i]
    BY <1>1 DEF Grown
  <2>2. i = k + 1 => gs[i] = g
    BY DEF Grown
  <2>3. ASSUME i > k + 1
        PROVE  i - 1 \in 1 .. Len(fs) /\ i - 1 > k /\ gs[i] = fs[i - 1]
    <3>1. i - 1 \in k + 1 .. Len(fs) /\ (i - 1) + 1 = i /\ i - 1 \in 1 .. Len(fs) /\ i - 1 > k
      BY <1>1, <2>3
    <3>2. gs[(i - 1) + 1] = fs[i - 1]
      BY <3>1 DEF Grown
    <3> QED BY <3>1, <3>2
  <2> QED BY <2>1, <2>2, <2>3
<1>5. ASSUME NEW i \in 1 .. Len(gs), NEW j \in 1 .. Len(gs), i < j
      PROVE  gs[i].offset <= gs[j].offset /\ (~gs[j].staging => gs[i].offset < gs[j].offset)
  <2>1. CASE j <= k
    <3>1. i <= k
      BY <1>1, <1>5, <2>1
    <3> QED BY <1>4, <1>5, <2>1, <3>1 DEF Strict
  <2>2. CASE j = k + 1
    <3>1. i <= k
      BY <1>1, <1>5, <2>2
    <3> QED BY <1>4, <2>2, <3>1
  <2>3. CASE j > k + 1 /\ i <= k
    <3>1. i < j - 1
      BY <1>1, <2>3
    <3> QED BY <1>4, <2>3, <3>1 DEF Strict
  <2>4. CASE j > k + 1 /\ i = k + 1
    <3>1. gs[i] = g /\ gs[j] = fs[j - 1] /\ j - 1 \in 1 .. Len(fs) /\ j - 1 > k
      BY <1>4, <2>4
    <3> QED BY <1>2, <1>3, <3>1
  <2>5. CASE i > k + 1
    <3>1. j > k + 1 /\ i - 1 < j - 1
      BY <1>1, <1>5, <2>5
    <3> QED BY <1>4, <2>5, <3>1 DEF Strict
  <2> QED BY <1>1, <1>5, <2>1, <2>2, <2>3, <2>4, <2>5
<1> QED BY <1>5 DEF Strict

\* Each real file is one of the torrent's, and only one.
LEMMA RealFileIs ==
  ASSUME Shaped(files), NEW i \in Reals(files)
  PROVE  \E n \in 1 .. Len(FileLengths) : RealFile(n) = files[i]
<1>1. Extent(files[i]) \in RealSet /\ i \in 1 .. Len(files) /\ Len(files) \in Nat /\ DOMAIN files = 1 .. Len(files)
  BY ListFacts DEF Shaped
<1>2. PICK n \in 1 .. Len(FileLengths) : Extent(files[i]) = <<FileEnd[n - 1], FileLengths[n]>>
  BY <1>1, Lengths DEF RealSet
<1>3. files[i].offset = FileEnd[n - 1]
  BY <1>2 DEF Extent
<1> DEFINE k == CHOOSE x \in Reals(files) : files[x].offset = FileEnd[n - 1]
<1>4. k \in Reals(files) /\ files[k].offset = FileEnd[n - 1]
  BY <1>3
<1>5. RealFile(n) = files[k]
  BY DEF RealFile
<1> HIDE DEF k
<1>6. k \in 1 .. Len(files) /\ ~files[k].staging /\ ~files[i].staging /\ files[k].offset \in Nat
  BY <1>4, ListFacts
<1>7. ~(k < i) /\ ~(i < k)
  <2>1. Ordered(files)
    BY DEF Shaped
  <2> QED BY <1>1, <1>3, <1>4, <1>6, <2>1 DEF Ordered
<1>8. k = i
  BY <1>1, <1>6, <1>7
<1> QED BY <1>5, <1>8

LEMMA KeptFirst ==
  ASSUME IInv
  PROVE  Kept(0, SetupBase)
<1>1. /\ Shaped(files) /\ Len(files) \in Nat /\ \A i \in 1 .. Len(files) : files[i] \in Files
      /\ DOMAIN files = 1 .. Len(files)
  BY HereFacts
<1> DEFINE N == Len(FileLengths)
<1>2. N \in Nat /\ SetupBase = [k \in 1 .. N |-> Again(RealFile(k))]
  BY Lengths DEF SetupBase
<1>3. ASSUME NEW k \in 1 .. N
      PROVE  /\ SetupBase[k] \in Files /\ SetupBase[k].offset = FileEnd[k - 1]
             /\ SetupBase[k].length = FileLengths[k] /\ ~SetupBase[k].staging
  <2>1. PICK f : f = RealFile(k) OBVIOUS
  <2>2. PICK g : g = Again(f) OBVIOUS
  <2>3. f \in Files /\ f.offset = FileEnd[k - 1] /\ f.length = FileLengths[k] /\ ~f.staging
    BY <1>1, <2>1, RealFileFacts
  <2>4. g \in Files /\ Alike(f, g)
    BY <2>2, <2>3, AgainFacts
  <2>5. SetupBase[k] = g
    BY <1>2, <2>1, <2>2
  <2> QED BY <2>3, <2>4, <2>5 DEF Alike
<1>4. SetupBase \in Seq(Files) /\ Len(SetupBase) = N
  <2>1. SetupBase = [k \in 1 .. N |-> SetupBase[k]]
    BY <1>2
  <2>2. SetupBase \in [1 .. N -> Files]
    BY <1>3, <2>1
  <2> HIDE DEF Files, N
  <2> QED BY <1>2, <2>1, <2>2
<1>5. Shaped(SetupBase)
  <2>1. Fresh(SetupBase)
    BY <1>3, <1>4 DEF Fresh
  <2> QED BY <2>1, FreshShaped
<1>6. Strict(SetupBase)
  <2>1. Ordered(SetupBase) /\ Reals(SetupBase) = 1 .. Len(SetupBase) /\ DOMAIN SetupBase = 1 .. Len(SetupBase)
    <3>1. Ordered(SetupBase) /\ DOMAIN SetupBase = 1 .. Len(SetupBase)
      BY <1>5, ListFacts DEF Shaped
    <3>2. \A k \in 1 .. Len(SetupBase) : ~SetupBase[k].staging
      BY <1>3, <1>4
    <3> HIDE DEF N
    <3> QED BY <3>1, <3>2 DEF Reals
  <2> QED BY <2>1 DEF Ordered, Strict
<1>7. ASSUME NEW k \in 1 .. Len(SetupBase)
      PROVE  \E j \in 1 .. Len(files) : SetupBase[k] = Again(files[j])
  <2>1. k \in 1 .. N /\ SetupBase[k] = Again(RealFile(k))
    BY <1>2, <1>4
  <2>2. <<FileEnd[k - 1], FileLengths[k]>> \in RealSet
    BY <2>1, Lengths DEF RealSet
  <2>3. PICK j \in Reals(files) : Extent(files[j]) = <<FileEnd[k - 1], FileLengths[k]>>
    BY <1>1, <2>2 DEF Shaped
  <2>4. files[j].offset = FileEnd[k - 1]
    BY <2>3 DEF Extent
  <2> DEFINE i == CHOOSE x \in Reals(files) : files[x].offset = FileEnd[k - 1]
  <2>5. i \in Reals(files)
    BY <2>4
  <2>6. RealFile(k) = files[i]
    BY DEF RealFile
  <2> HIDE DEF i
  <2>7. i \in 1 .. Len(files)
    BY <1>1, <2>5, ListFacts
  <2> QED BY <2>1, <2>6, <2>7
<1>8. ASSUME NEW j \in 1 .. Len(files), ~files[j].staging \/ (j <= 0 /\ Found(files[j]))
      PROVE  \E k \in 1 .. Len(SetupBase) : SetupBase[k] = Again(files[j])
  <2>1. ~files[j].staging
    BY <1>1, <1>8
  <2>2. j \in Reals(files)
    BY <1>1, <2>1, ListFacts
  <2>3. PICK k \in 1 .. N : RealFile(k) = files[j]
    BY <1>1, <2>2, RealFileIs
  <2> QED BY <1>2, <1>4, <2>3
<1> QED BY <1>5, <1>6, <1>7, <1>8 DEF Kept

LEMMA KeptNext ==
  ASSUME IInv, NEW m \in Nat, NEW n \in 1 .. Len(files), n = m + 1, NEW fs, Kept(m, fs)
  PROVE  Kept(n, SetupStep(n, fs))
<1>1. Len(files) \in Nat /\ \A i \in 1 .. Len(files) : files[i] \in Files
  BY HereFacts
<1>2. Shaped(fs) /\ Strict(fs)
  BY DEF Kept
<1>3. \A j \in 1 .. Len(files) : j <= n <=> j <= m \/ j = n
  BY <1>1
<1>4. CASE ~Found(files[n])
  <2>1. SetupStep(n, fs) = fs
    BY <1>4 DEF SetupStep
  <2>2. Kept(n, fs)
    BY <1>3, <1>4 DEF Kept
  <2> QED BY <2>1, <2>2
<1>5. CASE Found(files[n])
  <2>1. PICK f : f = files[n] OBVIOUS
  <2>2. PICK g : g = Again(f) OBVIOUS
  <2>3. PICK k : k = Place(fs, f.offset) OBVIOUS
  <2>4. PICK b : b = k + 1 OBVIOUS
  <2>5. PICK gs : gs = InsertAt(fs, b, g) OBVIOUS
  <2>6. SetupStep(n, fs) = gs
    BY <1>5, <2>1, <2>2, <2>3, <2>4, <2>5 DEF SetupStep
  <2>7. f \in Files /\ f.offset \in Cells /\ f.staging
    BY <1>1, <1>5, <2>1, FileFacts, Extents DEF Found
  <2>8. g \in Files /\ g.staging /\ g.offset = f.offset
    BY <2>2, <2>7, AgainFacts DEF Alike
  <2>9. /\ k \in 1 .. Len(fs)
        /\ \A i \in 1 .. Len(fs) : (i <= k => fs[i].offset <= g.offset) /\ (i > k => g.offset < fs[i].offset)
    BY <1>2, <2>3, <2>7, <2>8, PlaceBetween
  <2>10. Len(fs) \in Nat /\ \A i \in Reals(fs) : i \in 1 .. Len(fs)
    BY <1>2, ListFacts
  <2>11. \A i \in Reals(fs) : i <= k => fs[i].offset <= g.offset
    BY <2>9, <2>10
  <2>12. Grown(fs, k, g, gs)
    <3>1. /\ Shaped(gs) /\ Len(gs) = Len(fs) + 1
          /\ \A j \in 1 .. k : gs[j] = fs[j]
          /\ gs[b] = g
          /\ \A j \in b .. Len(fs) : gs[j + 1] = fs[j]
      BY <1>2, <2>4, <2>5, <2>8, <2>9, <2>11, Placed, SMTT(60)
    <3> QED BY <2>4, <3>1 DEF Grown
  <2>13. Strict(gs)
    BY <1>2, <2>8, <2>9, <2>12, GrownStrict
  <2>14. ASSUME NEW i \in 1 .. Len(gs)
         PROVE  \E j \in 1 .. Len(files) : gs[i] = Again(files[j])
    <3>1. i \in 1 .. k \/ i = b \/ (i - 1 \in b .. Len(fs) /\ (i - 1) + 1 = i /\ i - 1 \in 1 .. Len(fs))
      BY <2>4, <2>9, <2>10, <2>12 DEF Grown
    <3>2. CASE i \in 1 .. k
      <4>1. gs[i] = fs[i] /\ i \in 1 .. Len(fs)
        BY <2>9, <2>10, <2>12, <3>2 DEF Grown
      <4> QED BY <4>1 DEF Kept
    <3>3. CASE i = b
      <4>1. gs[i] = g
        BY <2>4, <2>12, <3>3 DEF Grown
      <4> QED BY <2>1, <2>2, <4>1
    <3>4. CASE i - 1 \in b .. Len(fs) /\ (i - 1) + 1 = i /\ i - 1 \in 1 .. Len(fs)
      <4>1. gs[(i - 1) + 1] = fs[i - 1]
        BY <2>4, <2>12, <3>4 DEF Grown
      <4>2. gs[i] = fs[i - 1]
        BY <3>4, <4>1
      <4> QED BY <3>4, <4>2, SMTT(60) DEF Kept
    <3> QED BY <3>1, <3>2, <3>3, <3>4
  <2>15. ASSUME NEW j \in 1 .. Len(files), ~files[j].staging \/ (j <= n /\ Found(files[j]))
         PROVE  \E i \in 1 .. Len(gs) : gs[i] = Again(files[j])
    <3>1. CASE j = n
      <4>1. b \in 1 .. Len(gs) /\ gs[b] = g
        BY <2>4, <2>9, <2>10, <2>12 DEF Grown
      <4> QED BY <2>1, <2>2, <3>1, <4>1
    <3>2. CASE j # n
      <4>1. ~files[j].staging \/ (j <= m /\ Found(files[j]))
        BY <1>3, <2>15, <3>2
      <4>2. PICK i \in 1 .. Len(fs) : fs[i] = Again(files[j])
        BY <4>1 DEF Kept
      <4>3. CASE i <= k
        <5>1. i \in 1 .. Len(gs) /\ i \in 1 .. k
          BY <2>9, <2>10, <2>12, <4>3 DEF Grown
        <5>2. gs[i] = fs[i]
          BY <2>12, <5>1 DEF Grown
        <5> QED BY <4>2, <5>1, <5>2
      <4>4. CASE i > k
        <5>1. i + 1 \in 1 .. Len(gs) /\ i \in k + 1 .. Len(fs)
          BY <2>9, <2>10, <2>12, <4>4 DEF Grown
        <5>2. gs[i + 1] = fs[i]
          BY <2>12, <5>1 DEF Grown
        <5> QED BY <4>2, <5>1, <5>2
      <4> QED BY <2>9, <2>10, <4>3, <4>4
    <3> QED BY <3>1, <3>2
  <2>16. Shaped(gs)
    BY <2>12 DEF Grown
  <2>17. Kept(n, gs)
    BY <2>13, <2>14, <2>15, <2>16 DEF Kept
  <2> QED BY <2>6, <2>17
<1> QED BY <1>4, <1>5

LEMMA KeptAll ==
  ASSUME IInv
  PROVE  Kept(Len(files), Setup[Len(files)])
<1>1. PICK L : L = Len(files) OBVIOUS
<1>2. L \in Nat
  BY <1>1, HereFacts
<1>3. Setup[0] = SetupBase /\ \A n \in 1 .. L : Setup[n] = SetupStep(n, Setup[n - 1])
  BY <1>1, <1>2, SetupRecursive
<1> DEFINE T == {n \in 0 .. L : Kept(n, Setup[n])}
<1>4. 0 \in T
  BY <1>2, <1>3, KeptFirst
<1>5. ASSUME NEW n \in 0 .. L - 1, n \in T
      PROVE  n + 1 \in T
  <2>1. PICK m : m = n + 1 OBVIOUS
  <2>2. m \in 1 .. L /\ m - 1 = n /\ m \in 0 .. L /\ n \in Nat
    BY <1>2, <2>1
  <2>3. PICK fs : fs = Setup[n] OBVIOUS
  <2>4. Setup[m] = SetupStep(m, fs)
    BY <1>3, <2>2, <2>3
  <2>5. Kept(n, fs)
    BY <1>5, <2>3
  <2>6. Kept(m, SetupStep(m, fs))
    BY <1>1, <2>1, <2>2, <2>5, KeptNext
  <2> QED BY <2>1, <2>2, <2>4, <2>6
<1>6. \A n \in 0 .. L : n \in T
  <2> HIDE DEF T
  <2>1. 0 \in 0 .. L
    BY <1>2
  <2> QED BY <1>2, <1>4, <1>5, <2>1, Climb
<1>7. L \in T
  <2> HIDE DEF T
  <2> QED BY <1>2, <1>6
<1> QED BY <1>1, <1>7

-----------------------------------------------------------------------------
(* Every step maps to a step of Store, or to a stutter.                    *)

\* What is found of a file is what it has, but for what is loose.
LEMMA AgainCovers ==
  ASSUME IInv, FInv, NEW j \in 1 .. Len(files), NEW g, g = Again(files[j]), NEW c \in Cells, c \notin Loose
  PROVE  /\ Covers(g, c) <=> Covers(files[j], c)
         /\ Alike(files[j], g) /\ g.data = files[j].data /\ OnDisk(g)
<1>1. PICK f : f = files[j] OBVIOUS
<1>2. f \in Files /\ OnDisk(f)
  BY <1>1, HereFacts DEF FInv, Placing, AllOnDisk
<1>3. f.offset \in Nat /\ f.size \in Nat /\ f.disk \in Int /\ End(f) = f.offset + f.size /\ c \in Nat
  BY <1>2, FileFacts, Extents
<1>4. Alike(f, g) /\ g.size = (IF f.disk > 0 THEN f.disk ELSE 0) /\ g.disk = f.disk /\ g.data = f.data
  BY <1>1, <1>2, AgainIs
<1>5. g.offset = f.offset
  BY <1>4 DEF Alike
<1>6. Covers(g, c) <=> f.offset <= c /\ c < f.offset + g.size
  BY <1>5 DEF Covers, End
<1>7. Covers(f, c) <=> f.offset <= c /\ c < f.offset + f.size
  BY <1>3 DEF Covers
<1>8. c \notin End(f) .. f.offset + f.disk - 1
  BY <1>1, NotLoose
<1>9. Covers(g, c) <=> Covers(f, c)
  <2>1. ASSUME Covers(g, c)
        PROVE  Covers(f, c)
    <3>1. f.disk > 0 /\ f.offset <= c /\ c < f.offset + f.disk
      BY <1>3, <1>4, <1>6, <2>1
    <3> QED BY <1>3, <1>7, <1>8, <3>1
  <2>2. ASSUME Covers(f, c)
        PROVE  Covers(g, c)
    <3>1. f.size > 0 /\ f.offset <= c /\ c < f.offset + f.size
      BY <1>3, <1>7, <2>2
    <3>2. f.disk >= f.size
      BY <1>2, <3>1 DEF OnDisk
    <3>3. g.size = f.disk
      BY <1>3, <1>4, <3>1, <3>2
    <3> QED BY <1>3, <1>6, <3>1, <3>2, <3>3
  <2> QED BY <2>1, <2>2
<1> HIDE DEF Files
<1>10. OnDisk(g)
  <2>1. g.size > 0 => g.disk >= g.size
    BY <1>3, <1>4
  <2>2. \A b \in Cells : b >= g.offset + g.disk => g.data[b] = Unknown
    BY <1>2, <1>4, <1>5 DEF OnDisk
  <2> QED BY <2>1, <2>2 DEF OnDisk
<1> QED BY <1>1, <1>4, <1>9, <1>10

LEMMA KeptOnDisk ==
  ASSUME IInv, FInv, NEW gs, Kept(Len(files), gs)
  PROVE  AllOnDisk(gs)
<1> SUFFICES ASSUME NEW k \in 1 .. Len(gs) PROVE OnDisk(gs[k])
  BY DEF AllOnDisk
<1>1. PICK j \in 1 .. Len(files) : gs[k] = Again(files[j])
  BY DEF Kept
<1>2. PICK f : f = files[j] OBVIOUS
<1>3. PICK g : g = gs[k] OBVIOUS
<1>4. f \in Files /\ OnDisk(f) /\ g = Again(f)
  BY <1>1, <1>2, <1>3, HereFacts DEF FInv, Placing, AllOnDisk
<1>5. Alike(f, g) /\ g.size = (IF f.disk > 0 THEN f.disk ELSE 0) /\ g.disk = f.disk /\ g.data = f.data
  BY <1>4, AgainIs
<1>6. g.offset = f.offset /\ f.disk \in Int
  BY <1>4, <1>5, FileFacts DEF Alike
<1>7. g.size > 0 => g.disk >= g.size
  BY <1>5, <1>6
<1>8. \A b \in Cells : b >= g.offset + g.disk => g.data[b] = Unknown
  BY <1>4, <1>5, <1>6 DEF OnDisk
<1> QED BY <1>3, <1>7, <1>8 DEF OnDisk

LEMMA KeptValue ==
  ASSUME IInv, FInv, NEW gs, Kept(Len(files), gs), NEW c \in Cells, c \notin Loose
  PROVE  StoredIn(gs)[c] = Stored[c]
<1>1. /\ Shaped(files) /\ Shaped(gs) /\ Strict(gs) /\ Len(files) \in Nat /\ Len(gs) \in Nat
      /\ DOMAIN files = 1 .. Len(files)
  BY HereFacts, ListFacts DEF Kept
<1>2. ASSUME NEW k \in 1 .. Len(gs), Holds(gs, k, c)
      PROVE  \E j \in 1 .. Len(files) : Covers(files[j], c) /\ gs[k].data[c] = files[j].data[c]
  <2>1. PICK j \in 1 .. Len(files) : gs[k] = Again(files[j])
    BY DEF Kept
  <2>2. PICK g : g = gs[k] OBVIOUS
  <2>3. (Covers(g, c) <=> Covers(files[j], c)) /\ g.data = files[j].data
    BY <2>1, <2>2, AgainCovers
  <2>4. Covers(g, c)
    BY <1>2, <2>2, HoldsIs
  <2> QED BY <2>2, <2>3, <2>4
<1>3. ASSUME NEW j \in 1 .. Len(files), Holds(files, j, c)
      PROVE  \E k \in 1 .. Len(gs) : Holds(gs, k, c)
  <2>1. PICK f : f = files[j] OBVIOUS
  <2>2. Covers(f, c)
    BY <1>3, <2>1, HoldsIs
  <2>3. f \in Files /\ OnDisk(f)
    BY <2>1, HereFacts DEF FInv, Placing, AllOnDisk
  <2>4. f.offset \in Nat /\ f.size \in Nat /\ f.disk \in Int /\ c \in Nat
    BY <2>3, FileFacts, Extents
  <2>5. f.disk >= 0
    <3>1. f.size > 0
      BY <2>2, <2>4 DEF Covers, End
    <3>2. f.disk >= f.size
      BY <2>3, <3>1 DEF OnDisk
    <3> QED BY <2>4, <3>1, <3>2
  <2>6. f.staging => Found(f)
    BY <2>1, <2>2, <2>5, NotLoose DEF Found
  <2>7. PICK k \in 1 .. Len(gs) : gs[k] = Again(f)
    BY <1>1, <2>1, <2>6 DEF Kept
  <2>8. Covers(gs[k], c) /\ Alike(f, gs[k])
    <3>1. PICK g : g = gs[k] OBVIOUS
    <3>2. (Covers(g, c) <=> Covers(files[j], c)) /\ Alike(files[j], g)
      BY <2>1, <2>7, <3>1, AgainCovers
    <3> QED BY <2>1, <2>2, <3>1, <3>2
  <2>9. ASSUME gs[k].staging
        PROVE  \E m \in 1 .. k - 1 : ~gs[m].staging /\ c < gs[m].offset + gs[m].length
    <3>1. f.staging /\ gs[k].offset = f.offset
      BY <2>8, <2>9 DEF Alike
    <3>2. PICK i \in 1 .. j - 1 : ~files[i].staging /\ c < files[i].offset + files[i].length
      BY <1>3, <2>1, <3>1, HoldsIs
    <3>3. i \in 1 .. Len(files) /\ i < j
      BY <1>1
    <3>4. i \in Reals(files)
      BY <1>1, <3>2, <3>3, ListFacts
    <3>5. files[i].offset <= f.offset
      <4>1. Ordered(files)
        BY <1>1 DEF Shaped
      <4> QED BY <1>1, <2>1, <3>3, <3>4, <4>1 DEF Ordered
    <3>6. PICK m \in 1 .. Len(gs) : gs[m] = Again(files[i])
      BY <3>2, <3>3 DEF Kept
    <3>7. Alike(files[i], gs[m])
      <4>1. PICK h, g : h = files[i] /\ g = gs[m] OBVIOUS
      <4>2. h \in Files
        BY <3>3, <4>1, HereFacts
      <4>3. Alike(h, g)
        BY <3>6, <4>1, <4>2, AgainIs
      <4> QED BY <4>1, <4>3
    <3>8. ~gs[m].staging /\ gs[m].offset = files[i].offset /\ gs[m].length = files[i].length
      BY <3>2, <3>7 DEF Alike
    <3>9. m # k
      BY <2>9, <3>8
    <3>10. ~(k < m)
      <4> SUFFICES ASSUME k < m PROVE FALSE
        OBVIOUS
      <4>1. gs[k].offset < gs[m].offset
        BY <1>1, <3>8 DEF Strict
      <4>2. gs[k].offset \in Nat /\ gs[m].offset \in Nat
        BY <1>1, ListFacts
      <4> QED BY <3>1, <3>5, <3>8, <4>1, <4>2
    <3>11. m \in 1 .. k - 1
      BY <1>1, <3>9, <3>10
    <3> QED BY <3>2, <3>8, <3>11
  <2>10. Holds(gs, k, c)
    BY <2>8, <2>9, HoldsIs
  <2> QED BY <2>10
<1> QED BY <1>1, <1>2, <1>3, ValueHeld

LEMMA StepSetup ==
  ASSUME IInv, FInv, Restart
  PROVE  FInv' /\ FlatStep
<1>1. PICK gs : gs = Setup[Len(files)] OBVIOUS
<1>2. files' = gs
  BY <1>1 DEF Restart
<1>3. Kept(Len(files), gs)
  BY <1>1, KeptAll
<1>4. op' = Ended \/ op' = Starting
  BY DEF Restart
<1>5. op'.kind \in {"ended", "start"}
  BY <1>4 DEF Ended, Starting
<1>6. Sorted(gs)
  BY <1>3 DEF Kept, Strict, Sorted
<1>7. AllOnDisk(gs)
  BY <1>3, KeptOnDisk
<1>8. FInv'
  BY <1>2, <1>5, <1>6, <1>7, PlacingOther DEF FInv
<1>9. InStart'
  BY <1>5 DEF InStart
<1>10. CurrentWrite' = Flat!NoWrite
  BY <1>5, WriteOver
<1>11. \A c \in Cells : c \notin Loose => StoredIn(gs)[c] = Stored[c]
  BY <1>3, KeptValue
<1>12. \A c \in Cells : c \notin Loose => Stored'[c] = Stored[c]
  BY <1>2, <1>11 DEF Stored
<1> QED BY <1>8, <1>9, <1>10, <1>12, StepRestart

LEMMA InitFlat ==
  ASSUME Init
  PROVE  FInv /\ Flat!Init
<1> DEFINE L == Len(FileLengths)
<1>1. files = [i \in 1 .. L |-> File(FileEnd[i - 1], FileLengths[i], FALSE, NoDir)]
  BY Lengths DEF Init
<1>2. IInv /\ Shaped(files) /\ Len(files) \in Nat /\ DOMAIN files = 1 .. Len(files)
  BY InitFits, HereFacts
<1>3. op = Starting /\ op.kind = "start"
  BY DEF Init, Starting
<1>4. Len(files) = L
  BY <1>1, <1>2, Lengths
<1>5. ASSUME NEW i \in 1 .. L
      PROVE  /\ files[i].size = 0 /\ files[i].disk = -1 /\ ~files[i].staging
             /\ \A c \in Cells : files[i].data[c] = Unknown
  <2>1. files[i] = File(FileEnd[i - 1], FileLengths[i], FALSE, NoDir)
    BY <1>1
  <2> HIDE DEF L
  <2> QED BY <2>1 DEF File
<1> HIDE DEF L
<1>6. AllOnDisk(files)
  <2> SUFFICES ASSUME NEW i \in 1 .. L PROVE OnDisk(files[i])
    BY <1>4 DEF AllOnDisk
  <2>1. ~(files[i].size > 0)
    BY <1>5
  <2>2. \A c \in Cells : files[i].data[c] = Unknown
    BY <1>5
  <2> QED BY <2>1, <2>2 DEF OnDisk
<1>7. Sorted(files)
  <2>1. Reals(files) = 1 .. L
    BY <1>2, <1>4, <1>5 DEF Reals
  <2> QED BY <1>2, <1>4, <2>1 DEF Shaped, Ordered, Sorted
<1>8. FInv
  BY <1>3, <1>6, <1>7, PlacingOther DEF FInv
<1>9. \A i \in 1 .. Len(files), c \in Cells : ~Holds(files, i, c)
  <2> SUFFICES ASSUME NEW i \in 1 .. Len(files), NEW c \in Cells PROVE ~Holds(files, i, c)
    OBVIOUS
  <2>1. files[i].offset \in Nat /\ files[i].size = 0
    BY <1>2, <1>4, <1>5, ListFacts
  <2> QED BY <2>1, EmptyHolds
<1>10. Stored = [c \in Cells |-> Unknown]
  <2>1. \A c \in Cells : Stored[c] = Unknown
    BY <1>2, <1>9, NotStored DEF Stored
  <2>2. Stored = [c \in Cells |-> Stored[c]]
    BY StoredFunction DEF Stored
  <2> QED BY <2>1, <2>2
<1>11. CurrentWrite = Flat!NoWrite
  BY <1>3 DEF CurrentWrite, Flat!NoWrite
<1>12. InStart = TRUE
  BY <1>3 DEF InStart
<1> QED BY <1>8, <1>10, <1>11, <1>12 DEF Flat!Init

LEMMA StepFlat ==
  ASSUME IInv, FInv, [Next]_vars
  PROVE  FInv' /\ FlatStep
<1>1. CASE UNCHANGED vars
  <2>1. files' = files /\ op' = op
    BY <1>1 DEF vars, disk
  <2>2. FInv'
    BY <2>1 DEF FInv
  <2>3. Stored' = Stored
    BY <2>1 DEF Stored
  <2>4. WritePart(Current(op')) = WritePart(Current(op)) /\ (Begins(op') <=> Begins(op))
    BY <2>1
  <2> QED BY <2>2, <2>3, <2>4, Stutter
<1>2. CASE \E off \in Cells, len \in 1 .. PieceLength, v \in Versions : Write(off, len, v)
  BY <1>2, StepWrite
<1>3. CASE \E off \in Cells : Read(off, Least(PieceLength, Total - off))
  BY <1>3, StepRead
<1>4. CASE NewStaging
  BY <1>4, StepNewStaging
<1>5. CASE NotFound
  BY <1>5, StepNotFound
<1>6. CASE OpenFile
  BY <1>6, StepOpenFile
<1>7. CASE OpenNoSpace
  BY <1>7, StepOpenNoSpace
<1>8. CASE ReadFile
  BY <1>8, StepReadFile
<1>9. CASE WriteFile
  BY <1>9, StepWriteFile
<1>10. CASE WriteRefused
  BY <1>10, StepWriteRefused
<1>11. CASE StartMerge
  BY <1>11, StepStartMerge
<1>12. CASE MergeNone
  BY <1>12, StepMergeNone
<1>13. CASE MergeOpen
  BY <1>13, StepMergeOpen
<1>14. CASE MergeCopy
  BY <1>14, StepMergeCopy
<1>15. CASE MergeCopyRefused
  BY <1>15, StepMergeCopyRefused
<1>16. CASE MergePresent
  BY <1>16, StepMergePresent
<1>17. CASE MergeDone
  BY <1>17, StepMergeDone
<1>18. CASE CloseAllFiles
  BY <1>18, StepCloseAllFiles
<1>19. CASE Retry
  BY <1>19, StepRetry
<1>20. CASE Restart
  BY <1>20, StepSetup
<1>21. CASE CreateNone
  BY <1>21, StepCreateNone
<1>22. CASE \E wanted \in SUBSET {FileEnd[i - 1] : i \in DOMAIN FileLengths} : CreateSparse(wanted)
  BY <1>22, StepCreateSparse
<1>23. CASE ExtendSkip
  BY <1>23, StepExtendSkip
<1>24. CASE ExtendFile
  BY <1>24, StepExtendFile
<1>25. CASE Run
  BY <1>25, StepRun
<1> QED BY <1>1, <1>2, <1>3, <1>4, <1>5, <1>6, <1>7, <1>8, <1>9, <1>10, <1>11, <1>12, <1>13, <1>14, <1>15, <1>16, <1>17,
     <1>18, <1>19, <1>20, <1>21, <1>22, <1>23, <1>24, <1>25 DEF Next

\* OneStore: over all its files and staging files, through merges that fail or are interrupted, and through
\* restarts, btFiles keeps the value of every byte but those that are loose, and writes no byte but those it is to.
THEOREM StagingIsStore == Spec => OneStore
<1>1. Init => IInv /\ FInv /\ Flat!Init
  BY InitFits, InitFlat
<1>2. IInv /\ FInv /\ [Next]_vars => IInv' /\ FInv' /\ FlatStep
  BY StepFits, StepFlat
<1>3. Spec => [](IInv /\ FInv)
  BY <1>1, <1>2, PTL DEF Spec
<1> QED BY <1>1, <1>2, <1>3, PTL DEF Spec, OneStore, Flat!Spec, FlatStep
=============================================================================
