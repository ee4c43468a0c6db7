-------------------------- MODULE PieceCacheProofs --------------------------
(***************************************************************************)
(* Proofs about the piece cache: type correctness, coherence of clean      *)
(* entries with the files, and, for a client that does not both prefetch   *)
(* and meet a full disk, that no completed data is lost and that uploads   *)
(* serve the torrent's data; then that the cache keeps within its limit    *)
(* unless a write was refused, and that a completed piece stays queued     *)
(* until it is written.                                                    *)
(*                                                                         *)
(* Everything rests on one observation: housekeeping (CacheClean, the      *)
(* flushes, CachePrep when the disk accepts writes) changes where a slice  *)
(* is, never what a read through the cache returns.                        *)
(***************************************************************************)
EXTENDS PieceCache, FiniteSetTheorems, TLAPS

CacheState ==
  [cfg : Nat, held : SUBSET Slice, dirty : SUBSET Slice,
   buf : [Slice -> Data], disk : [Slice -> Data],
   failed : BOOLEAN, size : Nat, tried : BOOLEAN]

\* A cache state whose clean entries equal the files.
Sound(t) ==
  /\ t \in CacheState
  /\ t.dirty \subseteq t.held
  /\ \A s \in t.held \ t.dirty : t.buf[s] = t.disk[s]

\* u is t with the same data, nothing newly dirty ...
SameData(t, u) ==
  /\ Sound(u)
  /\ u.cfg = t.cfg
  /\ u.dirty \subseteq t.dirty
  /\ \A s \in Slice : Through(u, s) = Through(t, s)

\* ... and, after housekeeping, no new entry.
Keeps(t, u) ==
  /\ Sound(u)
  /\ u.cfg = t.cfg
  /\ u.dirty \subseteq t.dirty /\ u.held \subseteq t.held
  /\ \A s \in Slice : Through(u, s) = Through(t, s)

\* The cache limit is 0 exactly when caching is off and no write was refused;
\* and then nothing is left in the cache.
Sized(t) ==
  /\ t.size = 0 => t.cfg = 0
  /\ t.cfg = 0 /\ ~ t.failed => t.size = 0
Settled(t) ==
  /\ Sized(t)
  /\ t.cfg = 0 /\ ~ t.failed => t.held = {}

-----------------------------------------------------------------------------
(* Cardinalities of sets of slices are natural numbers.                    *)

LEMMA SliceCardinality ==
  ASSUME NEW X \in SUBSET Slice
  PROVE  IsFiniteSet(X) /\ Cardinality(X) \in Nat
<1>1. IsFiniteSet(Slice)
  BY PieceCacheAssumption, FS_Product DEF PieceCacheAssumption, Slice
<1> QED
  BY <1>1, FS_Subset, FS_CardinalityType

LEMMA KeepsTransitive ==
  ASSUME NEW t, NEW u, NEW w, Keeps(t, u), Keeps(u, w)
  PROVE  Keeps(t, w)
BY DEF Keeps

LEMMA KeepsReflexive ==
  ASSUME NEW t, Sound(t)
  PROVE  Keeps(t, t)
BY DEF Keeps

LEMMA KeepsSameData ==
  ASSUME NEW t, NEW u, Keeps(t, u)
  PROVE  SameData(t, u)
BY DEF Keeps, SameData

-----------------------------------------------------------------------------
(* The elementary changes of a cache state.                                *)

LEMMA WrittenKeeps ==
  ASSUME NEW t, Sound(t), NEW W \in SUBSET t.dirty
  PROVE  /\ Keeps(t, Written(t, W))
         /\ Written(t, W).failed = t.failed /\ Written(t, W).size = t.size
         /\ Written(t, W).held = t.held /\ Written(t, W).dirty = t.dirty \ W
BY DEF Sound, Keeps, CacheState, Written, Through

LEMMA ExpiredKeeps ==
  ASSUME NEW t, Sound(t), NEW X \in SUBSET (t.held \ t.dirty)
  PROVE  /\ Keeps(t, Expired(t, X))
         /\ Expired(t, X).failed = t.failed /\ Expired(t, X).size = t.size
         /\ Expired(t, X).held = t.held \ X
BY DEF Sound, Keeps, CacheState, Expired, Through, Data

LEMMA WriteFailKeeps ==
  ASSUME NEW t, Sound(t), NEW u \in WriteFail(t)
  PROVE  /\ Keeps(t, u)
         /\ u.failed /\ u.held = t.held /\ u.dirty = t.dirty
         /\ u.size \in Nat /\ u.size >= t.size
<1>1. PICK g \in Growth : u = [t EXCEPT !.failed = TRUE, !.tried = TRUE,
                                       !.size = IF t.failed THEN t.size ELSE t.size + g]
  BY DEF WriteFail
<1>2. g \in Nat
  BY PieceCacheAssumption DEF PieceCacheAssumption
<1> DEFINE z == IF t.failed THEN t.size ELSE t.size + g
<1>3. t.size \in Nat /\ z \in Nat /\ z >= t.size
  BY <1>2 DEF Sound, CacheState
<1>4. u = [t EXCEPT !.failed = TRUE, !.tried = TRUE, !.size = z]
  BY <1>1
<1> HIDE DEF z
<1>5. /\ u \in CacheState
      /\ u.cfg = t.cfg /\ u.held = t.held /\ u.dirty = t.dirty
      /\ u.buf = t.buf /\ u.disk = t.disk /\ u.failed /\ u.size = z
  BY <1>3, <1>4 DEF Sound, CacheState
<1> QED
  BY <1>3, <1>5 DEF Sound, Keeps, Through

LEMMA CacheEvalKeeps ==
  ASSUME NEW t, Sound(t), NEW u \in CacheEval(t)
  PROVE  /\ Keeps(t, u)
         /\ u.failed = t.failed /\ u.held = t.held /\ u.dirty = t.dirty
         /\ t.cfg # 0 => u.size # 0
         /\ (t.cfg = 0 /\ ~ t.failed) => u.size = 0
<1>1. PICK z \in EvalSizes(t.cfg) :
        u = [t EXCEPT !.size = IF t.failed THEN Greater(t.size, z) ELSE z]
  BY DEF CacheEval
<1>2. z \in Nat /\ (t.cfg # 0 => z # 0) /\ (t.cfg = 0 => z = 0)
  BY DEF EvalSizes, Sound, CacheState
<1> QED
  BY <1>1, <1>2 DEF Sound, Keeps, CacheState, Greater, Through

-----------------------------------------------------------------------------
(* CacheClean and the flushes.                                             *)

\* Cleaning writes some dirty entries, perhaps meets a refused write, and then
\* expires clean entries only.
LEMMA FlushToCleanSteps ==
  ASSUME NEW t, NEW need, NEW u \in FlushToClean(t, need)
  PROVE  \E w : \E X \in SUBSET (w.held \ w.dirty) :
           /\ u = Expired(w, X)
           /\ \/ t.failed /\ w = t
              \/ /\ ~ t.failed
                 /\ \E W \in SUBSET t.dirty : w = Written(t, W)
                 /\ Cardinality(X) = Lesser(Used(t) + need - t.size, Used(t))
              \/ /\ ~ t.failed
                 /\ \E W \in SUBSET t.dirty : w \in WriteFail(Written(t, W))
<1> DEFINE short == Used(t) + need - t.size
           flushed ==
             UNION {{Expired(w, X) : X \in OfSize(Lesser(short, Used(t)), w.held \ w.dirty)} :
                    w \in {Written(t, W) : W \in WholePieces(t.dirty)}}
           refused ==
             UNION {UNION {{Expired(w, X) : X \in {Y \in SUBSET (w.held \ w.dirty) :
                                                      Cardinality(Y) <= short}} :
                           w \in WriteFail(Written(t, W))} :
                    W \in (SUBSET t.dirty) \ {t.dirty}}
           spared == {Expired(t, X) : X \in OfSize(Lesser(short, Cardinality(t.held \ t.dirty)),
                                                  t.held \ t.dirty)}
<1>1. (t.failed /\ u \in spared) \/ (~ t.failed /\ (u \in flushed \/ u \in refused))
  BY DEF FlushToClean
<1>2. CASE t.failed /\ u \in spared
  BY <1>2 DEF OfSize
<1>3. CASE ~ t.failed /\ u \in flushed
  <2>1. PICK w \in {Written(t, W) : W \in WholePieces(t.dirty)} :
          u \in {Expired(w, X) : X \in OfSize(Lesser(short, Used(t)), w.held \ w.dirty)}
    BY <1>3
  <2>2. PICK W \in WholePieces(t.dirty) : w = Written(t, W)
    BY <2>1
  <2>3. W \in SUBSET t.dirty
    BY DEF WholePieces
  <2> QED
    BY <1>3, <2>1, <2>2, <2>3 DEF OfSize
<1>4. CASE ~ t.failed /\ u \in refused
  BY <1>4
<1> QED
  BY <1>1, <1>2, <1>3, <1>4

\* What FlushToClean leaves, and that a cache of size 0 is emptied by it.
LEMMA FlushToCleanKeeps ==
  ASSUME NEW t, Sound(t), NEW need \in Nat, NEW u \in FlushToClean(t, need)
  PROVE  /\ Keeps(t, u)
         /\ u.size >= t.size
         /\ t.failed => u.failed
         /\ ~ u.failed => u.size = t.size /\ (t.size = 0 => u.held = {})
<1>1. PICK w : \E X \in SUBSET (w.held \ w.dirty) :
           /\ u = Expired(w, X)
           /\ \/ t.failed /\ w = t
              \/ /\ ~ t.failed
                 /\ \E W \in SUBSET t.dirty : w = Written(t, W)
                 /\ Cardinality(X) = Lesser(Used(t) + need - t.size, Used(t))
              \/ /\ ~ t.failed
                 /\ \E W \in SUBSET t.dirty : w \in WriteFail(Written(t, W))
  BY FlushToCleanSteps
<1>2. PICK X \in SUBSET (w.held \ w.dirty) :
           /\ u = Expired(w, X)
           /\ \/ t.failed /\ w = t
              \/ /\ ~ t.failed
                 /\ \E W \in SUBSET t.dirty : w = Written(t, W)
                 /\ Cardinality(X) = Lesser(Used(t) + need - t.size, Used(t))
              \/ /\ ~ t.failed
                 /\ \E W \in SUBSET t.dirty : w \in WriteFail(Written(t, W))
  BY <1>1
<1>3. t.size \in Nat /\ t.held \in SUBSET Slice
  BY DEF Sound, CacheState
<1>4. CASE t.failed /\ w = t
  <2>1. Keeps(t, u) /\ u.failed /\ u.size = t.size
    BY <1>2, <1>4, ExpiredKeeps
  <2> QED
    BY <1>3, <1>4, <2>1
<1>5. ASSUME ~ t.failed, NEW W \in SUBSET t.dirty, w = Written(t, W),
             Cardinality(X) = Lesser(Used(t) + need - t.size, Used(t))
      PROVE  Keeps(t, u) /\ u.size = t.size /\ (t.size = 0 => u.held = {})
  <2>1. Keeps(t, w) /\ Sound(w) /\ w.size = t.size /\ w.held = t.held
    BY <1>5, WrittenKeeps DEF Keeps
  <2>2. Keeps(w, u) /\ u.size = w.size /\ u.held = w.held \ X
    BY <1>2, <2>1, ExpiredKeeps
  <2>3. Keeps(t, u)
    BY <2>1, <2>2, KeepsTransitive
  <2>4. ASSUME t.size = 0
        PROVE  u.held = {}
    <3>1. Cardinality(t.held) \in Nat /\ IsFiniteSet(t.held)
      BY <1>3, SliceCardinality
    <3>2. Cardinality(X) = Cardinality(t.held)
      BY <1>5, <2>4, <3>1 DEF Used, Lesser
    <3>3. X \in SUBSET t.held
      BY <1>2, <2>1
    <3>4. X = t.held
      BY <3>1, <3>2, <3>3, FS_Subset
    <3> QED
      BY <2>1, <2>2, <3>4
  <2> QED
    BY <2>1, <2>2, <2>3, <2>4
<1>6. ASSUME ~ t.failed, NEW W \in SUBSET t.dirty, w \in WriteFail(Written(t, W))
      PROVE  Keeps(t, u) /\ u.failed /\ u.size >= t.size
  <2>1. Keeps(t, Written(t, W)) /\ Sound(Written(t, W)) /\ Written(t, W).size = t.size
    BY WrittenKeeps DEF Keeps
  <2>2. Keeps(Written(t, W), w) /\ Sound(w) /\ w.failed /\ w.size >= t.size
    BY <1>6, <2>1, WriteFailKeeps DEF Keeps
  <2>3. Keeps(w, u) /\ u.failed /\ u.size = w.size
    BY <1>2, <2>2, ExpiredKeeps
  <2> QED
    BY <2>1, <2>2, <2>3, KeepsTransitive
<1> QED
  BY <1>2, <1>3, <1>4, <1>5, <1>6

\* CleanPasses keeps the data, settles a cache that is sized right, and never
\* forgets a failure.
LEMMA CleanPassesKeeps ==
  ASSUME NEW t, Sound(t), Sized(t), NEW need \in Nat, NEW avoid,
         NEW u \in CleanPasses(t, need, avoid)
  PROVE  Keeps(t, u) /\ Settled(u) /\ (t.failed => u.failed)
<1> DEFINE idle  == (t.held \ t.dirty) \ avoid
           short == Used(t) + need - t.size
           swept == Expired(t, idle)
           grown == [swept EXCEPT !.size = Greater(t.size, Lesser(t.cfg, Used(swept) + need))]
<1>1. /\ t.size \in Nat /\ t.cfg \in Nat
      /\ Used(t) \in Nat /\ IsFiniteSet(t.held) /\ t.held \in SUBSET Slice
  BY SliceCardinality DEF Sound, CacheState, Used
<1>2. CASE Fits(t, need) /\ u = t
  <2>1. t.cfg = 0 /\ ~ t.failed => t.held = {}
    BY <1>1, <1>2, FS_EmptySet DEF Fits, Used, Sized
  <2> QED
    BY <1>2, <2>1, KeepsReflexive DEF Settled
<1>3. CASE ~ Fits(t, need) /\ \E X \in OfSize(short, idle) : u = Expired(t, X)
  <2>1. PICK X \in SUBSET idle : Cardinality(X) = short /\ u = Expired(t, X)
    BY <1>3 DEF OfSize
  <2>2. Keeps(t, u) /\ u.failed = t.failed /\ u.size = t.size /\ u.held = t.held \ X
    BY <2>1, ExpiredKeeps
  <2>3. ASSUME t.cfg = 0, ~ t.failed
        PROVE  u.held = {}
    <3>1. Cardinality(X) = Used(t) + need /\ X \in SUBSET t.held
      BY <1>1, <2>1, <2>3 DEF Sized
    <3>2. Cardinality(X) \in Nat /\ Cardinality(X) <= Used(t)
      BY <1>1, <3>1, FS_Subset, FS_CardinalityType DEF Used
    <3>3. Cardinality(X) = Cardinality(t.held)
      BY <1>1, <3>1, <3>2 DEF Used
    <3>4. X = t.held
      BY <1>1, <3>1, <3>3, FS_Subset
    <3> QED
      BY <2>2, <3>4
  <2> QED
    BY <2>2, <2>3 DEF Settled, Sized, Keeps
<1>4. /\ Keeps(t, grown) /\ Sound(grown) /\ Sized(grown)
      /\ grown.failed = t.failed
      /\ grown.size \in Nat /\ grown.size >= t.size
      /\ (t.cfg = 0 => grown.size = t.size)
      /\ Used(grown) \in Nat /\ Used(swept) \in Nat /\ grown.held = swept.held
      /\ grown.held \in SUBSET Slice /\ IsFiniteSet(grown.held)
  <2>1. Keeps(t, swept) /\ swept.failed = t.failed /\ swept.size = t.size
    BY ExpiredKeeps
  <2>2. Used(swept) \in Nat /\ swept.held \in SUBSET Slice /\ IsFiniteSet(swept.held)
    BY <2>1, SliceCardinality DEF Keeps, Sound, CacheState, Used
  <2> DEFINE n == Greater(t.size, Lesser(t.cfg, Used(swept) + need))
  <2>3. n \in Nat /\ n >= t.size /\ (t.cfg = 0 => n = t.size)
    BY <1>1, <2>2 DEF Greater, Lesser
  <2>4. grown = [swept EXCEPT !.size = n]
    OBVIOUS
  <2> HIDE DEF n, swept
  <2>5. /\ grown \in CacheState
        /\ grown.cfg = swept.cfg /\ grown.held = swept.held /\ grown.dirty = swept.dirty
        /\ grown.buf = swept.buf /\ grown.disk = swept.disk
        /\ grown.failed = swept.failed /\ grown.size = n
    BY <2>1, <2>3, <2>4 DEF Keeps, Sound, CacheState
  <2> HIDE DEF grown
  <2>6. Keeps(swept, grown)
    BY <2>1, <2>5 DEF Keeps, Sound, Through
  <2>7. Keeps(t, grown)
    BY <2>1, <2>6, KeepsTransitive
  <2>8. Sized(grown)
    BY <1>1, <2>1, <2>3, <2>5 DEF Sized, Keeps
  <2> QED
    BY <2>1, <2>2, <2>3, <2>5, <2>7, <2>8 DEF Keeps, Used
<1> HIDE DEF grown
<1>5. CASE Fits(grown, need) /\ u = grown
  <2>1. grown.cfg = 0 /\ ~ grown.failed => grown.held = {}
    BY <1>4, <1>5, FS_EmptySet DEF Fits, Used, Sized
  <2> QED
    BY <1>4, <1>5, <2>1 DEF Settled
<1>6. CASE u \in FlushToClean(grown, need)
  <2>1. /\ Keeps(grown, u) /\ u.size >= grown.size
        /\ grown.failed => u.failed
        /\ ~ u.failed => u.size = grown.size /\ (grown.size = 0 => u.held = {})
    BY <1>4, <1>6, FlushToCleanKeeps
  <2>2. Keeps(t, u)
    BY <1>4, <2>1, KeepsTransitive
  <2>3. u.size \in Nat
    BY <2>1 DEF Keeps, Sound, CacheState
  <2>4. Sized(u)
    BY <1>4, <2>1, <2>3 DEF Sized, Keeps
  <2>5. u.cfg = 0 /\ ~ u.failed => u.held = {}
    BY <1>4, <2>1 DEF Sized, Keeps
  <2> QED
    BY <1>4, <2>1, <2>2, <2>4, <2>5 DEF Settled
<1> QED
  BY <1>2, <1>3, <1>5, <1>6 DEF CleanPasses, grown

\* CacheConfigure settles any sound cache state, whatever was set before.
LEMMA CacheConfigureKeeps ==
  ASSUME NEW t, Sound(t), NEW u \in CacheConfigure(t)
  PROVE  Keeps(t, u) /\ Settled(u)
<1>1. PICK w \in IF t.cfg = 0 THEN {[t EXCEPT !.size = 0]} ELSE CacheEval(t) :
        u \in IF w.failed THEN {w} ELSE CleanPasses(w, 0, {})
  BY DEF CacheConfigure
<1>2. Keeps(t, w) /\ Sound(w) /\ Sized(w)
  <2>1. CASE t.cfg = 0
    <3>1. w = [t EXCEPT !.size = 0]
      BY <1>1, <2>1
    <3>2. /\ w \in CacheState /\ w.cfg = 0 /\ w.size = 0
          /\ w.held = t.held /\ w.dirty = t.dirty /\ w.buf = t.buf /\ w.disk = t.disk
      BY <2>1, <3>1 DEF Sound, CacheState
    <3> QED
      BY <2>1, <3>2 DEF Sound, Keeps, Sized, Through
  <2>2. CASE t.cfg # 0
    <3>1. Keeps(t, w) /\ w.size # 0
      BY <1>1, <2>2, CacheEvalKeeps
    <3> QED
      BY <2>2, <3>1 DEF Keeps, Sized
  <2> QED
    BY <2>1, <2>2
<1>3. CASE w.failed
  BY <1>1, <1>2, <1>3 DEF Settled
<1>4. CASE ~ w.failed
  <2>1. Keeps(w, u) /\ Settled(u)
    BY <1>1, <1>2, <1>4, CleanPassesKeeps
  <2> QED
    BY <1>2, <2>1, KeepsTransitive
<1> QED
  BY <1>3, <1>4

LEMMA WriteFailSettled ==
  ASSUME NEW t, Sound(t), Settled(t), NEW u \in WriteFail(t)
  PROVE  Keeps(t, u) /\ Settled(u)
<1>1. Keeps(t, u) /\ u.failed /\ u.size \in Nat /\ u.size >= t.size
  BY WriteFailKeeps
<1>2. t.size \in Nat
  BY DEF Sound, CacheState
<1> QED
  BY <1>1, <1>2 DEF Settled, Sized, Keeps

LEMMA WrittenSettled ==
  ASSUME NEW t, Sound(t), Settled(t), NEW W \in SUBSET t.dirty
  PROVE  Keeps(t, Written(t, W)) /\ Settled(Written(t, W))
BY WrittenKeeps DEF Settled, Sized, Keeps

\* The entries FlushPieces has to write, and what is left when it writes W: the
\* first write after a failure reconfigures the cache before the others follow.
ToFlush(t, P) == {s \in t.dirty : s[1] \in P}
Resumed(t, s, W) ==
  {IF x.failed THEN x ELSE Written(x, W \intersect x.dirty) :
     x \in CacheConfigure([Written(t, {s}) EXCEPT !.failed = FALSE])}
Wrote(t, W) ==
  IF t.failed /\ W # {} THEN UNION {Resumed(t, s, W) : s \in W} ELSE {Written(t, W)}

LEMMA ResumedSound ==
  ASSUME NEW t, Sound(t), NEW s \in t.dirty
  PROVE  /\ Keeps(t, [Written(t, {s}) EXCEPT !.failed = FALSE])
         /\ Sound([Written(t, {s}) EXCEPT !.failed = FALSE])
<1> DEFINE w == [Written(t, {s}) EXCEPT !.failed = FALSE]
<1>1. Keeps(t, Written(t, {s}))
  BY WrittenKeeps
<1>2. /\ w \in CacheState
      /\ w.cfg = Written(t, {s}).cfg /\ w.held = Written(t, {s}).held
      /\ w.dirty = Written(t, {s}).dirty /\ w.buf = Written(t, {s}).buf
      /\ w.disk = Written(t, {s}).disk
  BY <1>1 DEF Keeps, Sound, CacheState
<1> HIDE DEF w
<1>3. Keeps(t, w) /\ Sound(w)
  BY <1>1, <1>2 DEF Keeps, Sound, Through
<1> QED
  BY <1>3 DEF w

LEMMA WroteKeeps ==
  ASSUME NEW t, Sound(t), Settled(t), NEW W \in SUBSET t.dirty, NEW x \in Wrote(t, W)
  PROVE  Keeps(t, x) /\ Settled(x)
<1>1. CASE t.failed /\ W # {}
  <2>1. PICK s \in W : x \in Resumed(t, s, W)
    BY <1>1 DEF Wrote
  <2> DEFINE w == [Written(t, {s}) EXCEPT !.failed = FALSE]
  <2>2. PICK y \in CacheConfigure(w) :
          x = IF y.failed THEN y ELSE Written(y, W \intersect y.dirty)
    BY <2>1 DEF Resumed
  <2>3. Keeps(t, w) /\ Sound(w)
    BY ResumedSound
  <2> HIDE DEF w
  <2>4. Keeps(t, y) /\ Settled(y) /\ Sound(y)
    BY <2>2, <2>3, CacheConfigureKeeps, KeepsTransitive DEF Keeps
  <2>5. Keeps(y, Written(y, W \intersect y.dirty)) /\ Settled(Written(y, W \intersect y.dirty))
    BY <2>4, WrittenSettled
  <2> QED
    BY <2>2, <2>4, <2>5, KeepsTransitive
<1>2. CASE ~ (t.failed /\ W # {})
  BY <1>2, WrittenSettled DEF Wrote
<1> QED
  BY <1>1, <1>2

\* FlushPieces has nothing to do, or waits; or writes all it has to; or stops at
\* a refused write.
LEMMA FlushPiecesSteps ==
  ASSUME NEW t, NEW P, NEW u \in FlushPieces(t, P)
  PROVE  \/ u = t /\ (ToFlush(t, P) = {} \/ t.failed)
         \/ u \in Wrote(t, ToFlush(t, P))
         \/ \E W \in SUBSET ToFlush(t, P) : \E x \in Wrote(t, W) : u \in WriteFail(x)
<1> DEFINE todo == {s \in t.dirty : s[1] \in P}
           wrote(W) == IF t.failed /\ W # {}
                       THEN UNION {{IF x.failed THEN x ELSE Written(x, W \intersect x.dirty) :
                              x \in CacheConfigure([Written(t, {s}) EXCEPT !.failed = FALSE])} :
                              s \in W}
                       ELSE {Written(t, W)}
           refused ==
             UNION {UNION {WriteFail(x) : x \in {y \in wrote(W) : todo \intersect y.dirty # {}}} :
                    W \in (SUBSET todo) \ {todo}}
<1>1. \/ u = t /\ (todo = {} \/ t.failed)
      \/ u \in wrote(todo)
      \/ u \in refused
  BY DEF FlushPieces
<1>2. todo = ToFlush(t, P) /\ \A W : wrote(W) = Wrote(t, W)
  BY DEF ToFlush, Wrote, Resumed
<1> HIDE DEF todo, wrote
<1>3. CASE u \in refused
  <2>1. PICK W \in SUBSET todo : \E x \in wrote(W) : u \in WriteFail(x)
    BY <1>3
  <2> QED
    BY <1>2, <2>1
<1> QED
  BY <1>1, <1>2, <1>3

\* FlushPieces and the writes that resume a download keep the data.
LEMMA FlushPiecesKeeps ==
  ASSUME NEW t, Sound(t), Settled(t), NEW P, NEW u \in FlushPieces(t, P)
  PROVE  Keeps(t, u) /\ Settled(u)
<1>1. ToFlush(t, P) \in SUBSET t.dirty
  BY DEF ToFlush
<1>2. CASE \E W \in SUBSET ToFlush(t, P) : \E x \in Wrote(t, W) : u \in WriteFail(x)
  <2>1. PICK W \in SUBSET ToFlush(t, P) : \E x \in Wrote(t, W) : u \in WriteFail(x)
    BY <1>2
  <2>2. PICK x \in Wrote(t, W) : u \in WriteFail(x)
    BY <2>1
  <2>3. Keeps(t, x) /\ Settled(x) /\ Sound(x)
    BY <1>1, <2>2, WroteKeeps DEF Keeps
  <2> QED
    BY <2>2, <2>3, WriteFailSettled, KeepsTransitive
<1> QED
  BY <1>1, <1>2, FlushPiecesSteps, WroteKeeps, KeepsReflexive

\* When FlushPieces met no refused write, nothing of the pieces is left to write.
LEMMA FlushPiecesDone ==
  ASSUME NEW t, Sound(t), Settled(t), NEW P, NEW u \in FlushPieces(t, P), ~ u.failed
  PROVE  ToFlush(u, P) = {}
<1>1. CASE u = t /\ (ToFlush(t, P) = {} \/ t.failed)
  BY <1>1
<1>2. CASE u \in Wrote(t, ToFlush(t, P))
  <2> DEFINE W == ToFlush(t, P)
  <2>1. W \in SUBSET t.dirty
    BY DEF ToFlush
  <2>2. CASE t.failed /\ W # {}
    <3>1. PICK s \in W : u \in Resumed(t, s, W)
      BY <1>2, <2>2 DEF Wrote
    <3> DEFINE w == [Written(t, {s}) EXCEPT !.failed = FALSE]
    <3>2. PICK y \in CacheConfigure(w) :
            u = IF y.failed THEN y ELSE Written(y, W \intersect y.dirty)
      BY <3>1 DEF Resumed
    <3>3. Keeps(t, w) /\ Sound(w)
      BY <2>1, ResumedSound
    <3> HIDE DEF w
    <3>4. y.dirty \subseteq t.dirty /\ Sound(y)
      BY <3>2, <3>3, CacheConfigureKeeps DEF Keeps
    <3>5. u = Written(y, W \intersect y.dirty)
      BY <3>2
    <3>6. u.dirty = y.dirty \ W
      BY <3>4, <3>5, WrittenKeeps
    <3> QED
      BY <3>4, <3>6 DEF ToFlush
  <2>3. CASE ~ (t.failed /\ W # {})
    <3>1. u.dirty = t.dirty \ W
      BY <1>2, <2>1, <2>3, WrittenKeeps DEF Wrote
    <3> QED
      BY <3>1 DEF ToFlush
  <2> QED
    BY <2>2, <2>3
<1>3. CASE \E W \in SUBSET ToFlush(t, P) : \E x \in Wrote(t, W) : u \in WriteFail(x)
  <2>1. PICK W \in SUBSET ToFlush(t, P) : \E x \in Wrote(t, W) : u \in WriteFail(x)
    BY <1>3
  <2>2. PICK x \in Wrote(t, W) : u \in WriteFail(x)
    BY <2>1
  <2>3. W \in SUBSET t.dirty
    BY DEF ToFlush
  <2> QED
    BY <2>2, <2>3, WroteKeeps, WriteFailKeeps DEF Keeps
<1> QED
  BY <1>1, <1>2, <1>3, FlushPiecesSteps

LEMMA CacheCleanKeeps ==
  ASSUME NEW t, Sound(t), Settled(t), NEW need \in Nat, NEW avoid,
         NEW u \in CacheClean(t, need, avoid)
  PROVE  Keeps(t, u) /\ Settled(u)
<1>1. PICK w \in IF t.failed /\ need > 0 THEN FlushPieces(t, Pieces) ELSE {t} :
        u \in CleanPasses(w, need, avoid)
  BY DEF CacheClean
<1>2. Keeps(t, w) /\ Settled(w) /\ Sound(w)
  BY <1>1, FlushPiecesKeeps, KeepsReflexive DEF Keeps
<1>3. Keeps(w, u) /\ Settled(u)
  BY <1>1, <1>2, CleanPassesKeeps DEF Settled
<1> QED
  BY <1>2, <1>3, KeepsTransitive

-----------------------------------------------------------------------------
(* Reads and writes.                                                       *)

\* Clean entries read from the files change nothing a reader can see.
LEMMA EnteredClean ==
  ASSUME NEW t, Sound(t), NEW X \in SUBSET Slice, X \intersect t.held = {}
  PROVE  /\ SameData(t, Entered(t, X, t.disk, FALSE))
         /\ Entered(t, X, t.disk, FALSE).held = t.held \union X
         /\ Entered(t, X, t.disk, FALSE).size = t.size
         /\ Entered(t, X, t.disk, FALSE).failed = t.failed
<1> DEFINE u == Entered(t, X, t.disk, FALSE)
<1>1. /\ u \in CacheState /\ u.cfg = t.cfg /\ u.held = t.held \union X
      /\ u.dirty = t.dirty /\ u.disk = t.disk /\ u.size = t.size /\ u.failed = t.failed
      /\ u.buf = [s \in Slice |-> IF s \in X THEN t.disk[s] ELSE t.buf[s]]
  BY DEF Sound, CacheState, Entered
<1> HIDE DEF u
<1>2. SameData(t, u)
  BY <1>1 DEF Sound, SameData, Through, CacheState
<1> QED
  BY <1>1, <1>2 DEF u

\* FillGap, for slices that are not cached, leaves the data as it was.
LEMMA FillGapKeeps ==
  ASSUME NEW t, Sound(t), Settled(t), NEW S \in SUBSET Slice, S \intersect t.held = {},
         NEW avoid, NEW u \in FillGap(t, S, avoid)
  PROVE  SameData(t, u) /\ Settled(u)
<1> DEFINE kept == IF t.size = 0 THEN {{}}
                   ELSE IF Uncached(t, Cardinality(S))
                        THEN {Y \in SUBSET S : \A x \in Y : ~ Uncached(t, 1)} ELSE {S}
<1> DEFINE room(X) == IF Fits(t, Cardinality(X)) THEN {t}
                      ELSE CacheClean(t, Cardinality(X), avoid)
<1>0. u \in UNION {{Entered(w, X, w.disk, FALSE) : w \in room(X)} :
                  X \in {Y \in kept : Cardinality(Y) <= t.cfg}}
  BY DEF FillGap
<1>1. PICK X \in kept : Cardinality(X) <= t.cfg
                      /\ u \in {Entered(w, X, w.disk, FALSE) : w \in room(X)}
  <2> HIDE DEF kept, room
  <2> QED
    BY <1>0
<1>2. PICK w \in room(X) : u = Entered(w, X, w.disk, FALSE)
  BY <1>1
<1>3. X \in SUBSET S /\ Cardinality(X) \in Nat
  BY <1>1, SliceCardinality
<1>4. t.cfg = 0 => X = {}
  BY <1>1, <1>3, SliceCardinality DEF Uncached
<1>5. Keeps(t, w) /\ Settled(w) /\ Sound(w)
  BY <1>2, <1>3, CacheCleanKeeps, KeepsReflexive DEF Keeps
<1>6. X \intersect w.held = {}
  BY <1>3, <1>5 DEF Keeps
<1>7. /\ SameData(w, u) /\ u.held = w.held \union X
      /\ u.size = w.size /\ u.failed = w.failed
  BY <1>2, <1>3, <1>5, <1>6, EnteredClean
<1> QED
  BY <1>4, <1>5, <1>7 DEF Keeps, SameData, Settled, Sized

\* u is t after slice s was saved with content v.
Saves(t, u, s, v) ==
  /\ Sound(u)
  /\ u.cfg = t.cfg
  /\ u.dirty \subseteq t.dirty \union {s}
  /\ Through(u, s) = v
  /\ \A x \in Slice \ {s} : Through(u, x) = Through(t, x)

LEMMA EnteredDirty ==
  ASSUME NEW t, Sound(t), NEW s \in Slice, NEW v \in Data
  PROVE  /\ Saves(t, Entered(t, {s}, [x \in {s} |-> v], TRUE), s, v)
         /\ Entered(t, {s}, [x \in {s} |-> v], TRUE).held = t.held \union {s}
         /\ Entered(t, {s}, [x \in {s} |-> v], TRUE).size = t.size
         /\ Entered(t, {s}, [x \in {s} |-> v], TRUE).failed = t.failed
<1> DEFINE u == Entered(t, {s}, [x \in {s} |-> v], TRUE)
<1>1. /\ u \in CacheState /\ u.cfg = t.cfg /\ u.held = t.held \union {s}
      /\ u.dirty = t.dirty \union {s} /\ u.disk = t.disk /\ u.size = t.size
      /\ u.failed = t.failed
      /\ u.buf = [x \in Slice |-> IF x = s THEN v ELSE t.buf[x]]
  BY DEF Sound, CacheState, Entered
<1> HIDE DEF u
<1>2. Saves(t, u, s, v)
  BY <1>1 DEF Sound, Saves, Through, CacheState
<1> QED
  BY <1>1, <1>2 DEF u

LEMMA FileWriteSaves ==
  ASSUME NEW t, Sound(t), NEW s \in Slice, NEW v \in Data, s \notin t.held
  PROVE  /\ Saves(t, FileWrite(t, s, v), s, v)
         /\ FileWrite(t, s, v).held = t.held /\ FileWrite(t, s, v).size = t.size
         /\ FileWrite(t, s, v).failed = t.failed
<1> DEFINE u == FileWrite(t, s, v)
<1>1. /\ u \in CacheState /\ u.cfg = t.cfg /\ u.held = t.held
      /\ u.dirty = t.dirty /\ u.buf = t.buf /\ u.size = t.size
      /\ u.failed = t.failed
      /\ u.disk = [t.disk EXCEPT ![s] = v]
  BY DEF Sound, CacheState, FileWrite
<1> HIDE DEF u
<1>2. Saves(t, u, s, v)
  BY <1>1 DEF Sound, Saves, Through, CacheState
<1> QED
  BY <1>1, <1>2 DEF u

LEMMA StoreSaves ==
  ASSUME NEW t, Sound(t), Settled(t), NEW s \in Slice, NEW v \in Data,
         NEW u \in Store(t, s, v)
  PROVE  Saves(t, u, s, v) /\ Settled(u)
<1> DEFINE one == [x \in {s} |-> v]
<1>1. CASE s \in t.held /\ u = Entered(t, {s}, one, TRUE)
  <2>1. /\ Saves(t, u, s, v) /\ u.held = t.held \union {s}
        /\ u.size = t.size /\ u.failed = t.failed
    BY <1>1, EnteredDirty, ZenonT(60)
  <2>2. u.held = t.held
    BY <1>1, <2>1
  <2> QED
    BY <2>1, <2>2 DEF Settled, Sized, Saves
<1>2. CASE s \notin t.held /\ u = FileWrite(t, s, v)
  BY <1>2, FileWriteSaves DEF Settled, Sized, Saves
<1>3. ASSUME s \notin t.held, ~ Uncached(t, 1),
             NEW w \in IF Fits(t, 1) THEN {t} ELSE CacheClean(t, 1, {}),
             u = Entered(w, {s}, one, TRUE)
      PROVE  Saves(t, u, s, v) /\ Settled(u)
  <2>1. Keeps(t, w) /\ Settled(w) /\ Sound(w)
    BY <1>3, CacheCleanKeeps, KeepsReflexive DEF Keeps
  <2>2. t.cfg # 0
    BY <1>3 DEF Uncached
  <2>3. Saves(w, u, s, v) /\ u.size = w.size /\ u.failed = w.failed
    BY <1>3, <2>1, EnteredDirty
  <2> QED
    BY <2>1, <2>2, <2>3 DEF Keeps, Saves, Settled, Sized
<1> QED
  BY <1>1, <1>2, <1>3 DEF Store

\* A slice is saved by every way WriteSlice can return 0.
LEMMA WriteSliceSaves ==
  ASSUME NEW t, Sound(t), Settled(t), ~ t.failed, NEW s \in Slice, NEW v \in Data,
         NEW u \in WriteSlice(t, s, v)
  PROVE  Saves(t, u, s, v) /\ Settled(u) /\ (u.size = 0 => u.held = {})
<1>1. CASE t.size = 0 /\ u = FileWrite(t, s, v)
  <2>1. t.held = {}
    BY <1>1 DEF Settled, Sized
  <2> QED
    BY <1>1, <2>1, FileWriteSaves DEF Settled, Sized, Saves
<1>2. ASSUME t.size = 0, NEW w \in WriteFail(t), u \in Store(w, s, v)
      PROVE  Saves(t, u, s, v) /\ Settled(u) /\ (u.size = 0 => u.held = {})
  <2>1. Keeps(t, w) /\ Settled(w) /\ Sound(w) /\ w.held = {} /\ w.cfg = 0
    BY <1>2, WriteFailKeeps, WriteFailSettled DEF Keeps, Settled, Sized
  <2>2. u = FileWrite(w, s, v)
    BY <1>2, <2>1 DEF Store, Uncached
  <2>3. Saves(w, u, s, v) /\ u.held = {}
    BY <2>1, <2>2, FileWriteSaves
  <2>4. Settled(u)
    BY <1>2, <2>1, StoreSaves
  <2> QED
    BY <2>1, <2>3, <2>4 DEF Keeps, Saves
<1>3. CASE t.size # 0 /\ u \in Store(t, s, v)
  <2>1. Saves(t, u, s, v) /\ Settled(u)
    BY <1>3, StoreSaves
  <2>2. t.cfg # 0
    BY <1>3 DEF Settled, Sized
  <2> QED
    BY <2>1, <2>2 DEF Saves, Settled, Sized
<1> QED
  BY <1>1, <1>2, <1>3 DEF WriteSlice

\* Entries discarded whether clean or not: only they can lose data.
LEMMA ExpiredSound ==
  ASSUME NEW t, Sound(t), NEW X
  PROVE  /\ Sound(Expired(t, X))
         /\ Expired(t, X).cfg = t.cfg /\ Expired(t, X).size = t.size
         /\ Expired(t, X).failed = t.failed /\ Expired(t, X).held = t.held \ X
         /\ \A s \in Slice \ X : Through(Expired(t, X), s) = Through(t, s)
<1> DEFINE u == Expired(t, X)
<1>1. /\ u \in CacheState /\ u.cfg = t.cfg /\ u.held = t.held \ X
      /\ u.dirty = t.dirty \ X /\ u.disk = t.disk /\ u.size = t.size
      /\ u.failed = t.failed
      /\ u.buf = [s \in Slice |-> IF s \in X THEN "none" ELSE t.buf[s]]
  BY DEF Sound, CacheState, Expired, Data
<1> HIDE DEF u
<1>2. Sound(u) /\ \A s \in Slice \ X : Through(u, s) = Through(t, s)
  BY <1>1 DEF Sound, CacheState, Through
<1> QED
  BY <1>1, <1>2 DEF u

\* CachePrep leaves a sound cache, and keeps the data when no write is refused.
LEMMA CachePrepKeeps ==
  ASSUME NEW t, Sound(t), Settled(t), NEW p, NEW u \in CachePrep(t, p)
  PROVE  /\ Sound(u) /\ Settled(u) /\ u.cfg = t.cfg
         /\ diskOk => Keeps(t, u)
<1> DEFINE need  == Cardinality(SlicesOf(p) \ t.held)
           short == Used(t) + need - t.size
           other == t.held \ SlicesOf(p)
           todo  == t.dirty \ SlicesOf(p)
           flushed ==
             UNION {{Expired(w, X) : X \in OfSize(Lesser(short, Cardinality(other)),
                                                 other \ w.dirty)} :
                    w \in {Written(t, W) : W \in WholePieces(todo)}}
           refused ==
             UNION {UNION {{Expired(w, X) : X \in {Y \in SUBSET other : Cardinality(Y) <= short}} :
                           w \in WriteFail(Written(t, W))} :
                    W \in (SUBSET todo) \ {todo}}
<1>1. u = t \/ u \in flushed \/ (~ diskOk /\ u \in refused)
  BY DEF CachePrep
<1>2. CASE u \in flushed
  <2>1. PICK w \in {Written(t, W) : W \in WholePieces(todo)} :
          u \in {Expired(w, X) : X \in OfSize(Lesser(short, Cardinality(other)), other \ w.dirty)}
    BY <1>2
  <2>2. PICK W \in WholePieces(todo) : w = Written(t, W)
    BY <2>1
  <2>3. W \in SUBSET t.dirty
    BY DEF WholePieces
  <2>4. Keeps(t, w) /\ Settled(w) /\ Sound(w) /\ w.held = t.held
    BY <2>2, <2>3, WrittenSettled, WrittenKeeps DEF Keeps
  <2>5. PICK X \in SUBSET (w.held \ w.dirty) : u = Expired(w, X)
    BY <2>1, <2>4 DEF OfSize
  <2>6. Keeps(w, u) /\ u.failed = w.failed /\ u.size = w.size /\ u.held = w.held \ X
    BY <2>4, <2>5, ExpiredKeeps
  <2> QED
    BY <2>4, <2>6, KeepsTransitive DEF Keeps, Settled, Sized
<1>3. CASE ~ diskOk /\ u \in refused
  <2>1. PICK W \in SUBSET todo :
          u \in UNION {{Expired(w, X) : X \in {Y \in SUBSET other : Cardinality(Y) <= short}} :
                      w \in WriteFail(Written(t, W))}
    BY <1>3
  <2>2. PICK w \in WriteFail(Written(t, W)) : \E X : u = Expired(w, X)
    BY <2>1
  <2>3. Keeps(t, Written(t, W)) /\ Settled(Written(t, W)) /\ Sound(Written(t, W))
    BY WrittenSettled DEF Keeps
  <2>4. Keeps(t, w) /\ Settled(w) /\ Sound(w)
    BY <2>2, <2>3, WriteFailSettled, KeepsTransitive DEF Keeps
  <2>5. PICK X : u = Expired(w, X)
    BY <2>2
  <2>6. /\ Sound(u) /\ u.cfg = w.cfg /\ u.size = w.size
        /\ u.failed = w.failed /\ u.held = w.held \ X
    BY <2>4, <2>5, ExpiredSound
  <2> QED
    BY <1>3, <2>4, <2>6 DEF Keeps, Settled, Sized
<1> QED
  BY <1>1, <1>2, <1>3, KeepsReflexive

LEMMA SlicesOfPiece ==
  ASSUME NEW p \in Pieces
  PROVE  /\ SlicesOf(p) \in SUBSET Slice
         /\ \A s \in Slice : s \in SlicesOf(p) <=> s[1] = p
BY DEF SlicesOf, Slice

-----------------------------------------------------------------------------
(* The inductive invariant.                                                *)

\* What the cache operations keep of the cache itself ...
CacheInv == Sound(Cur) /\ Settled(Cur) /\ cfg \in CacheSizes

\* ... and the rest of the state.  A disk that never fails accepts writes.
RestInv ==
  /\ have \subseteq Pieces /\ got \subseteq Slice
  /\ flushq \in Seq(Pieces)
  /\ {due, diskOk, crashed} \subseteq BOOLEAN
  /\ ~ DiskFails => diskOk

IInv == CacheInv /\ RestInv

LEMMA PutInv ==
  ASSUME NEW t, Put(t), Sound(t), Settled(t), t.cfg \in CacheSizes
  PROVE  CacheInv' /\ \A s \in Slice : Through(Cur', s) = Through(t, s)
<1>1. /\ Cur'.cfg = t.cfg /\ Cur'.held = t.held /\ Cur'.dirty = t.dirty
      /\ Cur'.buf = t.buf /\ Cur'.disk = t.disk /\ Cur'.failed = t.failed
      /\ Cur'.size = t.size /\ Cur'.tried = FALSE
  BY DEF Put, Cur
<1>2. Cur' \in CacheState
  BY DEF Put, Cur, Sound, CacheState
<1>3. Sound(Cur') /\ Settled(Cur') /\ \A s \in Slice : Through(Cur', s) = Through(t, s)
  BY <1>1, <1>2 DEF Sound, Settled, Sized, Through
<1> QED
  BY <1>3 DEF CacheInv, Put

\* A step that leaves the data as it was.
LEMMA SameDataStep ==
  ASSUME CacheInv, NEW t, Put(t), SameData(Cur, t), Settled(t), have' = have
  PROVE  CacheInv' /\ (NoLoss => NoLoss')
<1>1. CacheInv' /\ \A s \in Slice : Through(Cur', s) = Through(t, s)
  BY PutInv DEF CacheInv, SameData, Cur
<1> QED
  BY <1>1 DEF NoLoss, SameData

-----------------------------------------------------------------------------
(* Each operation preserves the invariant, and NoLoss unless a prefetch    *)
(* meets a full disk.                                                      *)

Careful == ~ (DiskFails /\ Prefetching)

LEMMA APieceCompleteStep ==
  ASSUME IInv, NEW t, NEW p \in Pieces, APieceComplete(t, p),
         Sound(t), Settled(t), t.cfg = cfg, t.size = 0 => t.held = {}, p \notin have
  PROVE  /\ CacheInv' /\ have' \subseteq Pieces /\ got' \subseteq Slice /\ flushq' \in Seq(Pieces)
         /\ (\A s \in Slice : s[1] \in have => Through(t, s) = "good") => NoLoss'
<1>1. PICK u \in FillGap(t, SlicesOf(p) \ t.held, SlicesOf(p)) :
        IF \A s \in SlicesOf(p) : Read(t, s) = "good"
        THEN /\ Put(u)
             /\ have' = have \union {p}
             /\ flushq' = Queued(p)
             /\ got' = got \union SlicesOf(p)
        ELSE /\ Put(Uncache(u, p))
             /\ got' = got \ SlicesOf(p)
             /\ UNCHANGED <<have, flushq>>
  BY DEF APieceComplete
<1>2. SameData(t, u) /\ Settled(u)
  BY <1>1, SlicesOfPiece, FillGapKeeps
<1>3. Sound(u) /\ u.cfg \in CacheSizes
  BY <1>2 DEF SameData, IInv, CacheInv, Cur
<1>4. CASE \A s \in SlicesOf(p) : Read(t, s) = "good"
  <2>1. CacheInv' /\ \A s \in Slice : Through(Cur', s) = Through(u, s)
    BY <1>1, <1>2, <1>3, <1>4, PutInv
  <2>2. \A s \in SlicesOf(p) : Through(t, s) = "good"
    BY <1>4 DEF Read, Through
  <2>3. /\ have' = have \union {p} /\ got' = got \union SlicesOf(p)
        /\ flushq' \in Seq(Pieces)
    BY <1>1, <1>4 DEF IInv, RestInv, Queued
  <2>4. (\A s \in Slice : s[1] \in have => Through(t, s) = "good") => NoLoss'
    BY <1>2, <2>1, <2>2, <2>3, SlicesOfPiece DEF NoLoss, SameData
  <2> QED
    BY <2>1, <2>3, <2>4, SlicesOfPiece DEF IInv, RestInv
<1>5. CASE ~ \A s \in SlicesOf(p) : Read(t, s) = "good"
  <2> DEFINE w == Uncache(u, p)
             X == SlicesOf(p) \intersect u.held
  <2>1. Put(w) /\ have' = have /\ flushq' = flushq /\ got' = got \ SlicesOf(p)
    BY <1>1, <1>5
  <2>2. /\ Sound(w) /\ w.cfg = u.cfg /\ w.size = u.size /\ w.failed = u.failed
        /\ w.held = u.held \ X
        /\ \A s \in Slice \ X : Through(w, s) = Through(u, s)
    BY <1>3, ExpiredSound DEF Uncache
  <2>3. Settled(w)
    BY <1>2, <2>2 DEF Settled, Sized
  <2> HIDE DEF w
  <2>4. CacheInv' /\ \A s \in Slice : Through(Cur', s) = Through(w, s)
    BY <1>3, <2>1, <2>2, <2>3, PutInv
  <2>5. \A s \in Slice : s[1] \in have => s \notin X
    BY SlicesOfPiece
  <2>6. (\A s \in Slice : s[1] \in have => Through(t, s) = "good") => NoLoss'
    BY <1>2, <2>1, <2>2, <2>4, <2>5 DEF NoLoss, SameData
  <2> QED
    BY <2>1, <2>4, <2>6 DEF IInv, RestInv
<1> QED
  BY <1>4, <1>5

LEMMA DeliverStep ==
  ASSUME IInv, NEW s \in Slice, NEW v \in {"bad", "good"}, Deliver(s, v)
  PROVE  IInv' /\ (NoLoss => NoLoss')
<1>1. /\ s[1] \in Pieces /\ s[1] \notin have /\ ~ failed /\ v \in Data
      /\ diskOk' = diskOk /\ crashed' = crashed
  BY DEF Deliver, Slice, Data
<1>2. Sound(Cur) /\ Settled(Cur) /\ Cur.cfg = cfg /\ Cur.failed = failed
  BY DEF IInv, CacheInv, Cur
<1>3. ASSUME NEW t, Put(t)
      PROVE  due' \in BOOLEAN
  BY <1>3 DEF Put
<1>4. ASSUME NEW t \in WriteSlice(Cur, s, v),
             \/ APieceComplete(t, s[1])
             \/ Put(t) /\ got' = got \union {s} /\ UNCHANGED <<have, flushq>>
      PROVE  IInv' /\ (NoLoss => NoLoss')
  <2>1. Saves(Cur, t, s, v) /\ Settled(t) /\ (t.size = 0 => t.held = {})
    BY <1>1, <1>2, WriteSliceSaves
  <2>2. Sound(t) /\ t.cfg = cfg
    BY <1>2, <2>1 DEF Saves
  <2>3. NoLoss => \A x \in Slice : x[1] \in have => Through(t, x) = "good"
    BY <1>1, <2>1 DEF NoLoss, Saves
  <2>4. CASE APieceComplete(t, s[1])
    <3>1. APieceComplete(t, s[1])
      BY <2>4
    <3>2. /\ CacheInv' /\ have' \subseteq Pieces /\ got' \subseteq Slice /\ flushq' \in Seq(Pieces)
          /\ NoLoss => NoLoss'
      BY <1>1, <2>1, <2>2, <2>3, <3>1, APieceCompleteStep
    <3>3. due' \in BOOLEAN
      BY <3>1, <1>3 DEF APieceComplete
    <3> QED
      BY <1>1, <3>2, <3>3 DEF IInv, RestInv
  <2>5. CASE Put(t) /\ got' = got \union {s} /\ UNCHANGED <<have, flushq>>
    <3>1. Put(t) /\ got' = got \union {s} /\ have' = have /\ flushq' = flushq
      BY <2>5
    <3>2. CacheInv' /\ \A x \in Slice : Through(Cur', x) = Through(t, x)
      BY <2>1, <2>2, <3>1, PutInv DEF IInv, CacheInv
    <3>3. NoLoss => NoLoss'
      BY <2>3, <3>1, <3>2 DEF NoLoss
    <3> QED
      BY <1>1, <1>3, <3>1, <3>2, <3>3 DEF IInv, RestInv
  <2> QED
    BY <1>4, <2>4, <2>5
<1>5. ASSUME NEW t \in WriteSliceFails(Cur, s), Put(t), UNCHANGED <<have, got, flushq>>
      PROVE  IInv' /\ (NoLoss => NoLoss')
  <2>1. t \in WriteFail(Cur) \/ \E u \in WriteFail(Cur) : t \in WriteFail(u)
    BY <1>5 DEF WriteSliceFails
  <2>2. Keeps(Cur, t) /\ Settled(t)
    BY <1>2, <2>1, WriteFailSettled, KeepsTransitive DEF Keeps
  <2>3. CacheInv' /\ (NoLoss => NoLoss')
    BY <1>5, <2>2, KeepsSameData, SameDataStep DEF IInv
  <2> QED
    BY <1>1, <1>3, <1>5, <2>3 DEF IInv, RestInv
<1>6. \/ \E t \in WriteSlice(Cur, s, v) :
             \/ APieceComplete(t, s[1])
             \/ Put(t) /\ got' = got \union {s} /\ UNCHANGED <<have, flushq>>
      \/ \E t \in WriteSliceFails(Cur, s) :
             Put(t) /\ UNCHANGED <<have, got, flushq>>
  BY DEF Deliver
<1> QED
  BY <1>4, <1>5, <1>6

\* The operations that only move data about.
LEMMA HousekeepingStep ==
  ASSUME IInv, NEW t, Put(t), SameData(Cur, t), Settled(t),
         have' = have, got' = got, flushq' \in Seq(Pieces),
         diskOk' = diskOk, crashed' = crashed
  PROVE  IInv' /\ (NoLoss => NoLoss')
<1>1. CacheInv' /\ (NoLoss => NoLoss')
  BY SameDataStep DEF IInv
<1>2. due' \in BOOLEAN
  BY DEF Put
<1> QED
  BY <1>1, <1>2 DEF IInv, RestInv

LEMMA UploadStep ==
  ASSUME IInv, NEW s \in Slice, Upload(s)
  PROVE  IInv' /\ (NoLoss => NoLoss')
<1>1. PICK t \in FillGap(Cur, {s}, {}) : Put(t)
  BY DEF Upload
<1>2. s \notin Cur.held /\ Sound(Cur) /\ Settled(Cur)
  BY DEF Upload, Cur, IInv, CacheInv
<1>3. SameData(Cur, t) /\ Settled(t)
  BY <1>1, <1>2, FillGapKeeps
<1> QED
  BY <1>1, <1>3, HousekeepingStep DEF Upload, IInv, RestInv

LEMMA PrefetchStep ==
  ASSUME IInv, NEW p \in Pieces, Prefetch(p)
  PROVE  IInv' /\ (Careful => (NoLoss => NoLoss'))
<1>1. PICK last \in SlicesOf(p) \ got :
        \E t \in CachePrep(Cur, p) :
          IF t.dirty = dirty /\ ~ t.tried
          THEN \E u \in FillGap(t, (SlicesOf(p) \ t.held) \ {last}, SlicesOf(p)) : Put(u)
          ELSE Put(t)
  BY DEF Prefetch
<1>2. PICK t \in CachePrep(Cur, p) :
          IF t.dirty = dirty /\ ~ t.tried
          THEN \E u \in FillGap(t, (SlicesOf(p) \ t.held) \ {last}, SlicesOf(p)) : Put(u)
          ELSE Put(t)
  BY <1>1
<1>3. /\ Sound(t) /\ Settled(t) /\ t.cfg \in CacheSizes
      /\ diskOk => Keeps(Cur, t)
  BY CachePrepKeeps DEF IInv, CacheInv, Cur
<1>4. PICK u : Put(u) /\ SameData(t, u) /\ Settled(u)
  <2>1. CASE t.dirty = dirty /\ ~ t.tried
    <3>1. PICK u \in FillGap(t, (SlicesOf(p) \ t.held) \ {last}, SlicesOf(p)) : Put(u)
      BY <1>2, <2>1
    <3>2. SameData(t, u) /\ Settled(u)
      BY <1>3, <3>1, SlicesOfPiece, FillGapKeeps
    <3> QED
      BY <3>1, <3>2
  <2>2. CASE ~ (t.dirty = dirty /\ ~ t.tried)
    BY <1>2, <1>3, <2>2, KeepsReflexive, KeepsSameData
  <2> QED
    BY <2>1, <2>2
<1>5. CacheInv'
  BY <1>3, <1>4, PutInv DEF SameData
<1>6. UNCHANGED <<have, got, flushq, diskOk, crashed>> /\ due' \in BOOLEAN
  BY <1>4 DEF Prefetch, Put
<1>7. Careful => diskOk
  BY DEF Careful, Prefetch, IInv, RestInv
<1>8. ASSUME diskOk
      PROVE  NoLoss => NoLoss'
  <2>1. SameData(Cur, u)
    BY <1>3, <1>4, <1>8 DEF Keeps, SameData
  <2> QED
    BY <1>4, <1>6, <2>1, SameDataStep DEF IInv
<1> QED
  BY <1>5, <1>6, <1>7, <1>8 DEF IInv, RestInv

LEMMA FlushQueueStep ==
  ASSUME IInv, FlushQueue
  PROVE  IInv' /\ (NoLoss => NoLoss')
<1>1. PICK P : \E t \in FlushPieces(Cur, P) :
         /\ flushq' = Popped(t)
         /\ IF Popped(t) = << >> /\ (have = Pieces \/ t.failed)
            THEN \E u \in CacheEval(t) : \E w \in CleanPasses(u, 0, {}) : Put(w)
            ELSE Put(t)
  BY DEF FlushQueue
<1>2. PICK t \in FlushPieces(Cur, P) :
         /\ flushq' = Popped(t)
         /\ IF Popped(t) = << >> /\ (have = Pieces \/ t.failed)
            THEN \E u \in CacheEval(t) : \E w \in CleanPasses(u, 0, {}) : Put(w)
            ELSE Put(t)
  BY <1>1
<1>3. Keeps(Cur, t) /\ Settled(t) /\ Sound(t)
  BY FlushPiecesKeeps DEF IInv, CacheInv, Keeps
<1>4. flushq' \in Seq(Pieces)
  BY <1>2 DEF IInv, RestInv, Popped
<1>5. PICK w : Put(w) /\ Keeps(t, w) /\ Settled(w)
  <2>1. ASSUME NEW u \in CacheEval(t), NEW w \in CleanPasses(u, 0, {})
        PROVE  Keeps(t, w) /\ Settled(w)
    <3>1. Keeps(t, u) /\ Sound(u) /\ Sized(u)
      BY <1>3, CacheEvalKeeps DEF Keeps, Settled, Sized
    <3> QED
      BY <3>1, CleanPassesKeeps, KeepsTransitive
  <2> QED
    BY <1>2, <1>3, <2>1, KeepsReflexive
<1>6. SameData(Cur, w)
  BY <1>3, <1>5, KeepsTransitive, KeepsSameData
<1> QED
  BY <1>4, <1>5, <1>6, HousekeepingStep DEF FlushQueue

LEMMA SetCacheSizeStep ==
  ASSUME IInv, NEW n \in CacheSizes, SetCacheSize(n)
  PROVE  IInv' /\ (NoLoss => NoLoss')
<1> DEFINE t == [Cur EXCEPT !.cfg = n]
<1>1. PICK u \in CacheConfigure(t) : Put(u)
  BY DEF SetCacheSize
<1>2. n \in Nat
  BY PieceCacheAssumption DEF PieceCacheAssumption
<1>3. /\ t \in CacheState /\ t.cfg = n /\ t.held = held /\ t.dirty = dirty
      /\ t.buf = buf /\ t.disk = disk
  BY <1>2 DEF IInv, CacheInv, Sound, CacheState, Cur
<1> HIDE DEF t
<1>4. Sound(t) /\ \A s \in Slice : Through(t, s) = Through(Cur, s)
  BY <1>3 DEF IInv, CacheInv, Sound, Through, Cur
<1>5. Keeps(t, u) /\ Settled(u) /\ Sound(u) /\ u.cfg \in CacheSizes
  BY <1>1, <1>3, <1>4, CacheConfigureKeeps DEF Keeps
<1>6. CacheInv' /\ \A s \in Slice : Through(Cur', s) = Through(u, s)
  BY <1>1, <1>5, PutInv
<1>7. UNCHANGED <<have, got, flushq, diskOk, crashed>> /\ due' \in BOOLEAN
  BY <1>1 DEF SetCacheSize, Put
<1>8. NoLoss => NoLoss'
  BY <1>4, <1>5, <1>6, <1>7 DEF NoLoss, Keeps
<1> QED
  BY <1>6, <1>7, <1>8 DEF IInv, RestInv

LEMMA SeedTimeoutStep ==
  ASSUME IInv, SeedTimeout
  PROVE  IInv' /\ (NoLoss => NoLoss')
<1>1. PICK t \in CacheEval(Cur) : Put(t)
  BY DEF SeedTimeout
<1>2. Keeps(Cur, t) /\ Settled(t)
  BY CacheEvalKeeps DEF IInv, CacheInv, Settled, Sized, Keeps
<1> QED
  BY <1>1, <1>2, KeepsSameData, HousekeepingStep DEF SeedTimeout, IInv, RestInv

\* The steps of the environment, and the crash, leave the cache alone.
LEMMA UntouchedStep ==
  ASSUME IInv, UNCHANGED <<cfg, size, held, dirty, buf, disk, have, got, flushq, failed>>,
         {due', diskOk', crashed'} \subseteq BOOLEAN, ~ DiskFails => diskOk'
  PROVE  IInv' /\ (NoLoss => NoLoss')
<1>1. Cur' = Cur
  BY DEF Cur
<1>2. CacheInv'
  BY <1>1 DEF IInv, CacheInv
<1> QED
  BY <1>1, <1>2 DEF IInv, RestInv, NoLoss

LEMMA NextStep ==
  ASSUME IInv, [Next]_vars
  PROVE  IInv' /\ (Careful => (NoLoss => NoLoss'))
<1>1. ASSUME NEW s \in Slice, NEW v \in {"bad", "good"}, Deliver(s, v)
      PROVE  IInv' /\ (NoLoss => NoLoss')
  BY <1>1, DeliverStep
<1>2. ASSUME NEW s \in Slice, Upload(s)
      PROVE  IInv' /\ (NoLoss => NoLoss')
  BY <1>2, UploadStep
<1>3. ASSUME NEW p \in Pieces, Prefetch(p)
      PROVE  IInv' /\ (Careful => (NoLoss => NoLoss'))
  BY <1>3, PrefetchStep
<1>4. CASE FlushQueue
  BY <1>4, FlushQueueStep
<1>5. CASE FlushQueueNull
  BY <1>5, UntouchedStep DEF FlushQueueNull, IInv, RestInv
<1>6. ASSUME NEW n \in CacheSizes, SetCacheSize(n)
      PROVE  IInv' /\ (NoLoss => NoLoss')
  BY <1>6, SetCacheSizeStep
<1>7. CASE SeedTimeout
  BY <1>7, SeedTimeoutStep
<1>8. CASE RetryTimer
  BY <1>8, UntouchedStep DEF RetryTimer, IInv, RestInv
<1>9. ASSUME NEW b \in BOOLEAN, DiskTurns(b)
      PROVE  IInv' /\ (NoLoss => NoLoss')
  BY <1>9, UntouchedStep DEF DiskTurns, IInv, RestInv
<1>10. CASE UNCHANGED vars
  BY <1>10, UntouchedStep DEF vars, IInv, RestInv
<1> QED
  BY <1>1, <1>2, <1>3, <1>4, <1>5, <1>6, <1>7, <1>8, <1>9, <1>10 DEF Next

LEMMA InitInv ==
  ASSUME Init
  PROVE  IInv /\ NoLoss
<1>1. cfg \in Nat /\ size \in Nat /\ (size = 0 <=> cfg = 0)
  BY PieceCacheAssumption DEF PieceCacheAssumption, Init, EvalSizes
<1>2. Sound(Cur) /\ Settled(Cur)
  BY <1>1 DEF Init, Sound, Settled, Sized, CacheState, Cur, Data
<1>3. RestInv
  <2>1. have \subseteq Pieces /\ got \subseteq Slice /\ flushq \in Seq(Pieces)
    BY DEF Init
  <2>2. due \in BOOLEAN /\ diskOk \in BOOLEAN /\ crashed \in BOOLEAN /\ diskOk
    BY DEF Init
  <2> QED
    BY <2>1, <2>2 DEF RestInv
<1>4. cfg \in CacheSizes /\ NoLoss
  BY DEF Init, NoLoss
<1> QED
  BY <1>2, <1>3, <1>4 DEF IInv, CacheInv

-----------------------------------------------------------------------------
(* The theorems.                                                           *)

\* The inductive invariant holds in every reachable state.
THEOREM Invariance == Spec => []IInv
<1>1. Init => IInv
  BY InitInv
<1>2. IInv /\ [Next]_vars => IInv'
  BY NextStep
<1> QED
  BY <1>1, <1>2, PTL DEF Spec

\* The cache's state always has its type, and every dirty entry is an entry.
THEOREM TypeCorrect == Spec => []TypeOK
<1>1. IInv => TypeOK
  BY DEF IInv, CacheInv, RestInv, Sound, CacheState, Cur, TypeOK
<1> QED
  BY <1>1, Invariance, PTL

\* A clean entry always equals the files, for all pieces, cache sizes, refused
\* writes and corrupt data: expiring it or answering from it is safe.
THEOREM CleanEntriesCoherent == Spec => []Coherent
<1>1. IInv => Coherent
  BY DEF IInv, CacheInv, Sound, Cur, Coherent
<1> QED
  BY <1>1, Invariance, PTL

\* No completed data is lost, provided the client does not both prefetch and
\* meet a disk that refuses writes (PieceCacheLoss shows the proviso is needed).
THEOREM CompletedDataKept ==
  ASSUME Careful
  PROVE  Spec => []NoLoss
<1>1. Init => IInv /\ NoLoss
  BY InitInv
<1>2. (IInv /\ NoLoss) /\ [Next]_vars => (IInv /\ NoLoss)'
  BY NextStep
<1> QED
  BY <1>1, <1>2, PTL DEF Spec


\* What the client uploads of an announced piece is the torrent's data, with
\* the proviso of CompletedDataKept: ReadSlice passes the cache by only when
\* m_cache_size is 0, and then the cache is empty or a write was refused.
THEOREM AnnouncedServed ==
  ASSUME Careful
  PROVE  Spec => []ServesGood
<1>1. ASSUME IInv, NoLoss, cfg > 0 \/ ~ failed, NEW s \in Slice, s[1] \in have
      PROVE  Read(Cur, s) = "good"
  <2>1. Through(Cur, s) = "good"
    BY <1>1 DEF NoLoss
  <2>2. size = 0 => held = {}
    BY <1>1 DEF IInv, CacheInv, Settled, Sized, Cur
  <2> QED
    BY <2>1, <2>2 DEF Read, Through, Cur
<1>2. IInv /\ NoLoss => ServesGood
  BY <1>1 DEF ServesGood
<1> QED
  BY <1>2, Invariance, CompletedDataKept, PTL

-----------------------------------------------------------------------------
(* The cache limit.  Unless a write was refused, m_cache_size is within    *)
(* cfg_cache_size, and so is what the cache holds: CacheClean, called when *)
(* an allocation does not fit, leaves room for it or reports a failure.    *)
(* The entries are compared with cfg_cache_size, not with m_cache_size,    *)
(* which SeedTimeout may set below what is held.                           *)

Room(t) == ~ t.failed => t.size <= t.cfg /\ Used(t) <= t.cfg

\* Room for need more slices besides.
RoomFor(t, need) == ~ t.failed => t.size <= t.cfg /\ Used(t) + need <= t.cfg

LEMMA UsedLess ==
  ASSUME NEW t, t.held \in SUBSET Slice, NEW u, NEW X \in SUBSET t.held, u.held = t.held \ X
  PROVE  /\ Used(t) \in Nat /\ Used(u) \in Nat /\ Cardinality(X) \in Nat
         /\ Used(u) = Used(t) - Cardinality(X)
<1>1. IsFiniteSet(t.held) /\ IsFiniteSet(X)
  BY SliceCardinality
<1>2. t.held \intersect X = X
  OBVIOUS
<1> QED
  BY <1>1, <1>2, SliceCardinality, FS_Difference DEF Used

LEMMA UsedMore ==
  ASSUME NEW t, t.held \in SUBSET Slice, NEW u, NEW X \in SUBSET Slice,
         u.held = t.held \union X
  PROVE  /\ Used(t) \in Nat /\ Used(u) \in Nat /\ Cardinality(X) \in Nat
         /\ Used(u) <= Used(t) + Cardinality(X)
<1>1. IsFiniteSet(t.held) /\ IsFiniteSet(X)
  BY SliceCardinality
<1>2. /\ Cardinality(t.held \union X)
           = Cardinality(t.held) + Cardinality(X) - Cardinality(t.held \intersect X)
  BY <1>1, FS_Union
<1> QED
  BY <1>2, SliceCardinality DEF Used

\* Fewer entries of the same or a failed cache keep its room.
LEMMA RoomKept ==
  ASSUME NEW t, NEW u, t.held \in SUBSET Slice, Room(t),
         u.held \subseteq t.held, u.cfg = t.cfg, u.cfg \in Nat,
         u.failed \/ (~ t.failed /\ u.size = t.size)
  PROVE  Room(u)
<1>1. Used(t) \in Nat /\ Used(u) \in Nat /\ Used(u) <= Used(t)
  BY SliceCardinality, FS_Subset DEF Used
<1> QED
  BY <1>1 DEF Room

LEMMA CacheEvalSize ==
  ASSUME NEW t, Sound(t), ~ t.failed, NEW u \in CacheEval(t)
  PROVE  u.size <= u.cfg
<1>1. PICK z \in EvalSizes(t.cfg) : u = [t EXCEPT !.size = z]
  BY DEF CacheEval
<1> QED
  BY <1>1 DEF EvalSizes, Sound, CacheState

\* The flushing pass leaves room, or an empty cache, or fails.
LEMMA FlushToCleanRoom ==
  ASSUME NEW t, Sound(t), NEW need \in Nat, ~ Fits(t, need), t.size <= t.cfg, need <= t.cfg,
         NEW u \in FlushToClean(t, need)
  PROVE  RoomFor(u, need)
<1>1. PICK w : \E X \in SUBSET (w.held \ w.dirty) :
           /\ u = Expired(w, X)
           /\ \/ t.failed /\ w = t
              \/ /\ ~ t.failed
                 /\ \E W \in SUBSET t.dirty : w = Written(t, W)
                 /\ Cardinality(X) = Lesser(Used(t) + need - t.size, Used(t))
              \/ /\ ~ t.failed
                 /\ \E W \in SUBSET t.dirty : w \in WriteFail(Written(t, W))
  BY FlushToCleanSteps
<1>2. PICK X \in SUBSET (w.held \ w.dirty) :
           /\ u = Expired(w, X)
           /\ \/ t.failed /\ w = t
              \/ /\ ~ t.failed
                 /\ \E W \in SUBSET t.dirty : w = Written(t, W)
                 /\ Cardinality(X) = Lesser(Used(t) + need - t.size, Used(t))
              \/ /\ ~ t.failed
                 /\ \E W \in SUBSET t.dirty : w \in WriteFail(Written(t, W))
  BY <1>1
<1>3. t.held \in SUBSET Slice /\ t.size \in Nat /\ t.cfg \in Nat
  BY DEF Sound, CacheState
<1>4. CASE t.failed /\ w = t
  BY <1>2, <1>4, ExpiredKeeps DEF RoomFor
<1>5. ASSUME ~ t.failed, NEW W \in SUBSET t.dirty, w = Written(t, W),
             Cardinality(X) = Lesser(Used(t) + need - t.size, Used(t))
      PROVE  RoomFor(u, need)
  <2>1. Sound(w) /\ w.cfg = t.cfg /\ w.size = t.size /\ w.held = t.held
    BY <1>5, WrittenKeeps DEF Keeps
  <2>2. u.cfg = t.cfg /\ u.size = t.size /\ u.held = t.held \ X /\ X \in SUBSET t.held
    BY <1>2, <2>1, ExpiredKeeps DEF Keeps
  <2>3. /\ Used(t) \in Nat /\ Used(u) \in Nat
        /\ Used(u) = Used(t) - Lesser(Used(t) + need - t.size, Used(t))
    BY <1>3, <1>5, <2>2, UsedLess
  <2>4. Used(u) + need <= t.cfg
    BY <1>3, <2>3 DEF Lesser
  <2> QED
    BY <2>2, <2>4 DEF RoomFor
<1>6. ASSUME ~ t.failed, NEW W \in SUBSET t.dirty, w \in WriteFail(Written(t, W))
      PROVE  RoomFor(u, need)
  <2>1. Sound(Written(t, W))
    BY WrittenKeeps DEF Keeps
  <2>2. Sound(w) /\ w.failed
    BY <1>6, <2>1, WriteFailKeeps DEF Keeps
  <2>3. u.failed
    BY <1>2, <2>2, ExpiredKeeps
  <2> QED
    BY <2>3 DEF RoomFor
<1> QED
  BY <1>2, <1>4, <1>5, <1>6

LEMMA CleanPassesRoom ==
  ASSUME NEW t, Sound(t), Sized(t), ~ t.failed => t.size <= t.cfg,
         NEW need \in Nat, need <= t.cfg, NEW avoid,
         NEW u \in CleanPasses(t, need, avoid)
  PROVE  RoomFor(u, need)
<1> DEFINE idle  == (t.held \ t.dirty) \ avoid
           short == Used(t) + need - t.size
           swept == Expired(t, idle)
           grown == [swept EXCEPT !.size = Greater(t.size, Lesser(t.cfg, Used(swept) + need))]
<1>1. u.cfg = t.cfg /\ (t.failed => u.failed)
  BY CleanPassesKeeps DEF Keeps
<1> SUFFICES ASSUME ~ t.failed
             PROVE  RoomFor(u, need)
  BY <1>1 DEF RoomFor
<1>2. /\ t.size \in Nat /\ t.cfg \in Nat /\ Used(t) \in Nat /\ t.held \in SUBSET Slice
      /\ t.size <= t.cfg
  BY SliceCardinality DEF Sound, CacheState, Used
<1>3. CASE Fits(t, need) /\ u = t
  BY <1>2, <1>3 DEF Fits, RoomFor
<1>4. CASE ~ Fits(t, need) /\ \E X \in OfSize(short, idle) : u = Expired(t, X)
  <2>1. PICK X \in SUBSET idle : Cardinality(X) = short /\ u = Expired(t, X)
    BY <1>4 DEF OfSize
  <2>2. u.size = t.size /\ u.held = t.held \ X
    BY <2>1, ExpiredKeeps
  <2>3. Used(u) = Used(t) - short
    BY <1>2, <2>1, <2>2, UsedLess
  <2> QED
    BY <1>1, <1>2, <2>2, <2>3 DEF RoomFor
<1>5. Sound(grown) /\ grown.cfg = t.cfg /\ grown.size \in Nat /\ grown.size <= t.cfg
  <2>1. /\ Sound(swept) /\ swept.cfg = t.cfg /\ swept.held \in SUBSET Slice
    BY ExpiredKeeps DEF Keeps, Sound, CacheState
  <2>2. Used(swept) \in Nat
    BY <2>1, SliceCardinality DEF Used
  <2> DEFINE n == Greater(t.size, Lesser(t.cfg, Used(swept) + need))
  <2>3. n \in Nat /\ n <= t.cfg
    BY <1>2, <2>2 DEF Greater, Lesser
  <2>4. grown = [swept EXCEPT !.size = n]
    OBVIOUS
  <2> HIDE DEF n, swept, grown
  <2> QED
    BY <2>1, <2>3, <2>4 DEF Sound, CacheState
<1>6. Used(grown) \in Nat
  BY <1>5, SliceCardinality DEF Sound, CacheState, Used
<1> HIDE DEF grown
<1>7. CASE Fits(grown, need) /\ u = grown
  BY <1>2, <1>5, <1>6, <1>7 DEF Fits, RoomFor
<1>8. CASE ~ Fits(grown, need) /\ u \in FlushToClean(grown, need)
  BY <1>5, <1>8, FlushToCleanRoom
<1> QED
  BY <1>3, <1>4, <1>7, <1>8 DEF CleanPasses, grown

LEMMA CacheConfigureRoom ==
  ASSUME NEW t, Sound(t), NEW u \in CacheConfigure(t)
  PROVE  Room(u)
<1>1. PICK w \in IF t.cfg = 0 THEN {[t EXCEPT !.size = 0]} ELSE CacheEval(t) :
        u \in IF w.failed THEN {w} ELSE CleanPasses(w, 0, {})
  BY DEF CacheConfigure
<1> SUFFICES ASSUME ~ w.failed
             PROVE  Room(u)
  BY <1>1 DEF Room
<1>2. Sound(w) /\ Sized(w) /\ w.size <= w.cfg /\ w.cfg \in Nat
  <2>1. CASE t.cfg = 0
    <3>1. w = [t EXCEPT !.size = 0]
      BY <1>1, <2>1
    <3>2. /\ w \in CacheState /\ w.cfg = 0 /\ w.size = 0
          /\ w.held = t.held /\ w.dirty = t.dirty /\ w.buf = t.buf /\ w.disk = t.disk
      BY <2>1, <3>1 DEF Sound, CacheState
    <3> QED
      BY <2>1, <3>2 DEF Sound, Sized
  <2>2. CASE t.cfg # 0
    <3>1. Keeps(t, w) /\ w.size # 0 /\ w.failed = t.failed
      BY <1>1, <2>2, CacheEvalKeeps
    <3>2. w.size <= w.cfg
      BY <1>1, <2>2, <3>1, CacheEvalSize
    <3> QED
      BY <2>2, <3>1, <3>2 DEF Keeps, Sized, Sound, CacheState
  <2> QED
    BY <2>1, <2>2
<1>3. RoomFor(u, 0) /\ Used(u) \in Nat
  BY <1>1, <1>2, CleanPassesRoom, CleanPassesKeeps, SliceCardinality
     DEF Keeps, Sound, CacheState, Used
<1> QED
  BY <1>3 DEF RoomFor, Room

LEMMA WrittenRoom ==
  ASSUME NEW t, Sound(t), Room(t), NEW W \in SUBSET t.dirty
  PROVE  Room(Written(t, W))
BY WrittenKeeps DEF Room, Used, Keeps

LEMMA FlushPiecesRoom ==
  ASSUME NEW t, Sound(t), Settled(t), Room(t), NEW P, NEW u \in FlushPieces(t, P)
  PROVE  Room(u)
<1> DEFINE todo == ToFlush(t, P)
<1>1. todo \in SUBSET t.dirty
  BY DEF ToFlush
<1>2. CASE u \in Wrote(t, todo)
  <2>1. CASE t.failed /\ todo # {}
    <3>1. PICK s \in todo : u \in Resumed(t, s, todo)
      BY <1>2, <2>1 DEF Wrote
    <3> DEFINE w == [Written(t, {s}) EXCEPT !.failed = FALSE]
    <3>2. PICK y \in CacheConfigure(w) :
            u = IF y.failed THEN y ELSE Written(y, todo \intersect y.dirty)
      BY <3>1 DEF Resumed
    <3>3. Sound(w)
      BY <1>1, ResumedSound
    <3> HIDE DEF w
    <3>4. Sound(y) /\ Room(y)
      BY <3>2, <3>3, CacheConfigureKeeps, CacheConfigureRoom DEF Keeps
    <3> QED
      BY <3>2, <3>4, WrittenRoom
  <2>2. CASE ~ (t.failed /\ todo # {})
    BY <1>1, <1>2, <2>2, WrittenRoom DEF Wrote
  <2> QED
    BY <2>1, <2>2
<1>3. CASE \E W \in SUBSET todo : \E x \in Wrote(t, W) : u \in WriteFail(x)
  <2>1. PICK W \in SUBSET todo : \E x \in Wrote(t, W) : u \in WriteFail(x)
    BY <1>3
  <2>2. PICK x \in Wrote(t, W) : u \in WriteFail(x)
    BY <2>1
  <2>3. u.failed
    BY <1>1, <2>2, WroteKeeps, WriteFailKeeps DEF Keeps
  <2> QED
    BY <2>3 DEF Room
<1> QED
  BY <1>2, <1>3, FlushPiecesSteps

LEMMA CacheCleanRoom ==
  ASSUME NEW t, Sound(t), Settled(t), Room(t), NEW need \in Nat, need <= t.cfg, NEW avoid,
         NEW u \in CacheClean(t, need, avoid)
  PROVE  RoomFor(u, need)
<1>1. PICK w \in IF t.failed /\ need > 0 THEN FlushPieces(t, Pieces) ELSE {t} :
        u \in CleanPasses(w, need, avoid)
  BY DEF CacheClean
<1>2. Sound(w) /\ Settled(w) /\ w.cfg = t.cfg
  BY <1>1, FlushPiecesKeeps DEF Keeps
<1>3. Room(w)
  BY <1>1, FlushPiecesRoom
<1> QED
  BY <1>1, <1>2, <1>3, CleanPassesRoom DEF Settled, Room

LEMMA FillGapRoom ==
  ASSUME NEW t, Sound(t), Settled(t), Room(t), NEW S \in SUBSET Slice, NEW avoid,
         NEW u \in FillGap(t, S, avoid)
  PROVE  Room(u)
<1> DEFINE kept == IF t.size = 0 THEN {{}}
                   ELSE IF Uncached(t, Cardinality(S))
                        THEN {Y \in SUBSET S : \A x \in Y : ~ Uncached(t, 1)} ELSE {S}
<1> DEFINE room(X) == IF Fits(t, Cardinality(X)) THEN {t}
                      ELSE CacheClean(t, Cardinality(X), avoid)
<1>0. u \in UNION {{Entered(w, X, w.disk, FALSE) : w \in room(X)} :
                  X \in {Y \in kept : Cardinality(Y) <= t.cfg}}
  BY DEF FillGap
<1>1. PICK X \in kept : Cardinality(X) <= t.cfg
                      /\ u \in {Entered(w, X, w.disk, FALSE) : w \in room(X)}
  <2> HIDE DEF kept, room
  <2> QED
    BY <1>0
<1>2. PICK w \in room(X) : u = Entered(w, X, w.disk, FALSE)
  BY <1>1
<1>3. X \in SUBSET Slice /\ Cardinality(X) \in Nat
  BY <1>1, SliceCardinality
<1>4. RoomFor(w, Cardinality(X)) /\ Sound(w) /\ w.cfg = t.cfg
  <2>1. CASE Fits(t, Cardinality(X)) /\ w = t
    <3>1. Used(t) \in Nat /\ t.size \in Nat /\ t.cfg \in Nat
      BY SliceCardinality DEF Sound, CacheState, Used
    <3> QED
      BY <1>3, <2>1, <3>1 DEF Fits, Room, RoomFor
  <2>2. CASE w \in CacheClean(t, Cardinality(X), avoid)
    BY <1>1, <1>3, <2>2, CacheCleanRoom, CacheCleanKeeps DEF Keeps
  <2> QED
    BY <1>2, <2>1, <2>2
<1>5. /\ u.held = w.held \union X /\ u.cfg = w.cfg /\ u.size = w.size /\ u.failed = w.failed
  BY <1>2, <1>4 DEF Entered, Sound, CacheState
<1>6. /\ Used(w) \in Nat /\ Used(u) \in Nat /\ Used(u) <= Used(w) + Cardinality(X)
  BY <1>3, <1>4, <1>5, UsedMore DEF Sound, CacheState
<1>7. w.cfg \in Nat
  BY <1>4 DEF Sound, CacheState
<1> QED
  BY <1>3, <1>4, <1>5, <1>6, <1>7 DEF Room, RoomFor

LEMMA StoreRoom ==
  ASSUME NEW t, Sound(t), Settled(t), Room(t), NEW s \in Slice, NEW v \in Data,
         NEW u \in Store(t, s, v)
  PROVE  Room(u)
<1> DEFINE one == [x \in {s} |-> v]
<1>1. CASE s \in t.held /\ u = Entered(t, {s}, one, TRUE)
  <2>1. u.held = t.held /\ u.size = t.size /\ u.failed = t.failed /\ u.cfg = t.cfg
    BY <1>1 DEF Entered, Sound, CacheState
  <2> QED
    BY <2>1 DEF Room, Used
<1>2. CASE u = FileWrite(t, s, v)
  BY <1>2 DEF FileWrite, Room, Used
<1>3. ASSUME ~ Uncached(t, 1),
             NEW w \in IF Fits(t, 1) THEN {t} ELSE CacheClean(t, 1, {}),
             u = Entered(w, {s}, one, TRUE)
      PROVE  Room(u)
  <2>1. Sound(w) /\ w.cfg = t.cfg /\ t.cfg \in Nat /\ t.size \in Nat /\ Used(t) \in Nat
    BY <1>3, CacheCleanKeeps, SliceCardinality DEF Keeps, Sound, CacheState, Used
  <2>2. 1 <= t.cfg
    BY <1>3, <2>1 DEF Uncached
  <2>3. RoomFor(w, 1)
    <3>1. CASE Fits(t, 1) /\ w = t
      BY <2>1, <3>1 DEF Fits, Room, RoomFor
    <3>2. CASE w \in CacheClean(t, 1, {})
      BY <2>2, <3>2, CacheCleanRoom
    <3> QED
      BY <1>3, <3>1, <3>2
  <2>4. /\ u.held = w.held \union {s} /\ u.cfg = w.cfg /\ u.size = w.size
        /\ u.failed = w.failed
    BY <1>3, <2>1 DEF Entered, Sound, CacheState
  <2>5. /\ Used(w) \in Nat /\ Used(u) \in Nat /\ Used(u) <= Used(w) + Cardinality({s})
    <3>1. {s} \in SUBSET Slice /\ w.held \in SUBSET Slice
      BY <2>1 DEF Sound, CacheState
    <3> QED
      BY <2>4, <3>1, UsedMore
  <2>6. Cardinality({s}) = 1
    BY FS_Singleton
  <2> QED
    BY <2>1, <2>3, <2>4, <2>5, <2>6 DEF Room, RoomFor
<1> QED
  BY <1>1, <1>2, <1>3 DEF Store

LEMMA WriteSliceRoom ==
  ASSUME NEW t, Sound(t), Settled(t), Room(t), NEW s \in Slice, NEW v \in Data,
         NEW u \in WriteSlice(t, s, v)
  PROVE  Room(u)
<1>1. CASE u = FileWrite(t, s, v)
  BY <1>1 DEF FileWrite, Room, Used
<1>2. ASSUME NEW w \in WriteFail(t), u \in Store(w, s, v)
      PROVE  Room(u)
  <2>1. Sound(w) /\ Settled(w) /\ w.failed
    BY <1>2, WriteFailKeeps, WriteFailSettled DEF Keeps
  <2> QED
    BY <1>2, <2>1, StoreRoom DEF Room
<1>3. CASE u \in Store(t, s, v)
  BY <1>3, StoreRoom
<1> QED
  BY <1>1, <1>2, <1>3 DEF WriteSlice

LEMMA CachePrepRoom ==
  ASSUME NEW t, Sound(t), Settled(t), NEW p, NEW u \in CachePrep(t, p)
  PROVE  u.dirty \subseteq t.dirty /\ (Room(t) => Room(u))
<1> DEFINE need  == Cardinality(SlicesOf(p) \ t.held)
           short == Used(t) + need - t.size
           other == t.held \ SlicesOf(p)
           todo  == t.dirty \ SlicesOf(p)
           flushed ==
             UNION {{Expired(w, X) : X \in OfSize(Lesser(short, Cardinality(other)),
                                                 other \ w.dirty)} :
                    w \in {Written(t, W) : W \in WholePieces(todo)}}
           refused ==
             UNION {UNION {{Expired(w, X) : X \in {Y \in SUBSET other : Cardinality(Y) <= short}} :
                           w \in WriteFail(Written(t, W))} :
                    W \in (SUBSET todo) \ {todo}}
<1>1. u = t \/ u \in flushed \/ u \in refused
  BY DEF CachePrep
<1>2. CASE u \in flushed
  <2>1. PICK w \in {Written(t, W) : W \in WholePieces(todo)} : \E X : u = Expired(w, X)
    BY <1>2
  <2>2. PICK W \in WholePieces(todo) : w = Written(t, W)
    BY <2>1
  <2>3. W \in SUBSET t.dirty
    BY DEF WholePieces
  <2>4. /\ Sound(w) /\ w.held = t.held /\ w.cfg = t.cfg /\ w.size = t.size
        /\ w.failed = t.failed /\ w.dirty \subseteq t.dirty
    BY <2>2, <2>3, WrittenKeeps DEF Keeps
  <2>5. PICK X : u = Expired(w, X)
    BY <2>1
  <2>6. /\ u.cfg = w.cfg /\ u.size = w.size /\ u.failed = w.failed
        /\ u.held \subseteq w.held /\ u.dirty \subseteq w.dirty
    BY <2>4, <2>5, ExpiredSound DEF Expired, Sound, CacheState
  <2>7. t.held \in SUBSET Slice /\ t.cfg \in Nat
    BY DEF Sound, CacheState
  <2> QED
    BY <2>4, <2>6, <2>7, RoomKept
<1>3. CASE u \in refused
  <2>1. PICK W \in SUBSET todo :
          u \in UNION {{Expired(w, X) : X \in {Y \in SUBSET other : Cardinality(Y) <= short}} :
                      w \in WriteFail(Written(t, W))}
    BY <1>3
  <2>2. PICK w \in WriteFail(Written(t, W)) : \E X : u = Expired(w, X)
    BY <2>1
  <2>3. Sound(Written(t, W)) /\ Written(t, W).dirty \subseteq t.dirty
    BY WrittenKeeps DEF Keeps
  <2>4. Sound(w) /\ w.failed /\ w.dirty \subseteq t.dirty
    BY <2>2, <2>3, WriteFailKeeps DEF Keeps
  <2>5. PICK X : u = Expired(w, X)
    BY <2>2
  <2>6. u.failed = w.failed /\ u.dirty \subseteq w.dirty
    BY <2>4, <2>5 DEF Expired, Sound, CacheState
  <2> QED
    BY <2>4, <2>6 DEF Room
<1> QED
  BY <1>1, <1>2, <1>3

LEMMA PutRoom ==
  ASSUME NEW t, Put(t), Room(t)
  PROVE  Room(Cur)'
BY DEF Put, Room, Used, Cur

LEMMA APieceCompleteRoom ==
  ASSUME NEW t, NEW p \in Pieces, APieceComplete(t, p), Sound(t), Settled(t), Room(t)
  PROVE  Room(Cur)'
<1>1. PICK u \in FillGap(t, SlicesOf(p) \ t.held, SlicesOf(p)) :
        Put(u) \/ Put(Uncache(u, p))
  BY DEF APieceComplete
<1>2. Room(u) /\ Sound(u)
  BY <1>1, SlicesOfPiece, FillGapRoom, FillGapKeeps DEF SameData
<1>3. Room(Uncache(u, p))
  <2> DEFINE w == Uncache(u, p)
  <2>1. /\ w.cfg = u.cfg /\ w.size = u.size /\ w.failed = u.failed /\ w.held \subseteq u.held
    BY <1>2, ExpiredSound DEF Uncache
  <2>2. u.held \in SUBSET Slice /\ u.cfg \in Nat
    BY <1>2 DEF Sound, CacheState
  <2> HIDE DEF w
  <2>3. Room(w)
    BY <1>2, <2>1, <2>2, RoomKept
  <2> QED
    BY <2>3 DEF w
<1> QED
  BY <1>1, <1>2, <1>3, PutRoom

LEMMA NextRoom ==
  ASSUME IInv, Room(Cur), [Next]_vars
  PROVE  Room(Cur)'
<1>1. Sound(Cur) /\ Settled(Cur)
  BY DEF IInv, CacheInv
<1>2. ASSUME NEW s \in Slice, NEW v \in {"bad", "good"}, Deliver(s, v)
      PROVE  Room(Cur)'
  <2>1. s[1] \in Pieces /\ v \in Data /\ ~ Cur.failed
    BY <1>2 DEF Deliver, Slice, Data, Cur
  <2>2. ASSUME NEW t \in WriteSlice(Cur, s, v), APieceComplete(t, s[1]) \/ Put(t)
        PROVE  Room(Cur)'
    <3>1. Sound(t) /\ Settled(t) /\ Room(t)
      BY <1>1, <2>1, WriteSliceSaves, WriteSliceRoom DEF Saves
    <3> QED
      BY <2>1, <2>2, <3>1, APieceCompleteRoom, PutRoom
  <2>3. ASSUME NEW t \in WriteSliceFails(Cur, s), Put(t)
        PROVE  Room(Cur)'
    <3>1. t \in WriteFail(Cur) \/ \E u \in WriteFail(Cur) : t \in WriteFail(u)
      BY <2>3 DEF WriteSliceFails
    <3>2. t.failed
      BY <1>1, <3>1, WriteFailKeeps DEF Keeps
    <3> QED
      BY <2>3, <3>2, PutRoom DEF Room
  <2> QED
    BY <1>2, <2>2, <2>3 DEF Deliver
<1>3. ASSUME NEW s \in Slice, Upload(s)
      PROVE  Room(Cur)'
  BY <1>1, <1>3, FillGapRoom, PutRoom DEF Upload
<1>4. ASSUME NEW p \in Pieces, Prefetch(p)
      PROVE  Room(Cur)'
  <2>1. PICK t \in CachePrep(Cur, p) :
          \/ \E last : \E u \in FillGap(t, (SlicesOf(p) \ t.held) \ {last}, SlicesOf(p)) : Put(u)
          \/ Put(t)
    BY <1>4 DEF Prefetch
  <2>2. Sound(t) /\ Settled(t) /\ Room(t)
    BY <1>1, CachePrepKeeps, CachePrepRoom
  <2> QED
    BY <2>1, <2>2, SlicesOfPiece, FillGapRoom, PutRoom
<1>5. CASE FlushQueue
  <2>0. PICK P : \E t \in FlushPieces(Cur, P) :
          \/ \E u \in CacheEval(t) : \E w \in CleanPasses(u, 0, {}) : Put(w)
          \/ Put(t)
    BY <1>5 DEF FlushQueue
  <2>1. PICK t \in FlushPieces(Cur, P) :
          \/ \E u \in CacheEval(t) : \E w \in CleanPasses(u, 0, {}) : Put(w)
          \/ Put(t)
    BY <2>0
  <2>2. Sound(t) /\ Settled(t) /\ Room(t)
    BY <1>1, FlushPiecesKeeps, FlushPiecesRoom DEF Keeps
  <2>3. ASSUME NEW u \in CacheEval(t), NEW w \in CleanPasses(u, 0, {})
        PROVE  Room(w)
    <3>1. Sound(u) /\ Sized(u) /\ (~ u.failed => u.size <= u.cfg) /\ u.cfg \in Nat
      BY <2>2, CacheEvalKeeps, CacheEvalSize DEF Keeps, Settled, Sized, Sound, CacheState
    <3>2. RoomFor(w, 0) /\ Sound(w)
      BY <3>1, CleanPassesRoom, CleanPassesKeeps DEF Keeps
    <3>3. Used(w) \in Nat
      BY <3>2, SliceCardinality DEF Sound, CacheState, Used
    <3> QED
      BY <3>2, <3>3 DEF Room, RoomFor
  <2> QED
    BY <2>1, <2>2, <2>3, PutRoom
<1>6. ASSUME NEW n \in CacheSizes, SetCacheSize(n)
      PROVE  Room(Cur)'
  <2>1. PICK u \in CacheConfigure([Cur EXCEPT !.cfg = n]) : Put(u)
    BY <1>6 DEF SetCacheSize
  <2>2. n \in Nat
    BY PieceCacheAssumption DEF PieceCacheAssumption
  <2>3. Sound([Cur EXCEPT !.cfg = n])
    BY <1>1, <2>2 DEF Sound, CacheState, Cur
  <2> QED
    BY <2>1, <2>3, CacheConfigureRoom, PutRoom
<1>7. CASE SeedTimeout
  <2>1. PICK t \in CacheEval(Cur) : Put(t)
    BY <1>7 DEF SeedTimeout
  <2>2. t.failed = Cur.failed /\ t.held = Cur.held /\ t.cfg = Cur.cfg
    BY <1>1, CacheEvalKeeps DEF Keeps
  <2>3. ~ t.failed => t.size <= t.cfg
    BY <1>1, <2>2, CacheEvalSize
  <2>4. Room(t)
    BY <2>2, <2>3 DEF Room, Used
  <2> QED
    BY <2>1, <2>4, PutRoom
<1>8. CASE UNCHANGED <<cfg, size, held, failed>>
  BY <1>8 DEF Room, Used, Cur
<1> QED
  BY <1>2, <1>3, <1>4, <1>5, <1>6, <1>7, <1>8
     DEF Next, vars, FlushQueueNull, RetryTimer, DiskTurns

\* Unless a write was refused, the cache never holds more than cfg_cache_size.
THEOREM LimitKept == Spec => []WithinLimit
<1>1. Init => IInv /\ Room(Cur)
  <2>1. ASSUME Init
        PROVE  Room(Cur)
    BY <2>1, PieceCacheAssumption, FS_EmptySet
       DEF Init, Room, Used, Cur, EvalSizes, PieceCacheAssumption
  <2> QED
    BY <2>1, InitInv
<1>2. IInv /\ Room(Cur) /\ [Next]_vars => IInv' /\ Room(Cur)'
  BY NextStep, NextRoom
<1>3. Room(Cur) => WithinLimit
  BY DEF Room, Used, Cur, WithinLimit
<1> QED
  BY <1>1, <1>2, <1>3, PTL DEF Spec


-----------------------------------------------------------------------------
(* The flush queue.  The invariant holds with caching off, too: then       *)
(* nothing is dirty but what a refused write left, and that was queued     *)
(* while caching was on.                                                   *)

InQueue(p, q) == \E i \in DOMAIN q : q[i] = p
QueuedDirty   == \A s \in dirty : s[1] \in have => InQueue(s[1], flushq)

LEMMA AppendQueue ==
  ASSUME NEW q \in Seq(Pieces), NEW p \in Pieces
  PROVE  /\ InQueue(p, Append(q, p))
         /\ \A x : InQueue(x, q) => InQueue(x, Append(q, p))
BY SMTT(60) DEF InQueue

LEMMA TailQueue ==
  ASSUME NEW q \in Seq(Pieces), q # << >>, NEW x, InQueue(x, q), x # Head(q)
  PROVE  InQueue(x, Tail(q))
<1>1. PICK i \in 1 .. Len(q) : q[i] = x
  BY DEF InQueue
<1>2. i # 1
  BY <1>1
<1>3. i - 1 \in 1 .. Len(q) - 1
  BY <1>1, <1>2
<1>4. Tail(q)[i - 1] = q[i] /\ DOMAIN Tail(q) = 1 .. Len(q) - 1
  BY <1>3
<1> QED
  BY <1>1, <1>3, <1>4 DEF InQueue

\* With caching off nothing becomes dirty.
LEMMA WriteSliceUncached ==
  ASSUME NEW t, Sound(t), t.cfg = 0, t.held = {}, NEW s \in Slice, NEW v \in Data,
         NEW u \in WriteSlice(t, s, v)
  PROVE  u.dirty = {}
<1>1. ASSUME NEW w, Sound(w), w.cfg = 0, w.held = {}, u = FileWrite(w, s, v)
      PROVE  u.dirty = {}
  BY <1>1 DEF FileWrite, Sound, CacheState
<1>2. ASSUME NEW w, Sound(w), w.cfg = 0, w.held = {}, u \in Store(w, s, v)
      PROVE  u.dirty = {}
  <2>1. Uncached(w, 1)
    BY <1>2 DEF Uncached
  <2> QED
    BY <1>1, <1>2, <2>1 DEF Store
<1>3. ASSUME NEW w \in WriteFail(t), u \in Store(w, s, v)
      PROVE  u.dirty = {}
  BY <1>2, <1>3, WriteFailKeeps DEF Keeps
<1> QED
  BY <1>1, <1>2, <1>3 DEF WriteSlice

\* The steps that complete no piece and take none from the queue.
LEMMA LessDirtyStep ==
  ASSUME QueuedDirty, dirty' \subseteq dirty, have' = have, flushq' = flushq
  PROVE  QueuedDirty'
BY DEF QueuedDirty

LEMMA DeliverQueues ==
  ASSUME IInv, QueuedDirty, NEW s \in Slice, NEW v \in {"bad", "good"}, Deliver(s, v)
  PROVE  QueuedDirty'
<1>1. /\ s[1] \in Pieces /\ s[1] \notin have /\ v \in Data /\ ~ Cur.failed
      /\ Sound(Cur) /\ Settled(Cur) /\ flushq \in Seq(Pieces) /\ cfg \in Nat
  BY DEF Deliver, Slice, Data, Cur, IInv, CacheInv, RestInv, Sound, CacheState
<1>2. ASSUME NEW t \in WriteSlice(Cur, s, v), APieceComplete(t, s[1])
      PROVE  QueuedDirty'
  <2> DEFINE p == s[1]
  <2>1. /\ Sound(t) /\ Settled(t) /\ t.dirty \subseteq dirty \union {s}
        /\ cfg = 0 => t.dirty = {}
    BY <1>1, WriteSliceSaves, WriteSliceUncached DEF Saves, Settled, Cur
  <2>2. PICK u \in FillGap(t, SlicesOf(p) \ t.held, SlicesOf(p)) :
          \/ Put(u) /\ have' = have \union {p} /\ flushq' = Queued(p)
          \/ Put(Uncache(u, p)) /\ have' = have /\ flushq' = flushq
    BY <1>2 DEF APieceComplete
  <2>3. u.dirty \subseteq t.dirty /\ Sound(u)
    <3>1. SlicesOf(p) \ t.held \in SUBSET Slice /\ (SlicesOf(p) \ t.held) \intersect t.held = {}
      BY <1>1, SlicesOfPiece
    <3>2. SameData(t, u)
      BY <2>1, <2>2, <3>1, FillGapKeeps
    <3> QED
      BY <3>2 DEF SameData
  <2>4. CASE Put(u) /\ have' = have \union {p} /\ flushq' = Queued(p)
    <3>1. dirty' \subseteq t.dirty
      BY <2>3, <2>4 DEF Put
    <3>2. CASE cfg = 0
      BY <2>1, <3>1, <3>2 DEF QueuedDirty
    <3>3. CASE cfg > 0
      <4>1. flushq' = Append(flushq, p)
        BY <2>4, <3>3 DEF Queued
      <4>2. ASSUME NEW x \in dirty', x[1] \in have'
            PROVE  InQueue(x[1], flushq')
        <5>1. CASE x[1] = p
          BY <1>1, <4>1, <5>1, AppendQueue
        <5>2. CASE x[1] # p
          <6>1. x \in dirty /\ x[1] \in have
            BY <2>1, <2>4, <3>1, <4>2, <5>2
          <6>2. InQueue(x[1], flushq)
            BY <6>1 DEF QueuedDirty
          <6> QED
            BY <1>1, <4>1, <6>2, AppendQueue
        <5> QED
          BY <5>1, <5>2
      <4> QED
        BY <4>2 DEF QueuedDirty
    <3> QED
      BY <1>1, <3>2, <3>3
  <2>5. CASE Put(Uncache(u, p)) /\ have' = have /\ flushq' = flushq
    <3>1. Uncache(u, p).dirty \subseteq u.dirty
      BY <2>3 DEF Uncache, Expired, Sound, CacheState
    <3>2. dirty' \subseteq dirty \union {s}
      BY <2>1, <2>3, <2>5, <3>1 DEF Put
    <3> QED
      BY <1>1, <2>5, <3>2 DEF QueuedDirty
  <2> QED
    BY <2>2, <2>4, <2>5
<1>3. ASSUME NEW t \in WriteSlice(Cur, s, v), Put(t), UNCHANGED <<have, flushq>>
      PROVE  QueuedDirty'
  <2>1. t.dirty \subseteq dirty \union {s}
    BY <1>1, WriteSliceSaves DEF Saves, Cur
  <2>2. dirty' \subseteq dirty \union {s}
    BY <1>3, <2>1 DEF Put
  <2> QED
    BY <1>1, <1>3, <2>2 DEF QueuedDirty
<1>4. ASSUME NEW t \in WriteSliceFails(Cur, s), Put(t), UNCHANGED <<have, flushq>>
      PROVE  QueuedDirty'
  <2>1. t \in WriteFail(Cur) \/ \E u \in WriteFail(Cur) : t \in WriteFail(u)
    BY <1>4 DEF WriteSliceFails
  <2>2. t.dirty = Cur.dirty
    BY <1>1, <2>1, WriteFailKeeps DEF Keeps
  <2> QED
    BY <1>4, <2>2, LessDirtyStep DEF Put, Cur
<1> QED
  BY <1>2, <1>3, <1>4 DEF Deliver

LEMMA FlushQueueQueues ==
  ASSUME IInv, QueuedDirty, FlushQueue
  PROVE  QueuedDirty'
<1>1. PICK P : /\ flushq # << >> => P = {Head(flushq)}
               /\ \E t \in FlushPieces(Cur, P) :
                    /\ flushq' = Popped(t)
                    /\ \/ \E u \in CacheEval(t) : \E w \in CleanPasses(u, 0, {}) : Put(w)
                       \/ Put(t)
  BY DEF FlushQueue
<1>2. PICK t \in FlushPieces(Cur, P) :
         /\ flushq' = Popped(t)
         /\ \/ \E u \in CacheEval(t) : \E w \in CleanPasses(u, 0, {}) : Put(w)
            \/ Put(t)
  BY <1>1
<1>3. Sound(Cur) /\ Settled(Cur) /\ flushq \in Seq(Pieces) /\ have' = have
  BY DEF IInv, CacheInv, RestInv, FlushQueue
<1>4. Sound(t) /\ Settled(t) /\ t.dirty \subseteq dirty
  BY <1>3, FlushPiecesKeeps DEF Keeps, Cur
<1>5. dirty' \subseteq t.dirty
  <2>1. ASSUME NEW u \in CacheEval(t), NEW w \in CleanPasses(u, 0, {})
        PROVE  w.dirty \subseteq t.dirty
    <3>1. Sound(u) /\ Sized(u) /\ u.dirty = t.dirty
      BY <1>4, CacheEvalKeeps DEF Keeps, Settled, Sized
    <3> QED
      BY <3>1, CleanPassesKeeps DEF Keeps
  <2> QED
    BY <1>2, <2>1 DEF Put
<1>6. CASE flushq' = flushq
  BY <1>3, <1>4, <1>5, <1>6, LessDirtyStep
<1>7. CASE flushq # << >> /\ ~ t.failed /\ flushq' = Tail(flushq)
  <2>1. ToFlush(t, {Head(flushq)}) = {}
    BY <1>1, <1>2, <1>3, <1>7, FlushPiecesDone
  <2>2. ASSUME NEW s \in dirty', s[1] \in have'
        PROVE  InQueue(s[1], flushq')
    <3>1. s \in t.dirty /\ s \in dirty /\ s[1] \in have
      BY <1>3, <1>4, <1>5, <2>2
    <3>2. s[1] # Head(flushq)
      BY <2>1, <3>1 DEF ToFlush
    <3>3. InQueue(s[1], flushq)
      BY <3>1 DEF QueuedDirty
    <3> QED
      BY <1>3, <1>7, <3>2, <3>3, TailQueue
  <2> QED
    BY <2>2 DEF QueuedDirty
<1> QED
  BY <1>2, <1>6, <1>7 DEF Popped

LEMMA NextQueues ==
  ASSUME IInv, QueuedDirty, [Next]_vars
  PROVE  QueuedDirty'
<1>1. Sound(Cur) /\ Settled(Cur)
  BY DEF IInv, CacheInv
<1>2. ASSUME NEW s \in Slice, NEW v \in {"bad", "good"}, Deliver(s, v)
      PROVE  QueuedDirty'
  BY <1>2, DeliverQueues
<1>3. ASSUME NEW s \in Slice, Upload(s)
      PROVE  QueuedDirty'
  <2>1. PICK t \in FillGap(Cur, {s}, {}) : Put(t)
    BY <1>3 DEF Upload
  <2>2. {s} \intersect Cur.held = {}
    BY <1>3 DEF Upload, Cur
  <2>3. t.dirty \subseteq Cur.dirty
    BY <1>1, <2>1, <2>2, FillGapKeeps DEF SameData
  <2> QED
    BY <1>3, <2>1, <2>3, LessDirtyStep DEF Put, Cur, Upload
<1>4. ASSUME NEW p \in Pieces, Prefetch(p)
      PROVE  QueuedDirty'
  <2>1. PICK t \in CachePrep(Cur, p) :
          \/ \E last : \E u \in FillGap(t, (SlicesOf(p) \ t.held) \ {last}, SlicesOf(p)) : Put(u)
          \/ Put(t)
    BY <1>4 DEF Prefetch
  <2>2. Sound(t) /\ Settled(t) /\ t.dirty \subseteq Cur.dirty
    BY <1>1, <2>1, CachePrepKeeps, CachePrepRoom
  <2>3. ASSUME NEW last, NEW u \in FillGap(t, (SlicesOf(p) \ t.held) \ {last}, SlicesOf(p))
        PROVE  u.dirty \subseteq t.dirty
    <3> DEFINE S == (SlicesOf(p) \ t.held) \ {last}
    <3>1. S \in SUBSET Slice /\ S \intersect t.held = {}
      BY SlicesOfPiece
    <3> QED
      BY <2>2, <2>3, <3>1, FillGapKeeps DEF SameData
  <2>4. dirty' \subseteq t.dirty
    BY <2>1, <2>3 DEF Put
  <2> QED
    BY <1>4, <2>2, <2>4, LessDirtyStep DEF Cur, Prefetch
<1>5. CASE FlushQueue
  BY <1>5, FlushQueueQueues
<1>6. ASSUME NEW n \in CacheSizes, SetCacheSize(n)
      PROVE  QueuedDirty'
  <2>1. PICK u \in CacheConfigure([Cur EXCEPT !.cfg = n]) : Put(u)
    BY <1>6 DEF SetCacheSize
  <2>2. n \in Nat
    BY PieceCacheAssumption DEF PieceCacheAssumption
  <2>3. Sound([Cur EXCEPT !.cfg = n]) /\ [Cur EXCEPT !.cfg = n].dirty = dirty
    BY <1>1, <2>2 DEF Sound, CacheState, Cur
  <2>4. u.dirty \subseteq dirty
    BY <2>1, <2>3, CacheConfigureKeeps DEF Keeps
  <2> QED
    BY <1>6, <2>1, <2>4, LessDirtyStep DEF Put, SetCacheSize
<1>7. CASE SeedTimeout
  <2>1. PICK t \in CacheEval(Cur) : Put(t)
    BY <1>7 DEF SeedTimeout
  <2>2. t.dirty = Cur.dirty
    BY <1>1, <2>1, CacheEvalKeeps
  <2> QED
    BY <1>7, <2>1, <2>2, LessDirtyStep DEF Put, Cur, SeedTimeout
<1>8. CASE UNCHANGED <<dirty, have, flushq>>
  BY <1>8, LessDirtyStep
<1> QED
  BY <1>2, <1>3, <1>4, <1>5, <1>6, <1>7, <1>8
     DEF Next, vars, FlushQueueNull, RetryTimer, DiskTurns

\* A completed piece with unwritten data is always in the flush queue: its
\* place is given up only when everything it has in the cache was written.
THEOREM DirtyPiecesQueued == Spec => []QueuedUntilWritten
<1>1. Init => IInv /\ QueuedDirty
  <2>1. Init => QueuedDirty
    BY DEF Init, QueuedDirty
  <2> QED
    BY <2>1, InitInv
<1>2. IInv /\ QueuedDirty /\ [Next]_vars => IInv' /\ QueuedDirty'
  BY NextStep, NextQueues
<1>3. QueuedDirty => QueuedUntilWritten
  BY DEF QueuedDirty, InQueue, QueuedUntilWritten
<1> QED
  BY <1>1, <1>2, <1>3, PTL DEF Spec

=============================================================================
