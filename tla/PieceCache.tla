----------------------------- MODULE PieceCache -----------------------------
(***************************************************************************)
(* The write-back piece cache of btContent (btcontent.cpp): every slice    *)
(* received from a peer goes through WriteSlice, every slice sent to a     *)
(* peer and every hash check through ReadSlice, and completed pieces are   *)
(* written to disk when the client is idle.                                *)
(*                                                                         *)
(* A cache entry is one slice: requests, uploads and the gaps a hash check *)
(* fills are counted in slices.  The age list is abstracted to "any        *)
(* order": wherever the code takes the oldest entries, the model takes any *)
(* choice of as many entries.  Housekeeping operators map a cache state    *)
(* (a record) to the set of cache states the code may leave.               *)
(***************************************************************************)
EXTENDS Naturals, Sequences, FiniteSets

CONSTANTS
  Pieces,        \* piece indexes of the torrent
  Offs,          \* slice offsets within a piece
  CacheSizes,    \* the values cfg_cache_size takes, in slices (0: no cache)
  Growth,        \* what WriteFail adds to m_cache_size, in slices
  DiskFails,     \* may the file system refuse a write?
  BadData,       \* may a peer send bytes that are not the torrent's?
  Prefetching    \* does the client prefetch pieces about to complete?

ASSUME PieceCacheAssumption ==
  /\ IsFiniteSet(Pieces) /\ IsFiniteSet(Offs) /\ Offs # {}
  /\ CacheSizes \subseteq Nat \ {1} /\ CacheSizes # {}
  /\ Growth \subseteq Nat /\ Growth # {}
  /\ {DiskFails, BadData, Prefetching} \subseteq BOOLEAN

Slice       == Pieces \X Offs
SlicesOf(p) == {p} \X Offs
Data        == {"none", "bad", "good"}

VARIABLES
  cfg,       \* cfg_cache_size
  size,      \* m_cache_size: how much the cache may hold just now
  held,      \* slices with a cache entry
  dirty,     \* held slices with bc_f_flush set
  buf,       \* what the entry of a held slice contains ("none" if not held)
  disk,      \* what the files contain
  have,      \* pBF
  got,       \* slices saved since their piece was (re)started
  flushq,    \* m_flushq: completed pieces waiting to be written
  failed,    \* m_flush_failed
  due,       \* failed, and FLUSH_RETRY_INTERVAL has passed since m_flush_tried
  diskOk,    \* does the file system accept writes at present?
  crashed    \* a null pointer was followed

vars == <<cfg, size, held, dirty, buf, disk, have, got, flushq, failed, due,
          diskOk, crashed>>

-----------------------------------------------------------------------------
(* Cache states, and what a read returns in one of them.                   *)

Cur == [cfg |-> cfg, held |-> held, dirty |-> dirty, buf |-> buf, disk |-> disk,
        failed |-> failed, size |-> size, tried |-> FALSE]

Used(t)       == Cardinality(t.held)
FitsOneMore(t, need) == Used(t) + need <= t.size + 1   \* mutant: off by one
Fits(t, need) == Used(t) + need <= t.size

\* ReadSlice: the files only when m_cache_size is 0, else the cache over them.
Through(t, s) == IF s \in t.held THEN t.buf[s] ELSE t.disk[s]
Read(t, s)    == IF t.size = 0 THEN t.disk[s] ELSE Through(t, s)

\* CacheIO does not cache transfers of 75% of the cache limit and more.
Uncached(t, n) == 4 * n >= 3 * t.cfg

OfSize(n, S) == {X \in SUBSET S : Cardinality(X) = n}
WholePieces(S) == {{s \in S : s[1] \in P} : P \in SUBSET Pieces}
Lesser(m, n)  == IF m <= n THEN m ELSE n
Greater(m, n) == IF m <= n THEN n ELSE m

\* Entries W reach the files and become clean.
Written(t, W) ==
  [t EXCEPT !.disk  = [s \in Slice |-> IF s \in W THEN t.buf[s] ELSE t.disk[s]],
            !.dirty = t.dirty \ W]

\* Entries E leave the cache.
ExpiredFlagged(t, E) ==   \* mutant: the flag outlives the entry
  [t EXCEPT !.held = t.held \ E,
            !.buf  = [s \in Slice |-> IF s \in E THEN "none" ELSE t.buf[s]]]
Expired(t, E) ==
  [t EXCEPT !.held  = t.held \ E,
            !.dirty = t.dirty \ E,
            !.buf   = [s \in Slice |-> IF s \in E THEN "none" ELSE t.buf[s]]]

\* New entries for slices S with content c, dirty or not.
Entered(t, S, c, asDirty) ==
  [t EXCEPT !.held  = t.held \union S,
            !.dirty = IF asDirty THEN t.dirty \union S ELSE t.dirty,
            !.buf   = [s \in Slice |-> IF s \in S THEN c[s] ELSE t.buf[s]]]

\* WriteFail: the first failure lets the cache grow by what is in flight.
WriteFailUnflags(t) ==   \* mutant: the flags are cleared although nothing was written
  {[t EXCEPT !.failed = TRUE, !.tried = TRUE, !.dirty = {}]}
WriteFail(t) ==
  {[t EXCEPT !.failed = TRUE, !.tried = TRUE,
             !.size = IF t.failed THEN t.size ELSE t.size + g] : g \in Growth}

\* CacheEval settles on a size within the configured limit, never a smaller
\* one while a flush has failed.
EvalSizesFromZero(c) == 0 .. c   \* mutant: the slice that rounds up is forgotten
EvalSizes(c) == IF c = 0 THEN {0} ELSE 1 .. c
CacheEval(t) ==
  {[t EXCEPT !.size = IF t.failed THEN Greater(t.size, z) ELSE z] : z \in EvalSizes(t.cfg)}

-----------------------------------------------------------------------------
(* CacheClean: make room for need slices, sparing the slices in avoid.     *)

\* Second pass (f_flush): whole pieces are flushed, then clean entries of any
\* piece expire, until there is room.  A refused write ends the flushing.
FlushToClean(t, need) ==
  LET short == Used(t) + need - t.size
      flushed ==
        UNION {{Expired(u, X) : X \in OfSize(Lesser(short, Used(t)), u.held \ u.dirty)} :
               u \in {Written(t, W) : W \in WholePieces(t.dirty)}}
      refused ==
        UNION {UNION {{Expired(u, X) : X \in {Y \in SUBSET (u.held \ u.dirty) :
                                                 Cardinality(Y) <= short}} :
                      u \in WriteFail(Written(t, W))} :
               W \in (SUBSET t.dirty) \ {t.dirty}}
  IN  IF t.failed
      THEN {Expired(t, X) : X \in OfSize(Lesser(short, Cardinality(t.held \ t.dirty)),
                                         t.held \ t.dirty)}
      ELSE IF diskOk THEN flushed ELSE flushed \union refused

\* First pass: only clean entries go; then the cache grows up to its limit.
CleanPasses(t, need, avoid) ==
  LET idle  == (t.held \ t.dirty) \ avoid
      short == Used(t) + need - t.size
      swept == Expired(t, idle)
      grown == [swept EXCEPT !.size = Greater(t.size, Lesser(t.cfg, Used(swept) + need))]
  IN  IF Fits(t, need) THEN {t}
      ELSE IF short <= Cardinality(idle) THEN {Expired(t, X) : X \in OfSize(short, idle)}
      ELSE IF Fits(grown, need) THEN {grown}
      ELSE FlushToClean(grown, need)

\* CacheConfigure: settle the size, and trim the cache unless a flush failed.
CacheConfigure(t) ==
  UNION {IF u.failed THEN {u} ELSE CleanPasses(u, 0, {}) :
         u \in IF t.cfg = 0 THEN {[t EXCEPT !.size = 0]} ELSE CacheEval(t)}

\* FlushPiece for the pieces P (FlushCache: for all of them): nothing while a
\* failed flush waits for its retry, else the entries of P up to the first
\* refused write.  The first entry written after a failure resumes the download
\* and trims the cache before the others follow.
FlushPieces(t, P) ==
  LET todo == {s \in t.dirty : s[1] \in P}
      resumed(s, W) ==
        {IF u.failed THEN u ELSE Written(u, W \intersect u.dirty) :
           u \in CacheConfigure([Written(t, {s}) EXCEPT !.failed = FALSE])}
      wrote(W) == IF t.failed /\ W # {} THEN UNION {resumed(s, W) : s \in W}
                  ELSE {Written(t, W)}
      refused  == UNION {UNION {WriteFail(u) : u \in {x \in wrote(W) : todo \intersect x.dirty # {}}} :
                         W \in (SUBSET todo) \ {todo}}
  IN  IF todo = {} \/ (t.failed /\ (t.tried \/ ~due)) THEN {t}
      ELSE IF diskOk THEN wrote(todo) ELSE wrote(todo) \union refused

CacheClean(t, need, avoid) ==
  UNION {CleanPasses(u, need, avoid) :
         u \in IF t.failed /\ need > 0 THEN FlushPieces(t, Pieces) ELSE {t}}

-----------------------------------------------------------------------------
(* Reading and writing.                                                    *)

\* CacheIO for the slices S that a read misses: read them from the files and
\* keep them, unless the run of slices is too long for the cache.
FillGap(t, S, avoid) ==
  LET kept == IF t.size = 0 THEN {{}}
              ELSE IF Uncached(t, Cardinality(S))
                   THEN {X \in SUBSET S : \A x \in X : ~ Uncached(t, 1)} ELSE {S}
  IN  UNION {{Entered(u, X, u.disk, FALSE) :
                u \in IF Fits(t, Cardinality(X)) THEN {t}
                      ELSE CacheClean(t, Cardinality(X), avoid)} :
             X \in {Y \in kept : Cardinality(Y) <= t.cfg}}

FileWrite(t, s, v) == [t EXCEPT !.disk[s] = v]

\* WriteSlice past the direct write: into the entry that is there, or CacheIO.
Store(t, s, v) ==
  LET one == [x \in {s} |-> v]
  IN  IF s \in t.held THEN {Entered(t, {s}, one, TRUE)}
      ELSE IF Uncached(t, 1) THEN {FileWrite(t, s, v)}
      ELSE {Entered(u, {s}, one, TRUE) :
              u \in IF Fits(t, 1) THEN {t} ELSE CacheClean(t, 1, {})}

\* The cache states in which WriteSlice returns 0 ...
WriteSlice(t, s, v) ==
  IF t.size = 0
  THEN {FileWrite(t, s, v)} \union
       (IF diskOk THEN {} ELSE UNION {Store(u, s, v) : u \in WriteFail(t)})
  ELSE Store(t, s, v)

\* ... and those in which it returns -1: both writes of an uncached slice, or
\* its only one, were refused.
WriteSliceFails(t, s) ==
  IF diskOk \/ ~ Uncached(t, 1) \/ s \in t.held THEN {}
  ELSE IF t.size = 0 THEN UNION {WriteFail(u) : u \in WriteFail(t)}
  ELSE WriteFail(t)

\* Uncache: the entries of a piece whose hash check failed are discarded.
UncacheAll(t, p) == Expired(t, t.held)   \* mutant: follows the age list instead
Uncache(t, p) == Expired(t, SlicesOf(p) \intersect t.held)

-----------------------------------------------------------------------------
(* Assignment of a cache state to the variables.                           *)

Put(t) ==
  /\ cfg' = t.cfg
  /\ held' = t.held /\ dirty' = t.dirty /\ buf' = t.buf /\ disk' = t.disk
  /\ failed' = t.failed /\ size' = t.size
  /\ due' = (due /\ t.failed /\ ~ t.tried)

Init ==
  /\ cfg \in CacheSizes
  /\ size \in EvalSizes(cfg)
  /\ held = {} /\ dirty = {}
  /\ buf = [s \in Slice |-> "none"] /\ disk = [s \in Slice |-> "none"]
  /\ have = {} /\ got = {} /\ flushq = << >>
  /\ failed = FALSE /\ due = FALSE /\ diskOk = TRUE /\ crashed = FALSE

-----------------------------------------------------------------------------
(* The operations.                                                         *)

Running == ~ crashed

\* The flush queue after piece p is complete.
QueuedAlone(p) == IF cfg > 0 THEN <<p>> ELSE flushq   \* mutant: the list is not walked
Queued(p)      == IF cfg > 0 THEN Append(flushq, p) ELSE flushq

\* APieceComplete: hash the piece as ReadPiece returns it.
APieceComplete(t, p) ==
  \E u \in FillGap(t, SlicesOf(p) \ t.held, SlicesOf(p)) :
    IF \A s \in SlicesOf(p) : Read(t, s) = "good"
    THEN /\ Put(u)
         /\ have' = have \union {p}
         /\ flushq' = Queued(p)
         /\ got' = got \union SlicesOf(p)
    ELSE /\ Put(Uncache(u, p))
         /\ got' = got \ SlicesOf(p)
         /\ UNCHANGED <<have, flushq>>

\* PieceDeliver's use of the cache: save a requested slice and, when it was
\* the last one outstanding, report the piece complete.  When saving it met a
\* refused write, StopDownload emptied the request queue, and any slice may
\* look like the last one.
Deliver(s, v) ==
  /\ Running
  /\ s[1] \notin have /\ s \notin got
  /\ ~ failed                              \* Seeding(): nothing is requested
  /\ v = "bad" => BadData
  /\ \/ \E t \in WriteSlice(Cur, s, v) :
          LET last == SlicesOf(s[1]) \subseteq got \union {s}
          IN  \/ (last \/ t.failed) /\ APieceComplete(t, s[1])
              \/ /\ ~ last /\ Put(t)
                 /\ got' = got \union {s}
                 /\ UNCHANGED <<have, flushq>>
     \/ \E t \in WriteSliceFails(Cur, s) :
          Put(t) /\ UNCHANGED <<have, got, flushq>>
  /\ UNCHANGED <<diskOk, crashed>>

\* ReadSlice for an upload or its prefetch, of a piece that was announced.
Upload(s) ==
  /\ Running
  /\ s[1] \in have /\ s \notin held /\ size > 0
  /\ \E t \in FillGap(Cur, {s}, {}) : Put(t)
  /\ UNCHANGED <<have, got, flushq, diskOk, crashed>>

\* CachePrep: room for the rest of piece p.  A dirty entry of another piece is
\* flushed first; it expires whether or not that worked.
CachePrep(t, p) ==
  LET need  == Cardinality(SlicesOf(p) \ t.held)
      short == Used(t) + need - t.size
      other == t.held \ SlicesOf(p)
      todo  == t.dirty \ SlicesOf(p)
      flushed ==
        UNION {{Expired(u, X) : X \in OfSize(Lesser(short, Cardinality(other)),
                                             other \ u.dirty)} :
               u \in {Written(t, W) : W \in WholePieces(todo)}}
      refused ==
        UNION {UNION {{Expired(u, X) : X \in {Y \in SUBSET other : Cardinality(Y) <= short}} :
                      u \in WriteFail(Written(t, W))} :
               W \in (SUBSET todo) \ {todo}}
  IN  IF Fits(t, need) THEN {t}
      ELSE IF diskOk THEN flushed ELSE flushed \union refused

\* Prefetch of a piece whose last slice is outstanding.  When making room went
\* to the disk, reading the piece waits for a later call.
Prefetch(p) ==
  /\ Running /\ Prefetching /\ p \notin have /\ ~ failed
  /\ size > 0
  /\ \E last \in SlicesOf(p) \ got :
       /\ SlicesOf(p) \ got = {last}
       /\ ~ (SlicesOf(p) \subseteq held)
       /\ \E t \in CachePrep(Cur, p) :
            IF t.dirty = dirty /\ ~ t.tried
            THEN \E u \in FillGap(t, (SlicesOf(p) \ t.held) \ {last}, SlicesOf(p)) : Put(u)
            ELSE Put(t)
  /\ UNCHANGED <<have, got, flushq, diskOk, crashed>>

NeedFlush ==
  IF failed THEN due
  ELSE flushq # << >> \/ (dirty # {} /\ Cardinality(held) >= cfg)

\* The queue after FlushQueue left cache state t: its head goes unless a write
\* was refused.
PoppedAnyhow(t) == IF flushq # << >> THEN Tail(flushq) ELSE flushq   \* mutant
Popped(t)       == IF flushq # << >> /\ ~ t.failed THEN Tail(flushq) ELSE flushq

\* FlushQueue, called by Downloader while NeedFlush() and idle.
FlushQueue ==
  /\ Running /\ NeedFlush
  /\ \/ flushq # << >> \/ held # {}
  /\ \E P \in IF flushq # << >> THEN {{Head(flushq)}}
                 ELSE {{s[1]} : s \in IF failed THEN held ELSE dirty} :
       \E t \in FlushPieces(Cur, P) :
         /\ flushq' = Popped(t)
         /\ IF Popped(t) = << >> /\ (have = Pieces \/ t.failed)
            THEN \E u \in CacheEval(t) : \E w \in CleanPasses(u, 0, {}) : Put(w)
            ELSE Put(t)
  /\ UNCHANGED <<have, got, diskOk, crashed>>

\* FlushQueue with nothing queued and nothing cached follows m_cache_oldest.
FlushQueueNull ==
  /\ Running /\ NeedFlush /\ flushq = << >> /\ held = {}
  /\ crashed' = TRUE
  /\ UNCHANGED <<cfg, size, held, dirty, buf, disk, have, got, flushq, failed, due, diskOk>>

\* The user sets cfg_cache_size; CacheConfigure follows.
SetCacheSize(n) ==
  /\ Running
  /\ n # cfg
  /\ \E t \in CacheConfigure([Cur EXCEPT !.cfg = n]) : Put(t)
  /\ UNCHANGED <<have, got, flushq, diskOk, crashed>>

\* SeedTimeout, called every turn of the loop, re-evaluates the size.
SeedTimeout ==
  /\ Running
  /\ \E t \in CacheEval(Cur) : t.size # size /\ Put(t)
  /\ UNCHANGED <<have, got, flushq, diskOk, crashed>>

\* The clock passes m_flush_tried + FLUSH_RETRY_INTERVAL.
RetryTimer ==
  /\ Running
  /\ failed /\ ~ due
  /\ due' = TRUE
  /\ UNCHANGED <<cfg, size, held, dirty, buf, disk, have, got, flushq, failed, diskOk, crashed>>

\* The file system fills up, or is freed again.
DiskTurns(b) ==
  /\ Running
  /\ DiskFails /\ diskOk' = b /\ diskOk # b
  /\ UNCHANGED <<cfg, size, held, dirty, buf, disk, have, got, flushq, failed, due, crashed>>

Next ==
  \/ \E s \in Slice, v \in {"bad", "good"} : Deliver(s, v)
  \/ \E s \in Slice : Upload(s)
  \/ \E p \in Pieces : Prefetch(p)
  \/ FlushQueue
  \/ FlushQueueNull
  \/ \E n \in CacheSizes : SetCacheSize(n)
  \/ SeedTimeout
  \/ RetryTimer
  \/ \E b \in BOOLEAN : DiskTurns(b)

Spec == Init /\ [][Next]_vars

\* Downloader's loop keeps calling FlushQueue while there is need, and the
\* clock runs.  Nothing makes peers send, or the disk recover.
FairSpec == Spec /\ WF_vars(FlushQueue) /\ WF_vars(RetryTimer)

-----------------------------------------------------------------------------
(* Properties.                                                             *)

\* Types, and a dirty entry is an entry.
TypeOK ==
  /\ cfg \in CacheSizes /\ size \in Nat
  /\ held \subseteq Slice /\ dirty \subseteq held
  /\ buf \in [Slice -> Data] /\ disk \in [Slice -> Data]
  /\ have \subseteq Pieces /\ got \subseteq Slice
  /\ flushq \in Seq(Pieces)
  /\ {failed, due, diskOk, crashed} \subseteq BOOLEAN

\* A clean entry equals the files, whatever mixture of direct writes, cached
\* writes, refused flushes, retries and evictions went before: CacheClean may
\* expire it and ReadSlice may answer from it.
Coherent == \A s \in held \ dirty : buf[s] = disk[s]

\* No completed data is lost: every slice of a piece in pBF is in the files,
\* or in an entry that has still to be written (WriteFail promises a retry).
NoLoss == \A s \in Slice : s[1] \in have => Through(Cur, s) = "good"

\* What ReadSlice returns of an announced piece, hence what RespondSlice
\* uploads, is the torrent's data; unless caching was turned off while a write
\* was refused: ReadSlice then goes past entries that are newer than the files.
ServesGood ==
  cfg > 0 \/ ~ failed => \A s \in Slice : s[1] \in have => Read(Cur, s) = "good"

\* A completed piece with unwritten data is in the flush queue: FlushQueue
\* never drops a piece because another one's flush did or did not succeed.
QueuedUntilWritten ==
  cfg > 0 => \A s \in dirty : s[1] \in have => \E i \in DOMAIN flushq : flushq[i] = s[1]

\* Unless a flush failed, the cache holds at most cfg_cache_size ("The program
\* may use less than this"), although CacheIO allocates whatever CacheClean did.
WithinLimit == ~ failed => Cardinality(held) <= cfg

\* A completed piece is eventually written, however many others complete.
WrittenEventually ==
  \A p \in Pieces : p \in have ~> \A s \in SlicesOf(p) : s \notin dirty

\* "will retry in %d seconds": once the disk accepts writes again for good, a
\* failed flush is eventually made good and the download resumes.
Resumes == <>[]diskOk => (failed ~> ~ failed)

=============================================================================
