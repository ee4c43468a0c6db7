------------------------- MODULE StagingInvariant --------------------------
(***************************************************************************)
(* What is true of btFiles between any two of its steps: IInv, of the list *)
(* of files, what is counted of it, and the operation that runs; and FInv, *)
(* which with it makes every step one of Store. The rest says what a list  *)
(* or a file is, or becomes by a step, and is used in the proofs.          *)
(***************************************************************************)
EXTENDS Staging

\* f gives the ends of the first n files.
Ends(f, n) == f[0] = 0 /\ \A i \in 1 .. n : f[i] = f[i - 1] + FileLengths[i]

-----------------------------------------------------------------------------
(* Lists of files, and how they change.                                    *)

Recs == [offset : Cells, length : Nat, size : Nat, disk : Int, data : [Cells -> Versions \cup {Unknown}],
         staging : BOOLEAN, dir : Cells \cup {NoDir}, opened : BOOLEAN, readonly : BOOLEAN]
\* Nothing reaches over the end of the torrent.
Files == {f \in Recs : End(f) <= Total /\ -1 <= f.disk /\ f.offset + f.disk <= Total}
Extent(f) == <<f.offset, f.length>>
RealSet   == {<<FileEnd[n - 1], FileLengths[n]>> : n \in DOMAIN FileLengths}
\* Behind a real file are files with larger offsets, or staging files with the same.
Ordered(fs) ==
  \A i \in Reals(fs), j \in DOMAIN fs :
    i < j => fs[i].offset <= fs[j].offset /\ (~fs[j].staging => fs[i].offset < fs[j].offset)
Shaped(fs) ==
  /\ fs \in Seq(Files) /\ Len(fs) >= 1
  /\ {Extent(fs[i]) : i \in Reals(fs)} = RealSet
  /\ Ordered(fs)
  /\ ~fs[1].staging
Alike(f, g) == g.offset = f.offset /\ g.length = f.length /\ g.staging = f.staging /\ g.dir = f.dir
Rewritten(fs, gs) == gs \in Seq(Files) /\ Len(gs) = Len(fs) /\ \A i \in 1 .. Len(fs) : Alike(fs[i], gs[i])
DirsLess(fs, m, gs) ==
  \A d : Cardinality(InDir(fs, d)) = Cardinality(InDir(gs, d)) + (IF fs[m].dir = d THEN 1 ELSE 0)

-----------------------------------------------------------------------------
(* Opening and closing.                                                    *)

Opened(fs) == {i \in DOMAIN fs : fs[i].opened}
States == [f : Seq(Files), n : Int, r : Nat]
Good(s) == s \in States /\ Shaped(s.f) /\ s.n = Cardinality(Opened(s.f)) /\ s.n <= MaxOpen + 1
\* What a file holds does not change, unless it is empty.
Same(f, g) ==
  /\ Alike(f, g) /\ g.size = f.size
  /\ \/ g.data = f.data /\ g.disk = f.disk
     \/ f.size = 0 /\ g.disk = 0 /\ \A c \in Cells : g.data[c] = Unknown
Opens(s, t) ==
  /\ Good(t) /\ Rewritten(s.f, t.f)
  /\ \A i \in 1 .. Len(s.f) : Same(s.f[i], t.f[i])
Bytes == [Cells -> Versions \cup {Unknown}]
\* How a file changes.
OpenedAs(f, o, r) == [f EXCEPT !.opened = o, !.readonly = r]
StoredAs(f, d, b) == [f EXCEPT !.disk = d, !.data = b]
GrownTo(f, n, d, b) == [f EXCEPT !.size = n, !.disk = d, !.data = b]
FoundAs(f, n, o, r) == [f EXCEPT !.size = n, !.opened = o, !.readonly = r]
\* The state when _btf_open calls fopen: the file is closed, and there is room for one more.
Room(s, i, keep, t) ==
  /\ Opens(s, t) /\ ~t.f[i].opened /\ t.n <= MaxOpen /\ t.r <= s.r
  /\ keep \in 1 .. Len(s.f) /\ keep # i => t.f[keep] = s.f[keep]

-----------------------------------------------------------------------------
(* The search for the file of a byte.                                      *)

\* The search for a byte to read is over: file stop begins beyond it, and none before has anything from there on.
Stops(fs, off, stop) ==
  /\ stop <= Len(fs) => off < fs[stop].offset
  /\ \A i \in 1 .. Len(fs), c \in Cells : off <= c /\ i < stop => ~Holds(fs, i, c)

-----------------------------------------------------------------------------
(* The invariant: what is known of the list, of the operation that runs, and of the current directory. *)

IOs == [kind : {"read", "write"}, off : Cells, len : Nat \ {0}, v : Versions \cup {Unknown},
        at : Nat, null : BOOLEAN, merged : BOOLEAN]
\* The file before staging file a cannot be merged with it.
Apart(fs, a) == a > 1 /\ ~Mergeable(fs, a - 1)
\* A real file that may grow ends before off.
Short(fs, a, off) == ~fs[a].staging /\ fs[a].size < fs[a].length => End(fs[a]) < off
\* What is read from here on is in none of the files before.
Passed(o, fs) ==
  \A i \in 1 .. Len(fs), c \in Cells : o.off <= c /\ (i < o.at \/ (o.null /\ i = o.at)) => ~Holds(fs, i, c)
IOFits(o, fs) ==
  /\ o \in IOs /\ o.at \in 1 .. Len(fs) /\ o.off + o.len <= Total
  /\ \A i \in Reals(fs) : i <= o.at => fs[i].offset <= o.off
  /\ o.kind = "read" => Passed(o, fs)
  /\ o.kind = "write" /\ o.null => Short(fs, o.at, o.off)
  /\ o.kind = "write" /\ ~o.null /\ ~o.merged /\ fs[o.at].staging /\ fs[o.at].size = 0 => Apart(fs, o.at)
\* The write that a merge interrupted is at a file that the merge leaves in the list.
HeldFits(o, fs) == o.kind = "write" /\ IOFits(o, fs) /\ ~o.null /\ o.merged /\ (fs[o.at].staging => Apart(fs, o.at))
BackFits(o, fs) == o = Idle \/ (o.kind = "extend" /\ o = Extending(o.wanted)) \/ HeldFits(o, fs)
MergeFits(o, fs) ==
  /\ o.kind = "merge"
  /\ o = [kind |-> "merge", all |-> o.all, merged |-> o.merged, tries |-> o.tries, back |-> o.back]
  /\ o.all \in BOOLEAN /\ o.merged \in BOOLEAN /\ o.tries \in Nat /\ BackFits(o.back, fs)
  /\ o.back.kind = "write" => ~o.all
CopyFits(o, fs) ==
  /\ o.kind = "copy"
  /\ o = [kind |-> "copy", all |-> o.all, merged |-> o.merged, tries |-> o.tries, back |-> o.back,
          dst |-> o.dst, pos |-> o.pos]
  /\ o.all \in BOOLEAN /\ o.merged \in BOOLEAN /\ o.tries \in Nat /\ BackFits(o.back, fs)
  /\ o.back.kind = "write" => ~o.all
  /\ o.dst \in 1 .. Len(fs) - 1 /\ ~fs[o.dst].staging /\ fs[o.dst + 1].staging
  /\ Usable(fs[o.dst], TRUE) /\ Usable(fs[o.dst + 1], FALSE)
  /\ o.pos = End(fs[o.dst]) /\ o.pos <= End(fs[o.dst + 1])
  /\ o.back.kind = "write" => o.back.at # o.dst + 1
ExtendFits(o, fs) ==
  /\ o.kind = "extend" /\ o = [kind |-> "extend", at |-> o.at, wanted |-> o.wanted]
  /\ o.at \in 1 .. Len(fs) + 1
OpFits(o, fs) ==
  \/ o \in {Idle, Starting, Ended, Created} \/ o = [kind |-> "crash", reading |-> TRUE]
  \/ o.kind \in {"read", "write"} /\ IOFits(o, fs)
  \/ MergeFits(o, fs) \/ CopyFits(o, fs) \/ ExtendFits(o, fs)
Sound(fs, n, r) == Shaped(fs) /\ n = Cardinality(Opened(fs)) /\ n <= MaxOpen + 1 /\ r \in Nat
Counts(fs, d, n) == d \in Cells \cup {NoDir} /\ n \in Nat /\ (d # NoDir => n = Cardinality(InDir(fs, d)))
IInv ==
  /\ Sound(files, nopened, refusals)
  /\ Counts(files, stagedir, stagecount)
  /\ need \in BOOLEAN /\ failed \in BOOLEAN /\ unmerged \in BOOLEAN
  /\ OpFits(op, files)

-----------------------------------------------------------------------------
(* Entries that are put in and taken out.                                  *)

EmptyStaging(off, d) == File(off, 0, TRUE, d)
Replaced(fs, i, g) == [fs EXCEPT ![i] = g]
\* The list without its m-th entry.
Without(fs, m, gs) ==
  /\ Shaped(gs) /\ Len(gs) = Len(fs) - 1
  /\ \A j \in 1 .. m - 1 : gs[j] = fs[j]
  /\ \A j \in m .. Len(fs) - 1 : gs[j] = fs[j + 1]
  /\ \A j \in Reals(gs) : (j < m /\ j \in Reals(fs)) \/ (j >= m /\ j + 1 \in Reals(fs))
  /\ ~fs[m].opened => Cardinality(Opened(gs)) = Cardinality(Opened(fs))
  /\ DirsLess(fs, m, gs)
\* The interrupted write is found again where its file is now.
Moved(o, m) == IF o.kind = "write" /\ o.at >= m THEN [o EXCEPT !.at = @ - 1] ELSE o

-----------------------------------------------------------------------------
(* Starting.                                                               *)

\* A list of the torrent's files alone.
Fresh(fs) ==
  /\ fs \in Seq(Files) /\ Len(fs) = Len(FileLengths)
  /\ \A k \in 1 .. Len(FileLengths) :
       fs[k].offset = FileEnd[k - 1] /\ fs[k].length = FileLengths[k] /\ ~fs[k].staging
SetupBase == [k \in DOMAIN FileLengths |-> Again(RealFile(k))]
SetupStep(n, fs) ==
  IF Found(files[n]) THEN InsertAt(fs, Place(fs, files[n].offset) + 1, Again(files[n])) ELSE fs
\* f gives the lists with those of the first n files that are found.
Setups(f, n) ==
  /\ f = [i \in 0 .. n |-> f[i]]
  /\ f[0] = SetupBase /\ \A i \in 1 .. n : f[i] = SetupStep(i, f[i - 1])

-----------------------------------------------------------------------------
(* Lists whose staging files are in their place; what can be merged; reads. *)

\* Not Tangled: no real file is too long, no staging file ends before the end of a real file before it or
\* after the beginning of the next file.
Neat(fs) ==
  /\ \A i \in Reals(fs) : fs[i].size <= fs[i].length
  /\ \A i \in Reals(fs), j \in 1 .. Len(fs) : fs[j].staging /\ i < j => End(fs[i]) <= End(fs[j])
  /\ \A j \in 1 .. Len(fs) - 1 : fs[j].staging => End(fs[j]) <= fs[j + 1].offset
CanMerge(fs) == \E i \in DOMAIN fs : Mergeable(fs, i)
\* The merge at the start of a session is to come, or runs.
Begins(o) == o.kind \in {"start", "ended", "extend"} \/ (o.kind \in {"merge", "copy"} /\ o.back.kind = "extend")
Aware == Begins(op) \/ unmerged \/ need \/ (op.kind # "copy" /\ ~CanMerge(files))
\* A read is in its file, or at its end; or nothing has its next byte.
ReadAt(o, fs) ==
  o.kind = "read" /\ Neat(fs) =>
    IF o.null THEN \A i \in 1 .. Len(fs) : ~Holds(fs, i, o.off)
    ELSE fs[o.at].offset <= o.off /\ o.off <= End(fs[o.at])

-----------------------------------------------------------------------------
(* Pieces in files.                                                        *)

\* The file after the j-th follows on it, and c is beyond it.
Joined(fs, c, j) == c > LastByte(fs[j]) /\ j < Len(fs) /\ fs[j + 1].offset <= LastByte(fs[j]) + 1
Runs(fs, c, to) == to = [j \in DOMAIN fs |-> IF Joined(fs, c, j) THEN to[j + 1] ELSE j]
\* m is the last of the files from the i-th on that follow on each other, up to one with c.
Far(fs, c, i, m) == m \in i .. Len(fs) /\ ~Joined(fs, c, m) /\ \A k \in i .. m - 1 : Joined(fs, c, k)
OffsetOf(p) == p * PieceLength
LastOf(p) == Least(OffsetOf(p) + PieceLength, Total) - 1
\* Where piece p may begin, from the i-th file on.
Starts(fs, p, i) == {k \in i .. Len(fs) : fs[k].size > 0 /\ (OffsetOf(p) <= LastByte(fs[k]) \/ k = Len(fs))}
\* What pBFPieces finds of the pieces from p on, by the file it is at; next is what it finds of those after p.
FromRow(fs, p, next) ==
  [i \in DOMAIN fs |->
     LET k == Min(Starts(fs, p, i))
         m == Reach(fs, LastOf(p), k)
     IN  IF p = NPieces THEN {}
         ELSE IF OffsetOf(p) < fs[i].offset THEN next[i]
         ELSE IF Starts(fs, p, i) = {} \/ OffsetOf(p) > LastByte(fs[k]) THEN {}
         ELSE IF OffsetOf(p) < fs[k].offset THEN next[k]
         ELSE next[m] \cup (IF LastOf(p) <= LastByte(fs[m]) THEN {p} ELSE {})]
Rows(fs, f) == f = [p \in 0 .. NPieces |-> FromRow(fs, p, f[p + 1])]
\* Every byte of piece q is in a file, but for one that is the first of an empty file.
Filled(fs, q) ==
  \A c \in Cells : c \div PieceLength = q =>
    \/ \E j \in DOMAIN fs : Covers(fs[j], c)
    \/ \E j \in DOMAIN fs : fs[j].offset = c /\ fs[j].size = 0

-----------------------------------------------------------------------------
(* What is known besides, for the refinement of Store.                     *)

\* The k-th file is the first that holds the byte c.
FirstHas(fs, k, c) == Holds(fs, k, c) /\ \A j \in 1 .. k - 1 : ~Holds(fs, j, c)
\* A file that is not empty is as long on the disk, and what is beyond its end there is unknown.
OnDisk(f) == (f.size > 0 => f.disk >= f.size) /\ \A c \in Cells : c >= f.offset + f.disk => f.data[c] = Unknown
AllOnDisk(fs) == \A i \in 1 .. Len(fs) : OnDisk(fs[i])
\* SetupFiles leaves the files in the order of their offsets.
Sorted(fs) == \A i, j \in 1 .. Len(fs) : i < j => fs[i].offset <= fs[j].offset
\* The read or the write that runs, or that a merge interrupts.
Current(o) == IF o.kind \in {"merge", "copy"} THEN o.back ELSE o
\* A write is within its file or at its end; or, in a staging file, beyond it but not beyond the end of a real file
\* before it; and not before the end of one, in a neat list.
WriteAt(o, fs) ==
  o.kind = "write" /\ ~o.null =>
    /\ fs[o.at].offset <= o.off
    /\ ~fs[o.at].staging => o.off <= End(fs[o.at])
    /\ fs[o.at].staging =>
         /\ Neat(fs) => \A i \in Reals(fs) : i < o.at => End(fs[i]) <= o.off
         /\ o.off > End(fs[o.at]) => \E i \in Reals(fs) : i < o.at /\ o.off <= End(fs[i])
\* The staging file of a write that is interrupted is new.
EmptyBack(o, fs) ==
  o.kind \in {"merge", "copy"} /\ o.back.kind = "write" /\ fs[o.back.at].staging => fs[o.back.at].size = 0
\* A merge copies bytes of the staging file.
CopyAt(o, fs) == o.kind = "copy" => fs[o.dst + 1].offset <= o.pos
Placing(o, fs) ==
  /\ AllOnDisk(fs)
  /\ Begins(o) => Sorted(fs)
  /\ WriteAt(Current(o), fs)
  /\ EmptyBack(o, fs)
  /\ CopyAt(o, fs)
\* With IInv, what every step needs to be a step of Store, or to stutter.
FInv == Placing(op, files)
\* CurrentWrite, of any operation.
WritePart(o) == IF o.kind = "write" THEN [off |-> o.off, len |-> o.len, v |-> o.v] ELSE [off |-> 0, len |-> 0, v |-> Unknown]
FlatStep == [Flat!Next]_<<Stored, CurrentWrite, InStart>>
\* The files that the operation is at are in the list.
InList(o, fs) ==
  /\ Current(o).kind = "write" => Current(o).at \in 1 .. Len(fs)
  /\ o.kind = "copy" => o.dst \in 1 .. Len(fs) - 1

-----------------------------------------------------------------------------
(* What a step makes of a list.                                            *)

\* g is f with the bytes from c to d - 1 of val.
PutIn(f, c, d, val, g) ==
  /\ g.size = Most(f.size, d - f.offset) /\ g.disk = Most(f.disk, g.size)
  /\ g.data = [b \in Cells |-> IF b \in c .. d - 1 THEN val[b] ELSE f.data[b]]
\* gs is fs without the file behind the k-th.
Removed(fs, k, gs) ==
  /\ Shaped(gs) /\ Len(gs) = Len(fs) - 1
  /\ \A j \in 1 .. k : gs[j] = fs[j]
  /\ \A j \in k + 1 .. Len(fs) - 1 : gs[j] = fs[j + 1]
  /\ \A i \in Reals(fs) : (i <= k /\ i \in Reals(gs)) \/ (i > k + 1 /\ i - 1 \in Reals(gs))
\* What the staging file behind dst holds dst holds as well, when it goes.
Spare(fs, dst) == End(fs[dst + 1]) <= End(fs[dst]) \/ fs[dst].size = fs[dst].length
\* fs is the list after n bytes are written; a file that is closed then is left to be closed.
Wrote(n, fs) ==
  /\ n \in 0 .. op.len /\ n \in Nat
  /\ Rewritten(files, fs) /\ Shaped(fs) /\ Len(fs) = Len(files)
  /\ \A j \in 1 .. Len(files) : j # op.at => fs[j] = files[j]
  /\ fs[op.at].size = Most(files[op.at].size, (op.off + n) - files[op.at].offset)
  /\ fs[op.at].data = [b \in Cells |-> IF b \in op.off .. op.off + n - 1 THEN op.v ELSE files[op.at].data[b]]
  /\ AllOnDisk(fs)
  /\ op' = Advance(fs, n)
  /\ StoredIn(files') = StoredIn(fs)
  /\ \A o : InList(o, fs) /\ Placing(o, fs) => Placing(o, files')
\* gs is hs after its i-th file is cut, or extended, to new bytes.
Cut(i, new, hs, gs) ==
  /\ Rewritten(hs, gs) /\ Shaped(gs)
  /\ \A j \in 1 .. Len(hs) : j # i => gs[j] = hs[j]
  /\ gs[i].size = new /\ gs[i].disk = new
  /\ \A c \in Cells : gs[i].data[c] = IF c < hs[i].offset + new THEN hs[i].data[c] ELSE Unknown
\* The files are in the order of their offsets, a real file before the staging files that begin with it.
Strict(fs) ==
  \A i, j \in 1 .. Len(fs) :
    i < j => fs[i].offset <= fs[j].offset /\ (~fs[j].staging => fs[i].offset < fs[j].offset)
\* gs is fs with g put in behind its k-th file.
Grown(fs, k, g, gs) ==
  /\ Shaped(gs) /\ Len(gs) = Len(fs) + 1
  /\ \A j \in 1 .. k : gs[j] = fs[j]
  /\ gs[k + 1] = g
  /\ \A j \in k + 1 .. Len(fs) : gs[j + 1] = fs[j]
\* fs has the real files, and those found among the first n of the list, as a new session finds them, and no others.
Kept(n, fs) ==
  /\ Shaped(fs) /\ Strict(fs)
  /\ \A k \in 1 .. Len(fs) : \E j \in 1 .. Len(files) : fs[k] = Again(files[j])
  /\ \A j \in 1 .. Len(files) :
       ~files[j].staging \/ (j <= n /\ Found(files[j])) => \E k \in 1 .. Len(fs) : fs[k] = Again(files[j])
=============================================================================
