------------------------------ MODULE Staging ------------------------------
(***************************************************************************)
(* btFiles: the torrent's bytes in its files, and, where a file is not yet *)
(* that long, in staging files, which are merged into it when the gap      *)
(* before them is filled. One list holds both, in the order of their       *)
(* offsets. The program may be killed between any two of its system calls  *)
(* and started again, with or without allocating the files.                *)
(*                                                                         *)
(* An operation runs to its end: op says how far the current one is. Every *)
(* action below it is one round of a loop of the code, or one open.        *)
(***************************************************************************)
EXTENDS Integers, Sequences, FiniteSets, FiniteSetsExt, SequencesExt

CONSTANTS
  FileLengths,   \* the lengths of the torrent's files, in order
  PieceLength,   \* the length of its pieces
  CopySize,      \* OPT_IO_SIZE
  MaxOpen,       \* MAX_OPEN_FILES
  MaxStageFile,  \* MAX_STAGEFILE_SIZE
  MaxStageDir,   \* MAX_STAGEDIR_FILES
  Versions,      \* what may be written in a byte
  Unknown,       \* what is in a byte that was not, or not successfully, written
  MaxFiles,      \* bound: no write is begun with more files in the list
  Refusals       \* bound: how often the file system refuses to open, write or create

VARIABLES
  files,         \* the list at m_btfhead
  nopened,       \* m_total_opened
  need,          \* m_need_merge
  failed,        \* m_write_failed, and its WRITE_RETRY_INTERVAL is not over
  stagedir,      \* m_stagedir: the offset it is named for, or NoDir
  stagecount,    \* m_stagecount
  op,            \* the operation that runs
  unmerged,      \* merging or allocating failed at the start of this session
  refusals       \* refusals to come

disk  == <<files, nopened, refusals>>
stage == <<stagedir, stagecount>>
vars  == <<disk, need, failed, stage, op, unmerged>>

FileEnd[n \in 0 .. Len(FileLengths)] == IF n = 0 THEN 0 ELSE FileEnd[n - 1] + FileLengths[n]
Total == FileEnd[Len(FileLengths)]
Cells == 0 .. Total - 1
NPieces == (Total + PieceLength - 1) \div PieceLength
NoDir == -1

ASSUME StagingAssumption ==
  /\ FileLengths \in Seq(Nat \ {0}) /\ FileLengths # << >>
  /\ PieceLength \in Nat \ {0}
  /\ CopySize \in Nat \ {0} /\ MaxStageFile \in Nat \ {0}
  /\ MaxOpen \in Nat \ {0, 1} /\ MaxStageDir \in Nat \ {0} /\ MaxFiles \in Nat
  /\ Unknown \notin Versions /\ Refusals \in Nat

\* BTFILE. bf_last_timestamp is left out: any open file may be the one used longest ago,
\* but for one that is kept.
\* disk is the length on disk, longer than bf_size after a write that was refused half way,
\* and -1 if the file is not there.
File(offset, length, staging, dir) ==
  [offset |-> offset, length |-> length, size |-> 0, disk |-> -1, data |-> [c \in Cells |-> Unknown],
   staging |-> staging, dir |-> dir, opened |-> FALSE, readonly |-> FALSE]

Least(a, b) == IF a < b THEN a ELSE b
Most(a, b)  == IF a < b THEN b ELSE a

End(f) == f.offset + f.size
Covers(f, c) == f.offset <= c /\ c < End(f)
Reals(fs) == {i \in DOMAIN fs : ~fs[i].staging}

Idle     == [kind |-> "idle"]
Starting == [kind |-> "start"]
Ended    == [kind |-> "ended"]      \* a file is too big
Crashed  == [kind |-> "crash", reading |-> FALSE]
Created  == [kind |-> "created"]    \* CreateFiles makes pBFPieces

\* FindAndMerge (MergeNext, MergeAll), for the caller that goes on with back; with tries 2,
\* MergeNext and then MergeAny, if the first fails.
MergeOp(all, back) == [kind |-> "merge", all |-> all, merged |-> FALSE, tries |-> 1, back |-> back]
\* ExtendAll, at the file it has come to.
Extending(wanted)  == [kind |-> "extend", at |-> 1, wanted |-> wanted]

-----------------------------------------------------------------------------
(* Open files. s is [f, n, r]: the list, how many of its files are open, and the refusals    *)
(* to come.                                                                                 *)

Here    == [f |-> files, n |-> nopened, r |-> refusals]
SetTo(s) == files' = s.f /\ nopened' = s.n /\ refusals' = s.r
Refused(s) == [s EXCEPT !.r = @ - 1]

\* _btf_close
Close(s, i) ==
  IF s.f[i].opened
  THEN [s EXCEPT !.f[i] = [@ EXCEPT !.opened = FALSE, !.readonly = FALSE], !.n = @ - 1]
  ELSE s

\* _btf_close_oldest, which finds a file older than the one to keep.
CloseOldest(s, keep) == {Close(s, i) : i \in {j \in DOMAIN s.f \ {keep} : s.f[j].opened}}

\* Usable as it is, for reading or for writing.
Usable(f, write) == f.opened /\ ~(f.readonly /\ write)

\* Variant for the mutants: every file is opened with "w+b".
FopenEmpties(s, i, write) ==
  [s EXCEPT !.f[i] = IF write THEN [@ EXCEPT !.opened = TRUE, !.readonly = FALSE, !.disk = 0,
                                             !.data = [c \in Cells |-> Unknown]]
                     ELSE [@ EXCEPT !.opened = TRUE, !.readonly = TRUE],
            !.n = @ + 1]
\* fopen succeeds; mode "w+b" empties the file.
Fopen(s, i, write) ==
  LET f == s.f[i]
      g == [f EXCEPT !.opened = TRUE, !.readonly = ~write]
  IN  [s EXCEPT !.f[i] = IF write /\ f.size = 0 THEN [g EXCEPT !.disk = 0, !.data = [c \in Cells |-> Unknown]]
                         ELSE g,
                !.n = @ + 1]

\* _btf_open but for ENOSPC: the outcomes, each with whether the file is open now.
Open(s, i, write, keep) ==
  LET shut  == Close(s, i)
      room  == IF shut.n >= MaxOpen THEN CloseOldest(shut, keep) ELSE {shut}
      done  == {[s |-> Fopen(t, i, write), ok |-> TRUE] : t \in room}
      emf   == UNION {CloseOldest(Refused(t), keep) : t \in room}       \* EMFILE, ENFILE
  IN  IF Usable(s.f[i], write) THEN {[s |-> s, ok |-> TRUE]}
      ELSE IF ~write /\ s.f[i].disk < 0 THEN {[s |-> t, ok |-> FALSE] : t \in room}
      ELSE IF s.r = 0 THEN done
      ELSE done \cup {[s |-> Refused(t), ok |-> FALSE] : t \in room}
                \cup {[s |-> t, ok |-> FALSE] : t \in emf}
                \cup {[s |-> Fopen(t, i, write), ok |-> TRUE] : t \in emf}

-----------------------------------------------------------------------------
(* IO *)

\* The search stops at a file that has the byte or, for a write, may grow by it.
Takes(f, off, write) ==
  \/ Covers(f, off)
  \/ write /\ off = End(f) /\ (f.staging => f.size < MaxStageFile)

\* The staging files right behind a real file that ends before off are passed over.
PassedOver(fs, i, off) ==
  fs[i].staging /\ \E j \in 1 .. i - 1 :
    /\ ~fs[j].staging /\ off >= fs[j].offset + fs[j].length
    /\ \A k \in j + 1 .. i : fs[k].staging

\* The search stops at the first of the others that has the byte, or begins beyond it.
FindFirst(fs, off, write) ==
  LET seen  == {i \in DOMAIN fs : ~PassedOver(fs, i, off)}
      stops == {i \in seen : Takes(fs[i], off, write) \/ off < fs[i].offset} \cup {Len(fs) + 1}
      stop  == Min(stops)
  IN  IF stop <= Len(fs) /\ Takes(fs[stop], off, write) THEN [at |-> stop, null |-> FALSE]
      ELSE [at |-> Max({i \in seen : i < stop} \cup {0}), null |-> TRUE]

\* The staging files behind a real file hold none of the bytes beyond its end.
Holds(fs, i, c) ==
  /\ Covers(fs[i], c)
  /\ fs[i].staging => \E j \in 1 .. i - 1 : ~fs[j].staging /\ c < fs[j].offset + fs[j].length
\* The value of each byte: in the first file that holds it.
StoredIn(fs) ==
  [c \in Cells |->
     IF \E i \in DOMAIN fs : Holds(fs, i, c)
     THEN fs[CHOOSE i \in DOMAIN fs : Holds(fs, i, c) /\ \A j \in 1 .. i - 1 : ~Holds(fs, j, c)].data[c]
     ELSE Unknown]
Stored == StoredIn(files)

StartIO(kind, off, len, v) ==
  LET p == FindFirst(files, off, kind = "write")
  IN  [kind |-> kind, off |-> off, len |-> len, v |-> v, at |-> p.at, null |-> p.null,
       merged |-> FALSE]

\* Nothing reaches over the end of a piece.
InPiece(off, len) == off + len <= Least((off \div PieceLength + 1) * PieceLength, Total)

Write(off, len, v) ==
  /\ op = Idle /\ InPiece(off, len) /\ Len(files) <= MaxFiles
  /\ op' = StartIO("write", off, len, v)
  /\ UNCHANGED <<disk, need, failed, stage, unmerged>>

\* What is read was written: it is of pieces the client has. But after a refused write a piece
\* may be taken for complete, and hashed, that is not.
Read(off, len) ==
  /\ op = Idle /\ InPiece(off, len)
  /\ failed \/ \A c \in off .. off + len - 1 : Stored[c] # Unknown
  /\ op' = StartIO("read", off, len, Unknown)
  /\ UNCHANGED <<disk, need, failed, stage, unmerged>>

\* A staging file has reached its size and the write goes on where it ends.
Full(f, off) == f.staging /\ f.size >= MaxStageFile /\ off = End(f)

NeedsStaging == op.kind = "write" /\ (op.null \/ Full(files[op.at], op.off))

\* A directory is due, and its name is free.
CanMake == (stagecount >= MaxStageDir \/ stagedir = NoDir) /\ \A i \in DOMAIN files : files[i].dir # op.off

Counted(made) == (IF made THEN 0 ELSE stagecount) + 1

\* A new staging file, in a new directory if the last is full.
NewStaging ==
  /\ NeedsStaging
  /\ \E made \in IF ~CanMake THEN {FALSE} ELSE IF refusals > 0 THEN BOOLEAN ELSE {TRUE} :
       /\ stagedir' = IF made THEN op.off ELSE stagedir
       /\ stagecount' = Counted(made)
       /\ refusals' = IF CanMake /\ ~made THEN refusals - 1 ELSE refusals
  /\ files' = InsertAt(files, op.at + 1, File(op.off, 0, TRUE, stagedir'))
  /\ op' = [op EXCEPT !.at = @ + 1, !.null = FALSE]
  /\ UNCHANGED <<nopened, need, failed, unmerged>>

Fails == op' = Idle /\ UNCHANGED <<need, stage, unmerged>>

NotFound ==
  /\ op.kind = "read" /\ op.null
  /\ Fails /\ UNCHANGED <<disk, failed>>

InFile == op.kind \in {"read", "write"} /\ ~op.null /\ ~NeedsStaging
Writing == op.kind = "write"

OpenFile ==
  /\ InFile /\ ~Usable(files[op.at], Writing)
  /\ \E r \in Open(Here, op.at, Writing, 0) :
       /\ SetTo(r.s)
       /\ op' = IF r.ok THEN op ELSE Idle
  /\ UNCHANGED <<need, failed, stage, unmerged>>

\* _btf_open cannot create the file for want of space, and merges before it tries again.
OpenNoSpace ==
  /\ InFile /\ Writing /\ ~files[op.at].opened /\ files[op.at].size = 0
  /\ refusals > 0 /\ ~op.merged
  /\ \E s \in IF nopened >= MaxOpen THEN CloseOldest(Here, 0) ELSE {Here} : SetTo(Refused(s))
  /\ op' = [MergeOp(FALSE, [op EXCEPT !.merged = TRUE]) EXCEPT !.tries = 2]
  /\ UNCHANGED <<need, failed, stage, unmerged>>

\* On to the next file, after n bytes. The next of the last file is null, and is used.
Advance(fs, n) ==
  LET off == op.off + n
  IN  IF n = op.len THEN Idle
      ELSE IF op.at = Len(fs) THEN [Crashed EXCEPT !.reading = op.kind = "read" /\ Stored[off] = Unknown]
      ELSE IF off < fs[op.at + 1].offset THEN [op EXCEPT !.off = off, !.len = @ - n, !.null = TRUE]
      ELSE [op EXCEPT !.off = off, !.len = @ - n, !.at = @ + 1]

\* Variant for the mutants: up to the final size of the file.
ReadLengthFinal(f) == IF f.staging THEN Least(op.len, End(f) - op.off)
                      ELSE Least(op.len, f.offset + f.length - op.off)
\* nio of a read; bf_size - pos is unsigned.
ReadLength(f) == IF op.off > End(f) THEN op.len ELSE Least(op.len, End(f) - op.off)

ReadFile ==
  /\ InFile /\ ~Writing /\ Usable(files[op.at], FALSE)
  /\ op' = Advance(files, ReadLength(files[op.at]))
  /\ UNCHANGED <<disk, need, failed, stage, unmerged>>

\* nio of a write: a staging file ends where the next file begins; the differences are unsigned.
WriteLength(fs, i) ==
  LET f == fs[i]
  IN  IF ~f.staging
      THEN IF op.off > f.offset + f.length THEN op.len ELSE Least(op.len, f.offset + f.length - op.off)
      ELSE IF i = Len(fs) \/ op.off > fs[i + 1].offset THEN op.len
      ELSE Least(op.len, fs[i + 1].offset - op.off)

\* f after the bytes from c to d - 1 are written in it, as val has them.
Put(f, c, d, val) ==
  LET past == Most(f.size, d - f.offset)
  IN  [f EXCEPT !.size = past, !.disk = Most(@, past),
                !.data = [b \in Cells |-> IF b \in c .. d - 1 THEN val[b] ELSE @[b]]]

\* Variant for the mutants: only when it has gone past its beginning.
ReachesPast(fs, i) ==
  /\ ~fs[i].staging /\ fs[i].size < fs[i].length
  /\ i < Len(fs) /\ fs[i + 1].staging
  /\ End(fs[i]) > fs[i + 1].offset
\* A write has brought a file to the staging file behind it.
Reaches(fs, i) ==
  /\ ~fs[i].staging /\ fs[i].size < fs[i].length
  /\ i < Len(fs) /\ fs[i + 1].staging
  /\ End(fs[i]) >= fs[i + 1].offset

WriteFile ==
  /\ InFile /\ Writing /\ Usable(files[op.at], TRUE)
  /\ LET n  == WriteLength(files, op.at)
         fs == [files EXCEPT ![op.at] = Put(@, op.off, op.off + n, [c \in Cells |-> op.v])]
         s  == [Here EXCEPT !.f = fs]
     IN  /\ SetTo(IF fs[op.at].size = 0 THEN Close(s, op.at) ELSE s)
         /\ need' = (need \/ Reaches(fs, op.at))
         /\ failed' = (failed /\ n = 0)
         /\ op' = Advance(fs, n)
  /\ UNCHANGED <<stage, unmerged>>

\* A write that is refused may have reached the disk in part: what it was to change is not
\* known any more, and the file may be longer than bf_size says.
WriteRefused ==
  /\ InFile /\ Writing /\ Usable(files[op.at], TRUE) /\ refusals > 0
  /\ LET f == files[op.at]
         n == WriteLength(files, op.at)
     IN  /\ n > 0
         /\ \E d \in f.disk .. Most(f.disk, op.off + n - f.offset) :
              SetTo(Refused([Here EXCEPT !.f[op.at] =
                [f EXCEPT !.disk = d,
                          !.data = [c \in Cells |-> IF c \in op.off .. op.off + n - 1 THEN Unknown ELSE @[c]]]]))
  /\ failed' = TRUE
  /\ Fails

-----------------------------------------------------------------------------
(* Merging *)

\* NeedMerge, when the loop is idle or the program ends: MergeNext, MergeAll.
StartMerge ==
  /\ op = Idle /\ need /\ ~failed
  /\ \E all \in BOOLEAN : op' = MergeOp(all, Idle)
  /\ UNCHANGED <<disk, need, failed, stage, unmerged>>

\* The caller goes on: IO, the loop of CreateFiles, or the main loop.
Return(o, merged) ==
  IF o.kind = "extend" /\ ~merged THEN Created ELSE o

\* f and what is right behind it can be merged.
Mergeable(fs, i) ==
  /\ ~fs[i].staging /\ fs[i].size < fs[i].length
  /\ i < Len(fs) /\ fs[i + 1].staging
  /\ End(fs[i]) >= fs[i + 1].offset

Merging == op.kind = "merge"
\* The merge has opened both files: dst is copied to from the end it had.
CopyOp(dst) == [kind |-> "copy", all |-> op.all, merged |-> op.merged, tries |-> op.tries, back |-> op.back,
                dst |-> dst, pos |-> End(files[dst])]
Candidates == {i \in DOMAIN files : Mergeable(files, i)}
\* There is none, or none any more.
MergeNone ==
  /\ Merging /\ Candidates = {}
  /\ need' = FALSE
  /\ op' = Return(op.back, op.merged)
  /\ UNCHANGED <<disk, failed, stage, unmerged>>

MergeFails(s) ==
  /\ SetTo(s)
  /\ op' = IF op.tries > 1 THEN [MergeOp(FALSE, op.back) EXCEPT !.tries = op.tries - 1]
           ELSE Return(op.back, op.merged)
  /\ unmerged' = (unmerged \/ op.back.kind = "extend")
  /\ UNCHANGED <<need, stage>>

\* MergeStaging: both files are opened, the staging file kept from being closed for the other.
MergeOpen ==
  /\ Merging /\ Candidates # {}
  /\ LET dst == Min(Candidates)
         src == dst + 1
     IN  /\ End(files[src]) > End(files[dst])
         /\ \E r \in Open(Here, src, FALSE, 0) :
              IF ~r.ok THEN MergeFails(r.s)
              ELSE \E q \in Open(r.s, dst, TRUE, src) :
                IF ~q.ok THEN MergeFails(q.s)
                ELSE /\ SetTo(q.s)
                     /\ op' = CopyOp(dst)
                     /\ UNCHANGED <<need, stage, unmerged>>
  /\ UNCHANGED failed

Copying == op.kind = "copy"
Copied  == op.pos = End(files[op.dst + 1]) \/ files[op.dst].size = files[op.dst].length
ChunkEnd == Least(op.pos + CopySize, End(files[op.dst + 1]))

MergeCopy ==
  /\ Copying /\ ~Copied
  /\ files' = [files EXCEPT ![op.dst] = Put(@, op.pos, ChunkEnd, files[op.dst + 1].data)]
  /\ op' = [op EXCEPT !.pos = ChunkEnd]
  /\ failed' = FALSE
  /\ UNCHANGED <<nopened, refusals, need, stage, unmerged>>

\* The chunk may be there in part, beyond bf_size.
MergeCopyRefused ==
  /\ Copying /\ ~Copied /\ refusals > 0
  /\ LET f == files[op.dst]
     IN  \E d \in f.disk .. Most(f.disk, ChunkEnd - f.offset) :
           MergeFails(Refused([Here EXCEPT !.f[op.dst] =
             [f EXCEPT !.disk = d,
                       !.data = [c \in Cells |-> IF c \in op.pos .. ChunkEnd - 1 /\ c < f.offset + d
                                                THEN files[op.dst + 1].data[c] ELSE @[c]]]]))
  /\ failed' = TRUE

\* Where the merge of staging file src goes on; a write it interrupted may have been at src.
Resume(src) ==
  LET back == IF op.back.kind = "write" /\ op.back.at >= src THEN [op.back EXCEPT !.at = @ - 1]
              ELSE op.back
  IN  IF op.back.kind = "write" /\ op.back.at = src THEN Crashed
      ELSE IF op.all THEN [MergeOp(TRUE, back) EXCEPT !.merged = TRUE]
      ELSE back
OfStageDir(f) == stagecount > 0 /\ stagedir \in {NoDir, f.dir}

\* Variant for the mutants: it is not closed.
DeleteOpen(dst, s) ==
  /\ SetTo([s EXCEPT !.f = RemoveAt(@, dst + 1)])
  /\ stagecount' = stagecount - (IF OfStageDir(files[dst + 1]) THEN 1 ELSE 0)
  /\ stagedir' = IF OfStageDir(files[dst + 1]) /\ stagecount = 1 THEN NoDir ELSE stagedir
  /\ op' = Resume(dst + 1)
  /\ UNCHANGED <<need, failed, unmerged>>
\* The staging file after dst goes, and with it, perhaps, the directory it was in.
Delete(dst, s) ==
  /\ SetTo([Close(s, dst + 1) EXCEPT !.f = RemoveAt(@, dst + 1)])
  /\ stagecount' = stagecount - (IF OfStageDir(files[dst + 1]) THEN 1 ELSE 0)
  /\ stagedir' = IF OfStageDir(files[dst + 1]) /\ stagecount = 1 THEN NoDir ELSE stagedir
  /\ op' = Resume(dst + 1)
  /\ UNCHANGED <<need, failed, unmerged>>

\* The range is already present.
MergePresent ==
  /\ Merging /\ Candidates # {}
  /\ LET dst == Min(Candidates)
     IN  End(files[dst + 1]) <= End(files[dst]) /\ Delete(dst, Here)

MergeDone ==
  /\ Copying /\ Copied
  /\ LET d == files[op.dst]
     IN  Delete(op.dst, IF d.size = d.length THEN Close(Here, op.dst) ELSE Here)

\* CloseAllFiles, when seeding and nothing is left to merge.
CloseAllFiles ==
  /\ op = Idle /\ ~(need /\ ~failed) /\ \A c \in Cells : Stored[c] # Unknown
  /\ LET shut == {i \in Reals(files) : files[i].opened}
     IN  /\ files' = [i \in DOMAIN files |-> IF i \in shut THEN [files[i] EXCEPT !.opened = FALSE, !.readonly = FALSE]
                                             ELSE files[i]]
         /\ nopened' = nopened - Cardinality(shut)
  /\ UNCHANGED <<refusals, need, failed, stage, op, unmerged>>

\* WRITE_RETRY_INTERVAL after a refused write is over.
Retry ==
  /\ op = Idle /\ failed
  /\ failed' = FALSE
  /\ UNCHANGED <<disk, need, stage, op, unmerged>>

-----------------------------------------------------------------------------
(* Starting *)

Dirs(fs) == {fs[i].dir : i \in DOMAIN fs} \ {NoDir}
InDir(fs, d) == {i \in DOMAIN fs : fs[i].dir = d}

\* A file, as a new session finds it.
Again(f) == [f EXCEPT !.size = IF f.disk > 0 THEN f.disk ELSE 0, !.opened = FALSE, !.readonly = FALSE]
\* Of the staging files, those in a directory of their own are found.
Found(f) == f.staging /\ f.dir # NoDir /\ f.disk >= 0
RealFile(n) == files[CHOOSE i \in Reals(files) : files[i].offset = FileEnd[n - 1]]
\* The last of the files before the first one with a larger offset.
Place(fs, off) == Min({k \in DOMAIN fs : k = Len(fs) \/ off < fs[k + 1].offset})
\* SetupFiles: the staging files among the first n of the list are found and put among the real ones.
Setup[n \in 0 .. Len(files)] ==
  IF n = 0 THEN [k \in DOMAIN FileLengths |-> Again(RealFile(k))]
  ELSE IF Found(files[n])
       THEN InsertAt(Setup[n - 1], Place(Setup[n - 1], files[n].offset) + 1, Again(files[n]))
       ELSE Setup[n - 1]

\* The program ends, or is killed, and starts again: it finds what is in the files, and in
\* staging files that are in a directory of their own.
Restart ==
  /\ files' = Setup[Len(files)]
  /\ nopened' = 0 /\ need' = FALSE /\ failed' = FALSE /\ unmerged' = FALSE
  /\ \/ /\ Dirs(files') = {}
        /\ stagedir' = NoDir /\ stagecount' = 0
     \/ \E d \in Dirs(files') : stagedir' = d /\ stagecount' = Cardinality(InDir(files', d))
  /\ op' = IF \E i \in Reals(files) : files[i].disk > files[i].length THEN Ended ELSE Starting
  /\ UNCHANGED refusals

\* CreateFiles, without allocation
CreateNone ==
  /\ op = Starting
  /\ need' = TRUE
  /\ op' = Created
  /\ UNCHANGED <<disk, failed, stage, unmerged>>

\* CreateFiles, sparse: MergeAll, and then, as long as something is merged, ExtendAll and MergeAll.
CreateSparse(wanted) ==
  /\ op = Starting
  /\ op' = [MergeOp(TRUE, Extending(wanted)) EXCEPT !.merged = TRUE]
  /\ UNCHANGED <<disk, need, failed, stage, unmerged>>

Extend == op.kind = "extend"
Skipped(f) == f.staging \/ (f.size > 0 /\ f.size >= f.length) \/ f.offset \notin op.wanted

ExtendSkip ==
  /\ Extend
  /\ op' = IF op.at > Len(files) THEN MergeOp(TRUE, Extending(op.wanted)) ELSE [op EXCEPT !.at = @ + 1]
  /\ op.at <= Len(files) => Skipped(files[op.at])
  /\ UNCHANGED <<disk, need, failed, stage, unmerged>>

\* ExtendFile: up to the next file of the list, be it longer or shorter.
NewSize(fs, i) == IF i < Len(fs) THEN fs[i + 1].offset - fs[i].offset ELSE fs[i].length

ExtendFile ==
  /\ Extend /\ op.at <= Len(files) /\ ~Skipped(files[op.at])
  /\ \E r \in Open(Here, op.at, TRUE, 0) : \E done \in IF r.ok /\ r.s.r > 0 THEN BOOLEAN ELSE {r.ok} :
       LET new == NewSize(files, op.at)
           cut(f) == [f EXCEPT !.size = new, !.disk = new,
                        !.data = [c \in Cells |-> IF c < f.offset + new THEN @[c] ELSE Unknown]]
           s == IF done THEN [r.s EXCEPT !.f[op.at] = cut(@)] ELSE IF r.ok THEN Refused(r.s) ELSE r.s
       IN  /\ SetTo(Close(s, op.at))
           /\ op' = IF done THEN [op EXCEPT !.at = @ + 1] ELSE Created
           /\ unmerged' = (unmerged \/ ~done)
  /\ UNCHANGED <<need, failed, stage>>

Run ==
  /\ op = Created /\ op' = Idle
  /\ UNCHANGED <<disk, need, failed, stage, unmerged>>

-----------------------------------------------------------------------------
(* pBFPieces: the pieces that are in the files, and worth a hash check. *)

\* fend; an empty file is taken to have its first byte.
LastByte(f) == End(f) - (IF f.size > 0 THEN 1 ELSE 0)
\* Variant for the mutants: files follow on each other in any case.
ReachAny(fs, c, i) ==
  LET to[j \in DOMAIN fs] == IF c > LastByte(fs[j]) /\ j < Len(fs) THEN to[j + 1] ELSE j IN to[i]
\* The last of the files from the i-th on that follow on each other, up to one with byte c.
Reach(fs, c, i) ==
  LET to[j \in DOMAIN fs] ==
        IF c > LastByte(fs[j]) /\ j < Len(fs) /\ fs[j + 1].offset <= LastByte(fs[j]) + 1 THEN to[j + 1] ELSE j
  IN  to[i]

PieceMap(fs) ==
  LET from[p \in 0 .. NPieces] ==
        [i \in DOMAIN fs |->
           LET off   == p * PieceLength
               last  == Least(off + PieceLength, Total) - 1
               found == {k \in i .. Len(fs) : fs[k].size > 0 /\ (off <= LastByte(fs[k]) \/ k = Len(fs))}
               k     == Min(found)
               m     == Reach(fs, last, k)
           IN  IF p = NPieces THEN {}
               ELSE IF off < fs[i].offset THEN from[p + 1][i]
               ELSE IF found = {} \/ off > LastByte(fs[k]) THEN {}
               ELSE IF off < fs[k].offset THEN from[p + 1][k]
               ELSE from[p + 1][m] \cup (IF last <= LastByte(fs[m]) THEN {p} ELSE {})]
  IN  from[0][1]

-----------------------------------------------------------------------------
Init ==
  /\ files = [i \in DOMAIN FileLengths |-> File(FileEnd[i - 1], FileLengths[i], FALSE, NoDir)]
  /\ nopened = 0 /\ need = FALSE /\ failed = FALSE /\ unmerged = FALSE
  /\ stagedir = NoDir /\ stagecount = 0
  /\ op = Starting /\ refusals = Refusals

Next ==
  \/ \E off \in Cells, len \in 1 .. PieceLength, v \in Versions : Write(off, len, v)
  \/ \E off \in Cells : Read(off, Least(PieceLength, Total - off))   \* a shorter one finds no less
  \/ NewStaging \/ NotFound \/ OpenFile \/ OpenNoSpace \/ ReadFile \/ WriteFile \/ WriteRefused
  \/ StartMerge \/ MergeNone \/ MergeOpen \/ MergeCopy \/ MergeCopyRefused \/ MergePresent \/ MergeDone
  \/ CloseAllFiles \/ Retry
  \/ Restart \/ CreateNone
  \/ \E wanted \in SUBSET {FileEnd[i - 1] : i \in DOMAIN FileLengths} : CreateSparse(wanted)
  \/ ExtendSkip \/ ExtendFile \/ Run

Spec == Init /\ [][Next]_vars

-----------------------------------------------------------------------------
TypeOK ==
  /\ \A i \in DOMAIN files :
       LET f == files[i]
       IN  /\ f.offset \in Cells /\ f.size \in 0 .. Total /\ f.disk \in -1 .. Total
           /\ f.data \in [Cells -> Versions \cup {Unknown}]
           /\ f.staging \in BOOLEAN /\ f.dir \in Cells \cup {NoDir}
           /\ f.opened \in BOOLEAN /\ f.readonly \in BOOLEAN
  /\ {<<files[i].offset, files[i].length>> : i \in Reals(files)}
       = {<<FileEnd[n - 1], FileLengths[n]>> : n \in DOMAIN FileLengths}
  /\ nopened \in Nat /\ stagecount \in Nat /\ stagedir \in Cells \cup {NoDir}
  /\ need \in BOOLEAN /\ failed \in BOOLEAN /\ unmerged \in BOOLEAN

\* A staging file was left behind in its real file, or reaches into the next one, or one that did
\* was merged and made its real file too long: bytes were written again before a merge, or a refused
\* write left more on disk than was known.
Tangled ==
  \/ \E i \in Reals(files) : files[i].size > files[i].length
  \/ \E j \in DOMAIN files : files[j].staging /\
       \/ \E i \in Reals(files) : i < j /\ End(files[j]) < End(files[i])
       \/ j < Len(files) /\ End(files[j]) > files[j + 1].offset
\* A read of bytes that were written gives, over however many files, what a read of each of
\* them alone would give; unless staging files are tangled.
ReadsBack ==
  (op.kind = "read" /\ ~Tangled /\ \A c \in op.off .. op.off + op.len - 1 : Stored[c] # Unknown) =>
    /\ ~op.null
    /\ Usable(files[op.at], FALSE) =>
         \A c \in op.off .. op.off + ReadLength(files[op.at]) - 1 :
           Covers(files[op.at], c) /\ files[op.at].data[c] = Stored[c]

\* The list of files and what is kept beside it agree, though an open within an operation
\* may close files, and merge and delete them: m_total_opened counts those open, at most one
\* over the limit; m_stagecount those of the current directory; both ends of a copy stay
\* open; and no operation follows a file that is gone, or the next of the last one, unless it
\* reads bytes that were never written.
OpenExact ==
  /\ TypeOK
  /\ nopened = Cardinality({i \in DOMAIN files : files[i].opened})
  /\ nopened <= MaxOpen + 1
  /\ stagedir # NoDir => stagecount = Cardinality(InDir(files, stagedir))
  /\ Copying => Usable(files[op.dst + 1], FALSE) /\ Usable(files[op.dst], TRUE)
  /\ op.kind = "crash" => op.reading

\* What can be merged is known to need it; and when all has been written and nothing needs
\* it, all is in the torrent's files.
MergeKnown ==
  (op = Idle /\ ~unmerged) =>
    /\ Candidates # {} => need
    /\ (~Tangled /\ ~need /\ \A c \in Cells : Stored[c] # Unknown) =>
         \A i \in Reals(files) : files[i].size = files[i].length

\* A piece is checked at the start only if every byte of it is in a file, but for a last byte
\* that is the first of an empty file.
PiecesInFiles ==
  (op = Created /\ ~Tangled) =>
    \A p \in PieceMap(files), c \in Cells :
      c \div PieceLength = p =>
        \/ ~FindFirst(files, c, FALSE).null
        \/ \E i \in DOMAIN files : files[i].offset = c /\ files[i].size = 0

\* A byte is written where a read will look for it.
WrittenWhereRead ==
  (InFile /\ Writing /\ Usable(files[op.at], TRUE)) =>
    LET n    == WriteLength(files, op.at)
        fs   == [files EXCEPT ![op.at] = Put(@, op.off, op.off + n, [c \in Cells |-> op.v])]
    IN  \A c \in op.off .. op.off + n - 1 : FindFirst(fs, c, FALSE) = [at |-> op.at, null |-> FALSE]

\* The bytes a restart may lose: beyond what bf_size says, in a staging file in no directory,
\* or of which there are different copies. And those ExtendFile may cut off, as a merge that failed
\* does not keep it from extending: in a file that has grown past the end of the one behind it.
Loose ==
  {c \in Cells : \E i \in DOMAIN files :
     LET f == files[i]
     IN  \/ c \in End(f) .. f.offset + f.disk - 1
         \/ Extend /\ Mergeable(files, i) /\ c \in End(files[i + 1]) .. End(f) - 1
         \/ Covers(f, c) /\ f.staging /\ f.dir = NoDir
         \/ Covers(f, c) /\ f.data[c] # Stored[c]}
CurrentWrite ==
  LET part(o) == IF o.kind = "write" THEN [off |-> o.off, len |-> o.len, v |-> o.v]
                 ELSE [off |-> 0, len |-> 0, v |-> Unknown]
  IN  IF op.kind \in {"merge", "copy"} THEN part(op.back) ELSE part(op)
InStart ==
  \/ op.kind \in {"start", "extend", "ended"}
  \/ op.kind \in {"merge", "copy"} /\ op.back.kind = "extend"
Flat == INSTANCE Store WITH
  store <- Stored, writing <- CurrentWrite, starting <- InStart, loose <- Loose, risky <- Tangled
\* btFiles is one flat array of bytes.
OneStore == Flat!Spec

=============================================================================
