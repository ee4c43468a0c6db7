------------------------------ MODULE Content ------------------------------
(***************************************************************************)
(* What the client says it has, over any number of sessions: the piece     *)
(* bitfields of btContent, hash checking in the background, file lists,    *)
(* the seed timer, the bitfield file, and the ways a session starts and    *)
(* ends: with or without the bitfield file or the force option, by the     *)
(* seed limits, a command, one signal, two signals, or killed.             *)
(***************************************************************************)
EXTENDS Integers, Sequences, Bitfield

CONSTANTS
  PieceLength,    \* m_piece_length
  FileLengths,    \* the lengths of the torrent's files, in order
  Lists,          \* values of cfg_file_to_download: sequences of file sets, or {} for "*"
  DiskFails,      \* whether writes may be refused
  StagingFails,   \* whether CreateFiles may fail
  SaveInterrupted \* whether a signal may come in the middle of SaveBitfield

VARIABLES
  disk,        \* what the files have of a piece: none (not that long), bad, good
  saved,       \* the bitfield file: {}, or the one buffer in it
  phase,       \* off, run, stopping (TRACKER.Stop was called), and the statements of SaveBitfield
  caught,      \* sig_catch2 is installed
  forced,      \* option -f was given, and the files were there
  have,        \* pBF
  checked,     \* pBChecked
  checkPos,    \* m_check_piece
  left,        \* m_left_bytes
  list,        \* cfg_file_to_download
  filters,     \* m_filters
  current,     \* m_current_filter, 0 for null
  master,      \* pBMasterFilter
  seeding,     \* m_seed_timestamp is set
  dirty,       \* pieces complete that are not on disk yet, but in the cache
  flushFailed, \* m_flush_failed
  \* what the user knows of the sessions so far
  known,       \* pieces found or made good, and neither altered nor lost since
  clean,       \* the last session ended on its own, all pieces checked, no write refused
  sure,        \* this session was not forced, or forced after a clean one
  stale,       \* the bitfield file is older than the last session
  excused      \* known pieces forgotten for a stale bitfield file, a save that was cut
               \* into by a signal, or a staging directory that could not be made

work    == <<have, checked, checkPos, left, dirty, flushFailed>>
lists   == <<list, filters, current, master, seeding>>
session == <<caught, forced, sure, work, lists>>
user    == <<known, clean, stale, excused>>
vars    == <<disk, saved, phase, session, user>>

Looping == phase \in {"run", "stopping"}     \* in Downloader()
Saving  == phase \in {"save", "inverted", "merged", "opened"}

FileEnd[n \in 0 .. Len(FileLengths)] == IF n = 0 THEN 0 ELSE FileEnd[n - 1] + FileLengths[n]
Total == FileEnd[Len(FileLengths)]

ASSUME ContentAssumption ==
  /\ PieceLength \in Nat \ {0}
  /\ FileLengths \in Seq(Nat)
  /\ Lists \subseteq Seq(SUBSET Nat)
  /\ NPieces = (Total + PieceLength - 1) \div PieceLength
  /\ DiskFails \in BOOLEAN /\ StagingFails \in BOOLEAN /\ SaveInterrupted \in BOOLEAN

\* GetPieceLength: the last piece is short, unless the torrent is a whole number of pieces.
LengthOf(p) == IF p = NPieces - 1 /\ p = Total \div PieceLength THEN Total % PieceLength ELSE PieceLength
\* The bytes of a set of pieces.
Bytes(S) == LET sum[T \in SUBSET S] ==
                  IF T = {} THEN 0 ELSE LET p == CHOOSE p \in T : TRUE IN LengthOf(p) + sum[T \ {p}]
            IN  sum[S]

-----------------------------------------------------------------------------
(* File lists *)

\* btFiles::SetFilter: the pieces of no part of file n; none if there is no such file.
FileFilter(n) ==
  IF n \notin 1 .. Len(FileLengths) THEN New
  ELSE IF FileLengths[n] = 0 THEN Freed
  ELSE LET start == FileEnd[n - 1] \div PieceLength
           past  == FileEnd[n] \div PieceLength
           stop  == IF past > start /\ FileEnd[n] % PieceLength = 0 THEN past - 1 ELSE past
       IN  SetReferBuffer(Pieces \ (start .. stop))

\* A filter starts full and is narrowed by each file or entry in turn.
Common(fs)   == SetReferBuffer({p \in Pieces : \A f \in fs : p \in Members(f)})
FilterOf(ns) == IF ns = {} THEN New ELSE Common({FileFilter(n) : n \in ns})
\* Entries after "*" are not read.
UpToStar(l)  == LET stars == {i \in 1 .. Len(l) : l[i] = {}}
                IN  IF stars = {} THEN l ELSE SubSeq(l, 1, CHOOSE i \in stars : \A j \in stars : i <= j)

CheckFilterSeeds(fs, i, h) ==
  LET from == {j \in 1 .. Len(fs) : j >= i /\ ~IsFull(Or(h, fs[j]))}
  IN  IF from = {} THEN filters' = << >> /\ current' = 0 /\ seeding' = seeding
      ELSE filters' = fs /\ seeding' = seeding /\ current' = CHOOSE j \in from : \A k \in from : j <= k

\* The entries of fs that h leaves something to get of, from entry i on.
Wanting(fs, i, h) == {j \in 1 .. Len(fs) : j >= i /\ ~IsFull(Or(h, fs[j]))}

\* The list is dropped when nothing of it is left to get.  A list that
\* leaves something ends seeding; no list does nothing.
CheckFilter(fs, i, h) ==
  LET from == Wanting(fs, i, h)
  IN  IF fs = << >> THEN filters' = fs /\ current' = i /\ seeding' = seeding
      ELSE IF from = {} THEN filters' = << >> /\ current' = 0 /\ seeding' = seeding
      ELSE /\ filters' = fs
           /\ current' = CHOOSE j \in from : \A k \in from : j <= k
           /\ seeding' = FALSE

\* btContent::SetFilter for list l, when h is what we have.
SetFilterTo(l, h) ==
  LET fs   == [i \in 1 .. Len(UpToStar(l)) |-> FilterOf(UpToStar(l)[i])]
      none == fs = << >> \/ IsEmpty(fs[1])
  IN  /\ list' = IF none THEN << >> ELSE l
      /\ master' = IF none THEN New ELSE Common({fs[i] : i \in DOMAIN fs})
      /\ CheckFilter(IF none THEN << >> ELSE fs, 0, h)

Seeding == IsFull(have) \/ flushFailed \/ (list # << >> /\ current = 0)

\* Variant for the mutants: the last piece counted as a whole one.
GetNeedBytesWhole ==
  IF IsEmpty(master) THEN left ELSE PieceLength * Except(Invert(have), master).nset

\* What is left to get, as the status line and the tracker are told.
GetNeedBytes ==
  LET want == Except(Invert(have), master)
  IN  IF IsEmpty(master) THEN left
      ELSE PieceLength * want.nset
             - (IF NPieces - 1 \in Members(want) THEN PieceLength - LengthOf(NPieces - 1) ELSE 0)

-----------------------------------------------------------------------------
(* Starting *)

Init ==
  /\ disk \in [Pieces -> {"none", "bad", "good"}] /\ saved = {}
  /\ phase = "off" /\ caught = FALSE /\ forced = FALSE /\ sure = FALSE
  /\ have = New /\ checked = New /\ checkPos = 0 /\ left = 0 /\ dirty = {} /\ flushFailed = FALSE
  /\ list = << >> /\ filters = << >> /\ current = 0 /\ master = New /\ seeding = FALSE
  /\ known = {} /\ clean = FALSE /\ stale = FALSE /\ excused = {}

\* The process is gone.
Off ==
  /\ phase' = "off" /\ caught' = FALSE /\ forced' = FALSE /\ sure' = FALSE
  /\ have' = New /\ checked' = New /\ checkPos' = 0 /\ left' = 0 /\ dirty' = {} /\ flushFailed' = FALSE
  /\ list' = << >> /\ filters' = << >> /\ current' = 0 /\ master' = New /\ seeding' = FALSE

InFiles == {p \in Pieces : disk[p] # "none"}

\* InitialFromMI.  exist: SetupFiles saw a file that is not empty.  The map of
\* what is in the files is empty when CreateFiles failed, and its -1 counts as
\* a yes.  The bitfield file is deleted once it is read; when the files are not
\* there, nothing is checked and the bitfield file not looked at.
Begin(force, l, allocate, exist, fails) ==
  LET files == IF fails THEN disk ELSE [p \in Pieces |-> IF allocate /\ disk[p] = "none" THEN "bad" ELSE disk[p]]
      found == SetReferBuffer(IF fails THEN {} ELSE {p \in Pieces : files[p] # "none"})
      check == exist /\ (~IsEmpty(found) \/ fails)
      refer == And(IF saved = {} THEN Freed ELSE SetReferBuffer(CHOOSE b \in saved : TRUE), found)
  IN  /\ disk' = files
      /\ saved' = IF check THEN {} ELSE saved
      /\ stale' = (saved' # {})
      /\ excused' = IF check /\ (stale \/ fails) THEN excused \cup (known \ Members(refer)) ELSE excused
      /\ checkPos' = IF check /\ ~force THEN 0 ELSE NPieces
      /\ checked' = IF check /\ ~force THEN Invert(refer) ELSE Freed
      /\ have' = IF check /\ force THEN refer ELSE New
      /\ left' = IF check /\ force THEN (IF IsFull(refer) THEN 0 ELSE Total - Bytes(Members(refer))) ELSE Total
      /\ forced' = (check /\ force)
      /\ sure' = (~forced' \/ clean)

Start(force, l, allocate) ==
  /\ phase = "off" /\ phase' = "run"
  /\ \E exist \in {e \in BOOLEAN : InFiles # {} => e}, fails \in {f \in BOOLEAN : f => StagingFails} :
       Begin(force, l, allocate, exist, fails)
  /\ SetFilterTo(l, New)                       \* before anything is known to be there
  /\ clean' = FALSE
  /\ UNCHANGED <<caught, dirty, flushFailed, known>>

\* Option -c: every piece in the files is hashed before anything else, whatever
\* the bitfield file says, and it is deleted.  The client then saves and exits,
\* or with -f goes on.
CheckExist(force, l) ==
  \E fails \in {f \in BOOLEAN : f => StagingFails} :
    LET good == SetReferBuffer(IF fails THEN {} ELSE {p \in Pieces : disk[p] = "good"})
    IN  /\ phase = "off"
        /\ known' = known \cup Members(good)
        /\ excused' = (excused \cup known) \ Members(good)
        /\ stale' = FALSE
        /\ IF force
           THEN /\ phase' = "run" /\ saved' = {} /\ clean' = FALSE
                /\ have' = good /\ left' = Total - Bytes(Members(good))
                /\ checked' = Freed /\ checkPos' = NPieces
                /\ forced' = TRUE /\ sure' = TRUE
                /\ SetFilterTo(l, New)
                /\ UNCHANGED <<caught, dirty, flushFailed>>
           ELSE /\ saved' = IF IsFull(good) THEN {} ELSE {WriteToBuffer(good)}
                /\ clean' = TRUE
                /\ UNCHANGED <<phase, session>>
        /\ UNCHANGED disk

-----------------------------------------------------------------------------
(* The event loop *)

\* The next piece not marked as checked is read from the files, past the cache.
Unchecked == {p \in Pieces \ Members(checked) : p >= checkPos}
CheckNextPiece ==
  /\ Looping /\ checkPos < NPieces
  /\ \/ /\ Unchecked = {} /\ checkPos' = NPieces
        /\ UNCHANGED <<phase, have, checked, left, lists, known, excused>>
     \/ \E idx \in Unchecked :
          /\ \A p \in Unchecked : idx <= p
          /\ \/ /\ checked' = Set(checked, idx) /\ checkPos' = idx + 1
                /\ IF disk[idx] = "good"
                   THEN /\ have' = Set(have, idx) /\ left' = left - LengthOf(idx)
                        /\ CheckFilter(filters, current, have')
                        /\ known' = known \cup {idx} /\ excused' = excused \ {idx}
                   ELSE UNCHANGED <<have, left, filters, current, seeding, known, excused>>
                /\ UNCHANGED <<phase, list, master>>
             \/ /\ DiskFails                            \* it cannot be read: TRACKER.Stop
                /\ checkPos' = idx /\ phase' = "stopping"
                /\ UNCHANGED <<have, checked, left, lists, known, excused>>
  /\ UNCHANGED <<disk, saved, caught, forced, sure, dirty, flushFailed, clean, stale>>

\* A piece is downloaded and its hash is right (APieceComplete and what PieceDeliver
\* does then); it is written now, or later from the cache.
Complete(p) ==
  /\ Looping /\ p \in Members(checked) \ Members(have)
  /\ have' = Set(have, p) /\ left' = left - LengthOf(p)
  /\ CheckFilter(filters, current, have')
  /\ \/ dirty' = dirty \cup {p} /\ UNCHANGED <<disk, known>>
     \/ disk' = [disk EXCEPT ![p] = "good"] /\ known' = known \cup {p} /\ UNCHANGED dirty
  /\ excused' = excused \ {p}
  /\ UNCHANGED <<saved, phase, caught, forced, sure, checked, checkPos, flushFailed, list, master, clean, stale>>

\* Slices of a piece that is not complete, or that fails its hash, are written.
Partial(p) ==
  /\ Looping /\ p \in Members(checked) \ Members(have)
  /\ disk' = [disk EXCEPT ![p] = "bad"] /\ known' = known \ {p}
  /\ UNCHANGED <<saved, phase, session, clean, stale, excused>>

\* The cache is flushed, piece by piece.
Flush(p) ==
  /\ Looping /\ p \in dirty
  /\ disk' = [disk EXCEPT ![p] = "good"] /\ known' = known \cup {p}
  /\ dirty' = dirty \ {p} /\ flushFailed' = FALSE
  /\ UNCHANGED <<saved, phase, caught, forced, sure, have, checked, checkPos, left, lists, clean, stale, excused>>
FlushFails ==
  /\ Looping /\ DiskFails /\ dirty # {} /\ flushFailed' = TRUE
  /\ UNCHANGED <<disk, saved, phase, caught, forced, sure, have, checked, checkPos, left, lists, dirty, user>>

\* The file list is changed, from the menu or by CTCS.
SetFilter(l) ==
  /\ Looping /\ SetFilterTo(l, have)
  /\ UNCHANGED <<disk, saved, phase, caught, forced, sure, work, user>>

\* The seed timer starts when nothing is left to get; the limits are looked at
\* from then on.  With a failed flush the client pauses rather than stops.
SeedTimeout ==
  /\ phase = "run" /\ Seeding /\ (~flushFailed \/ IsFull(have))
  /\ seeding' = TRUE
  /\ phase' \in IF flushFailed THEN {"run"} ELSE {"run", "stopping"}
  /\ UNCHANGED <<disk, saved, caught, forced, sure, work, list, filters, current, master, user>>

-----------------------------------------------------------------------------
(* Ending *)

Quit == /\ phase = "run" /\ phase' = "stopping"           \* a command
        /\ UNCHANGED <<disk, saved, session, user>>

sig_catch == /\ Looping /\ ~caught
             /\ caught' = TRUE /\ phase' = "stopping"
             /\ UNCHANGED <<disk, saved, forced, sure, work, lists, user>>

\* What FlushCache may leave unwritten.
Refused == {lost \in SUBSET dirty : lost = {} \/ DiskFails}
Flushed(lost) == /\ disk' = [p \in Pieces |-> IF p \in dirty \ lost THEN "good" ELSE disk[p]]
                 /\ known' = known \cup (dirty \ lost)

\* Variant for the mutants: main does not flush.
FlushCacheNot(lost) ==
  /\ phase = "stopping" /\ phase' = "save" /\ dirty' = lost
  /\ UNCHANGED <<disk, saved, caught, forced, sure, have, checked, checkPos, left, flushFailed, lists, user>>

\* Downloader() returned: main flushes, merges, and saves.
FlushCache(lost) ==
  /\ phase = "stopping" /\ phase' = "save"
  /\ Flushed(lost) /\ dirty' = lost
  /\ UNCHANGED <<saved, caught, forced, sure, have, checked, checkPos, left, flushFailed, lists, clean, stale, excused>>

\* Variant for the mutants: what is unchecked is not kept.
SaveUnchecked ==
  /\ phase = "save" /\ phase' = "merged"
  /\ UNCHANGED <<disk, saved, session, user>>

\* SaveBitfield, statement by statement.
SaveInvert ==
  /\ phase = "save"
  /\ IF checkPos < NPieces THEN checked' = Invert(checked) /\ phase' = "inverted"
                           ELSE phase' = "merged" /\ UNCHANGED checked
  /\ UNCHANGED <<disk, saved, caught, forced, sure, have, checkPos, left, dirty, flushFailed, lists, user>>
SaveOr ==
  /\ phase = "inverted" /\ phase' = "merged" /\ have' = Or(have, checked)
  /\ UNCHANGED <<disk, saved, caught, forced, sure, checked, checkPos, left, dirty, flushFailed, lists, user>>
SaveOpen ==
  /\ phase = "merged" /\ ~IsFull(have) /\ phase' = "opened" /\ saved' = {}
  /\ UNCHANGED <<disk, session, user>>
SaveWrite ==
  /\ \/ phase = "merged" /\ IsFull(have) /\ UNCHANGED <<saved, stale>>
     \/ phase = "opened" /\ saved' = {WriteToBuffer(have)} /\ stale' = FALSE
  /\ Off /\ clean' = (sure /\ checkPos = NPieces /\ dirty = {})
  /\ UNCHANGED <<disk, known, excused>>
SaveFails ==
  /\ phase \in {"merged", "opened"} /\ ~IsFull(have) /\ DiskFails
  /\ Off /\ clean' = FALSE
  /\ UNCHANGED <<disk, saved, known, stale, excused>>

\* The second signal: the handler does what main would have done, at once.
SaveBitfield ==
  IF checkPos < NPieces THEN Or(have, Invert(checked)) ELSE have
sig_catch2(lost) ==
  /\ caught /\ (Looping \/ (SaveInterrupted /\ Saving))
  /\ Flushed(lost)
  /\ IF IsFull(SaveBitfield) THEN UNCHANGED <<saved, stale>>
     ELSE saved' = {WriteToBuffer(SaveBitfield)} /\ stale' = FALSE
  /\ excused' = excused \cup (IF Saving THEN known \ Members(SaveBitfield) ELSE {})
  /\ Off /\ clean' = FALSE

Kill == /\ phase # "off" /\ Off /\ clean' = FALSE
        /\ UNCHANGED <<disk, saved, known, stale, excused>>

\* Between sessions the files may be altered.
Alter(p) == /\ phase = "off" /\ disk[p] = "good"
            /\ disk' = [disk EXCEPT ![p] = "bad"]
            /\ known' = known \ {p} /\ clean' = FALSE
            /\ UNCHANGED <<saved, phase, session, stale, excused>>

Next ==
  \/ \E force, allocate \in BOOLEAN, l \in Lists : Start(force, l, allocate)
  \/ \E force \in BOOLEAN, l \in Lists : CheckExist(force, l)
  \/ CheckNextPiece \/ FlushFails \/ SeedTimeout
  \/ \E p \in Pieces : Complete(p) \/ Partial(p) \/ Flush(p)
  \/ \E l \in Lists : SetFilter(l)
  \/ Quit \/ sig_catch
  \/ \E lost \in Refused : FlushCache(lost) \/ sig_catch2(lost)
  \/ SaveInvert \/ SaveOr \/ SaveOpen \/ SaveWrite \/ SaveFails
  \/ Kill \/ \E p \in Pieces : Alter(p)

Spec == Init /\ [][Next]_vars

-----------------------------------------------------------------------------
(* Properties *)

\* Every bitfield's count, array and spare bits agree, and so do the list, its
\* filters and the one in use.
TypeOK ==
  /\ \A x \in {have, checked, master} \cup {filters[i] : i \in DOMAIN filters} : Sound(x)
  /\ saved \subseteq SUBSET Pieces /\ Cardinality(saved) <= 1
  /\ disk \in [Pieces -> {"none", "bad", "good"}] /\ dirty \subseteq Pieces
  /\ checkPos \in 0 .. NPieces /\ left \in 0 .. Total
  /\ current \in 0 .. Len(filters)

\* What the client says it has is right: every piece it counts as had is in the
\* cache or good in the files, for a session that checked hashes, its own or
\* those of a session that ended in good order (UserGuide: -f only "if CTorrent
\* was shut down cleanly"), through failed writes, signals and crashes.
ClaimsTrue ==
  Looping /\ sure => \A p \in Members(have) : p \in dirty \/ disk[p] = "good"

\* A piece that was found or made good before, and is still good in the files,
\* is had already or will be when its turn to be checked comes: it is not
\* downloaded again, however the session before ended.
Kept(p) == p \in Members(have) \/ (p \notin Members(checked) /\ p >= checkPos)
NotFetchedAgain == Looping => \A p \in known \ excused : Kept(p)

\* The same, whatever bitfield file there was to begin with ("so that they will
\* not be downloaded again", UserGuide: Startup).
NeverFetchedAgain == Looping => \A p \in known : Kept(p)

\* The bytes left, kept by subtraction in three places, are those of the pieces
\* not had; and the bytes needed under a file list are those wanted and not had.
BytesExact ==
  Looping => /\ left = Bytes(Pieces \ Members(have))
             /\ GetNeedBytes = Bytes(Pieces \ (Members(have) \cup Members(master)))

\* The client goes through the file list in order: the entry that is being
\* downloaded has something left to get, the entries before it have not, and
\* seed time is counted, and the client stops by the seed limits, only when
\* everything the list asks for is had.
SeedsWhenDone ==
  Looping /\ ~forced /\ list # << >> =>
    /\ filters # << >> =>
         /\ current # 0 /\ Pieces \ (Members(filters[current]) \cup Members(have)) # {}
         /\ \A i \in 1 .. current - 1 : Pieces \ Members(filters[i]) \subseteq Members(have)
    /\ seeding => Pieces \ Members(master) \subseteq Members(have)
=============================================================================
