--------------------------- MODULE ContentProofs ----------------------------
(***************************************************************************)
(* What holds of the client's claims, and of what is left to get, for any  *)
(* number of pieces, any files, file lists and sequence of sessions.       *)
(*                                                                         *)
(* First come the operations of the bitfields the client keeps.  The last  *)
(* third is about the count of bytes, kept by subtraction, and the place   *)
(* in the file list.  Bytes and FileEnd are recursive functions.           *)
(* What they are equal to is proved from the least number that would be a  *)
(* counterexample, taken from a set of numbers (LeastNumber).              *)
(***************************************************************************)
EXTENDS Content, FiniteSetTheorems, WellFoundedInduction, TLAPS

-----------------------------------------------------------------------------
(* The operations of bitfield.cpp are set operations: each keeps the count, the array and the *)
(* spare bits in agreement, for any number of pieces, and the pieces it leaves in the bitfield *)
(* are those the operation is for.                                                            *)

LEMMA PieceSets ==
  /\ IsFiniteSet(Pieces) /\ Cardinality(Pieces) = NPieces
  /\ \A S \in SUBSET Pieces : /\ IsFiniteSet(S) /\ Cardinality(S) \in 0 .. NPieces
                              /\ Cardinality(S) = NPieces <=> S = Pieces
                              /\ Cardinality(S) = 0 <=> S = {}
<1>1. IsFiniteSet(Pieces) /\ Cardinality(Pieces) = NPieces
  BY NPiecesAssumption, FS_Interval DEF Pieces
<1>2. ASSUME NEW S \in SUBSET Pieces
      PROVE  /\ IsFiniteSet(S) /\ Cardinality(S) \in 0 .. NPieces
             /\ Cardinality(S) = NPieces <=> S = Pieces
             /\ Cardinality(S) = 0 <=> S = {}
  <2>1. IsFiniteSet(S) /\ Cardinality(S) <= NPieces /\ (NPieces = Cardinality(S) => S = Pieces)
    BY <1>1, FS_Subset
  <2>2. Cardinality(S) \in Nat /\ (Cardinality(S) = 0 <=> S = {})
    BY <2>1, FS_CardinalityType, FS_EmptySet
  <2> QED
    BY <1>1, <2>1, <2>2, NPiecesAssumption
<1> QED
  BY <1>1, <1>2

\* The array is long enough for every piece.
LEMMA PiecesInBits == Pieces \subseteq Bits
<1>1. NBytes \in Nat /\ 8 * NBytes >= NPieces
  BY NPiecesAssumption DEF NBytes, BYTE
<1> QED
  BY <1>1, NPiecesAssumption DEF Pieces, Bits, BYTE

\* The three ways a sound bitfield is made: freed, from a set that is not all, counted.
LEMMA SoundFreed == Sound(Freed) /\ Members(Freed) = Pieces /\ IsFull(Freed) /\ ~IsEmpty(Freed)
<1>1. IsFull(Freed) /\ ~IsEmpty(Freed) /\ Members(Freed) = Pieces
  BY NPiecesAssumption DEF Freed, IsFull, IsEmpty, Members
<1> QED
  BY <1>1, PieceSets, NPiecesAssumption DEF Sound, Freed, Bitfields

LEMMA SoundOf ==
  ASSUME NEW S \in SUBSET Pieces, S # Pieces
  PROVE  Sound(Of(S, Cardinality(S))) /\ Members(Of(S, Cardinality(S))) = S
<1>1. Cardinality(S) \in Nat /\ Cardinality(S) < NPieces
  BY PieceSets, NPiecesAssumption
<1>2. ~IsFull(Of(S, Cardinality(S))) /\ Members(Of(S, Cardinality(S))) = S
  BY <1>1, NPiecesAssumption DEF Of, IsFull, Members
<1> QED
  BY <1>1, <1>2, PiecesInBits DEF Sound, Of, Bitfields

LEMMA SoundRecalc ==
  ASSUME NEW S \in SUBSET Pieces
  PROVE  Sound(Recalc(S)) /\ Members(Recalc(S)) = S
<1>1. CASE S = Pieces
  <2>1. Recalc(S) = Freed
    BY <1>1, PieceSets, NPiecesAssumption DEF Recalc, Freed
  <2> QED
    BY <1>1, <2>1, SoundFreed
<1>2. CASE S # Pieces
  <2>1. Recalc(S) = Of(S, Cardinality(S))
    BY <1>2, PieceSets, NPiecesAssumption DEF Recalc
  <2> QED
    BY <1>2, <2>1, SoundOf
<1> QED
  BY <1>1, <1>2

\* What a sound bitfield is, by the pieces in it.
LEMMA SoundFacts ==
  ASSUME NEW x, Sound(x)
  PROVE  /\ Members(x) \in SUBSET Pieces
         /\ IsFull(x) <=> Members(x) = Pieces
         /\ IsEmpty(x) <=> Members(x) = {}
         /\ x.nset = Cardinality(Members(x)) /\ x.nset \in 0 .. NPieces
         /\ ~IsFull(x) => x = Of(Members(x), x.nset) /\ x.set = Members(x)
         /\ Array(x) = Members(x)
         /\ ~(IsFull(x) /\ IsEmpty(x))
<1>1. Members(x) \in SUBSET Pieces
  BY DEF Members
<1>2. x.nset = Cardinality(Members(x)) /\ x.nset \in 0 .. NPieces
  BY <1>1, PieceSets DEF Sound
<1>3. (IsFull(x) <=> Members(x) = Pieces) /\ (IsEmpty(x) <=> Members(x) = {})
  BY <1>1, <1>2, PieceSets, NPiecesAssumption DEF IsFull, IsEmpty
<1>4. ~IsFull(x) => x.set = Members(x) /\ x = Of(Members(x), x.nset)
  BY DEF Sound, Members, Of, Bitfields
<1>5. Array(x) = Members(x)
  BY <1>4 DEF Array, Members
<1>6. ~(IsFull(x) /\ IsEmpty(x))
  BY NPiecesAssumption DEF IsFull, IsEmpty
<1> QED
  BY <1>1, <1>2, <1>3, <1>4, <1>5, <1>6

\* A new bitfield is sound and empty.
LEMMA SoundNew == Sound(New) /\ Members(New) = {} /\ IsEmpty(New)
<1>1. New = Of({}, Cardinality({})) /\ {} # Pieces
  BY FS_EmptySet, NPiecesAssumption DEF New, Pieces
<1>2. IsEmpty(New)
  BY DEF New, Of, IsEmpty
<1> QED
  BY <1>1, <1>2, SoundOf

-----------------------------------------------------------------------------
(* One theorem per operation. *)

\* Set(): a piece is added, and the array freed when it was the last one missing.
THEOREM SetAdds ==
  ASSUME NEW x, Sound(x), NEW i \in Pieces
  PROVE  Sound(Set(x, i)) /\ Members(Set(x, i)) = Members(x) \cup {i}
<1> DEFINE S == Members(x) \cup {i}
<1>1. S \in SUBSET Pieces
  BY SoundFacts
<1>2. CASE i \in Members(x)
  <2>1. Set(x, i) = x
    BY <1>2, SoundFacts DEF Set
  <2> QED
    BY <1>2, <2>1
<1>3. CASE i \notin Members(x)
  <2>1. ~IsFull(x) /\ x.set = Members(x)
    BY <1>3, SoundFacts
  <2>2. Cardinality(S) = x.nset + 1
    BY <1>3, SoundFacts, PieceSets, FS_AddElement
  <2>3. CASE S = Pieces
    <3>0. Cardinality(S) = NPieces
      BY <2>3, PieceSets
    <3>1. x.nset + 1 >= NPieces
      BY <2>2, <3>0, NPiecesAssumption
    <3>2. Set(x, i) = Freed
      BY <1>3, <2>1, <3>1 DEF Set
    <3> QED
      BY <2>3, <3>2, SoundFreed
  <2>4. CASE S # Pieces
    <3>1. ~(x.nset + 1 >= NPieces)
      BY <1>1, <2>2, <2>4, PieceSets, NPiecesAssumption
    <3>2. Set(x, i) = Of(S, Cardinality(S))
      BY <1>3, <2>1, <2>2, <3>1 DEF Set
    <3> QED
      BY <1>1, <2>4, <3>2, SoundOf
  <2> QED
    BY <2>3, <2>4
<1> QED
  BY <1>2, <1>3

\* UnSet(): a piece is removed, after allocating the array of a full bitfield.
THEOREM UnSetRemoves ==
  ASSUME NEW x, Sound(x), NEW i \in Pieces
  PROVE  Sound(UnSet(x, i)) /\ Members(UnSet(x, i)) = Members(x) \ {i}
<1> DEFINE S == Members(x) \ {i}
<1>1. S \in SUBSET Pieces /\ S # Pieces
  BY SoundFacts
<1>2. CASE i \notin Members(x)
  <2>1. ~IsFull(x) /\ x.set = Members(x)
    BY <1>2, SoundFacts
  <2>2. UnSet(x, i) = x
    BY <1>2, <2>1 DEF UnSet
  <2> QED
    BY <1>2, <2>2
<1>3. CASE i \in Members(x)
  <2>1. Cardinality(S) = x.nset - 1
    BY <1>3, SoundFacts, PieceSets, FS_RemoveElement
  <2>2. UnSet(x, i) = Of(S, Cardinality(S))
    <3>1. CASE IsFull(x)
      <4>1. Members(x) = Pieces /\ x.nset = NPieces
        BY <3>1, SoundFacts, PieceSets
      <4> QED
        BY <2>1, <3>1, <4>1 DEF UnSet
    <3>2. CASE ~IsFull(x)
      BY <1>3, <2>1, <3>2, SoundFacts DEF UnSet
    <3> QED
      BY <3>1, <3>2
  <2> QED
    BY <1>1, <2>2, SoundOf
<1> QED
  BY <1>2, <1>3

\* Invert(): the complement, with the spare bits of the last byte left clear.
THEOREM InvertComplements ==
  ASSUME NEW x, Sound(x)
  PROVE  Sound(Invert(x)) /\ Members(Invert(x)) = Pieces \ Members(x)
<1> DEFINE S == Pieces \ Members(x)
<1>1. CASE IsEmpty(x)
  BY <1>1, SoundFacts, SoundFreed DEF Invert, SetAll
<1>2. CASE IsFull(x) /\ ~IsEmpty(x)
  BY <1>2, SoundFacts, SoundNew DEF Invert, Clear
<1>3. CASE ~IsFull(x) /\ ~IsEmpty(x)
  <2>1. x.set = Members(x) /\ S \in SUBSET Pieces /\ S # Pieces
    BY <1>3, SoundFacts
  <2>2. Cardinality(S) = NPieces - x.nset
    <3>1. Pieces \cap Members(x) = Members(x)
      BY SoundFacts
    <3>2. Cardinality(S) = Cardinality(Pieces) - Cardinality(Pieces \cap Members(x))
      BY PieceSets, FS_Difference
    <3> QED
      BY <3>1, <3>2, SoundFacts, PieceSets
  <2>3. (Pieces \ x.set) \cup (x.set \ Pieces) = S
    BY <2>1, SoundFacts
  <2>4. Invert(x) = Of(S, Cardinality(S))
    BY <1>3, <2>2, <2>3 DEF Invert
  <2> QED
    BY <2>1, <2>4, SoundOf
<1> QED
  BY <1>1, <1>2, <1>3

\* Or(): the union.
THEOREM OrUnites ==
  ASSUME NEW x, NEW y, Sound(x), Sound(y)
  PROVE  Sound(Or(x, y)) /\ Members(Or(x, y)) = Members(x) \cup Members(y)
<1>1. CASE IsEmpty(y) \/ IsFull(x)
  BY <1>1, SoundFacts DEF Or
<1>2. CASE ~(IsEmpty(y) \/ IsFull(x)) /\ IsFull(y)
  BY <1>2, SoundFacts, SoundFreed DEF Or, SetAll
<1>3. CASE ~(IsEmpty(y) \/ IsFull(x)) /\ ~IsFull(y) /\ IsEmpty(x)
  <2>1. Or(x, y) = y /\ Members(x) = {}
    BY <1>3, SoundFacts DEF Or
  <2> QED
    BY <2>1
<1>4. CASE ~(IsEmpty(y) \/ IsFull(x)) /\ ~IsFull(y) /\ ~IsEmpty(x)
  <2>1. x.set = Members(x) /\ y.set = Members(y)
    BY <1>4, SoundFacts
  <2>2. Or(x, y) = Recalc(Members(x) \cup Members(y))
    BY <1>4, <2>1 DEF Or
  <2> QED
    BY <2>2, SoundFacts, SoundRecalc
<1> QED
  BY <1>1, <1>2, <1>3, <1>4

\* Except(): the difference.
THEOREM ExceptSubtracts ==
  ASSUME NEW x, NEW y, Sound(x), Sound(y)
  PROVE  Sound(Except(x, y)) /\ Members(Except(x, y)) = Members(x) \ Members(y)
<1>1. CASE IsEmpty(y) \/ IsEmpty(x)
  BY <1>1, SoundFacts DEF Except
<1>2. CASE ~(IsEmpty(y) \/ IsEmpty(x)) /\ IsFull(y)
  BY <1>2, SoundFacts, SoundNew DEF Except, Clear
<1>3. CASE ~(IsEmpty(y) \/ IsEmpty(x)) /\ ~IsFull(y)
  <2>1. Array(x) = Members(x) /\ y.set = Members(y)
    BY <1>3, SoundFacts
  <2>2. Except(x, y) = Recalc(Members(x) \ Members(y))
    BY <1>3, <2>1 DEF Except
  <2>3. Members(x) \ Members(y) \in SUBSET Pieces
    BY SoundFacts
  <2> QED
    BY <2>2, <2>3, SoundRecalc
<1> QED
  BY <1>1, <1>2, <1>3

\* And(): the intersection.
THEOREM AndIntersects ==
  ASSUME NEW x, NEW y, Sound(x), Sound(y)
  PROVE  Sound(And(x, y)) /\ Members(And(x, y)) = Members(x) \cap Members(y)
<1>1. CASE IsFull(y) \/ IsEmpty(x)
  BY <1>1, SoundFacts DEF And
<1>2. CASE ~(IsFull(y) \/ IsEmpty(x)) /\ IsEmpty(y)
  BY <1>2, SoundFacts, SoundNew DEF And, Clear
<1>3. CASE ~(IsFull(y) \/ IsEmpty(x)) /\ ~IsEmpty(y) /\ IsFull(x)
  <2>1. And(x, y) = y /\ Members(x) = Pieces
    BY <1>3, SoundFacts DEF And
  <2> QED
    BY <2>1, SoundFacts
<1>4. CASE ~(IsFull(y) \/ IsEmpty(x)) /\ ~IsEmpty(y) /\ ~IsFull(x)
  <2>1. x.set = Members(x) /\ y.set = Members(y)
    BY <1>4, SoundFacts
  <2>2. And(x, y) = Recalc(Members(x) \cap Members(y))
    BY <1>4, <2>1 DEF And
  <2>3. Members(x) \cap Members(y) \in SUBSET Pieces
    BY SoundFacts
  <2> QED
    BY <2>2, <2>3, SoundRecalc
<1> QED
  BY <1>1, <1>2, <1>3, <1>4

\* SetReferBuffer() drops the spare bits of what a peer or a file holds, and
\* what WriteToBuffer() writes of a bitfield it reads back as the same pieces.
THEOREM BufferRoundTrip ==
  ASSUME NEW x, Sound(x), NEW buffer \in SUBSET Bits
  PROVE  /\ Sound(SetReferBuffer(buffer)) /\ Members(SetReferBuffer(buffer)) = buffer \cap Pieces
         /\ WriteToBuffer(x) = Members(x)
         /\ Members(SetReferBuffer(WriteToBuffer(x))) = Members(x)
<1>1. Sound(SetReferBuffer(buffer)) /\ Members(SetReferBuffer(buffer)) = buffer \cap Pieces
  BY SoundRecalc DEF SetReferBuffer
<1>2. WriteToBuffer(x) = Members(x)
  BY SoundFacts DEF WriteToBuffer
<1>3. Members(x) \cap Pieces = Members(x)
  BY SoundFacts
<1> QED
  BY <1>1, <1>2, <1>3, SoundFacts, SoundRecalc DEF SetReferBuffer

-----------------------------------------------------------------------------

(* The inductive invariant, in parts. *)

\* The bitfields are sound, and the rest is made of pieces.
Shape ==
  /\ Sound(have) /\ Sound(checked) /\ Sound(master)
  /\ disk \in [Pieces -> {"none", "bad", "good"}]
  /\ saved \in SUBSET (SUBSET Pieces)
  /\ known \in SUBSET Pieces
  /\ checkPos \in 0 .. NPieces
  /\ phase \in {"off", "run", "stopping", "save", "inverted", "merged", "opened"}

\* A piece in the cache is a piece claimed; and there is no cache without a session.
CacheClaimed == dirty \subseteq Members(have) /\ (phase = "off" => dirty = {})

Backed == \A p \in Members(have) : p \in dirty \/ disk[p] = "good"

\* Claims of a session to be relied on are backed while it runs, and while it
\* saves them with nothing left to check; otherwise unchecked pieces are added
\* to what is saved, and only then.
Claims ==
  /\ sure /\ (Looping \/ (Saving /\ checkPos = NPieces)) => Backed
  /\ phase = "inverted" => checkPos # NPieces

\* A session that ended in good order left no record of a piece that is not
\* good, and no record at all only if every piece is.
CleanBacked ==
  clean => /\ phase = "off"
           /\ \A b \in saved : \A p \in b : disk[p] = "good"
           /\ saved = {} => \A p \in Pieces : disk[p] = "good"

IInv == Shape /\ CacheClaimed /\ Claims /\ CleanBacked

-----------------------------------------------------------------------------
(* Parts of the actions. *)

\* A file list makes a sound master filter.
LEMMA ListSound ==
  ASSUME NEW l, NEW h, SetFilterTo(l, h)
  PROVE  Sound(master')
<1>1. \A fs : Sound(Common(fs))
  BY SoundRecalc, BufferRoundTrip DEF Common, SetReferBuffer
<1> QED
  BY <1>1, SoundNew DEF SetFilterTo

LEMMA OffShape ==
  ASSUME Off
  PROVE  /\ Sound(have') /\ Sound(checked') /\ Sound(master') /\ checkPos' \in 0 .. NPieces
         /\ phase' = "off" /\ dirty' = {} /\ Members(have') = {} /\ sure' = FALSE
BY SoundNew, NPiecesAssumption DEF Off

\* The pieces a session starts from: those of the bitfield file, or all without
\* one, as far as they are in the files.
Recorded == IF saved = {} THEN Pieces ELSE CHOOSE b \in saved : TRUE
Found(fails) == IF fails THEN {} ELSE {p \in Pieces : disk'[p] # "none"}

Refer(fails)         == Recorded \cap Found(fails)
Checks(exist, fails) == exist /\ (Found(fails) # {} \/ fails)

LEMMA BeginFacts ==
  ASSUME Shape, NEW force \in BOOLEAN, NEW l, NEW allocate \in BOOLEAN,
         NEW exist \in BOOLEAN, NEW fails \in BOOLEAN, Begin(force, l, allocate, exist, fails)
  PROVE  /\ Sound(have') /\ Sound(checked')
         /\ disk' \in [Pieces -> {"none", "bad", "good"}]
         /\ \A p \in Pieces : disk[p] = "good" <=> disk'[p] = "good"
         /\ saved' = (IF Checks(exist, fails) THEN {} ELSE saved)
         /\ stale' = (saved' # {})
         /\ checkPos' = (IF Checks(exist, fails) /\ ~force THEN 0 ELSE NPieces)
         /\ Members(checked') = (IF Checks(exist, fails) /\ ~force THEN Pieces \ Refer(fails) ELSE Pieces)
         /\ Members(have') = (IF Checks(exist, fails) /\ force THEN Refer(fails) ELSE {})
         /\ excused' = (IF Checks(exist, fails) /\ (stale \/ fails)
                        THEN excused \cup (known \ Refer(fails)) ELSE excused)
         /\ sure' = (~(Checks(exist, fails) /\ force) \/ clean)
         /\ Recorded \in SUBSET Pieces
<1> DEFINE files == IF fails THEN disk
                    ELSE [p \in Pieces |-> IF allocate /\ disk[p] = "none" THEN "bad" ELSE disk[p]]
           found == SetReferBuffer(IF fails THEN {} ELSE {p \in Pieces : files[p] # "none"})
           check == exist /\ (~IsEmpty(found) \/ fails)
           rec   == IF saved = {} THEN Freed ELSE SetReferBuffer(CHOOSE b \in saved : TRUE)
           refer == And(rec, found)
<1>1. disk' = files
  BY DEF Begin
<1>2. /\ disk' \in [Pieces -> {"none", "bad", "good"}]
      /\ \A p \in Pieces : disk[p] = "good" <=> disk'[p] = "good"
  BY <1>1 DEF Shape
<1>3. Sound(found) /\ Members(found) = Found(fails)
  <2>1. Found(fails) \in SUBSET Pieces
    BY DEF Found
  <2>2. found = SetReferBuffer(Found(fails)) /\ Found(fails) \cap Pieces = Found(fails)
    BY <1>1, <2>1 DEF Found
  <2> QED
    BY <2>1, <2>2, SoundRecalc DEF SetReferBuffer
<1>4. Sound(rec) /\ Members(rec) = Recorded /\ Recorded \in SUBSET Pieces
  <2>1. CASE saved = {}
    BY <2>1, SoundFreed DEF Recorded
  <2>2. CASE saved # {}
    <3>1. Recorded \in saved /\ Recorded \in SUBSET Pieces
      BY <2>2 DEF Recorded, Shape
    <3>2. rec = SetReferBuffer(Recorded) /\ Recorded \cap Pieces = Recorded
      BY <2>2, <3>1 DEF Recorded
    <3> QED
      BY <3>1, <3>2, SoundRecalc DEF SetReferBuffer
  <2> QED
    BY <2>1, <2>2
<1>5. Sound(refer) /\ Members(refer) = Refer(fails)
  <2> HIDE DEF found, rec
  <2>1. Sound(refer) /\ Members(refer) = Members(rec) \cap Members(found)
    BY <1>3, <1>4, AndIntersects
  <2> QED
    BY <1>3, <1>4, <2>1 DEF Refer
<1>6. IsEmpty(found) <=> Found(fails) = {}
  BY <1>3, SoundFacts
<1>7. Sound(Invert(refer)) /\ Members(Invert(refer)) = Pieces \ Members(refer)
  BY <1>5, InvertComplements
<1>8. /\ saved' = (IF check THEN {} ELSE saved) /\ stale' = (saved' # {})
      /\ checkPos' = (IF check /\ ~force THEN 0 ELSE NPieces)
      /\ checked' = (IF check /\ ~force THEN Invert(refer) ELSE Freed)
      /\ have' = (IF check /\ force THEN refer ELSE New)
      /\ excused' = (IF check /\ (stale \/ fails) THEN excused \cup (known \ Members(refer)) ELSE excused)
      /\ sure' = (~(check /\ force) \/ clean)
  BY DEF Begin
<1> HIDE DEF files, found, rec, refer
<1>9. check = Checks(exist, fails)
  BY <1>6 DEF Checks
<1> HIDE DEF check
<1>10. Sound(have') /\ Members(have') = (IF check /\ force THEN Refer(fails) ELSE {})
  BY <1>5, <1>8, SoundNew
<1>11. Sound(checked') /\ Members(checked') = (IF check /\ ~force THEN Pieces \ Refer(fails) ELSE Pieces)
  BY <1>5, <1>7, <1>8, SoundFreed
<1> QED
  BY <1>2, <1>4, <1>5, <1>8, <1>9, <1>10, <1>11

\* Option -c finds exactly what is good, or nothing.
LEMMA CheckExistFacts ==
  ASSUME Shape, NEW force \in BOOLEAN, NEW l, CheckExist(force, l)
  PROVE  \E G \in SUBSET Pieces :
           /\ \A p \in G : disk[p] = "good"
           /\ known' = known \cup G /\ excused' = (excused \cup known) \ G
           /\ stale' = FALSE /\ phase = "off" /\ disk' = disk
           /\ force => /\ phase' = "run" /\ saved' = {} /\ clean' = FALSE
                       /\ Sound(have') /\ Members(have') = G
                       /\ Sound(checked') /\ Sound(master') /\ checkPos' = NPieces
                       /\ dirty' = dirty
           /\ ~force => /\ saved' = (IF G = Pieces THEN {} ELSE {G})
                        /\ phase' = phase /\ have' = have /\ checked' = checked
                        /\ master' = master /\ checkPos' = checkPos /\ dirty' = dirty
                        /\ sure' = sure
<1> PICK fails \in BOOLEAN :
      LET good == SetReferBuffer(IF fails THEN {} ELSE {p \in Pieces : disk[p] = "good"})
      IN  /\ phase = "off"
          /\ known' = known \cup Members(good)
          /\ excused' = (excused \cup known) \ Members(good)
          /\ stale' = FALSE
          /\ IF force
             THEN /\ phase' = "run" /\ saved' = {} /\ clean' = FALSE
                  /\ have' = good /\ left' = Total - Bytes(Members(good))
                  /\ checked' = Freed /\ checkPos' = NPieces
                  /\ forced' = TRUE /\ sure' = TRUE
                  /\ SetFilterTo(l, New)
                  /\ UNCHANGED <<caught, dirty, flushFailed>>
             ELSE /\ saved' = IF IsFull(good) THEN {} ELSE {WriteToBuffer(good)}
                  /\ clean' = TRUE
                  /\ UNCHANGED <<phase, session>>
          /\ UNCHANGED disk
  BY DEF CheckExist
<1> DEFINE G == IF fails THEN {} ELSE {p \in Pieces : disk[p] = "good"}
           good == SetReferBuffer(G)
<1>1. G \in SUBSET Pieces /\ G \cap Pieces = G
  OBVIOUS
<1>2. Sound(good) /\ Members(good) = G
  BY <1>1, SoundRecalc DEF SetReferBuffer
<1>3. WriteToBuffer(good) = G /\ (IsFull(good) <=> G = Pieces)
  BY <1>2, SoundFacts DEF WriteToBuffer
<1>4. /\ \A p \in G : disk[p] = "good"
      /\ known' = known \cup G /\ excused' = (excused \cup known) \ G
      /\ stale' = FALSE /\ phase = "off" /\ disk' = disk
  BY <1>2
<1>5. CASE force
  <2>1. /\ phase' = "run" /\ saved' = {} /\ clean' = FALSE
        /\ have' = good /\ checked' = Freed /\ checkPos' = NPieces /\ dirty' = dirty
        /\ SetFilterTo(l, New)
    BY <1>5
  <2>2. Sound(checked') /\ Sound(master')
    BY <2>1, SoundFreed, ListSound
  <2> HIDE DEF G
  <2> QED
    BY <1>1, <1>2, <1>4, <1>5, <2>1, <2>2
<1>6. CASE ~force
  <2>1. /\ saved' = (IF G = Pieces THEN {} ELSE {G})
        /\ phase' = phase /\ have' = have /\ checked' = checked
        /\ master' = master /\ checkPos' = checkPos /\ dirty' = dirty /\ sure' = sure
    BY <1>3, <1>6 DEF session, work, lists
  <2> HIDE DEF G
  <2> QED
    BY <1>1, <1>4, <1>6, <2>1
<1> QED
  BY <1>5, <1>6

-----------------------------------------------------------------------------
(* The invariant is inductive. *)

LEMMA InitIInv == Init => IInv
<1> SUFFICES ASSUME Init PROVE IInv
  OBVIOUS
<1>1. Sound(have) /\ Sound(checked) /\ Sound(master) /\ Members(have) = {}
  BY SoundNew DEF Init
<1>2. Shape
  BY <1>1, NPiecesAssumption DEF Init, Shape
<1>3. CacheClaimed /\ Claims /\ CleanBacked
  BY <1>1 DEF Init, CacheClaimed, Claims, CleanBacked, Looping, Saving
<1> QED
  BY <1>2, <1>3 DEF IInv

LEMMA StartKeeps ==
  ASSUME IInv, NEW force \in BOOLEAN, NEW l, NEW allocate \in BOOLEAN, Start(force, l, allocate)
  PROVE  IInv'
<1> PICK exist \in BOOLEAN, fails \in BOOLEAN : Begin(force, l, allocate, exist, fails)
  BY DEF Start
<1> DEFINE check == Checks(exist, fails)
           refer == Refer(fails)
<1>1. /\ Sound(have') /\ Sound(checked')
      /\ disk' \in [Pieces -> {"none", "bad", "good"}]
      /\ \A p \in Pieces : disk[p] = "good" <=> disk'[p] = "good"
      /\ saved' = (IF check THEN {} ELSE saved)
      /\ checkPos' = (IF check /\ ~force THEN 0 ELSE NPieces)
      /\ Members(have') = (IF check /\ force THEN refer ELSE {})
      /\ sure' = (~(check /\ force) \/ clean)
      /\ Recorded \in SUBSET Pieces
  BY BeginFacts, ZenonT(60) DEF IInv
<1> HIDE DEF check
<1>2. /\ phase = "off" /\ phase' = "run" /\ clean' = FALSE /\ dirty' = dirty /\ known' = known
      /\ SetFilterTo(l, New)
  BY DEF Start
<1>3. Shape'
  BY <1>1, <1>2, ListSound, NPiecesAssumption DEF IInv, Shape
<1>4. CacheClaimed' /\ CleanBacked'
  BY <1>2 DEF IInv, CacheClaimed, CleanBacked
<1>5. Claims'
  <2> SUFFICES ASSUME sure', NEW p \in Members(have') PROVE disk'[p] = "good"
    BY <1>2 DEF Claims, Backed
  <2>1. check /\ force /\ clean /\ p \in Recorded /\ p \in Pieces
    BY <1>1 DEF Refer
  <2>2. CASE saved = {}
    BY <1>1, <2>1, <2>2 DEF IInv, CleanBacked
  <2>3. CASE saved # {}
    <3>1. Recorded \in saved
      BY <2>3 DEF Recorded
    <3> QED
      BY <1>1, <2>1, <3>1 DEF IInv, CleanBacked
  <2> QED
    BY <2>2, <2>3
<1> QED
  BY <1>3, <1>4, <1>5 DEF IInv

LEMMA CheckExistKeeps ==
  ASSUME IInv, NEW force \in BOOLEAN, NEW l, CheckExist(force, l)
  PROVE  IInv'
<1> PICK G \in SUBSET Pieces :
           /\ \A p \in G : disk[p] = "good"
           /\ known' = known \cup G
           /\ phase = "off" /\ disk' = disk
           /\ force => /\ phase' = "run" /\ saved' = {} /\ clean' = FALSE
                       /\ Sound(have') /\ Members(have') = G
                       /\ Sound(checked') /\ Sound(master') /\ checkPos' = NPieces
                       /\ dirty' = dirty
           /\ ~force => /\ saved' = (IF G = Pieces THEN {} ELSE {G})
                        /\ phase' = phase /\ have' = have /\ checked' = checked
                        /\ master' = master /\ checkPos' = checkPos /\ dirty' = dirty
                        /\ sure' = sure
  BY CheckExistFacts DEF IInv
<1>1. CASE force
  <2>1. Shape'
    BY <1>1, NPiecesAssumption DEF IInv, Shape
  <2>2. CacheClaimed' /\ CleanBacked' /\ Claims'
    BY <1>1 DEF IInv, CacheClaimed, CleanBacked, Claims, Backed
  <2> QED
    BY <2>1, <2>2 DEF IInv
<1>2. CASE ~force
  <2>1. Shape'
    BY <1>2 DEF IInv, Shape
  <2>2. CacheClaimed'
    BY <1>2 DEF IInv, CacheClaimed
  <2>3. CleanBacked'
    BY <1>2 DEF CleanBacked
  <2>4. Claims'
    BY <1>2 DEF Claims, Looping, Saving
  <2> QED
    BY <2>1, <2>2, <2>3, <2>4 DEF IInv
<1> QED
  BY <1>1, <1>2

\* The bitfields are untouched, and what is claimed of the pieces grows or stays.
LEMMA CheckKeeps ==
  ASSUME IInv, CheckNextPiece
  PROVE  IInv'
<1>1. /\ disk' = disk /\ saved' = saved /\ sure' = sure /\ dirty' = dirty /\ clean' = clean
      /\ Looping /\ master' = master
  BY DEF CheckNextPiece, lists
<1>2. ~clean
  BY <1>1 DEF IInv, CleanBacked, Looping
<1>3. CASE UNCHANGED <<have, checked, known>> /\ checkPos' \in 0 .. NPieces
                 /\ phase' \in {"run", "stopping"}
  <2>1. Shape'
    BY <1>1, <1>3 DEF IInv, Shape
  <2>2. CacheClaimed' /\ CleanBacked' /\ Claims'
    BY <1>1, <1>2, <1>3 DEF IInv, CacheClaimed, CleanBacked, Claims, Backed, Looping
  <2> QED
    BY <2>1, <2>2 DEF IInv
<1>4. ASSUME NEW idx \in Unchecked, checked' = Set(checked, idx), checkPos' = idx + 1, phase' = phase,
             IF disk[idx] = "good"
             THEN have' = Set(have, idx) /\ known' = known \cup {idx}
             ELSE UNCHANGED <<have, known>>
      PROVE  IInv'
  <2>1. idx \in Pieces /\ idx + 1 \in 0 .. NPieces
    BY NPiecesAssumption DEF Unchecked, Pieces
  <2>2. Sound(checked')
    BY <1>4, <2>1, SetAdds DEF IInv, Shape
  <2>3. /\ Sound(have')
        /\ Members(have') = (IF disk[idx] = "good" THEN Members(have) \cup {idx} ELSE Members(have))
    BY <1>4, <2>1, SetAdds DEF IInv, Shape
  <2>4. Shape'
    BY <1>1, <1>4, <2>1, <2>2, <2>3 DEF IInv, Shape
  <2>5. CacheClaimed' /\ CleanBacked'
    BY <1>1, <1>2, <1>4, <2>3 DEF IInv, CacheClaimed, CleanBacked
  <2>6. Claims'
    BY <1>1, <1>4, <2>3 DEF IInv, Claims, Backed, Looping, Saving
  <2> QED
    BY <2>4, <2>5, <2>6 DEF IInv
<1>5. checkPos \in 0 .. NPieces /\ \A idx \in Unchecked : idx \in 0 .. NPieces
  BY NPiecesAssumption DEF IInv, Shape, Unchecked, Pieces
<1>6. NPieces \in 0 .. NPieces
  BY NPiecesAssumption
<1>7. CASE /\ Unchecked = {} /\ checkPos' = NPieces
           /\ UNCHANGED <<phase, have, checked, left, lists, known, excused>>
  BY <1>1, <1>3, <1>6, <1>7 DEF Looping
<1>8. ASSUME NEW idx \in Unchecked, DiskFails, checkPos' = idx, phase' = "stopping",
             UNCHANGED <<have, checked, left, lists, known, excused>>
      PROVE  IInv'
  BY <1>3, <1>5, <1>8
<1> QED
  BY <1>4, <1>7, <1>8 DEF CheckNextPiece

LEMMA CompleteKeeps ==
  ASSUME IInv, NEW p \in Pieces, Complete(p)
  PROVE  IInv'
<1>1. /\ Looping /\ p \notin Members(have) /\ have' = Set(have, p)
      /\ UNCHANGED <<saved, phase, sure, checked, checkPos, master, clean>>
      /\ \/ dirty' = dirty \cup {p} /\ UNCHANGED <<disk, known>>
         \/ disk' = [disk EXCEPT ![p] = "good"] /\ known' = known \cup {p} /\ UNCHANGED dirty
  BY DEF Complete
<1>2. Sound(have') /\ Members(have') = Members(have) \cup {p}
  BY <1>1, SetAdds DEF IInv, Shape
<1>3. /\ disk' \in [Pieces -> {"none", "bad", "good"}] /\ known' \in SUBSET Pieces
      /\ \A q \in Pieces : disk[q] = "good" => disk'[q] = "good"
      /\ p \in dirty' \/ disk'[p] = "good"
      /\ dirty \subseteq dirty' /\ dirty' \subseteq dirty \cup {p}
  BY <1>1 DEF IInv, Shape
<1>4. Members(have) \subseteq Pieces
  BY SoundFacts DEF IInv, Shape
<1>5. Shape'
  BY <1>1, <1>2, <1>3 DEF IInv, Shape
<1>6. CacheClaimed' /\ CleanBacked'
  BY <1>1, <1>2, <1>3 DEF IInv, CacheClaimed, CleanBacked, Looping
<1>7. Claims'
  BY <1>1, <1>2, <1>3, <1>4 DEF IInv, Claims, Backed, Looping, Saving
<1> QED
  BY <1>5, <1>6, <1>7 DEF IInv

LEMMA PartialKeeps ==
  ASSUME IInv, NEW p \in Pieces, Partial(p)
  PROVE  IInv'
<1>1. /\ Looping /\ p \notin Members(have) /\ disk' = [disk EXCEPT ![p] = "bad"]
      /\ known' = known \ {p}
      /\ UNCHANGED <<saved, phase, sure, have, checked, checkPos, dirty, master, clean>>
  BY DEF Partial, session, work, lists
<1>2. Shape'
  BY <1>1 DEF IInv, Shape
<1>3. CacheClaimed' /\ CleanBacked'
  BY <1>1 DEF IInv, CacheClaimed, CleanBacked, Looping
<1>4. Claims'
  BY <1>1, SoundFacts DEF IInv, Shape, Claims, Backed, Looping, Saving
<1> QED
  BY <1>2, <1>3, <1>4 DEF IInv

LEMMA FlushKeeps ==
  ASSUME IInv, NEW p \in Pieces, Flush(p)
  PROVE  IInv'
<1>1. /\ Looping /\ disk' = [disk EXCEPT ![p] = "good"]
      /\ known' = known \cup {p} /\ dirty' = dirty \ {p}
      /\ UNCHANGED <<saved, phase, sure, have, checked, checkPos, master, clean>>
  BY DEF Flush, lists
<1>2. Shape'
  BY <1>1 DEF IInv, Shape
<1>3. CacheClaimed' /\ CleanBacked'
  BY <1>1 DEF IInv, CacheClaimed, CleanBacked, Looping
<1>4. Claims'
  BY <1>1, SoundFacts DEF IInv, Shape, Claims, Backed, Looping, Saving
<1> QED
  BY <1>2, <1>3, <1>4 DEF IInv

\* Actions that leave the pieces alone and the session in the loop.
LEMMA LoopKeeps ==
  ASSUME IInv, Looping, phase' \in {"run", "stopping"}, Sound(master'),
         UNCHANGED <<disk, saved, sure, have, checked, checkPos, dirty, known, clean>>
  PROVE  IInv'
<1>1. Shape'
  BY DEF IInv, Shape
<1>2. CacheClaimed' /\ CleanBacked' /\ Claims'
  BY DEF IInv, CacheClaimed, CleanBacked, Claims, Backed, Looping
<1> QED
  BY <1>1, <1>2 DEF IInv

LEMMA LoopActionsKeep ==
  ASSUME IInv, FlushFails \/ SeedTimeout \/ Quit \/ sig_catch \/ \E l \in Lists : SetFilter(l)
  PROVE  IInv'
<1>1. CASE FlushFails \/ SeedTimeout \/ Quit \/ sig_catch
  BY <1>1, LoopKeeps DEF FlushFails, SeedTimeout, Quit, sig_catch, Looping, session, work, lists, user, IInv, Shape
<1>2. ASSUME NEW l \in Lists, SetFilter(l) PROVE IInv'
  BY <1>2, LoopKeeps, ListSound DEF SetFilter, Looping, work, user
<1> QED
  BY <1>1, <1>2

\* What a flush of the whole cache leaves of the files.
LEMMA FlushedFacts ==
  ASSUME IInv, NEW lost \in SUBSET dirty, Flushed(lost)
  PROVE  /\ disk' \in [Pieces -> {"none", "bad", "good"}] /\ known' \in SUBSET Pieces
         /\ \A p \in Pieces : disk[p] = "good" => disk'[p] = "good"
         /\ \A p \in dirty \ lost : disk'[p] = "good"
         /\ known' = known \cup (dirty \ lost)
<1>1. dirty \subseteq Pieces
  BY SoundFacts DEF IInv, Shape, CacheClaimed
<1> QED
  BY <1>1 DEF Flushed, IInv, Shape

LEMMA FlushCacheKeeps ==
  ASSUME IInv, NEW lost \in Refused, FlushCache(lost)
  PROVE  IInv'
<1>1. /\ phase = "stopping" /\ phase' = "save" /\ dirty' = lost /\ Flushed(lost)
      /\ UNCHANGED <<saved, sure, have, checked, checkPos, master, clean>>
      /\ lost \in SUBSET dirty
  BY DEF FlushCache, lists, Refused
<1>2. Shape'
  BY <1>1, FlushedFacts DEF IInv, Shape
<1>3. CacheClaimed' /\ CleanBacked'
  BY <1>1 DEF IInv, CacheClaimed, CleanBacked
<1>4. Claims'
  BY <1>1, FlushedFacts, SoundFacts DEF IInv, Shape, Claims, Backed, Looping, Saving
<1> QED
  BY <1>2, <1>3, <1>4 DEF IInv

LEMMA SaveStepsKeep ==
  ASSUME IInv, SaveInvert \/ SaveOr \/ SaveOpen
  PROVE  IInv'
<1>1. CASE SaveInvert
  <2>1. /\ phase = "save" /\ phase' = (IF checkPos < NPieces THEN "inverted" ELSE "merged")
        /\ checked' = (IF checkPos < NPieces THEN Invert(checked) ELSE checked)
        /\ UNCHANGED <<disk, saved, sure, have, checkPos, dirty, master, known, clean>>
    BY <1>1 DEF SaveInvert, lists, user
  <2>2. Sound(checked')
    BY <2>1, InvertComplements DEF IInv, Shape
  <2>3. Shape'
    BY <2>1, <2>2 DEF IInv, Shape
  <2>4. checkPos < NPieces => checkPos # NPieces
    BY NPiecesAssumption DEF IInv, Shape
  <2>5. CacheClaimed' /\ CleanBacked' /\ Claims'
    BY <2>1, <2>4 DEF IInv, CacheClaimed, CleanBacked, Claims, Backed, Looping, Saving
  <2> QED
    BY <2>3, <2>5 DEF IInv
<1>2. CASE SaveOr
  <2>1. /\ phase = "inverted" /\ phase' = "merged" /\ have' = Or(have, checked)
        /\ UNCHANGED <<disk, saved, sure, checked, checkPos, dirty, master, known, clean>>
    BY <1>2 DEF SaveOr, lists, user
  <2>2. Sound(have') /\ Members(have') = Members(have) \cup Members(checked)
    BY <2>1, OrUnites DEF IInv, Shape
  <2>3. Shape'
    BY <2>1, <2>2 DEF IInv, Shape
  <2>4. CacheClaimed' /\ CleanBacked' /\ Claims'
    BY <2>1, <2>2 DEF IInv, CacheClaimed, CleanBacked, Claims, Looping, Saving
  <2> QED
    BY <2>3, <2>4 DEF IInv
<1>3. CASE SaveOpen
  <2>1. /\ phase = "merged" /\ phase' = "opened" /\ saved' = {}
        /\ UNCHANGED <<disk, sure, have, checked, checkPos, dirty, master, known, clean>>
    BY <1>3 DEF SaveOpen, session, work, lists, user
  <2>2. Shape'
    BY <2>1 DEF IInv, Shape
  <2>3. CacheClaimed' /\ CleanBacked' /\ Claims'
    BY <2>1 DEF IInv, CacheClaimed, CleanBacked, Claims, Backed, Looping, Saving
  <2> QED
    BY <2>2, <2>3 DEF IInv
<1> QED
  BY <1>1, <1>2, <1>3

\* How a session ends: with the pieces that were good still good, what was
\* claimed of the saved ones true if the session was a clean one.
LEMMA OffKeeps ==
  ASSUME IInv, Off,
         disk' \in [Pieces -> {"none", "bad", "good"}], known' \in SUBSET Pieces,
         saved' \in SUBSET (SUBSET Pieces),
         clean' => /\ \A b \in saved' : \A p \in b : disk'[p] = "good"
                   /\ saved' = {} => \A p \in Pieces : disk'[p] = "good"
  PROVE  IInv'
<1>1. Shape'
  BY OffShape DEF Shape
<1>2. CacheClaimed' /\ Claims'
  BY OffShape DEF CacheClaimed, Claims, Looping, Saving
<1>3. CleanBacked'
  BY OffShape DEF CleanBacked
<1> QED
  BY <1>1, <1>2, <1>3 DEF IInv

LEMMA EndsKeep ==
  ASSUME IInv, SaveWrite \/ SaveFails \/ Kill
  PROVE  IInv'
<1> USE DEF IInv, Shape
<1>1. CASE SaveFails \/ Kill
  BY <1>1, OffKeeps DEF SaveFails, Kill
<1>2. CASE SaveWrite
  <2>1. Off /\ disk' = disk /\ known' = known /\ clean' = (sure /\ checkPos = NPieces /\ dirty = {})
    BY <1>2 DEF SaveWrite
  <2>2. Members(have) \in SUBSET Pieces /\ WriteToBuffer(have) = Members(have)
        /\ (IsFull(have) <=> Members(have) = Pieces)
    BY SoundFacts DEF WriteToBuffer
  <2>3. ASSUME clean' PROVE \A p \in Members(have) : disk[p] = "good"
    BY <1>2, <2>1, <2>3 DEF SaveWrite, Claims, Backed, Saving
  <2>4. CASE saved' = {Members(have)}
    BY <2>1, <2>2, <2>3, <2>4, OffKeeps
  <2>5. CASE saved' = saved /\ IsFull(have)
    <3>1. \A b \in saved : b \subseteq Pieces
      OBVIOUS
    <3>2. clean' => \A p \in Pieces : disk[p] = "good"
      BY <2>2, <2>3, <2>5
    <3> QED
      BY <2>1, <2>5, <3>1, <3>2, OffKeeps
  <2> QED
    BY <1>2, <2>2, <2>4, <2>5 DEF SaveWrite
<1> QED
  BY <1>1, <1>2

LEMMA SecondSignalKeeps ==
  ASSUME IInv, NEW lost \in Refused, sig_catch2(lost)
  PROVE  IInv'
<1>1. Off /\ clean' = FALSE /\ Flushed(lost) /\ lost \in SUBSET dirty
  BY DEF sig_catch2, Refused
<1>2. Sound(SaveBitfield)
  <2>1. Sound(Invert(checked))
    BY InvertComplements DEF IInv, Shape
  <2> QED
    BY <2>1, OrUnites DEF IInv, Shape, SaveBitfield
<1>3. WriteToBuffer(SaveBitfield) \in SUBSET Pieces
  BY <1>2, SoundFacts DEF WriteToBuffer
<1>4. saved' \in SUBSET (SUBSET Pieces)
  BY <1>3 DEF sig_catch2, IInv, Shape
<1> QED
  BY <1>1, <1>4, FlushedFacts, OffKeeps

LEMMA AlterKeeps ==
  ASSUME IInv, NEW p \in Pieces, Alter(p)
  PROVE  IInv'
<1>1. /\ phase = "off" /\ disk' = [disk EXCEPT ![p] = "bad"] /\ known' = known \ {p} /\ clean' = FALSE
      /\ UNCHANGED <<saved, phase, sure, have, checked, checkPos, dirty, master>>
  BY DEF Alter, session, work, lists
<1>2. Shape'
  BY <1>1 DEF IInv, Shape
<1>3. CacheClaimed' /\ CleanBacked' /\ Claims'
  BY <1>1 DEF IInv, CacheClaimed, CleanBacked, Claims, Looping, Saving
<1> QED
  BY <1>2, <1>3 DEF IInv

LEMMA NextKeepsIInv == IInv /\ [Next]_vars => IInv'
<1> SUFFICES ASSUME IInv, [Next]_vars PROVE IInv'
  OBVIOUS
<1>1. CASE \E force, allocate \in BOOLEAN, l \in Lists : Start(force, l, allocate)
  BY <1>1, StartKeeps
<1>2. CASE \E force \in BOOLEAN, l \in Lists : CheckExist(force, l)
  BY <1>2, CheckExistKeeps
<1>3. CASE CheckNextPiece
  BY <1>3, CheckKeeps
<1>4. CASE \E p \in Pieces : Complete(p) \/ Partial(p) \/ Flush(p) \/ Alter(p)
  BY <1>4, CompleteKeeps, PartialKeeps, FlushKeeps, AlterKeeps
<1>5. CASE FlushFails \/ SeedTimeout \/ Quit \/ sig_catch \/ \E l \in Lists : SetFilter(l)
  BY <1>5, LoopActionsKeep
<1>6. CASE \E lost \in Refused : FlushCache(lost) \/ sig_catch2(lost)
  BY <1>6, FlushCacheKeeps, SecondSignalKeeps
<1>7. CASE SaveInvert \/ SaveOr \/ SaveOpen
  BY <1>7, SaveStepsKeep
<1>8. CASE SaveWrite \/ SaveFails \/ Kill
  BY <1>8, EndsKeep
<1>9. CASE UNCHANGED vars
  <2>1. UNCHANGED <<disk, saved, phase, sure, have, checked, checkPos, dirty, master, known, clean>>
    BY <1>9 DEF vars, session, work, lists, user
  <2>2. Shape'
    BY <2>1 DEF IInv, Shape
  <2>3. CacheClaimed' /\ CleanBacked' /\ Claims'
    BY <2>1 DEF IInv, CacheClaimed, CleanBacked, Claims, Backed, Looping, Saving
  <2> QED
    BY <2>2, <2>3 DEF IInv
<1> QED
  BY <1>1, <1>2, <1>3, <1>4, <1>5, <1>6, <1>7, <1>8, <1>9 DEF Next

\* In every session that checked hashes, or was forced after a session that
\* ended in good order, every piece claimed is in the cache or good in the
\* files, whatever writes are refused and however sessions end.
THEOREM ClaimsAreTrue == Spec => []ClaimsTrue
<1>1. IInv => ClaimsTrue
  BY DEF IInv, Claims, ClaimsTrue, Backed
<1> QED
  BY <1>1, InitIInv, NextKeepsIInv, PTL DEF Spec

-----------------------------------------------------------------------------
(* A good piece found before is not fetched again.                         *)

KnownGood == \A p \in known : disk[p] = "good"

\* A session has consumed the bitfield file, or it is out of date.
FileConsumed == phase # "off" => saved = {} \/ stale

\* Where the knowledge of a piece is kept: in the bitfields of a session, also
\* while they are merged, and then in the bitfield file.
Remembered ==
  \A p \in known \ excused :
    /\ Looping \/ phase = "save" => Kept(p)
    /\ phase = "inverted" => p \in Members(have) \/ p \in Members(checked)
    /\ phase \in {"merged", "opened"} => p \in Members(have)
    /\ phase = "off" => saved = {} \/ stale \/ \A b \in saved : p \in b

RInv == IInv /\ KnownGood /\ FileConsumed /\ Remembered

LEMMA StartRemembers ==
  ASSUME RInv, NEW force \in BOOLEAN, NEW l, NEW allocate \in BOOLEAN, Start(force, l, allocate)
  PROVE  KnownGood' /\ FileConsumed' /\ Remembered'
<1> PICK exist \in BOOLEAN, fails \in BOOLEAN :
         /\ InFiles # {} => exist
         /\ Begin(force, l, allocate, exist, fails)
  BY DEF Start
<1> DEFINE check == Checks(exist, fails)
           refer == Refer(fails)
<1>1. /\ disk' \in [Pieces -> {"none", "bad", "good"}]
      /\ \A p \in Pieces : disk[p] = "good" <=> disk'[p] = "good"
      /\ saved' = (IF check THEN {} ELSE saved) /\ stale' = (saved' # {})
      /\ checkPos' = (IF check /\ ~force THEN 0 ELSE NPieces)
      /\ Members(checked') = (IF check /\ ~force THEN Pieces \ refer ELSE Pieces)
      /\ Members(have') = (IF check /\ force THEN refer ELSE {})
      /\ excused' = (IF check /\ (stale \/ fails) THEN excused \cup (known \ refer) ELSE excused)
  <2>1. Shape
    BY DEF RInv, IInv
  <2> QED
    BY <2>1, BeginFacts, ZenonT(60)
<1>2. phase = "off" /\ phase' = "run" /\ known' = known /\ known \in SUBSET Pieces
  BY DEF Start, RInv, IInv, Shape
<1>3. KnownGood' /\ FileConsumed'
  BY <1>1, <1>2 DEF RInv, KnownGood, FileConsumed
<1>4. ASSUME NEW p \in known', p \notin excused' PROVE Kept(p)'
  <2>1. p \in Pieces /\ disk[p] = "good" /\ disk'[p] = "good" /\ p \in known /\ exist
    BY <1>1, <1>2, <1>4 DEF RInv, KnownGood, InFiles
  <2>2. check
    <3>1. ~fails => p \in Found(fails)
      BY <2>1 DEF Found
    <3> QED
      BY <2>1, <3>1 DEF Checks
  <2>3. p \in refer
    <3>1. CASE stale \/ fails
      BY <1>1, <1>4, <2>1, <2>2, <3>1
    <3>2. CASE ~(stale \/ fails)
      <4> USE DEF Refer
      <4>1. p \in Found(fails)
        BY <2>1, <3>2 DEF Found
      <4>2. p \notin excused
        BY <1>1, <1>4, <3>2
      <4>3. saved = {} \/ \A b \in saved : p \in b
        BY <1>2, <2>1, <3>2, <4>2 DEF RInv, Remembered
      <4>4. p \in Recorded
        BY <2>1, <4>3 DEF Recorded
      <4> QED
        BY <4>1, <4>4
    <3> QED
      BY <3>1, <3>2
  <2>4. p >= 0
    BY <2>1, NPiecesAssumption DEF Pieces
  <2> HIDE DEF check, refer
  <2> QED
    BY <1>1, <2>2, <2>3, <2>4 DEF Kept
<1> QED
  BY <1>2, <1>3, <1>4 DEF Remembered

LEMMA CheckExistRemembers ==
  ASSUME RInv, NEW force \in BOOLEAN, NEW l, CheckExist(force, l)
  PROVE  KnownGood' /\ FileConsumed' /\ Remembered'
<1> PICK G \in SUBSET Pieces :
           /\ \A p \in G : disk[p] = "good"
           /\ known' = known \cup G /\ excused' = (excused \cup known) \ G
           /\ phase = "off" /\ disk' = disk
           /\ force => phase' = "run" /\ saved' = {} /\ Members(have') = G
           /\ ~force => saved' = (IF G = Pieces THEN {} ELSE {G}) /\ phase' = phase
  BY CheckExistFacts DEF RInv, IInv
<1>1. KnownGood'
  BY DEF RInv, KnownGood
<1>2. known' \ excused' \subseteq G
  OBVIOUS
<1> QED
  BY <1>1, <1>2 DEF FileConsumed, Remembered, Kept, Looping

LEMMA CheckRemembers ==
  ASSUME RInv, CheckNextPiece
  PROVE  KnownGood' /\ FileConsumed' /\ Remembered'
<1>1. /\ disk' = disk /\ saved' = saved /\ stale' = stale /\ Looping
      /\ phase' \in {"run", "stopping"}
  BY DEF CheckNextPiece, Looping
<1>2. FileConsumed'
  BY <1>1 DEF RInv, FileConsumed, Looping
<1>3. /\ known \in SUBSET Pieces /\ Sound(have) /\ Sound(checked)
      /\ checkPos \in 0 .. NPieces /\ Pieces \subseteq Nat
  BY NPiecesAssumption DEF RInv, IInv, Shape, Pieces
<1>4. \A p \in known \ excused : p \in Members(have) \/ p \in Unchecked
  BY <1>1, <1>3 DEF RInv, Remembered, Kept, Unchecked
<1>5. CASE /\ Unchecked = {} /\ checkPos' = NPieces
           /\ UNCHANGED <<phase, have, checked, left, lists, known, excused>>
  BY <1>1, <1>2, <1>4, <1>5 DEF RInv, KnownGood, Remembered, Kept
<1>6. ASSUME NEW idx \in Unchecked, \A p \in Unchecked : idx <= p, checkPos' = idx,
             UNCHANGED <<have, checked, known, excused>>
      PROVE  KnownGood' /\ FileConsumed' /\ Remembered'
  <2>1. \A p \in Unchecked : p \notin Members(checked) /\ p >= idx
    BY <1>3, <1>6 DEF Unchecked
  <2> QED
    BY <1>1, <1>2, <1>4, <1>6, <2>1 DEF RInv, KnownGood, Remembered, Kept
<1>7. ASSUME NEW idx \in Unchecked, \A p \in Unchecked : idx <= p,
             checked' = Set(checked, idx), checkPos' = idx + 1,
             IF disk[idx] = "good"
             THEN have' = Set(have, idx) /\ known' = known \cup {idx} /\ excused' = excused \ {idx}
             ELSE UNCHANGED <<have, known, excused>>
      PROVE  KnownGood' /\ FileConsumed' /\ Remembered'
  <2>1. idx \in Pieces /\ idx \in Nat
    BY <1>3 DEF Unchecked
  <2>2. Members(checked') = Members(checked) \cup {idx}
    BY <1>3, <1>7, <2>1, SetAdds
  <2>3. Members(have') = (IF disk[idx] = "good" THEN Members(have) \cup {idx} ELSE Members(have))
    BY <1>3, <1>7, <2>1, SetAdds
  <2>4. \A p \in Unchecked : p # idx => p \notin Members(checked') /\ p >= idx + 1
    BY <1>3, <1>7, <2>1, <2>2 DEF Unchecked
  <2>5. KnownGood'
    BY <1>1, <1>7 DEF RInv, KnownGood
  <2>6. ASSUME NEW p \in known', p \notin excused' PROVE Kept(p)'
    <3>1. CASE p = idx
      <4>1. disk[idx] = "good"
        BY <1>1, <2>5, <2>6, <3>1 DEF KnownGood
      <4> QED
        BY <2>3, <3>1, <4>1 DEF Kept
    <3>2. CASE p # idx
      <4>1. p \in known /\ p \notin excused
        BY <1>7, <2>6, <3>2
      <4> QED
        BY <1>4, <1>7, <2>3, <2>4, <3>2, <4>1 DEF Kept
    <3> QED
      BY <3>1, <3>2
  <2> QED
    BY <1>1, <1>2, <2>5, <2>6 DEF Remembered
<1>8. CASE \E idx \in Unchecked :
          /\ \A p \in Unchecked : idx <= p
          /\ DiskFails /\ checkPos' = idx /\ phase' = "stopping"
          /\ UNCHANGED <<have, checked, left, lists, known, excused>>
  BY <1>6, <1>8
<1> QED
  BY <1>5, <1>7, <1>8 DEF CheckNextPiece

LEMMA PieceActionsRemember ==
  ASSUME RInv, NEW p \in Pieces, Complete(p) \/ Partial(p) \/ Flush(p)
  PROVE  KnownGood' /\ FileConsumed' /\ Remembered'
<1>1. /\ Looping /\ UNCHANGED <<saved, phase, stale, checked, checkPos>>
      /\ disk \in [Pieces -> {"none", "bad", "good"}] /\ known \in SUBSET Pieces
      /\ dirty \subseteq Members(have) /\ Sound(have)
  BY DEF Complete, Partial, Flush, session, work, lists, RInv, IInv, Shape, CacheClaimed
<1>2. FileConsumed'
  BY <1>1 DEF RInv, FileConsumed
<1>3. ASSUME \/ known' = known /\ disk' = disk
             \/ known' = known \cup {p} /\ disk' = [disk EXCEPT ![p] = "good"]
             \/ known' = known \ {p} /\ disk' = [disk EXCEPT ![p] = "bad"]
      PROVE  KnownGood'
  BY <1>1, <1>3 DEF RInv, KnownGood
<1>4. CASE Complete(p)
  <2>1. /\ have' = Set(have, p) /\ excused' = excused \ {p}
        /\ \/ known' = known /\ disk' = disk
           \/ known' = known \cup {p} /\ disk' = [disk EXCEPT ![p] = "good"]
    BY <1>4 DEF Complete
  <2>2. Members(have') = Members(have) \cup {p}
    BY <1>1, <2>1, SetAdds
  <2>3. Remembered'
    BY <1>1, <2>1, <2>2 DEF RInv, Remembered, Kept, Looping
  <2> QED
    BY <1>2, <1>3, <2>1, <2>3
<1>5. CASE Partial(p)
  <2>1. /\ UNCHANGED <<have, excused>>
        /\ known' = known \ {p} /\ disk' = [disk EXCEPT ![p] = "bad"]
    BY <1>5 DEF Partial, session, work
  <2>2. Remembered'
    BY <1>1, <2>1 DEF RInv, Remembered, Kept, Looping
  <2> QED
    BY <1>2, <1>3, <2>1, <2>2
<1>6. CASE Flush(p)
  <2>1. /\ UNCHANGED <<have, excused>> /\ p \in Members(have)
        /\ known' = known \cup {p} /\ disk' = [disk EXCEPT ![p] = "good"]
    BY <1>1, <1>6 DEF Flush
  <2>2. Remembered'
    BY <1>1, <2>1 DEF RInv, Remembered, Kept, Looping
  <2> QED
    BY <1>2, <1>3, <2>1, <2>2
<1> QED
  BY <1>4, <1>5, <1>6

LEMMA LoopActionsRemember ==
  ASSUME RInv, FlushFails \/ SeedTimeout \/ Quit \/ sig_catch \/ \E l \in Lists : SetFilter(l)
  PROVE  KnownGood' /\ FileConsumed' /\ Remembered'
<1>1. /\ Looping /\ Looping' /\ UNCHANGED <<disk, saved, stale, have, checked, checkPos, known, excused>>
  BY DEF FlushFails, SeedTimeout, Quit, sig_catch, SetFilter, Looping, session, work, lists, user
<1> QED
  BY <1>1 DEF RInv, KnownGood, FileConsumed, Remembered, Kept, Looping

LEMMA SavingRemembers ==
  ASSUME RInv, SaveInvert \/ SaveOr \/ SaveOpen \/ \E lost \in Refused : FlushCache(lost)
  PROVE  KnownGood' /\ FileConsumed' /\ Remembered'
<1>1. /\ known \in SUBSET Pieces /\ Sound(have) /\ Sound(checked) /\ NPieces \in Nat
      /\ Pieces = 0 .. NPieces - 1 /\ dirty \subseteq Members(have) /\ checkPos \in 0 .. NPieces
  BY NPiecesAssumption DEF RInv, IInv, Shape, CacheClaimed, Pieces
<1>2. CASE \E lost \in Refused : FlushCache(lost)
  <2> PICK lost \in SUBSET dirty : FlushCache(lost)
    BY <1>2 DEF Refused
  <2>1. /\ phase = "stopping" /\ phase' = "save"
        /\ UNCHANGED <<saved, stale, have, checked, checkPos, excused>>
        /\ known' = known \cup (dirty \ lost)
        /\ \A p \in Pieces : disk[p] = "good" => disk'[p] = "good"
        /\ \A p \in dirty \ lost : disk'[p] = "good"
    BY FlushedFacts DEF FlushCache, RInv
  <2>2. KnownGood' /\ FileConsumed'
    BY <1>1, <2>1 DEF RInv, KnownGood, FileConsumed
  <2>3. Remembered'
    BY <1>1, <2>1 DEF RInv, Remembered, Kept, Looping
  <2> QED
    BY <2>2, <2>3
<1>3. CASE SaveInvert
  <2>1. /\ phase = "save" /\ phase' = (IF checkPos < NPieces THEN "inverted" ELSE "merged")
        /\ checked' = (IF checkPos < NPieces THEN Invert(checked) ELSE checked)
        /\ UNCHANGED <<disk, saved, stale, have, checkPos, known, excused>>
    BY <1>3 DEF SaveInvert, lists, user
  <2>2. \A p \in known \ excused : p \in Members(have) \/ (p \notin Members(checked) /\ p >= checkPos)
    BY <2>1 DEF RInv, Remembered, Kept
  <2>3. CASE checkPos < NPieces
    <3>1. Members(checked') = Pieces \ Members(checked)
      BY <1>1, <2>1, <2>3, InvertComplements
    <3> QED
      BY <1>1, <2>1, <2>2, <2>3, <3>1 DEF RInv, KnownGood, FileConsumed, Remembered, Looping
  <2>4. CASE ~(checkPos < NPieces)
    <3>1. \A p \in known \ excused : p \in Members(have)
      BY <1>1, <2>2, <2>4
    <3> QED
      BY <2>1, <2>4, <3>1 DEF RInv, KnownGood, FileConsumed, Remembered, Looping
  <2> QED
    BY <2>3, <2>4
<1>4. CASE SaveOr
  <2>1. /\ phase = "inverted" /\ phase' = "merged" /\ have' = Or(have, checked)
        /\ UNCHANGED <<disk, saved, stale, known, excused>>
    BY <1>4 DEF SaveOr, user
  <2>2. Members(have') = Members(have) \cup Members(checked)
    BY <1>1, <2>1, OrUnites
  <2> QED
    BY <2>1, <2>2 DEF RInv, KnownGood, FileConsumed, Remembered, Looping
<1>5. CASE SaveOpen
  BY <1>5 DEF SaveOpen, session, work, user, RInv, KnownGood, FileConsumed, Remembered, Looping
<1> QED
  BY <1>2, <1>3, <1>4, <1>5

LEMMA EndsRemember ==
  ASSUME RInv, SaveWrite \/ SaveFails \/ Kill
  PROVE  KnownGood' /\ FileConsumed' /\ Remembered'
<1>1. /\ phase # "off" /\ phase' = "off" /\ UNCHANGED <<disk, known, excused>>
  BY OffShape DEF SaveWrite, SaveFails, Kill
<1>2. KnownGood' /\ FileConsumed'
  BY <1>1 DEF RInv, KnownGood, FileConsumed
<1>3. CASE UNCHANGED <<saved, stale>>
  BY <1>1, <1>2, <1>3 DEF RInv, FileConsumed, Remembered, Looping
<1>4. CASE phase = "opened" /\ saved' = {WriteToBuffer(have)}
  <2>1. WriteToBuffer(have) = Members(have)
    BY SoundFacts DEF RInv, IInv, Shape, WriteToBuffer
  <2> QED
    BY <1>1, <1>2, <1>4, <2>1 DEF RInv, Remembered, Looping
<1> QED
  BY <1>3, <1>4 DEF SaveWrite, SaveFails, Kill

LEMMA SecondSignalRemembers ==
  ASSUME RInv, NEW lost \in Refused, sig_catch2(lost)
  PROVE  KnownGood' /\ FileConsumed' /\ Remembered'
<1> DEFINE kept == Members(have) \cup (IF checkPos < NPieces THEN Pieces \ Members(checked) ELSE {})
<1>1. /\ phase # "off" /\ phase' = "off" /\ Flushed(lost) /\ lost \in SUBSET dirty
      /\ excused' = excused \cup (IF Saving THEN known \ Members(SaveBitfield) ELSE {})
      /\ Looping \/ Saving
      /\ IF IsFull(SaveBitfield) THEN UNCHANGED <<saved, stale>>
                                ELSE saved' = {WriteToBuffer(SaveBitfield)}
  BY OffShape DEF sig_catch2, Refused, Looping, Saving
<1>2. /\ known \in SUBSET Pieces /\ Sound(have) /\ Sound(checked) /\ NPieces \in Nat
      /\ Pieces = 0 .. NPieces - 1 /\ dirty \subseteq Members(have) /\ checkPos \in 0 .. NPieces
  BY NPiecesAssumption DEF RInv, IInv, Shape, CacheClaimed, Pieces
<1>3. Sound(SaveBitfield) /\ Members(SaveBitfield) = kept
  <2>1. Sound(Invert(checked)) /\ Members(Invert(checked)) = Pieces \ Members(checked)
    BY <1>2, InvertComplements
  <2> QED
    BY <1>2, <2>1, OrUnites DEF SaveBitfield
<1>4. WriteToBuffer(SaveBitfield) = kept
  BY <1>3, SoundFacts DEF WriteToBuffer
<1>5. /\ known' = known \cup (dirty \ lost)
      /\ \A p \in Pieces : disk[p] = "good" => disk'[p] = "good"
      /\ \A p \in dirty \ lost : disk'[p] = "good"
  BY <1>1, FlushedFacts DEF RInv
<1>6. KnownGood' /\ FileConsumed'
  BY <1>1, <1>2, <1>5 DEF RInv, KnownGood, FileConsumed
<1>7. ASSUME NEW p \in known', p \notin excused' PROVE p \in kept
  <2>1. CASE p \in dirty
    BY <1>2, <2>1
  <2>2. CASE p \notin dirty /\ Saving
    BY <1>1, <1>3, <1>5, <1>7, <2>2
  <2>3. CASE p \notin dirty /\ Looping
    <3>1. Kept(p) /\ p \in Pieces
      BY <1>1, <1>2, <1>5, <1>7, <2>3 DEF RInv, Remembered
    <3> QED
      BY <1>2, <3>1 DEF Kept
  <2> QED
    BY <1>1, <2>1, <2>2, <2>3
<1>8. CASE UNCHANGED <<saved, stale>>
  BY <1>1, <1>6, <1>8 DEF RInv, FileConsumed, Remembered, Looping
<1>9. CASE saved' = {kept}
  <2> HIDE DEF kept
  <2> QED
    BY <1>1, <1>6, <1>7, <1>9 DEF Remembered, Looping
<1> QED
  BY <1>1, <1>4, <1>8, <1>9

LEMMA NextRemembers == RInv /\ [Next]_vars => RInv'
<1> SUFFICES ASSUME RInv, [Next]_vars PROVE KnownGood' /\ FileConsumed' /\ Remembered'
  BY NextKeepsIInv DEF RInv
<1>1. CASE \E force, allocate \in BOOLEAN, l \in Lists : Start(force, l, allocate)
  BY <1>1, StartRemembers
<1>2. CASE \E force \in BOOLEAN, l \in Lists : CheckExist(force, l)
  BY <1>2, CheckExistRemembers
<1>3. CASE CheckNextPiece
  BY <1>3, CheckRemembers
<1>4. CASE \E p \in Pieces : Complete(p) \/ Partial(p) \/ Flush(p)
  BY <1>4, PieceActionsRemember
<1>5. CASE FlushFails \/ SeedTimeout \/ Quit \/ sig_catch \/ \E l \in Lists : SetFilter(l)
  BY <1>5, LoopActionsRemember
<1>6. CASE SaveInvert \/ SaveOr \/ SaveOpen \/ \E lost \in Refused : FlushCache(lost)
  BY <1>6, SavingRemembers
<1>7. CASE SaveWrite \/ SaveFails \/ Kill
  BY <1>7, EndsRemember
<1>8. CASE \E lost \in Refused : sig_catch2(lost)
  BY <1>8, SecondSignalRemembers
<1>9. CASE \E p \in Pieces : Alter(p)
  <2> PICK p \in Pieces : Alter(p)
    BY <1>9
  <2>1. /\ phase = "off" /\ disk' = [disk EXCEPT ![p] = "bad"] /\ known' = known \ {p}
        /\ UNCHANGED <<saved, phase, stale, excused>>
        /\ disk \in [Pieces -> {"none", "bad", "good"}] /\ known \in SUBSET Pieces
    BY DEF Alter, session, RInv, IInv, Shape
  <2>2. KnownGood'
    BY <2>1 DEF RInv, KnownGood
  <2> QED
    BY <2>1, <2>2 DEF RInv, FileConsumed, Remembered, Looping
<1>10. CASE UNCHANGED vars
  BY <1>10 DEF vars, session, work, lists, user, RInv, KnownGood, FileConsumed, Remembered, Kept, Looping
<1> QED
  BY <1>1, <1>2, <1>3, <1>4, <1>5, <1>6, <1>7, <1>8, <1>9, <1>10 DEF Next

\* However sessions end, a piece that was good when it was last looked at, and
\* that no stale file, cut-off save or failed staging made the client forget, is
\* had, or will be found again by the check that is under way.
THEOREM GoodPiecesKept == Spec => []NotFetchedAgain
<1>1. Init => RInv
  BY InitIInv DEF Init, RInv, KnownGood, FileConsumed, Remembered
<1>2. RInv => NotFetchedAgain
  BY DEF RInv, Remembered, NotFetchedAgain
<1> QED
  BY <1>1, <1>2, NextRemembers, PTL DEF Spec

-----------------------------------------------------------------------------
(* Induction over numbers and the recursive functions.                     *)

\* A set of numbers that is not empty has a least one.
LEMMA LeastNumber ==
  ASSUME NEW T \in SUBSET Nat, T # {}
  PROVE  \E n \in T : \A m \in T : n <= m
<1> DEFINE R == OpToRel(<, Nat)
<1>1. IsWellFoundedOn(R, Nat)
  BY NatLessThanWellFounded, Zenon
<1>2. \A m, n \in Nat : <<m, n>> \in R <=> m < n
  BY DEF OpToRel
<1> HIDE DEF R
<1>3. \E n \in T : \A m \in T : ~ (<<m, n>> \in R)
  BY <1>1, WFMin, Zenon
<1>4. PICK n \in T : \A m \in T : ~ (<<m, n>> \in R)
  BY <1>3
<1>5. ASSUME NEW m \in T
      PROVE  n <= m
  <2>1. ~ (m < n)
    BY <1>2, <1>4
  <2> QED
    BY <2>1
<1> QED
  BY <1>5

\* f gives the ends of the first n files.
Ends(f, n) == f[0] = 0 /\ \A i \in 1 .. n : f[i] = f[i - 1] + FileLengths[i]

LEMMA EndsExist ==
  \E f \in [0 .. Len(FileLengths) -> Nat] : Ends(f, Len(FileLengths))
<1> DEFINE L == Len(FileLengths)
           T == {n \in Nat : n <= L /\ ~ \E f \in [0 .. n -> Nat] : Ends(f, n)}
<1>1. L \in Nat /\ \A i \in 1 .. L : FileLengths[i] \in Nat
  BY ContentAssumption DEF ContentAssumption
<1>2. SUFFICES T = {}
  BY <1>1
<1>3. SUFFICES ASSUME T # {} PROVE FALSE
  OBVIOUS
<1>4. PICK m \in T : \A k \in T : m <= k
  BY LeastNumber
<1>5. m # 0
  <2>1. [i \in 0 .. 0 |-> 0] \in [0 .. 0 -> Nat] /\ Ends([i \in 0 .. 0 |-> 0], 0)
    BY DEF Ends
  <2> QED
    BY <2>1, <1>4
<1>6. m - 1 \in Nat /\ m - 1 <= L /\ m - 1 \notin T /\ m \in 1 .. L
  <2>1. m \in Nat /\ m <= L
    OBVIOUS
  <2>2. m - 1 \in Nat /\ m - 1 <= L /\ m \in 1 .. L /\ ~ (m <= m - 1)
    BY <1>1, <1>5, <2>1
  <2> HIDE DEF T
  <2> QED
    BY <1>4, <2>2
<1>7. PICK f \in [0 .. m - 1 -> Nat] : Ends(f, m - 1)
  BY <1>6
<1> DEFINE g == [i \in 0 .. m |-> IF i = m THEN f[m - 1] + FileLengths[m] ELSE f[i]]
<1>8. g \in [0 .. m -> Nat]
  BY <1>1, <1>6, <1>7
<1>9. Ends(g, m)
  <2>1. g[0] = f[0]
    BY <1>6
  <2>2. ASSUME NEW i \in 1 .. m
        PROVE  g[i] = g[i - 1] + FileLengths[i]
    <3>1. CASE i = m
      BY <1>6, <3>1
    <3>2. CASE i # m
      <4>1. i \in 1 .. m - 1 /\ i - 1 # m /\ i - 1 \in 0 .. m /\ i \in 0 .. m
        BY <1>6, <3>2
      <4>2. f[i] = f[i - 1] + FileLengths[i]
        BY <1>7, <4>1 DEF Ends
      <4> QED
        BY <3>2, <4>1, <4>2
    <3> QED
      BY <3>1, <3>2
  <2> QED
    BY <1>7, <2>1, <2>2 DEF Ends
<1> QED
  BY <1>4, <1>8, <1>9

\* The recursive definition has such a function.
LEMMA FileEndRecursive ==
  /\ FileEnd \in [0 .. Len(FileLengths) -> Nat]
  /\ FileEnd[0] = 0
  /\ \A n \in 1 .. Len(FileLengths) : FileEnd[n] = FileEnd[n - 1] + FileLengths[n]
<1> DEFINE L == Len(FileLengths)
<1>1. L \in Nat /\ \A i \in 1 .. L : FileLengths[i] \in Nat
  BY ContentAssumption DEF ContentAssumption
<1>2. PICK f \in [0 .. L -> Nat] : Ends(f, L)
  BY EndsExist
<1>3. f = [n \in 0 .. L |-> IF n = 0 THEN 0 ELSE f[n - 1] + FileLengths[n]]
  BY <1>1, <1>2 DEF Ends
<1>4. FileEnd = [n \in 0 .. L |-> IF n = 0 THEN 0 ELSE FileEnd[n - 1] + FileLengths[n]]
  BY <1>3, Zenon DEF FileEnd
<1>5. ASSUME NEW n \in 0 .. L
      PROVE  FileEnd[n] = f[n]
  <2> DEFINE T == {k \in Nat : k <= L /\ FileEnd[k] # f[k]}
  <2> SUFFICES ASSUME T # {} PROVE FALSE
    BY <1>1
  <2>1. PICK m \in T : \A k \in T : m <= k
    BY LeastNumber
  <2>2. m # 0
    BY <1>1, <1>2, <1>4, <2>1 DEF Ends
  <2>3. FileEnd[m - 1] = f[m - 1]
    BY <1>1, <2>1, <2>2
  <2> QED
    BY <1>1, <1>2, <1>4, <2>1, <2>2, <2>3 DEF Ends
<1> QED
  BY <1>1, <1>2, <1>4, <1>5 DEF Ends

-----------------------------------------------------------------------------
(* Bytes.                                                                  *)

\* What the last piece is shorter by, and the bytes of a set of pieces by its size.
Short       == PieceLength - LengthOf(NPieces - 1)
Measured(S) == PieceLength * Cardinality(S) - (IF NPieces - 1 \in S THEN Short ELSE 0)

LEMMA TotalNat == Total \in Nat /\ PieceLength \in Nat \ {0}
BY FileEndRecursive, ContentAssumption DEF Total, ContentAssumption

LEMMA LengthFacts ==
  /\ \A p \in Pieces : p # NPieces - 1 => LengthOf(p) = PieceLength
  /\ LengthOf(NPieces - 1) \in 0 .. PieceLength /\ Short \in 0 .. PieceLength
<1>1. Total % PieceLength \in 0 .. PieceLength - 1
  BY TotalNat
<1>2. LengthOf(NPieces - 1) \in 0 .. PieceLength
  BY <1>1, TotalNat DEF LengthOf
<1> QED
  BY <1>2, TotalNat DEF LengthOf, Short

LEMMA Times == \A a, b \in Int : a * (b + 1) = a * b + a /\ a * b \in Int
  OBVIOUS

LEMMA MeasuredOne ==
  ASSUME NEW S \in SUBSET Pieces, NEW p \in S
  PROVE  /\ Measured(S) = LengthOf(p) + Measured(S \ {p})
         /\ Measured(S) \in Int
<1>1. /\ IsFiniteSet(S) /\ Cardinality(S) \in Nat /\ Cardinality(S \ {p}) \in Nat
      /\ Cardinality(S) = Cardinality(S \ {p}) + 1
  BY PieceSets, FS_RemoveElement
<1> DEFINE n == Cardinality(S \ {p})
<1>2. PieceLength * Cardinality(S) = PieceLength * n + PieceLength /\ PieceLength * n \in Int
  BY <1>1, TotalNat, Times
<1> HIDE DEF n
<1>3. p \in Pieces /\ LengthOf(p) \in Int /\ Short \in Int
  BY LengthFacts, TotalNat
<1>4. CASE p = NPieces - 1
  <2>1. Measured(S) = PieceLength * Cardinality(S) - Short
    BY <1>4 DEF Measured
  <2>2. Measured(S \ {p}) = PieceLength * n
    BY <1>4, <1>2 DEF Measured, n
  <2> QED
    BY <1>2, <1>3, <1>4, <2>1, <2>2, TotalNat DEF Short
<1>5. CASE p # NPieces - 1
  <2>1. NPieces - 1 \in S <=> NPieces - 1 \in S \ {p}
    BY <1>5
  <2>2. LengthOf(p) = PieceLength
    BY <1>3, <1>5, LengthFacts
  <2>3. Measured(S) = PieceLength * Cardinality(S) - (IF NPieces - 1 \in S THEN Short ELSE 0)
    BY DEF Measured
  <2>4. Measured(S \ {p}) = PieceLength * n - (IF NPieces - 1 \in S THEN Short ELSE 0)
    BY <2>1 DEF Measured, n
  <2> QED
    BY <1>2, <1>3, <2>2, <2>3, <2>4, TotalNat
<1> QED
  BY <1>4, <1>5

LEMMA MeasuredEmpty == Measured({}) = 0
<1>1. Cardinality({}) = 0
  BY FS_EmptySet
<1> QED
  BY <1>1, TotalNat DEF Measured

\* Bytes, a sum taken over the pieces in an unknown order, is that measure.
LEMMA BytesMeasured ==
  ASSUME NEW S \in SUBSET Pieces
  PROVE  Bytes(S) = Measured(S)
<1> DEFINE m == [T \in SUBSET S |-> Measured(T)]
           sum == CHOOSE f : f = [T \in SUBSET S |->
                    IF T = {} THEN 0
                    ELSE LengthOf(CHOOSE p \in T : TRUE) + f[T \ {CHOOSE p \in T : TRUE}]]
<1>1. Bytes(S) = sum[S]
  BY Zenon DEF Bytes
<1>2. ASSUME NEW T \in SUBSET S, T # {}
      PROVE  /\ (CHOOSE p \in T : TRUE) \in T
             /\ m[T] = LengthOf(CHOOSE p \in T : TRUE) + m[T \ {CHOOSE p \in T : TRUE}]
  <2> DEFINE p == CHOOSE p \in T : TRUE
  <2>1. p \in T
    BY <1>2
  <2> HIDE DEF p
  <2>2. Measured(T) = LengthOf(p) + Measured(T \ {p})
    BY <2>1, MeasuredOne
  <2>3. m[T] = Measured(T) /\ m[T \ {p}] = Measured(T \ {p})
    OBVIOUS
  <2>4. p \in T /\ m[T] = LengthOf(p) + m[T \ {p}]
    BY <2>1, <2>2, <2>3
  <2> QED
    BY <2>4 DEF p
<1>3. m = [T \in SUBSET S |->
             IF T = {} THEN 0
             ELSE LengthOf(CHOOSE p \in T : TRUE) + m[T \ {CHOOSE p \in T : TRUE}]]
  <2>1. m[{}] = 0
    BY MeasuredEmpty
  <2> HIDE DEF m
  <2>2. \A T \in SUBSET S :
          m[T] = IF T = {} THEN 0
                 ELSE LengthOf(CHOOSE p \in T : TRUE) + m[T \ {CHOOSE p \in T : TRUE}]
    BY <1>2, <2>1
  <2>3. m = [T \in SUBSET S |-> m[T]]
    BY DEF m
  <2> QED
    BY <2>2, <2>3
<1>4. sum = [T \in SUBSET S |->
               IF T = {} THEN 0
               ELSE LengthOf(CHOOSE p \in T : TRUE) + sum[T \ {CHOOSE p \in T : TRUE}]]
  <2> HIDE DEF m
  <2> QED
    BY <1>3, Zenon
<1> HIDE DEF sum
<1>5. ASSUME NEW T \in SUBSET S
      PROVE  sum[T] = m[T]
  <2> DEFINE Bad == {n \in Nat : \E U \in SUBSET S : Cardinality(U) = n /\ sum[U] # m[U]}
  <2>1. SUFFICES ASSUME sum[T] # m[T] PROVE FALSE
    OBVIOUS
  <2>2. Bad # {}
    <3>1. Cardinality(T) \in Nat
      BY PieceSets
    <3> QED
      BY <2>1, <3>1
  <2>3. PICK n \in Bad : \A k \in Bad : n <= k
    BY <2>2, LeastNumber
  <2>4. PICK U \in SUBSET S : Cardinality(U) = n /\ sum[U] # m[U]
    BY <2>3
  <2>5. U # {}
    <3>1. m[{}] = 0 /\ sum[{}] = 0
      BY <1>4, MeasuredEmpty
    <3> QED
      BY <2>4, <3>1
  <2> DEFINE p == CHOOSE p \in U : TRUE
  <2>6. p \in U /\ m[U] = LengthOf(p) + m[U \ {p}]
    BY <1>2, <2>5
  <2>7. sum[U] = LengthOf(p) + sum[U \ {p}]
    BY <1>4, <2>5
  <2> HIDE DEF p, m
  <2>8. sum[U \ {p}] # m[U \ {p}] /\ U \ {p} \in SUBSET S
    BY <2>4, <2>6, <2>7
  <2>9. Cardinality(U \ {p}) = n - 1 /\ n \in Nat /\ n - 1 \in Nat
    <3>1. IsFiniteSet(U) /\ Cardinality(U) \in Nat /\ Cardinality(U \ {p}) \in Nat
      BY PieceSets
    <3>2. Cardinality(U \ {p}) = Cardinality(U) - 1
      BY <2>6, <3>1, FS_RemoveElement
    <3> QED
      BY <2>4, <3>1, <3>2
  <2>10. n - 1 \in Bad
    BY <2>8, <2>9
  <2> QED
    BY <2>3, <2>9, <2>10
<1> QED
  BY <1>1, <1>5

LEMMA Division ==
  ASSUME NEW a \in Nat, NEW b \in Nat \ {0}
  PROVE  /\ a \div b \in Nat /\ a % b \in 0 .. b - 1
         /\ a = b * (a \div b) + (a % b)
OBVIOUS

LEMMA Quotient ==
  ASSUME NEW a \in Nat, NEW b \in Nat \ {0}, NEW q \in Nat, NEW r \in 0 .. b - 1,
         a = b * q + r
  PROVE  a \div b = q
<1>1. /\ a \div b \in Nat /\ a % b \in 0 .. b - 1
      /\ a = b * (a \div b) + (a % b)
  BY Division
<1> DEFINE d == a \div b
           m == a % b
<1>2. d \in Nat /\ m \in 0 .. b - 1 /\ b * d + m = b * q + r
  BY <1>1
<1> HIDE DEF d, m
<1>3. ~ (d > q)
  <2> SUFFICES ASSUME d > q PROVE FALSE
    OBVIOUS
  <2>1. d - q - 1 \in Nat /\ b * (d - q - 1) >= 0
    BY <1>2
  <2>2. b * d = b * q + b + b * (d - q - 1)
    BY <1>2
  <2> QED
    BY <1>2, <2>1, <2>2
<1>4. ~ (d < q)
  <2> SUFFICES ASSUME d < q PROVE FALSE
    OBVIOUS
  <2>1. q - d - 1 \in Nat /\ b * (q - d - 1) >= 0
    BY <1>2
  <2>2. b * q = b * d + b + b * (q - d - 1)
    BY <1>2
  <2> QED
    BY <1>2, <2>1, <2>2
<1> QED
  BY <1>2, <1>3, <1>4 DEF d

\* The pieces make up the torrent.
LEMMA TotalMeasured == Measured(Pieces) = Total
<1> DEFINE q == Total \div PieceLength
           r == Total % PieceLength
<1>1. q \in Nat /\ r \in 0 .. PieceLength - 1 /\ Total = PieceLength * q + r
  BY TotalNat, Division
<1>2. NPieces - 1 \in Pieces /\ Cardinality(Pieces) = NPieces
  BY PieceSets, NPiecesAssumption DEF Pieces
<1>3. Measured(Pieces) = PieceLength * NPieces - (PieceLength - LengthOf(NPieces - 1))
  BY <1>2 DEF Measured, Short
<1>4. NPieces = (Total + PieceLength - 1) \div PieceLength
  BY ContentAssumption DEF ContentAssumption
<1> HIDE DEF q, r
<1>5. CASE r = 0
  <2>1. NPieces = q
    <3>1. Total + PieceLength - 1 = PieceLength * q + (PieceLength - 1)
      BY <1>1, <1>5, TotalNat
    <3> QED
      BY <1>1, <1>4, <3>1, TotalNat, Quotient
  <2>2. LengthOf(NPieces - 1) = PieceLength
    BY <1>1, <2>1, TotalNat DEF LengthOf, q
  <2> QED
    BY <1>1, <1>3, <1>5, <2>1, <2>2, TotalNat
<1>6. CASE r # 0
  <2>1. NPieces = q + 1
    <3>1. PieceLength * (q + 1) = PieceLength * q + PieceLength
      BY <1>1, TotalNat, Times
    <3>2. Total + PieceLength - 1 = PieceLength * (q + 1) + (r - 1)
      BY <1>1, <3>1, TotalNat
    <3>3. r - 1 \in 0 .. PieceLength - 1 /\ q + 1 \in Nat
      BY <1>1, <1>6, TotalNat
    <3>4. Total + PieceLength - 1 \in Nat
      BY TotalNat
    <3> QED
      BY <1>4, <3>2, <3>3, <3>4, TotalNat, Quotient
  <2>2. LengthOf(NPieces - 1) = r
    <3>1. NPieces - 1 = Total \div PieceLength
      BY <1>1, <2>1 DEF q
    <3> QED
      BY <3>1 DEF LengthOf, r
  <2>3. PieceLength * (q + 1) = PieceLength * q + PieceLength
    BY <1>1, TotalNat, Times
  <2> QED
    BY <1>1, <1>3, <2>1, <2>2, <2>3, TotalNat
<1> QED
  BY <1>5, <1>6

-----------------------------------------------------------------------------
(* File lists.                                                             *)

FiltersSound(fs) == fs \in Seq(Bitfields) /\ \A i \in DOMAIN fs : Sound(fs[i])
InAll(fs)        == {p \in Pieces : \A i \in DOMAIN fs : p \in Members(fs[i])}

LEMMA LeastIndex ==
  ASSUME NEW n \in Nat, NEW S \in SUBSET (1 .. n), S # {}
  PROVE  LET k == CHOOSE j \in S : \A m \in S : j <= m
         IN  k \in S /\ \A m \in S : k <= m
<1>1. \E j \in S : \A m \in S : j <= m
  BY LeastNumber
<1> QED
  BY <1>1

\* What CheckFilter leaves: no filters, or the same ones at the first entry,
\* from the i-th on, that has something left to get.
LEMMA CheckFilterFacts ==
  ASSUME NEW fs, FiltersSound(fs), NEW h, Sound(h), NEW i \in 0 .. Len(fs), CheckFilter(fs, i, h)
  PROVE  \/ fs = << >> /\ filters' = << >> /\ current' = 0 /\ seeding' = seeding
         \/ /\ fs # << >> /\ filters' = << >> /\ current' = 0 /\ seeding' = seeding
            /\ \A j \in 1 .. Len(fs) : j >= i => Pieces \subseteq Members(h) \cup Members(fs[j])
         \/ /\ fs # << >> /\ filters' = fs /\ ~seeding'
            /\ current' \in 1 .. Len(fs) /\ current' >= i
            /\ Pieces \ (Members(fs[current']) \cup Members(h)) # {}
            /\ \A j \in 1 .. current' - 1 : j >= i => Pieces \subseteq Members(h) \cup Members(fs[j])
<1> DEFINE from == Wanting(fs, i, h)
<1>1. Len(fs) \in Nat /\ DOMAIN fs = 1 .. Len(fs)
  BY DEF FiltersSound
<1>2. ASSUME NEW j \in 1 .. Len(fs), j >= i
      PROVE  j \in from <=> Pieces \ (Members(fs[j]) \cup Members(h)) # {}
  <2>1. Sound(fs[j])
    BY <1>1 DEF FiltersSound
  <2>2. Sound(Or(h, fs[j])) /\ Members(Or(h, fs[j])) = Members(h) \cup Members(fs[j])
    BY <2>1, OrUnites
  <2>3. IsFull(Or(h, fs[j])) <=> Members(h) \cup Members(fs[j]) = Pieces
    BY <2>2, SoundFacts
  <2>4. Members(h) \in SUBSET Pieces /\ Members(fs[j]) \in SUBSET Pieces
    BY <2>1, SoundFacts
  <2> QED
    BY <1>2, <2>3, <2>4 DEF Wanting
<1>3. from \in SUBSET (1 .. Len(fs)) /\ \A j \in from : j >= i
  BY DEF Wanting
<1>4. CASE fs = << >>
  <2>1. i = 0
    BY <1>4
  <2> QED
    BY <1>4, <2>1 DEF CheckFilter
<1>5. CASE fs # << >> /\ from = {}
  <2>1. filters' = << >> /\ current' = 0 /\ seeding' = seeding
    BY <1>5 DEF CheckFilter
  <2>2. \A j \in 1 .. Len(fs) : j >= i => Pieces \subseteq Members(h) \cup Members(fs[j])
    BY <1>2, <1>5
  <2> QED
    BY <1>5, <2>1, <2>2
<1>6. CASE fs # << >> /\ from # {}
  <2> DEFINE c == CHOOSE j \in from : \A k \in from : j <= k
  <2>1. filters' = fs /\ seeding' = FALSE /\ current' = c
    BY <1>6 DEF CheckFilter
  <2> HIDE DEF from
  <2>2. c \in from /\ \A m \in from : c <= m
    BY <1>1, <1>3, <1>6, LeastIndex
  <2> HIDE DEF c
  <2>3. c \in 1 .. Len(fs) /\ c >= i
    BY <1>3, <2>2
  <2>4. Pieces \ (Members(fs[c]) \cup Members(h)) # {}
    BY <1>2, <2>2, <2>3
  <2>5. ASSUME NEW j \in 1 .. c - 1, j >= i
        PROVE  Pieces \subseteq Members(h) \cup Members(fs[j])
    <3>1. j \in 1 .. Len(fs) /\ j \notin from
      BY <1>1, <2>2, <2>3
    <3> QED
      BY <1>2, <2>5, <3>1
  <2> QED
    BY <1>6, <2>1, <2>3, <2>4, <2>5
<1> QED
  BY <1>4, <1>5, <1>6

\* The filters made of a list.
FiltersOf(l) == [i \in 1 .. Len(UpToStar(l)) |-> FilterOf(UpToStar(l)[i])]

LEMMA CommonSound ==
  ASSUME NEW fs
  PROVE  Sound(Common(fs)) /\ Members(Common(fs)) = {p \in Pieces : \A f \in fs : p \in Members(f)}
<1> DEFINE S == {p \in Pieces : \A f \in fs : p \in Members(f)}
<1>1. S \in SUBSET Pieces /\ S \cap Pieces = S /\ Common(fs) = SetReferBuffer(S)
  BY DEF Common
<1> HIDE DEF S
<1>2. Sound(Common(fs)) /\ Members(Common(fs)) = S
  BY <1>1, SoundRecalc DEF SetReferBuffer
<1> QED
  BY <1>2 DEF S

LEMMA FiltersOfSound ==
  ASSUME NEW l \in Seq(SUBSET Nat)
  PROVE  FiltersSound(FiltersOf(l)) /\ (FiltersOf(l) # << >> => l # << >>)
<1> DEFINE stars == {i \in 1 .. Len(l) : l[i] = {}}
           k == CHOOSE i \in stars : \A j \in stars : i <= j
<1>1. UpToStar(l) \in Seq(SUBSET Nat) /\ (l = << >> => UpToStar(l) = << >>)
  <2>1. CASE stars = {}
    BY <2>1 DEF UpToStar
  <2>2. CASE stars # {}
    <3>1. UpToStar(l) = SubSeq(l, 1, k)
      BY <2>2 DEF UpToStar
    <3>2. k \in stars
      <4>1. stars \in SUBSET (1 .. Len(l)) /\ Len(l) \in Nat
        OBVIOUS
      <4> HIDE DEF stars
      <4>2. \E i \in stars : \A j \in stars : i <= j
        BY <2>2, <4>1, LeastNumber
      <4> QED
        BY <4>2
    <3>3. k \in 1 .. Len(l)
      BY <3>2
    <3> HIDE DEF k, stars
    <3>4. SubSeq(l, 1, k) \in Seq(SUBSET Nat)
      BY <3>3
    <3> QED
      BY <2>2, <3>1, <3>3, <3>4
  <2> QED
    BY <2>1, <2>2
<1>2. \A ns : Sound(FilterOf(ns)) /\ FilterOf(ns) \in Bitfields
  BY CommonSound, SoundNew DEF FilterOf, Sound
<1> DEFINE n == Len(UpToStar(l))
<1>3. n \in Nat
  BY <1>1
<1>4. FiltersOf(l) = [i \in 1 .. n |-> FilterOf(UpToStar(l)[i])]
  BY DEF FiltersOf
<1> HIDE DEF n
<1>5. FiltersOf(l) \in Seq(Bitfields) /\ DOMAIN FiltersOf(l) = 1 .. n
  BY <1>2, <1>3, <1>4
<1>6. l = << >> => FiltersOf(l) = << >>
  BY <1>1, <1>4 DEF n
<1> QED
  BY <1>2, <1>4, <1>5, <1>6 DEF FiltersSound

\* What a change of the file list leaves: no list, or one whose filters meet in
\* the master filter, with nothing left to get or at the first entry that has.
LEMMA SetFilterFacts ==
  ASSUME NEW l \in Seq(SUBSET Nat), NEW h, Sound(h), SetFilterTo(l, h)
  PROVE  /\ Sound(master')
         /\ \/ list' = << >> /\ filters' = << >> /\ current' = 0
            \/ /\ list' # << >> /\ filters' = << >> /\ current' = 0
               /\ Pieces \ Members(master') \subseteq Members(h)
            \/ /\ list' # << >> /\ FiltersSound(filters') /\ filters' # << >> /\ ~seeding'
               /\ Members(master') = InAll(filters')
               /\ current' \in 1 .. Len(filters')
               /\ Pieces \ (Members(filters'[current']) \cup Members(h)) # {}
               /\ \A j \in 1 .. current' - 1 : Pieces \ Members(filters'[j]) \subseteq Members(h)
<1> DEFINE fs == FiltersOf(l)
           none == fs = << >> \/ IsEmpty(fs[1])
<1>1. FiltersSound(fs) /\ (fs # << >> => l # << >>)
  BY FiltersOfSound
<1>2. /\ list' = (IF none THEN << >> ELSE l)
      /\ master' = (IF none THEN New ELSE Common({fs[i] : i \in DOMAIN fs}))
      /\ CheckFilter(IF none THEN << >> ELSE fs, 0, h)
  BY DEF SetFilterTo, FiltersOf
<1>3. FiltersSound(<< >>)
  BY DEF FiltersSound
<1>4. CASE none
  <2>1. list' = << >> /\ master' = New /\ CheckFilter(<< >>, 0, h)
    BY <1>2, <1>4
  <2>2. 0 \in 0 .. Len(<< >>)
    OBVIOUS
  <2>3. filters' = << >> /\ current' = 0
    BY <2>1 DEF CheckFilter
  <2> QED
    BY <2>1, <2>3, SoundNew
<1>5. CASE ~none
  <2>1. list' = l /\ l # << >> /\ fs # << >> /\ CheckFilter(fs, 0, h)
    BY <1>1, <1>2, <1>5
  <2>2. Sound(master') /\ Members(master') = InAll(fs)
    <3>1. master' = Common({fs[i] : i \in DOMAIN fs})
      BY <1>2, <1>5
    <3> HIDE DEF fs
    <3> QED
      BY <3>1, CommonSound DEF InAll
  <2> HIDE DEF fs, none
  <2>3. 0 \in 0 .. Len(fs) /\ DOMAIN fs = 1 .. Len(fs) /\ Len(fs) \in Nat
    BY <1>1 DEF FiltersSound
  <2>4. \/ /\ filters' = << >> /\ current' = 0
           /\ \A j \in 1 .. Len(fs) : j >= 0 => Pieces \subseteq Members(h) \cup Members(fs[j])
        \/ /\ filters' = fs /\ ~seeding'
           /\ current' \in 1 .. Len(fs)
           /\ Pieces \ (Members(fs[current']) \cup Members(h)) # {}
           /\ \A j \in 1 .. current' - 1 : j >= 0 => Pieces \subseteq Members(h) \cup Members(fs[j])
    BY <1>1, <2>1, <2>3, CheckFilterFacts
  <2>5. CASE /\ filters' = << >> /\ current' = 0
             /\ \A j \in 1 .. Len(fs) : j >= 0 => Pieces \subseteq Members(h) \cup Members(fs[j])
    <3>1. Pieces \ Members(master') \subseteq Members(h)
      BY <2>2, <2>3, <2>5 DEF InAll
    <3> QED
      BY <2>1, <2>2, <2>5, <3>1
  <2>6. CASE /\ filters' = fs /\ ~seeding'
             /\ current' \in 1 .. Len(fs)
             /\ Pieces \ (Members(fs[current']) \cup Members(h)) # {}
             /\ \A j \in 1 .. current' - 1 : j >= 0 => Pieces \subseteq Members(h) \cup Members(fs[j])
    <3>1. ASSUME NEW j \in 1 .. current' - 1
          PROVE  Pieces \ Members(fs[j]) \subseteq Members(h)
      <4>1. j >= 0
        OBVIOUS
      <4>2. Pieces \subseteq Members(h) \cup Members(fs[j])
        BY <2>6, <4>1
      <4> QED
        BY <4>2
    <3> QED
      BY <1>1, <2>1, <2>2, <2>6, <3>1
  <2> QED
    BY <2>4, <2>5, <2>6
<1> QED
  BY <1>4, <1>5

LEMMA Spread ==
  /\ \A a, b, c \in Int : a * (b + c) = a * b + a * c
  /\ \A a, b \in Nat : a * b \in Nat
OBVIOUS

LEMMA MeasuredNat ==
  ASSUME NEW S \in SUBSET Pieces
  PROVE  Measured(S) \in Nat
<1>1. Cardinality(S) \in Nat /\ Short \in 0 .. PieceLength /\ PieceLength \in Nat
  BY PieceSets, LengthFacts, TotalNat, NPiecesAssumption
<1>2. CASE NPieces - 1 \notin S
  BY <1>1, <1>2, Spread DEF Measured
<1>3. CASE NPieces - 1 \in S
  <2> DEFINE c == Cardinality(S) - 1
  <2>1. c \in Nat /\ Cardinality(S) = c + 1
    <3>1. Cardinality(S) # 0
      BY <1>3, PieceSets
    <3> QED
      BY <1>1, <3>1
  <2> HIDE DEF c
  <2>2. PieceLength * Cardinality(S) = PieceLength * c + PieceLength /\ PieceLength * c \in Nat
    BY <1>1, <2>1, Times, Spread
  <2>3. Measured(S) = PieceLength * Cardinality(S) - Short
    BY <1>3 DEF Measured
  <2> QED
    BY <1>1, <2>2, <2>3
<1> QED
  BY <1>2, <1>3

\* What is had and what is left make up the torrent.
LEMMA BytesSplit ==
  ASSUME NEW S \in SUBSET Pieces
  PROVE  /\ Bytes(S) \in 0 .. Total /\ Bytes(Pieces \ S) \in 0 .. Total
         /\ Bytes(Pieces \ S) = Total - Bytes(S)
<1> DEFINE c == Cardinality(S)
           d == Cardinality(Pieces \ S)
<1>1. c \in Nat /\ d \in Nat /\ NPieces = c + d
  <2>1. Cardinality(Pieces \ S) = Cardinality(Pieces) - Cardinality(Pieces \cap S)
    BY PieceSets, FS_Difference
  <2>2. Pieces \cap S = S
    OBVIOUS
  <2>3. c \in Nat /\ NPieces \in Nat
    BY PieceSets, NPiecesAssumption
  <2>4. d = NPieces - c
    BY <2>1, <2>2, PieceSets
  <2>5. Pieces \ S \in SUBSET Pieces
    OBVIOUS
  <2>6. d \in Nat
    BY <2>5, PieceSets, NPiecesAssumption
  <2> HIDE DEF c, d
  <2> QED
    BY <2>3, <2>4, <2>6
<1>2. Measured(Pieces) = PieceLength * NPieces - Short
  BY PieceSets, NPiecesAssumption DEF Measured, Pieces
<1>3. NPieces - 1 \in S <=> NPieces - 1 \notin Pieces \ S
  BY NPiecesAssumption DEF Pieces
<1> HIDE DEF c, d
<1>4. /\ PieceLength * NPieces = PieceLength * c + PieceLength * d
      /\ PieceLength * c \in Nat /\ PieceLength * d \in Nat
  BY <1>1, TotalNat, Spread
<1>5. Measured(S) + Measured(Pieces \ S) = Total
  <2>1. Short \in Int
    BY LengthFacts, TotalNat
  <2>2. Measured(S) = PieceLength * c - (IF NPieces - 1 \in S THEN Short ELSE 0)
    BY DEF Measured, c
  <2>3. Measured(Pieces \ S) = PieceLength * d - (IF NPieces - 1 \in S THEN 0 ELSE Short)
    BY <1>3 DEF Measured, d
  <2> QED
    BY <1>2, <1>4, <2>1, <2>2, <2>3, TotalMeasured
<1>6. Measured(S) \in Nat /\ Measured(Pieces \ S) \in Nat
  BY MeasuredNat
<1> QED
  BY <1>5, <1>6, BytesMeasured, TotalNat

LEMMA BytesLess ==
  ASSUME NEW S \in SUBSET Pieces, NEW p \in Pieces, p \notin S
  PROVE  Bytes(Pieces \ (S \cup {p})) = Bytes(Pieces \ S) - LengthOf(p)
<1>1. Pieces \ (S \cup {p}) = (Pieces \ S) \ {p} /\ p \in Pieces \ S
  OBVIOUS
<1>2. Measured(Pieces \ S) = LengthOf(p) + Measured((Pieces \ S) \ {p})
  BY <1>1, MeasuredOne
<1>3. /\ Measured((Pieces \ S) \ {p}) \in Nat /\ LengthOf(p) \in Int
  BY MeasuredNat, LengthFacts, TotalNat
<1>4. /\ Bytes(Pieces \ S) = Measured(Pieces \ S)
      /\ Bytes((Pieces \ S) \ {p}) = Measured((Pieces \ S) \ {p})
  BY BytesMeasured
<1> DEFINE a == Measured((Pieces \ S) \ {p})
           b == Measured(Pieces \ S)
<1>5. Bytes(Pieces \ (S \cup {p})) = a /\ Bytes(Pieces \ S) = b
  BY <1>1, <1>4
<1>6. a \in Nat /\ b = LengthOf(p) + a
  BY <1>2, <1>3
<1> HIDE DEF a, b
<1>7. a = b - LengthOf(p)
  BY <1>3, <1>6
<1> QED
  BY <1>5, <1>7

-----------------------------------------------------------------------------
(* The bytes left.                                                         *)

HaveChecked == Members(have) \subseteq Members(checked)
LeftExact   == left = Bytes(Pieces \ Members(have))
OneBuffer   == saved = {} \/ \E b : saved = {b}

\* Only pieces that are checked are had while the client runs, so that checking
\* one counts it once.
Counted == /\ Looping => HaveChecked /\ LeftExact
           /\ left \in 0 .. Total
           /\ OneBuffer

CInv == IInv /\ Counted

LEMMA HadFacts ==
  ASSUME IInv
  PROVE  /\ Sound(have) /\ Sound(checked) /\ Sound(master)
         /\ Members(have) \in SUBSET Pieces /\ Members(checked) \in SUBSET Pieces
BY SoundFacts DEF IInv, Shape

LEMMA LeftAtStart ==
  ASSUME Sound(have)', left' = Total - Bytes(Members(have'))
  PROVE  LeftExact' /\ left' \in 0 .. Total
<1>1. Members(have') \in SUBSET Pieces
  BY SoundFacts
<1> QED
  BY <1>1, BytesSplit DEF LeftExact

LEMMA BytesNone == Bytes({}) = 0 /\ Bytes(Pieces) = Total
BY BytesMeasured, MeasuredEmpty, TotalMeasured

LEMMA StartCounts ==
  ASSUME CInv, NEW force \in BOOLEAN, NEW l, NEW allocate \in BOOLEAN, Start(force, l, allocate)
  PROVE  Counted'
<1> PICK exist \in BOOLEAN, fails \in BOOLEAN : Begin(force, l, allocate, exist, fails)
  BY DEF Start
<1> DEFINE check == Checks(exist, fails)
<1>1. /\ Sound(have') /\ Sound(checked')
      /\ saved' = (IF check THEN {} ELSE saved)
      /\ Members(checked') = (IF check /\ ~force THEN Pieces \ Refer(fails) ELSE Pieces)
      /\ Members(have') = (IF check /\ force THEN Refer(fails) ELSE {})
  BY BeginFacts, ZenonT(60) DEF CInv, IInv
<1>2. left' = Total - Bytes(Members(have'))
  <2> DEFINE files == IF fails THEN disk
                      ELSE [p \in Pieces |-> IF allocate /\ disk[p] = "none" THEN "bad" ELSE disk[p]]
             found == SetReferBuffer(IF fails THEN {} ELSE {p \in Pieces : files[p] # "none"})
             c     == exist /\ (~IsEmpty(found) \/ fails)
             refer == And(IF saved = {} THEN Freed ELSE SetReferBuffer(CHOOSE b \in saved : TRUE), found)
  <2>1. /\ have' = (IF c /\ force THEN refer ELSE New)
        /\ left' = (IF c /\ force THEN (IF IsFull(refer) THEN 0 ELSE Total - Bytes(Members(refer))) ELSE Total)
    BY DEF Begin
  <2> HIDE DEF c, refer
  <2>2. CASE c /\ force
    <3>1. IsFull(refer) => Members(refer) = Pieces
      BY <1>1, <2>1, <2>2, SoundFacts
    <3> QED
      BY <2>1, <2>2, <3>1, BytesNone, TotalNat
  <2>3. CASE ~(c /\ force)
    BY <2>1, <2>3, SoundNew, BytesNone, TotalNat
  <2> QED
    BY <2>2, <2>3
<1>3. LeftExact' /\ left' \in 0 .. Total
  BY <1>1, <1>2, LeftAtStart
<1>4. HaveChecked'
  <2>1. Members(have') \in SUBSET Pieces
    BY <1>1, SoundFacts
  <2> QED
    BY <1>1, <2>1 DEF HaveChecked
<1>5. OneBuffer'
  BY <1>1 DEF CInv, Counted, OneBuffer
<1> QED
  BY <1>3, <1>4, <1>5 DEF Counted

LEMMA CheckExistCounts ==
  ASSUME CInv, NEW force \in BOOLEAN, NEW l, CheckExist(force, l)
  PROVE  Counted'
<1>1. PICK G \in SUBSET Pieces :
        /\ phase = "off"
        /\ force => saved' = {} /\ Sound(have') /\ Members(have') = G /\ Sound(checked')
        /\ ~force => saved' = (IF G = Pieces THEN {} ELSE {G}) /\ phase' = phase
  BY CheckExistFacts DEF CInv, IInv
<1>2. CASE force
  <2>1. left' = Total - Bytes(Members(have')) /\ checked' = Freed
    BY <1>2 DEF CheckExist
  <2>2. LeftExact' /\ left' \in 0 .. Total
    BY <1>1, <1>2, <2>1, LeftAtStart
  <2>3. HaveChecked'
    BY <1>1, <1>2, <2>1, SoundFreed DEF HaveChecked
  <2> QED
    BY <1>1, <1>2, <2>2, <2>3 DEF Counted, OneBuffer
<1>3. CASE ~force
  <2>1. left' = left
    BY <1>3 DEF CheckExist, session, work
  <2>2. ~Looping'
    BY <1>1, <1>3 DEF Looping
  <2>3. OneBuffer'
    BY <1>1, <1>3 DEF OneBuffer
  <2> QED
    BY <2>1, <2>2, <2>3 DEF CInv, Counted
<1> QED
  BY <1>2, <1>3

\* A piece that was not had is had now.
LEMMA OneMore ==
  ASSUME IInv, HaveChecked, LeftExact, NEW p \in Pieces, p \notin Members(have),
         have' = Set(have, p), left' = left - LengthOf(p),
         Members(checked') = Members(checked) \cup {p}
  PROVE  HaveChecked' /\ LeftExact' /\ left' \in 0 .. Total
<1>1. Members(have') = Members(have) \cup {p} /\ Members(have) \in SUBSET Pieces
  BY HadFacts, SetAdds
<1>2. LeftExact'
  BY <1>1, BytesLess DEF LeftExact
<1>3. left' \in 0 .. Total
  BY <1>1, <1>2, BytesSplit DEF LeftExact
<1> QED
  BY <1>1, <1>2, <1>3 DEF HaveChecked

LEMMA CheckCounts ==
  ASSUME CInv, CheckNextPiece
  PROVE  Counted'
<1>1. saved' = saved /\ HaveChecked /\ LeftExact /\ left \in 0 .. Total /\ OneBuffer /\ IInv
  BY DEF CheckNextPiece, CInv, Counted
<1>2. OneBuffer'
  BY <1>1 DEF OneBuffer
<1>3. CASE UNCHANGED <<have, checked, left>>
  BY <1>1, <1>2, <1>3 DEF Counted, HaveChecked, LeftExact
<1>4. ASSUME NEW idx \in Unchecked, checked' = Set(checked, idx),
             IF disk[idx] = "good" THEN have' = Set(have, idx) /\ left' = left - LengthOf(idx)
                                   ELSE UNCHANGED <<have, left>>
      PROVE  Counted'
  <2>1. idx \in Pieces /\ idx \notin Members(checked) /\ idx \notin Members(have)
    BY <1>1 DEF Unchecked, HaveChecked
  <2>2. Members(checked') = Members(checked) \cup {idx}
    BY <1>1, <1>4, <2>1, HadFacts, SetAdds
  <2>3. CASE disk[idx] = "good"
    BY <1>1, <1>2, <1>4, <2>1, <2>2, <2>3, OneMore DEF Counted
  <2>4. CASE disk[idx] # "good"
    BY <1>1, <1>2, <1>4, <2>2, <2>4 DEF Counted, HaveChecked, LeftExact
  <2> QED
    BY <2>3, <2>4
<1> QED
  BY <1>3, <1>4 DEF CheckNextPiece

LEMMA CompleteCounts ==
  ASSUME CInv, NEW p \in Pieces, Complete(p)
  PROVE  Counted'
<1>1. /\ p \in Members(checked) /\ p \notin Members(have) /\ UNCHANGED <<saved, checked>>
      /\ have' = Set(have, p) /\ left' = left - LengthOf(p)
      /\ HaveChecked /\ LeftExact /\ OneBuffer /\ IInv
  BY DEF Complete, CInv, Counted
<1>2. Members(checked') = Members(checked) \cup {p}
  BY <1>1
<1>3. HaveChecked' /\ LeftExact' /\ left' \in 0 .. Total
  BY <1>1, <1>2, OneMore
<1> QED
  BY <1>1, <1>3 DEF Counted, OneBuffer

\* The other steps leave the count alone while the client runs, or end with it.
LEMMA OthersCount ==
  ASSUME Counted, left' \in {left, 0}, Looping' => Looping /\ UNCHANGED <<have, checked, left>>,
         saved' = saved \/ saved' = {} \/ \E b : saved' = {b}
  PROVE  Counted'
<1>1. left' \in 0 .. Total
  BY TotalNat DEF Counted
<1>2. OneBuffer'
  BY DEF Counted, OneBuffer
<1> QED
  BY <1>1, <1>2 DEF Counted, HaveChecked, LeftExact

LEMMA NextCounts == CInv /\ [Next]_vars => CInv'
<1> SUFFICES ASSUME CInv, [Next]_vars PROVE Counted'
  BY NextKeepsIInv DEF CInv
<1>0. Counted
  BY DEF CInv
<1>1. CASE \E force, allocate \in BOOLEAN, l \in Lists : Start(force, l, allocate)
  BY <1>1, StartCounts
<1>2. CASE \E force \in BOOLEAN, l \in Lists : CheckExist(force, l)
  BY <1>2, CheckExistCounts
<1>3. CASE CheckNextPiece
  BY <1>3, CheckCounts
<1>4. CASE \E p \in Pieces : Complete(p)
  BY <1>4, CompleteCounts
<1>5. CASE \E p \in Pieces : Partial(p) \/ Flush(p) \/ Alter(p)
  BY <1>0, <1>5, OthersCount DEF Partial, Flush, Alter, Looping, session, work, lists
<1>6. CASE FlushFails \/ SeedTimeout \/ Quit \/ sig_catch \/ \E l \in Lists : SetFilter(l)
  BY <1>0, <1>6, OthersCount DEF FlushFails, SeedTimeout, Quit, sig_catch, SetFilter, Looping, session, work, lists, user
<1>7. CASE SaveInvert \/ SaveOr \/ SaveOpen \/ \E lost \in Refused : FlushCache(lost)
  BY <1>0, <1>7, OthersCount DEF SaveInvert, SaveOr, SaveOpen, FlushCache, Looping, session, work, lists, user
<1>8. CASE SaveWrite \/ SaveFails \/ Kill \/ \E lost \in Refused : sig_catch2(lost)
  BY <1>0, <1>8, OthersCount DEF SaveWrite, SaveFails, Kill, sig_catch2, Off, Looping
<1>9. CASE UNCHANGED vars
  BY <1>0, <1>9, OthersCount DEF vars, Looping, session, work, lists, user
<1> QED
  BY <1>1, <1>2, <1>3, <1>4, <1>5, <1>6, <1>7, <1>8, <1>9 DEF Next

LEMMA CInvAlways == Spec => []CInv
<1>1. Init => CInv
  <2> SUFFICES ASSUME Init PROVE Counted
    BY InitIInv DEF CInv
  <2>1. left = 0 /\ saved = {} /\ ~Looping
    BY DEF Init, Looping
  <2> QED
    BY <2>1, TotalNat DEF Counted, OneBuffer
<1> QED
  BY <1>1, NextCounts, PTL DEF Spec

LEMMA NeedExact ==
  ASSUME IInv, LeftExact
  PROVE  GetNeedBytes = Bytes(Pieces \ (Members(have) \cup Members(master)))
<1> DEFINE want == Except(Invert(have), master)
           S == Pieces \ (Members(have) \cup Members(master))
<1>1. Sound(have) /\ Sound(master) /\ Members(have) \in SUBSET Pieces
  BY HadFacts
<1>2. Sound(want) /\ Members(want) = S
  <2>1. Sound(Invert(have)) /\ Members(Invert(have)) = Pieces \ Members(have)
    BY <1>1, InvertComplements
  <2>2. Sound(want) /\ Members(want) = Members(Invert(have)) \ Members(master)
    BY <1>1, <2>1, ExceptSubtracts
  <2> QED
    BY <2>1, <2>2
<1>3. CASE IsEmpty(master)
  <2>1. Members(master) = {}
    BY <1>1, <1>3, SoundFacts
  <2> QED
    BY <1>3, <2>1 DEF GetNeedBytes, LeftExact
<1>4. CASE ~IsEmpty(master)
  <2>1. want.nset = Cardinality(S)
    BY <1>2, SoundFacts
  <2>2. GetNeedBytes = PieceLength * want.nset - (IF NPieces - 1 \in Members(want) THEN Short ELSE 0)
    BY <1>4 DEF GetNeedBytes, Short
  <2>3. GetNeedBytes = Measured(S)
    BY <1>2, <2>1, <2>2 DEF Measured
  <2> QED
    BY <2>3, BytesMeasured
<1> QED
  BY <1>3, <1>4

\* The bytes left that the client shows and tells the tracker, kept by subtraction
\* over hash checks and downloads, and the bytes needed under a file list,
\* computed from counts, are those of the pieces.
THEOREM BytesLeftExact == Spec => []BytesExact
<1>1. CInv => BytesExact
  BY NeedExact DEF CInv, Counted, BytesExact, LeftExact
<1> QED
  BY <1>1, CInvAlways, PTL

-----------------------------------------------------------------------------
(* The file list.                                                          *)

\* The filters are sound, meet in the master filter, and belong to a list; the
\* one in use is one of them.
Listed == /\ FiltersSound(filters) /\ current \in 0 .. Len(filters)
          /\ filters # << >> => list # << >> /\ Members(master) = InAll(filters)

WantedHad == Pieces \ Members(master) \subseteq Members(have)

\* The entry in use has something left to get, those before it have not.
AtWanting ==
  /\ current # 0 /\ Pieces \ (Members(filters[current]) \cup Members(have)) # {}
  /\ \A i \in 1 .. current - 1 : Pieces \ Members(filters[i]) \subseteq Members(have)

\* The client tells that a list is done by its having no filters any more.
Wants == Looping /\ ~forced /\ list # << >> =>
           /\ filters = << >> => WantedHad
           /\ filters # << >> => AtWanting
           /\ seeding => WantedHad

LInv == IInv /\ Listed /\ Wants

\* What a change of the list, made for the pieces we have, leaves.
LEMMA SetFilterLists ==
  ASSUME NEW l \in Lists, NEW h, Sound(h), SetFilterTo(l, h)
  PROVE  /\ Listed'
         /\ list' # << >> /\ h = have' => /\ filters' = << >> => WantedHad'
                                          /\ filters' # << >> => AtWanting' /\ ~seeding'
<1> DEFINE Nothing  == list' = << >> /\ filters' = << >> /\ current' = 0
           AllHad   == /\ list' # << >> /\ filters' = << >> /\ current' = 0
                       /\ Pieces \ Members(master') \subseteq Members(h)
           SomeLeft == /\ list' # << >> /\ FiltersSound(filters') /\ filters' # << >> /\ ~seeding'
                       /\ Members(master') = InAll(filters')
                       /\ current' \in 1 .. Len(filters')
                       /\ Pieces \ (Members(filters'[current']) \cup Members(h)) # {}
                       /\ \A j \in 1 .. current' - 1 : Pieces \ Members(filters'[j]) \subseteq Members(h)
<1>1. Nothing \/ AllHad \/ SomeLeft
  BY ContentAssumption, SetFilterFacts DEF ContentAssumption
<1>2. FiltersSound(<< >>) /\ Len(<< >>) = 0
  BY DEF FiltersSound
<1>3. CASE Nothing \/ AllHad
  <2>1. filters' = << >> /\ current' = 0
    BY <1>3
  <2>2. Listed'
    BY <1>2, <2>1 DEF Listed, FiltersSound
  <2> QED
    BY <1>3, <2>1, <2>2 DEF WantedHad
<1>4. CASE SomeLeft
  <2>1. FiltersSound(filters)' /\ Len(filters') \in Nat
    BY <1>4 DEF FiltersSound
  <2>2. InAll(filters)' = InAll(filters')
    BY DEF InAll
  <2>3. current' \in 0 .. Len(filters') /\ current' # 0
    BY <1>4, <2>1
  <2>4. Listed'
    BY <1>4, <2>1, <2>2, <2>3 DEF Listed
  <2>5. h = have' => AtWanting'
    BY <1>4, <2>3 DEF AtWanting
  <2> QED
    BY <1>4, <2>4, <2>5
<1> QED
  BY <1>1, <1>3, <1>4

\* A piece more is had, and the list gone on with.
LEMMA CheckFilterLists ==
  ASSUME IInv, Listed, Looping, Wants, Looping', forced' = forced, list' = list, master' = master,
         Sound(have)', Members(have) \subseteq Members(have'),
         CheckFilter(filters, current, have')
  PROVE  Listed' /\ Wants'
<1> DEFINE None  == filters = << >> /\ filters' = << >> /\ current' = 0 /\ seeding' = seeding
           Done  == /\ filters # << >> /\ filters' = << >> /\ current' = 0 /\ seeding' = seeding
                    /\ \A j \in 1 .. Len(filters) : j >= current => Pieces \subseteq Members(have') \cup Members(filters[j])
           GoOn  == /\ filters # << >> /\ filters' = filters /\ ~seeding'
                    /\ current' \in 1 .. Len(filters) /\ current' >= current
                    /\ Pieces \ (Members(filters[current']) \cup Members(have')) # {}
                    /\ \A j \in 1 .. current' - 1 : j >= current => Pieces \subseteq Members(have') \cup Members(filters[j])
<1>1. None \/ Done \/ GoOn
  <2>1. FiltersSound(filters) /\ current \in 0 .. Len(filters) /\ Sound(have')
    BY DEF Listed
  <2> QED
    BY <2>1, CheckFilterFacts
<1>2. FiltersSound(<< >>) /\ Len(<< >>) = 0
  BY DEF FiltersSound
<1>3. Len(filters) \in Nat /\ DOMAIN filters = 1 .. Len(filters) /\ current \in 0 .. Len(filters)
  BY DEF Listed, FiltersSound
<1>4. WantedHad => WantedHad'
  BY DEF WantedHad
<1>5. CASE None
  <2>1. Listed'
    BY <1>2, <1>5 DEF Listed, FiltersSound
  <2>2. Wants'
    BY <1>4, <1>5 DEF Wants
  <2> QED
    BY <2>1, <2>2
<1>6. CASE Done
  <2>1. Listed'
    BY <1>2, <1>6 DEF Listed, FiltersSound
  <2>2. ~forced => WantedHad'
    <3> SUFFICES ASSUME ~forced, NEW p \in Pieces, p \notin Members(master) PROVE p \in Members(have')
      BY DEF WantedHad
    <3>1. AtWanting /\ Members(master) = InAll(filters)
      BY <1>6 DEF Wants, Listed
    <3>2. PICK j \in 1 .. Len(filters) : p \notin Members(filters[j])
      BY <1>3, <3>1 DEF InAll
    <3>3. CASE j >= current
      BY <1>6, <3>2, <3>3
    <3>4. CASE j < current
      <4>1. j \in 1 .. current - 1
        BY <1>3, <3>4
      <4> QED
        BY <3>1, <3>2, <4>1 DEF AtWanting
    <3> QED
      BY <1>3, <3>3, <3>4
  <2>3. Wants'
    BY <1>6, <2>2 DEF Wants
  <2> QED
    BY <2>1, <2>3
<1>7. CASE GoOn
  <2>1. Listed'
    BY <1>3, <1>7 DEF Listed, FiltersSound, InAll
  <2>2. ~forced => AtWanting'
    <3> SUFFICES ASSUME ~forced PROVE AtWanting'
      OBVIOUS
    <3>1. AtWanting
      BY <1>7 DEF Wants, Listed
    <3>2. ASSUME NEW j \in 1 .. current' - 1
          PROVE  Pieces \ Members(filters[j]) \subseteq Members(have')
      <4>1. CASE j >= current
        BY <1>7, <4>1
      <4>2. CASE j < current
        <5>1. j \in 1 .. current - 1
          BY <1>3, <4>2
        <5> QED
          BY <3>1, <5>1 DEF AtWanting
      <4> QED
        BY <1>3, <4>1, <4>2
    <3>3. current' # 0
      BY <1>3, <1>7
    <3> QED
      BY <1>7, <3>2, <3>3 DEF AtWanting
  <2>3. Wants'
    BY <1>7, <2>2 DEF Wants
  <2> QED
    BY <2>1, <2>3
<1> QED
  BY <1>1, <1>5, <1>6, <1>7

LEMMA StartLists ==
  ASSUME LInv, NEW force \in BOOLEAN, NEW l \in Lists, NEW allocate \in BOOLEAN, Start(force, l, allocate)
  PROVE  Listed' /\ Wants'
<1> PICK exist \in BOOLEAN, fails \in BOOLEAN : Begin(force, l, allocate, exist, fails)
  BY DEF Start
<1>1. SetFilterTo(l, New) /\ Sound(New) /\ phase = "off"
  BY SoundNew DEF Start
<1>2. ~forced' => have' = New
  BY DEF Begin
<1>3. Listed'
  BY <1>1, SetFilterLists
<1>4. ASSUME ~forced', list' # << >>
      PROVE  /\ filters' = << >> => WantedHad'
             /\ filters' # << >> => AtWanting' /\ ~seeding'
  <2>1. SetFilterTo(l, have') /\ Sound(have')
    BY <1>1, <1>2, <1>4
  <2> QED
    BY <1>4, <2>1, SetFilterLists
<1> QED
  BY <1>3, <1>4 DEF Wants

\* Option -c without -f runs nothing, with -f it is a forced session.
LEMMA CheckExistLists ==
  ASSUME LInv, NEW force \in BOOLEAN, NEW l \in Lists, CheckExist(force, l)
  PROVE  Listed' /\ Wants'
<1>1. CASE force
  <2>1. SetFilterTo(l, New) /\ Sound(New) /\ forced' = TRUE
    BY <1>1, SoundNew DEF CheckExist
  <2> QED
    BY <2>1, SetFilterLists DEF Wants
<1>2. CASE ~force
  <2>1. UNCHANGED lists /\ phase = "off" /\ phase' = phase
    BY <1>2 DEF CheckExist, session
  <2> QED
    BY <2>1 DEF LInv, Listed, FiltersSound, InAll, Wants, Looping, lists
<1> QED
  BY <1>1, <1>2

\* Steps that leave the list and the pieces alone.
LEMMA SameLists ==
  ASSUME Listed, Wants, UNCHANGED lists, Looping' => Looping /\ UNCHANGED <<have, forced>>
  PROVE  Listed' /\ Wants'
<1>1. Listed'
  BY DEF Listed, FiltersSound, InAll, lists
<1>2. Wants'
  BY DEF Wants, WantedHad, AtWanting, lists
<1> QED
  BY <1>1, <1>2

LEMMA CheckLists ==
  ASSUME LInv, CheckNextPiece
  PROVE  Listed' /\ Wants'
<1>1. Looping /\ Looping' /\ forced' = forced /\ IInv /\ Listed /\ Wants
  BY DEF CheckNextPiece, Looping, LInv
<1>2. CASE UNCHANGED <<have, lists>>
  BY <1>1, <1>2, SameLists
<1>3. ASSUME NEW idx \in Unchecked, list' = list, master' = master, have' = Set(have, idx),
             CheckFilter(filters, current, have')
      PROVE  Listed' /\ Wants'
  <2>1. idx \in Pieces
    BY DEF Unchecked
  <2>2. Sound(have)' /\ Members(have) \subseteq Members(have')
    BY <1>1, <1>3, <2>1, HadFacts, SetAdds
  <2> QED
    BY <1>1, <1>3, <2>2, CheckFilterLists
<1> QED
  BY <1>2, <1>3 DEF CheckNextPiece, lists

LEMMA CompleteLists ==
  ASSUME LInv, NEW p \in Pieces, Complete(p)
  PROVE  Listed' /\ Wants'
<1>1. /\ Looping /\ Looping' /\ forced' = forced /\ IInv /\ Listed /\ Wants
      /\ list' = list /\ master' = master /\ have' = Set(have, p) /\ CheckFilter(filters, current, have')
  BY DEF Complete, Looping, LInv
<1>2. Sound(have)' /\ Members(have) \subseteq Members(have')
  BY <1>1, HadFacts, SetAdds
<1> QED
  BY <1>1, <1>2, CheckFilterLists

LEMMA SetFilterKeepsLists ==
  ASSUME LInv, NEW l \in Lists, SetFilter(l)
  PROVE  Listed' /\ Wants'
<1>1. /\ Looping /\ SetFilterTo(l, have) /\ have' = have /\ forced' = forced /\ Sound(have)
  BY HadFacts DEF SetFilter, work, LInv
<1>2. /\ Listed'
      /\ list' # << >> => /\ filters' = << >> => WantedHad'
                          /\ filters' # << >> => AtWanting' /\ ~seeding'
  BY <1>1, SetFilterLists
<1>3. Wants'
  BY <1>2 DEF Wants
<1> QED
  BY <1>2, <1>3

\* The seed timer starts with nothing left to get, however that is known.
LEMMA SeedTimeoutLists ==
  ASSUME LInv, SeedTimeout
  PROVE  Listed' /\ Wants'
<1>1. /\ Looping /\ Seeding /\ (~flushFailed \/ IsFull(have)) /\ IInv /\ Listed /\ Wants
      /\ UNCHANGED <<have, forced, list, filters, current, master>>
  BY DEF SeedTimeout, Looping, work, LInv
<1>2. Listed'
  BY <1>1 DEF Listed, FiltersSound, InAll
<1>3. list # << >> /\ ~forced => WantedHad
  <2>1. CASE IsFull(have)
    <3>1. Members(have) = Pieces
      BY <1>1, <2>1, HadFacts, SoundFacts
    <3> QED
      BY <3>1 DEF WantedHad
  <2>2. CASE ~IsFull(have)
    <3>1. list # << >> /\ current = 0
      BY <1>1, <2>2 DEF Seeding
    <3> QED
      BY <1>1, <3>1 DEF Wants, AtWanting
  <2> QED
    BY <2>1, <2>2
<1>4. Wants'
  BY <1>1, <1>3 DEF Wants, WantedHad, AtWanting
<1> QED
  BY <1>2, <1>4

LEMMA OffLists ==
  ASSUME Off
  PROVE  Listed' /\ Wants'
BY DEF Off, Listed, FiltersSound, Wants, Looping

LEMMA NextLists == LInv /\ [Next]_vars => LInv'
<1> SUFFICES ASSUME LInv, [Next]_vars PROVE Listed' /\ Wants'
  BY NextKeepsIInv DEF LInv
<1>0. Listed /\ Wants
  BY DEF LInv
<1>1. CASE \E force, allocate \in BOOLEAN, l \in Lists : Start(force, l, allocate)
  BY <1>1, StartLists
<1>2. CASE \E force \in BOOLEAN, l \in Lists : CheckExist(force, l)
  BY <1>2, CheckExistLists
<1>3. CASE CheckNextPiece
  BY <1>3, CheckLists
<1>4. CASE \E p \in Pieces : Complete(p)
  BY <1>4, CompleteLists
<1>5. CASE \E l \in Lists : SetFilter(l)
  BY <1>5, SetFilterKeepsLists
<1>6. CASE SeedTimeout
  BY <1>6, SeedTimeoutLists
<1>7. CASE \E p \in Pieces : Partial(p) \/ Flush(p) \/ Alter(p)
  BY <1>0, <1>7, SameLists DEF Partial, Flush, Alter, Looping, session, work
<1>8. CASE FlushFails \/ Quit \/ sig_catch
  BY <1>0, <1>8, SameLists DEF FlushFails, Quit, sig_catch, Looping, session, work
<1>9. CASE SaveInvert \/ SaveOr \/ SaveOpen \/ \E lost \in Refused : FlushCache(lost)
  BY <1>0, <1>9, SameLists DEF SaveInvert, SaveOr, SaveOpen, FlushCache, Looping, session, work
<1>10. CASE SaveWrite \/ SaveFails \/ Kill \/ \E lost \in Refused : sig_catch2(lost)
  BY <1>10, OffLists DEF SaveWrite, SaveFails, Kill, sig_catch2
<1>11. CASE UNCHANGED vars
  BY <1>0, <1>11, SameLists DEF vars, Looping, session, work
<1> QED
  BY <1>1, <1>2, <1>3, <1>4, <1>5, <1>6, <1>7, <1>8, <1>9, <1>10, <1>11 DEF Next

LEMMA LInvAlways == Spec => []LInv
<1>1. Init => LInv
  <2> SUFFICES ASSUME Init PROVE Listed /\ Wants
    BY InitIInv DEF LInv
  <2> QED
    BY DEF Init, Listed, FiltersSound, Wants, Looping
<1> QED
  BY <1>1, NextLists, PTL DEF Spec

\* For any file list and order of checks, downloads and changes of the list,
\* the entry worked on is the first with something left to get, and the client
\* seeds and stops by the seed limits only with all of the list had.
THEOREM SeedsOnlyWhenDone == Spec => []SeedsWhenDone
<1>1. LInv => SeedsWhenDone
  BY DEF LInv, Wants, AtWanting, WantedHad, SeedsWhenDone
<1> QED
  BY <1>1, LInvAlways, PTL

\* Every bitfield of the client, the filters of the list among them, keeps its
\* count, array and spare bits in agreement, and the bytes left, the place of
\* the check and the entry in use keep within their bounds.
THEOREM TypeCorrect == Spec => []TypeOK
<1>1. CInv /\ LInv => TypeOK
  <2> SUFFICES ASSUME CInv, LInv PROVE TypeOK
    OBVIOUS
  <2>1. \A x \in {have, checked, master} \cup {filters[i] : i \in DOMAIN filters} : Sound(x)
    BY DEF CInv, IInv, Shape, LInv, Listed, FiltersSound
  <2>2. Cardinality(saved) <= 1
    <3>1. CASE saved = {}
      BY <3>1, FS_EmptySet
    <3>2. CASE saved # {}
      <4>1. PICK b : saved = {b}
        BY <3>2 DEF CInv, Counted, OneBuffer
      <4>2. Cardinality({b}) = 1
        BY FS_Singleton
      <4> QED
        BY <4>1, <4>2
    <3> QED
      BY <3>1, <3>2
  <2>3. dirty \subseteq Pieces
    BY HadFacts DEF CInv, IInv, CacheClaimed
  <2> QED
    BY <2>1, <2>2, <2>3 DEF TypeOK, CInv, Counted, LInv, Listed, IInv, Shape
<1> QED
  BY <1>1, CInvAlways, LInvAlways, PTL
=============================================================================
