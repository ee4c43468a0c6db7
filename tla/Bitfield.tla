------------------------------ MODULE Bitfield ------------------------------
(***************************************************************************)
(* The piece sets of bitfield.cpp.  A bitfield is an array of bits that    *)
(* rounds the number of pieces up to bytes, with a count of the bits set;  *)
(* a full one has no array.  An operation that has to look at the bits of  *)
(* a full bitfield allocates them first, and one that fills a bitfield     *)
(* frees them, so the count, the array and the bits past the last piece    *)
(* have to agree at all times.                                             *)
(***************************************************************************)
EXTENDS Naturals, FiniteSets

CONSTANT NPieces                                      \* nbits
ASSUME NPiecesAssumption == NPieces \in Nat \ {0}

BYTE   == 8
NBytes == (NPieces + BYTE - 1) \div BYTE              \* nbytes
Pieces == 0 .. NPieces - 1                            \* the bits that count
Bits   == 0 .. BYTE * NBytes - 1                      \* the bits there are

\* alloc: whether b is allocated; set: the bits of b; nset: the count.
Bitfields == [alloc : BOOLEAN, set : SUBSET Bits, nset : Nat]

Of(set, nset) == [alloc |-> TRUE, set |-> set, nset |-> nset]
Freed         == [alloc |-> FALSE, set |-> {}, nset |-> NPieces]

IsFull(x)  == x.nset >= NPieces
IsEmpty(x) == x.nset = 0
\* What the holder of a bitfield sees: IsSet() of every piece.
Members(x) == IF IsFull(x) THEN Pieces ELSE x.set \cap Pieces

New == Of({}, 0)

\* The array of x, allocated and filled with _setall first if x is full.
Array(x) == IF IsFull(x) THEN Pieces ELSE x.set
\* _recalc(): count the bits, and free the array if that makes it full.
Recalc(set) == IF Cardinality(set) >= NPieces
               THEN [alloc |-> FALSE, set |-> {}, nset |-> Cardinality(set)]
               ELSE Of(set, Cardinality(set))

SetAll(x) == Freed
Clear(x)  == New

Set(x, i) ==
  IF IsFull(x) \/ i \in x.set THEN x
  ELSE IF x.nset + 1 >= NPieces THEN Freed
  ELSE Of(x.set \cup {i}, x.nset + 1)

UnSet(x, i) ==
  IF IsFull(x) THEN Of(Pieces \ {i}, NPieces - 1)
  ELSE IF i \in x.set THEN Of(x.set \ {i}, x.nset - 1)
  ELSE x

\* Variant for the mutants: the last byte complemented with its spare bits.
InvertSpare(x) == Of(Bits \ x.set, NPieces - x.nset)

\* Bytes are complemented, the last one only up to the last piece.
Invert(x) ==
  IF IsEmpty(x) THEN SetAll(x)
  ELSE IF IsFull(x) THEN Clear(x)
  ELSE Of((Pieces \ x.set) \cup (x.set \ Pieces), NPieces - x.nset)

Or(x, y) ==
  IF IsEmpty(y) \/ IsFull(x) THEN x
  ELSE IF IsFull(y) THEN SetAll(x)
  ELSE IF IsEmpty(x) THEN Of(y.set, y.nset)
  ELSE Recalc(x.set \cup y.set)

Except(x, y) ==
  IF IsEmpty(y) \/ IsEmpty(x) THEN x
  ELSE IF IsFull(y) THEN Clear(x)
  ELSE Recalc(Array(x) \ y.set)

And(x, y) ==
  IF IsFull(y) \/ IsEmpty(x) THEN x
  ELSE IF IsEmpty(y) THEN Clear(x)
  ELSE IF IsFull(x) THEN Of(y.set, y.nset)
  ELSE Recalc(x.set \cap y.set)

\* SetReferBuffer: a buffer of nbytes, of a peer or of the bitfield file, whose
\* spare bits are masked.  WriteToBuffer: what is sent or saved.
SetReferBuffer(buffer) == Recalc(buffer \cap Pieces)
WriteToBuffer(x)       == Array(x)

-----------------------------------------------------------------------------
(* The representation is sound when the count is that of the pieces in it,  *)
(* no spare bit is set, and there is an array exactly if it is not full.    *)
Sound(x) == /\ x \in Bitfields
            /\ x.nset = Cardinality(Members(x))
            /\ x.set \subseteq Pieces
            /\ x.alloc <=> ~IsFull(x)
=============================================================================
