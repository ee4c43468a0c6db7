---------------------------- MODULE RequestQueue ----------------------------
(***************************************************************************)
(* The request queues of btrequest.cpp: what a peer has been asked for, or *)
(* will be (request_q), and the pieces nobody is working on (PENDING).     *)
(*                                                                         *)
(* A queue is a list of slices, those of one piece next to each other (the *)
(* code keeps a list of pieces, each with its list of slices), and the     *)
(* cursor rq_send: the position of the next slice to request, 0 for none.  *)
(***************************************************************************)
EXTENDS Naturals, Sequences, FiniteSets

CONSTANT SlicesPerPiece      \* NSlices of a piece

Offsets == 1 .. SlicesPerPiece

EmptyQueue == [list |-> << >>, next |-> 0]

-----------------------------------------------------------------------------
(* Looking.                                                                *)

Where(q, i)    == {k \in DOMAIN q.list : q.list[k].piece = i}
HasPiece(q, i) == Where(q, i) # {}
QueuedPieces(q) == {q.list[k].piece : k \in DOMAIN q.list}
Qsize(q)       == Len(q.list)
Qlen(q, i)     == Cardinality(Where(q, i))
Lowest(S)      == CHOOSE k \in S : \A j \in S : k <= j
Highest(S)     == CHOOSE k \in S : \A j \in S : j <= k

\* The first and the last slice of a piece.
First(q, i) == CHOOSE k \in Where(q, i) : \A j \in 1 .. k - 1 : q.list[j].piece # i
Last(q, i)  == CHOOSE k \in Where(q, i) : \A j \in k + 1 .. Len(q.list) : q.list[j].piece # i

At(q, i, o)       == {k \in Where(q, i) : q.list[k].off = o}
HasSlice(q, i, o) == At(q, i, o) # {}
IsSent(q, i, o)   == \E k \in At(q, i, o) : q.list[k].sent

PeekPiece(q, i) == q.list[First(q, i)]
PeekSend(q)     == q.next # 0
SentSlices(q)   == {k \in DOMAIN q.list : q.list[k].sent}

\* The slices CancelRequest cancels: those sent before the first unsent one.
LeadingSent(q)  == {k \in DOMAIN q.list : \A j \in 1 .. k : q.list[j].sent}

CountSlicesBeforePiece(q, i) == First(q, i) - 1

\* Pieces of the queue that a peer with pieces bf has and its queue has not ...
FindCommonRequest(q, bf, own) == (QueuedPieces(q) \intersect bf) \ QueuedPieces(own)
\* ... and the last piece of the queue that it has.
FindLastCommonRequest(q, bf) == q.list[Highest(UNION {Where(q, i) : i \in bf})].piece

-----------------------------------------------------------------------------
(* Changing.                                                               *)

Unsent(seg) == [k \in DOMAIN seg |-> [seg[k] EXCEPT !.sent = FALSE]]
Segment(q, i) == SubSeq(q.list, First(q, i), Last(q, i))

\* The next n slices, from the one at the cursor on, are sent.
Sent(q, n) ==
  [list |-> [k \in DOMAIN q.list |->
               IF k \in q.next .. q.next + n - 1 THEN [q.list[k] EXCEPT !.sent = TRUE] ELSE q.list[k]],
   next |-> IF q.next + n <= Len(q.list) THEN q.next + n ELSE 0]

\* A piece enters at the end; Append forgets that its first slices were sent.
Enter(q, seg) ==
  LET lead == {k \in DOMAIN seg : \A j \in 1 .. k : seg[j].sent}
  IN  [list |-> q.list \o [k \in DOMAIN seg |->
                             IF k \in lead THEN [seg[k] EXCEPT !.sent = FALSE] ELSE seg[k]],
       next |-> IF q.next = 0 THEN Len(q.list) + 1 ELSE q.next]

AddPiece(q, i) ==
  Enter(q, [o \in Offsets |-> [piece |-> i, off |-> o, sent |-> FALSE]])

CopyTail(q, dst, i) ==                      \* mutant: without the first slice
  IF HasPiece(dst, i) \/ ~ HasPiece(q, i) THEN dst
  ELSE Enter(dst, IF Qlen(q, i) = 1 THEN Segment(q, i) ELSE Tail(Unsent(Segment(q, i))))
Copy(q, dst, i) ==
  IF HasPiece(dst, i) \/ ~ HasPiece(q, i) THEN dst
  ELSE Enter(dst, Unsent(Segment(q, i)))

\* Shuffle: any order of the piece with another first slice.
Shuffle(q, i) ==
  LET w == Where(q, i)
      f == First(q, i)
  IN  IF Cardinality(w) < 2 THEN {q}
      ELSE {[list |-> [k \in DOMAIN q.list |-> IF k \in w THEN q.list[g[k]] ELSE q.list[k]],
             next |-> IF q.next \in w THEN f ELSE q.next] :
              g \in {h \in [w -> w] : h[f] # f /\ \A j, k \in w : j # k => h[j] # h[k]}}

\* The slices from the l-th to the h-th are taken out; when the cursor is among
\* them, it goes on to the one behind them.
Without(q, l, h) ==
  [list |-> SubSeq(q.list, 1, l - 1) \o SubSeq(q.list, h + 1, Len(q.list)),
   next |-> IF q.next < l THEN q.next
            ELSE IF q.next > h THEN q.next - (h - l + 1)
            ELSE IF h < Len(q.list) THEN l ELSE 0]

DeleteResets(q, i) ==              \* mutant: the cursor falls back to the first piece
  LET rest == SelectSeq(q.list, LAMBDA e : e.piece # i)
  IN  [list |-> rest, next |-> IF q.next = 0 \/ rest = << >> THEN 0 ELSE 1]
Delete(q, i) ==
  IF HasPiece(q, i) THEN Without(q, First(q, i), Last(q, i)) ELSE q

Remove(q, i, o) ==
  IF HasSlice(q, i, o) THEN Without(q, Lowest(At(q, i, o)), Lowest(At(q, i, o))) ELSE q

\* The slice goes to the end of its piece and counts as unsent.
MoveLast(q, i, o) ==
  LET k    == Lowest(At(q, i, o))
      last == Last(q, i)
  IN  IF ~ HasSlice(q, i, o) \/ k = last THEN q
      ELSE [list |-> SubSeq(q.list, 1, k - 1) \o SubSeq(q.list, k + 1, last)
                       \o <<[q.list[k] EXCEPT !.sent = FALSE]>> \o SubSeq(q.list, last + 1, Len(q.list)),
            next |-> IF k < q.next /\ q.next <= last THEN q.next - 1 ELSE q.next]

\* Transfer of piece i to PENDING is refused when nothing of it has arrived yet
\* (the whole piece can be asked for again), or PENDING has the piece.
Refused(q, pend, i)  == Qlen(q, i) >= SlicesPerPiece \/ HasPiece(pend, i)
Transfer(q, pend, i) == IF Refused(q, pend, i) THEN pend ELSE Enter(pend, Segment(q, i))

\* Transfer of all pieces, in order; whether none was refused.
TransferQueue(q, pend) ==
  LET first(k) == k = First(q, q.list[k].piece)
      to[k \in 0 .. Len(q.list)] ==
        IF k = 0 THEN pend
        ELSE IF first(k) THEN Transfer(q, to[k - 1], q.list[k].piece) ELSE to[k - 1]
  IN  [pend |-> to[Len(q.list)], all |-> \A i \in QueuedPieces(q) : ~ Refused(q, pend, i)]

\* The pieces of PENDING a peer with pieces bf can take over; Reassign takes
\* the first of them.
Reassignable(pend, dst, bf) == (QueuedPieces(pend) \intersect bf) \ QueuedPieces(dst)
FirstReassigned(pend, dst, bf) ==
  pend.list[Lowest(UNION {Where(pend, i) : i \in Reassignable(pend, dst, bf)})].piece

=============================================================================
