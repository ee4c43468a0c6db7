------------------------------ MODULE Download ------------------------------
(***************************************************************************)
(* Who is asked for which slice: the request queues of the peers, PENDING, *)
(* pBMultPeer, the count of duplicated pieces, and the handlers that move  *)
(* requests between them (btPeer in peer.cpp, PeerList in peerlist.cpp).   *)
(*                                                                         *)
(* The handlers call each other while they change every peer's queue, so   *)
(* they are operators from a state (a record) to the set of states they    *)
(* may leave.  Walks of the peer list from m_head, and the choice among    *)
(* pieces of equal standing, are choices.  No file filter is set and all   *)
(* pieces are checked.                                                     *)
(***************************************************************************)
EXTENDS Integers, RequestQueue

CONSTANTS
  Peers,
  Pieces,      \* piece indexes, positive
  Holds,       \* the pieces a peer has when it connects
  Liars,       \* peers that may send bytes that are not the torrent's
  Slow,        \* peers with a latency of 60 seconds or more
  Speed,       \* NominalDL of a peer
  Depths,      \* the values m_req_send takes when a slice arrives
  Upsets,      \* which disturbances happen: close, choke, health, pause, write, flush
  MaxUpsets    \* bound: how many of them

ASSUME DownloadAssumption ==
  /\ IsFiniteSet(Peers) /\ IsFiniteSet(Pieces)
  /\ Pieces \subseteq Nat \ {0} /\ SlicesPerPiece \in Nat \ {0}
  /\ Holds \in [Peers -> SUBSET Pieces] /\ Speed \in [Peers -> Nat]
  /\ Liars \subseteq Peers /\ Slow \subseteq Peers
  /\ Depths \subseteq Nat \ {0} /\ MaxUpsets \in Nat

VARIABLES
  peer,      \* the peer list
  pend,      \* PENDING
  mult,      \* pBMultPeer: pieces asked of several peers
  have,      \* pBF
  store,     \* what has been saved of each slice
  dups,      \* m_dup_req_pieces
  endgame,   \* m_endgame
  failed,    \* m_flush_failed
  paused,    \* m_f_pause
  blamed,    \* <<p, i>>: peer p was charged with a bad piece i
  upsets     \* disturbances so far

vars == <<peer, pend, mult, have, store, dups, endgame, failed, paused, blamed, upsets>>

None   == 0
Slices == Pieces \X Offsets

\* A new btPeer whose bitfield has arrived.  out is -1 when m_req_out, which is
\* unsigned, has been decremented below 0.
NewPeer(bf) ==
  [status |-> "up", int |-> FALSE, choked |-> TRUE, bf |-> bf, q |-> EmptyQueue,
   out |-> 0, depth |-> 5, standby |-> FALSE, last |-> None, grace |-> FALSE]
Gone == [NewPeer({}) EXCEPT !.status = "gone"]

Cur == [peer |-> peer, pend |-> pend, mult |-> mult, have |-> have, store |-> store,
        dups |-> dups, endgame |-> endgame, failed |-> failed, paused |-> paused,
        blamed |-> blamed, upsets |-> upsets]

Upset(t, name) == name \in Upsets /\ t.upsets < MaxUpsets

Up(t)         == {p \in Peers : t.peer[p].status = "up"}
Q(t, p)       == t.peer[p].q
Seeding(t)    == t.have = Pieces \/ t.failed
Holders(t, i) == {p \in Up(t) : HasPiece(Q(t, p), i)}

NeedRemoteData(t, p) ==
  /\ ~ Seeding(t) /\ t.peer[p].bf # {}
  /\ \/ Q(t, p).list # << >> /\ Q(t, p).list[1].piece \notin t.have
     \/ t.peer[p].bf \ t.have # {}

\* The connected peers' records are f.
WithPeers(t, f) == [t EXCEPT !.peer = [p \in Peers |-> IF p \in Up(t) THEN f[p] ELSE t.peer[p]]]
\* p's queue is q.
WithQueue(t, p, q) == [t EXCEPT !.peer[p] = [@ EXCEPT !.q = q]]

-----------------------------------------------------------------------------
(* Requests go back, or away.                                              *)

\* n cancelled requests less outstanding; an underflow is reset to 0.
Less(out, n) == IF n = 0 THEN out ELSE IF out < n THEN 0 ELSE out - n

UnStandby(t) ==
  WithPeers(t, [p \in Up(t) |-> [t.peer[p] EXCEPT !.standby = FALSE]])

\* SetLocal(BT_MSG_NOT_INTERESTED): CancelRequest, then the queue is emptied.
Uninterested(r) ==
  LET n == Cardinality(LeadingSent(r.q))
  IN  IF ~ r.int THEN r
      ELSE [r EXCEPT !.int = FALSE, !.q = EmptyQueue, !.out = Less(r.out, n),
                     !.grace = r.grace \/ n > 0]
NotInterested(t, p) == [t EXCEPT !.peer[p] = Uninterested(@)]

RecalcDupReqs(t) ==
  Cardinality({i \in Pieces : \/ Cardinality(Holders(t, i)) > 1
                              \/ Holders(t, i) # {} /\ HasPiece(t.pend, i)})

PutPending(t, p) ==
  LET tr == TransferQueue(Q(t, p), t.pend)
      u  == [t EXCEPT !.pend = tr.pend, !.peer[p] = [@ EXCEPT !.q = EmptyQueue, !.out = 0]]
  IN  IF Q(t, p).list = << >> THEN u
      ELSE UnStandby(IF tr.all THEN u ELSE [u EXCEPT !.dups = RecalcDupReqs(u)])

CloseConnection(t, p) ==
  IF t.peer[p].status = "failed" THEN t ELSE PutPending([t EXCEPT !.peer[p] = [@ EXCEPT !.status = "failed"]], p)

\* A walk of the peer list.
Walk == CHOOSE w \in [1 .. Cardinality(Peers) -> Peers] : \A p \in Peers : \E n \in DOMAIN w : w[n] = p
\* In whatever order: SetLocal empties the queue of a peer that is asked for anything, and
\* leaves nothing to put in PENDING.
StopDownload(t) ==
  LET stopped[n \in 0 .. Cardinality(Peers)] ==
        IF n = 0 THEN t ELSE PutPending(NotInterested(stopped[n - 1], Walk[n]), Walk[n])
  IN  stopped[Cardinality(Peers)]

\* CheckInterest: what each peer is worth now.
CheckInterest(t) ==
  WithPeers(t, [p \in Up(t) |->
     IF t.peer[p].int THEN [t.peer[p] EXCEPT !.standby = FALSE]
     ELSE IF NeedRemoteData(t, p) THEN [t.peer[p] EXCEPT !.int = TRUE, !.standby = FALSE]
     ELSE t.peer[p]])

\* btPeer::CancelPiece and CancelSliceRequest, on a peer's record.
PieceCancelled(r, i) ==
  LET n == Cardinality({k \in Where(r.q, i) : r.q.list[k].sent})
      q == Delete(r.q, i)
  IN  IF ~ HasPiece(r.q, i) THEN r
      ELSE [r EXCEPT !.q = q, !.out = Less(r.out, n), !.grace = r.grace \/ n > 0,
                     !.standby = r.standby /\ q.list # << >>]

SliceCancelledStillOut(r, i, o) ==     \* mutant: the request still counts
  LET q == Remove(r.q, i, o)
  IN  IF ~ HasSlice(r.q, i, o) THEN r
      ELSE [r EXCEPT !.q = q, !.standby = r.standby /\ q.list # << >>]
SliceCancelled(r, i, o) ==
  LET n == IF IsSent(r.q, i, o) THEN 1 ELSE 0
      q == Remove(r.q, i, o)
  IN  IF ~ HasSlice(r.q, i, o) THEN r
      ELSE [r EXCEPT !.q = q, !.out = Less(r.out, n), !.grace = r.grace \/ n > 0,
                     !.standby = r.standby /\ q.list # << >>]

\* PeerList::CancelSlice and CancelPiece, on all connected peers.
CancelSlice(t, i, o) ==
  WithPeers(t, [p \in Up(t) |-> SliceCancelled(t.peer[p], i, o)])
CancelPiece(t, i) ==
  WithPeers(t, [p \in Up(t) |-> PieceCancelled(t.peer[p], i)])

\* CancelOneRequest: of a piece that more requesters hold than slices are left,
\* one lets go: PENDING, or the peer with most to do before it (in a tie, the
\* slowest).
CancelOneRequest(t, i) ==
  LET inPend == HasPiece(t.pend, i)
      n      == Cardinality(Holders(t, i)) + IF inPend THEN 1 ELSE 0
      before(p)  == CountSlicesBeforePiece(Q(t, p), i)
      busiest    == {p \in Holders(t, i) : \A x \in Holders(t, i) : before(x) <= before(p)}
      victims    == IF inPend THEN busiest
                    ELSE {p \in busiest : \A x \in busiest : Speed[p] <= Speed[x]}
      fewer(u)   == IF n = 2 THEN [u EXCEPT !.dups = t.dups - 1] ELSE u
  IN  IF victims = {} THEN {t}
      ELSE {IF n <= Qlen(Q(t, p), i) THEN t
            ELSE IF inPend THEN fewer([t EXCEPT !.pend = Delete(t.pend, i)])
            ELSE fewer([t EXCEPT !.peer[p] = PieceCancelled(t.peer[p], i)]) : p \in victims}

-----------------------------------------------------------------------------
(* Choosing what to request.                                               *)

\* FindValuedPieces: pieces of bf that the other peers (those of interest, if
\* that tells anything) have not all got; by preference in initial mode those
\* somebody else has, otherwise those only the proposer has.
FindValuedPieces(t, p, bf, initial) ==
  LET others  == Up(t) \ {p}
      all(S)  == {i \in bf : \A x \in S : i \in t.peer[x].bf}
      worthy  == all({x \in others : NeedRemoteData(t, x)})
      common  == IF worthy # Pieces THEN worthy ELSE all(others)
      valued  == bf \ common
      prefer  == IF initial THEN UNION {t.peer[x].bf : x \in others}
                 ELSE bf \ UNION {t.peer[x].bf : x \in {y \in others : t.peer[y].bf # Pieces}}
  IN  IF valued \intersect prefer # {} THEN valued \intersect prefer ELSE valued

\* What_Can_Duplicate: pieces in progress with another peer that p could help
\* with, <<piece, requesters>>: in endgame the one that should take longest,
\* else the one that should complete first; none with one slice per requester.
WhatCanDuplicate(t, p, need, eg) ==
  LET valued == FindValuedPieces(t, p, need, ~ eg)
      bf     == IF valued = {} /\ eg THEN t.peer[p].bf ELSE valued
      in(i)  == Holders(t, i) \ {p}
      cands  == {i \in bf : in(i) # {} /\ ~ HasPiece(Q(t, p), i)}
      count(i) == Cardinality(in(i))
      \* work of i is len[i] / count(i), len[i] that of the first requester seen
      worth(i, len) == len[i] > count(i) /\ (eg \/ len[i] < (SlicesPerPiece + 2) * count(i))
      best(i, len)  == \A j \in cands : worth(j, len) =>
                         IF eg THEN len[j] * count(i) <= len[i] * count(j)
                         ELSE len[i] * count(j) <= len[j] * count(i)
      lens == {f \in [cands -> 1 .. SlicesPerPiece] :
                 \A i \in cands : \E x \in in(i) : f[i] = Qlen(Q(t, x), i)}
  IN  UNION {{<<i, count(i)>> : i \in {j \in cands : worth(j, f) /\ best(j, f)}} : f \in lens}

\* Who_Can_Abandon: the slowest peer, slower by half than p, with a request
\* that p could take over.
WhoCanAbandon(t, p) ==
  LET cands == {x \in Up(t) \ {p} : /\ 3 * Speed[x] < 2 * Speed[p]
                                    /\ FindCommonRequest(Q(t, x), t.peer[p].bf, Q(t, p)) # {}}
  IN  {x \in cands : \A y \in cands : Speed[x] <= Speed[y]}

\* CompareRequest: one pass over the other peers; where one starts the piece
\* with the same slice, p's slice moves to the end of the piece.
Compared(q, x, i) ==
  LET o == PeekPiece(q, i).off
  IN  IF HasPiece(x, i) /\ PeekPiece(x, i).off = o THEN MoveLast(q, i, o) ELSE q
CompareRequest(t, p, i) ==
  LET others == Up(t) \ {p}
      pass[n \in 0 .. Cardinality(others)] ==     \* <<p's queue, the peers to come>>
        IF n = 0 THEN {<<Q(t, p), others>>}
        ELSE UNION {{<<Compared(c[1], Q(t, x), i), c[2] \ {x}>> : x \in c[2]} : c \in pass[n - 1]}
  IN  IF Qlen(Q(t, p), i) < 2 THEN {t}
      ELSE {WithQueue(t, p, c[1]) : c \in pass[Cardinality(others)]}

\* Endgame: fewer pieces are missing, or to be had, than peers are connected.
\* Entering it wakes the peers; leaving it recounts the duplicates.
Endgame(t) ==
  LET n       == Cardinality({p \in Peers : t.peer[p].status # "gone"})
      missing == Pieces \ t.have
      there   == UNION {t.peer[p].bf : p \in Up(t)} \ t.have
      eg      == (missing # {} /\ Cardinality(missing) < n) \/ (there # {} /\ Cardinality(there) < n)
      woken   == IF eg /\ ~ t.endgame THEN UnStandby(t) ELSE t
      counted == IF ~ eg /\ t.endgame THEN [woken EXCEPT !.dups = RecalcDupReqs(t)] ELSE woken
  IN  [counted EXCEPT !.endgame = eg]

-----------------------------------------------------------------------------
(* RequestPiece and SendRequest call each other until the queue is full, or *)
(* there is nothing to add.  They end with a call of the other, or without:  *)
(* what they leave is a pair of a state and whether RequestPiece is called.  *)

Roomy(q) ==   \* ReqQueueLength() - qsize >= psize, and less than a piece queued
  /\ 2 * SlicesPerPiece - 1 - Qsize(q) >= SlicesPerPiece /\ Qsize(q) < SlicesPerPiece

\* The record of a peer after SendRequest sent up to five of its requests.
RequestsSent(r) ==
  LET out  == IF r.out < 0 THEN 0 ELSE r.out
      room == IF r.depth > out THEN r.depth - out ELSE 0
      left == IF PeekSend(r.q) THEN Len(r.q.list) - r.q.next + 1 ELSE 0
      n    == Lowest({5, room, left})
  IN  IF n = 0 THEN [r EXCEPT !.out = out]
      ELSE [r EXCEPT !.q = Sent(r.q, n), !.out = out + n,
                     !.last = r.q.list[r.q.next + n - 1].piece]

CopyDupNotCounted(t, p, i, n) ==    \* mutant: the duplicate is not counted
  UNION {UNION {CompareRequest([WithQueue(t, p, q) EXCEPT !.mult = @ \union {i}], p, i) :
                  q \in Shuffle(Copy(Q(t, x), Q(t, p), i), i)} : x \in Holders(t, i)}

\* Piece i, in progress elsewhere with n peers, is asked of p as well.
CopyDup(t, p, i, n) ==
  LET u == [t EXCEPT !.mult = t.mult \union {i}, !.dups = IF n = 1 THEN t.dups + 1 ELSE t.dups]
  IN  UNION {UNION {CompareRequest(WithQueue(u, p, q), p, i) :
                      q \in Shuffle(Copy(Q(t, x), Q(t, p), i), i)} : x \in Holders(t, i)}

\* Piece i moves from PENDING to p.
TakePendingUnmarked(t, p, i) ==      \* mutant: the piece is not marked
  LET u == [WithQueue(t, p, Enter(Q(t, p), Segment(t.pend, i))) EXCEPT
              !.pend = Delete(t.pend, i)]
  IN  IF i \in t.mult THEN CompareRequest(u, p, i) ELSE {u}
TakePending(t, p, i) ==
  LET u == [WithQueue(t, p, Enter(Q(t, p), Segment(t.pend, i))) EXCEPT
              !.pend = Delete(t.pend, i)]
  IN  {[w EXCEPT !.mult = t.mult \union {i}] :
         w \in IF i \in t.mult THEN CompareRequest(u, p, i) ELSE {u}}

\* The last piece that x was asked for and p has moves from x to p.
Abandon(t, p, x) ==
  LET i == FindLastCommonRequest(Q(t, x), t.peer[p].bf)
      u == [WithQueue(t, p, Copy(Q(t, x), Q(t, p), i)) EXCEPT !.mult = @ \union {i}]
  IN  {[w EXCEPT !.peer[x] = PieceCancelled([w.peer[x] EXCEPT !.standby = @ /\ ~ t.endgame], i)] :
         w \in CompareRequest(u, p, i)}

Standby(t, p) == [t EXCEPT !.peer[p] = [@ EXCEPT !.standby = TRUE, !.last = None]]

SendRequest(T, p) ==
  {<<t, t.peer[p].out < t.peer[p].depth /\ ~ t.peer[p].standby>> :
     t \in {[u EXCEPT !.peer[p] = RequestsSent(@)] : u \in T}}
Ending(T) == {<<t, FALSE>> : t \in T}

\* All that p has and we want is requested already (t is what Endgame() left):
\* duplicate a piece, take one over from a slower peer, or stand by.
RequestBusy(t, p, wanted) ==
  LET dup == IF t.endgame /\ p \notin Slow THEN WhatCanDuplicate(t, p, wanted, TRUE) ELSE {}
  IN  IF dup # {} THEN SendRequest(UNION {CopyDup(t, p, d[1], d[2]) : d \in dup}, p)
      ELSE IF Q(t, p).list = << >> /\ WhoCanAbandon(t, p) # {}
      THEN SendRequest(UNION {Abandon(t, p, x) : x \in WhoCanAbandon(t, p)}, p)
      ELSE Ending({Standby(t, p)})

\* Nothing that p has is wanted.
RequestNothing(t, p) ==
  IF ~ NeedRemoteData(t, p) THEN NotInterested(t, p)
  ELSE IF t.peer[p].last \in Pieces \ t.have THEN [t EXCEPT !.peer[p] = [@ EXCEPT !.last = None]]
  ELSE Standby(t, p)

RequestPiece(t, p) ==
  LET r      == t.peer[p]
      need   == r.bf \ t.have
      wanted == IF r.last # None /\ Cardinality(need) > 1 THEN need \ {r.last} ELSE need
      taken  == UNION {QueuedPieces(Q(t, x)) : x \in Up(t)}
      dup    == IF t.have = {} /\ p \notin Slow THEN WhatCanDuplicate(t, p, wanted, FALSE) ELSE {}
  IN  IF ~ Roomy(r.q) THEN Ending({[t EXCEPT !.peer[p] = [r EXCEPT !.depth = r.out]]})
      ELSE IF Reassignable(t.pend, r.q, wanted) # {}
      THEN SendRequest(TakePending(t, p, FirstReassigned(t.pend, r.q, wanted)), p)
      ELSE IF dup # {} THEN SendRequest(UNION {CopyDup(t, p, d[1], d[2]) : d \in dup}, p)
      ELSE IF wanted = {} THEN Ending({RequestNothing(t, p)})
      ELSE IF wanted \ taken # {}
      THEN SendRequest({WithQueue(t, p, AddPiece(r.q, i)) : i \in wanted \ taken}, p)
      ELSE UNION {RequestBusy(e, p, wanted) : e \in {Endgame(t)}}

\* Calls goes on as long as they call each other: a round of RequestPiece ends, or adds a
\* slice to a queue of less than a piece.
Calls(start, p) ==
  LET after[n \in 0 .. SlicesPerPiece + 1] ==
        IF n = 0 THEN start
        ELSE UNION {IF c[2] THEN RequestPiece(c[1], p) ELSE {c} : c \in after[n - 1]}
  IN  {c[1] : c \in after[SlicesPerPiece + 1]}

\* RequestCheck; with two requests out, the next batch may wait.
RequestCheck(t, p) ==
  LET r     == t.peer[p]
      asked == [r EXCEPT !.int = TRUE, !.standby = r.standby /\ r.int,
                         !.out = IF ~ r.choked /\ r.out < 0 THEN 0 ELSE r.out]
  IN  IF Seeding(t) \/ t.paused \/ ~ NeedRemoteData(t, p) THEN {NotInterested(t, p)}
      ELSE UNION {IF r.choked \/ (r.q.list # << >> /\ asked.out >= r.depth) THEN {u}
                  ELSE Calls(IF r.q.list = << >> THEN {<<u, TRUE>>} ELSE SendRequest({u}, p), p)
                         \union (IF r.q.list # << >> /\ r.out >= 2 THEN {u} ELSE {}) :
                    u \in {[t EXCEPT !.peer[p] = asked]}}

-----------------------------------------------------------------------------
(* A slice arrives.                                                        *)

\* WriteSlice: saved; saved, but a write was refused, which stops the download;
\* or not saved.  <<state, success>>
WriteSlice(t, s, v) ==
  LET saved == [t EXCEPT !.store[s] = v]
      stop(u) == StopDownload([u EXCEPT !.failed = TRUE, !.upsets = @ + 1])
  IN  {<<saved, TRUE>>} \union
      (IF Upset(t, "write") THEN {<<stop(saved), TRUE>>, <<stop(t), FALSE>>} ELSE {})

\* Tell_World_I_Have: once nothing more is wanted, the queues are emptied; with
\* the torrent complete the connections to seeds are closed as well.
TellWorld(t) ==
  LET done(r) == IF t.have = Pieces /\ r.bf = Pieces
                 THEN [Uninterested(r) EXCEPT !.status = "failed", !.out = 0] ELSE Uninterested(r)
  IN  IF ~ Seeding(t) THEN t
      ELSE WithPeers(t, [p \in Up(t) |-> done(t.peer[p])])

\* Nobody is to work on piece i any more: it is complete, or starts anew.
Cleanup(t, i) ==
  LET u == IF t.dups # 0 /\ i \in t.mult THEN CancelPiece(t, i) ELSE t
  IN  [u EXCEPT !.pend = Delete(u.pend, i), !.mult = @ \ {i}]

\* ReportComplete: the piece is hashed.  A bad piece that came from one peer
\* alone is charged to it, and may be the last straw.  <<state, good>>
ReportComplete(t, p, i) ==
  LET good    == \A o \in Offsets : t.store[<<i, o>>] = "good"
      dropped == [t EXCEPT !.store = [s \in Slices |-> IF s[1] = i THEN "none" ELSE t.store[s]]]
      charged == [dropped EXCEPT !.blamed = t.blamed \union {<<p, i>>}]
      hashed  == IF good THEN {TellWorld([t EXCEPT !.have = t.have \union {i}])}
                 ELSE IF i \in t.mult THEN {dropped}
                 ELSE {[charged EXCEPT !.peer[p] = [@ EXCEPT !.bf = t.peer[p].bf \ {i}]], CloseConnection(charged, p)}
  IN  {<<Cleanup(u, i), good>> : u \in hashed}

\* The slice is off the queues: p's, and those it was duplicated to.
\* <<state, did another have it>>
Arrived(t, p, i, o, requested) ==
  LET r     == t.peer[p]
      got   == [t EXCEPT !.peer[p] = [r EXCEPT !.q = Remove(r.q, i, o),
                                               !.out = IF requested THEN r.out - 1 ELSE r.out]]
      spread == ~ requested \/ (got.dups # 0 /\ i \in got.mult)
      freed == IF spread THEN CancelSlice(got, i, o) ELSE got
      purge == freed.dups # 0 \/ freed.failed
  IN  <<IF purge THEN [freed EXCEPT !.pend = Remove(freed.pend, i, o)] ELSE freed,
        \/ spread /\ \E x \in Up(got) : HasSlice(Q(got, x), i, o)
        \/ purge /\ HasSlice(freed.pend, i, o)>>

\* A slice p still owes, or one it was to cancel that somebody still wants.
Acceptable(t, p, i, o) ==
  /\ t.peer[p].grace /\ i \in t.mult
  /\ HasSlice(t.pend, i, o) \/ \E x \in Peers : HasSlice(Q(t, x), i, o)

\* Is the piece complete, as far as PieceDeliver can see?
LooksComplete(t, p, i, requested) ==
  /\ i \notin t.have
  /\ IF requested THEN ~ HasPiece(Q(t, p), i)
     ELSE ~ HasPiece(t.pend, i) /\ \A x \in Peers : ~ HasPiece(Q(t, x), i)
  /\ ~ (t.failed /\ HasPiece(t.pend, i))

\* PieceDeliver ends by asking for more.
Finish(t, p, requested) ==
  LET r == t.peer[p]
  IN  UNION {IF ~ requested \/ u.peer[p].standby \/ r.status # "up" THEN {u}
             ELSE RequestCheck(u, p) :
               u \in {[t EXCEPT !.peer[p] = [r EXCEPT !.standby =
                                               @ /\ ~ (requested /\ r.q.list = << >>)]]}}

PieceDeliver(t, p, i, o, v) ==
  LET requested == IsSent(Q(t, p), i, o)
      written   == IF i \in t.have THEN {<<t, TRUE>>} ELSE WriteSlice(t, <<i, o>>, v)
      deeper(u) == IF requested THEN {[u EXCEPT !.peer[p] = [@ EXCEPT !.depth = d]] : d \in Depths} ELSE {u}
      after(u, dup) ==
        IF LooksComplete(u, p, i, requested)
        THEN UNION {IF c[2] \/ ~ dup THEN {c[1]} ELSE CancelOneRequest(c[1], i) :
                      c \in ReportComplete(u, p, i)}
        ELSE IF dup THEN CancelOneRequest(u, i) ELSE {u}
      saved(u) == UNION {UNION {after(w, a[2]) : w \in deeper(a[1])} :
                           a \in {Arrived(u, p, i, o, requested)}}
  IN  UNION {Finish(x, p, requested) :
               x \in UNION {IF w[2] THEN saved(w[1]) ELSE deeper(w[1]) : w \in written}}

-----------------------------------------------------------------------------
Put(t) ==
  /\ peer' = t.peer /\ pend' = t.pend /\ mult' = t.mult /\ have' = t.have
  /\ store' = t.store /\ dups' = t.dups /\ endgame' = t.endgame /\ failed' = t.failed
  /\ paused' = t.paused /\ blamed' = t.blamed /\ upsets' = t.upsets

Init ==
  /\ peer = [p \in Peers |-> Gone] /\ pend = EmptyQueue
  /\ mult = {} /\ have = {} /\ store = [s \in Slices |-> "none"] /\ dups = 0
  /\ endgame = FALSE /\ failed = FALSE /\ paused = FALSE /\ blamed = {} /\ upsets = 0

Upsetting == [Cur EXCEPT !.upsets = upsets + 1]

\* The handshake and the bitfield of a new peer; with the torrent complete,
\* nothing is asked of it.
Connect(p) ==
  /\ peer[p].status = "gone" /\ have # Pieces
  /\ \E t \in RequestCheck([Cur EXCEPT !.peer[p] = NewPeer(Holds[p])], p) : Put(t)

\* The connection breaks, or the peer is dropped; FillFDSet reaps it later.
Close(p) ==
  /\ peer[p].status = "up" /\ Upset(Cur, "close")
  /\ Put(CloseConnection(Upsetting, p))
Reap(p) ==
  /\ peer[p].status = "failed"
  /\ Put([Cur EXCEPT !.peer[p] = Gone])

\* BT_MSG_CHOKE.
Choked(t, p) ==
  PutPending([t EXCEPT !.mult = @ \union (IF Q(t, p).list = << >> THEN {}
                                          ELSE {Q(t, p).list[1].piece})], p)
Choke(p) ==
  /\ peer[p].status = "up" /\ ~ peer[p].choked /\ Upset(Cur, "choke")
  /\ LET t == IF peer[p].q.list = << >> THEN Upsetting ELSE Choked(Upsetting, p)
     IN  Put([t EXCEPT !.peer[p] = [@ EXCEPT !.choked = TRUE, !.grace = TRUE]])

\* BT_MSG_UNCHOKE; when it comes right after a CHOKE, the piece last asked for
\* stays avoided, and nothing is requested when a CHOKE is right behind it.
Unchoke(p) ==
  /\ peer[p].status = "up" /\ peer[p].choked
  /\ \E last \in {None, peer[p].last} :
       LET t == [Cur EXCEPT !.peer[p] = [peer[p] EXCEPT !.choked = FALSE, !.standby = FALSE,
                                                        !.last = last]]
       IN  \E u \in RequestCheck(t, p) \union {t} : Put(u)

\* BT_MSG_HAVE; two seeds part.
Have(p, i) ==
  /\ peer[p].status = "up" /\ i \notin peer[p].bf /\ <<p, i>> \notin blamed
  /\ LET t == [Cur EXCEPT !.peer[p] = [peer[p] EXCEPT !.bf = @ \union {i},
                                                      !.standby = @ /\ i \in have]]
     IN  IF t.peer[p].bf = Pieces /\ have = Pieces THEN Put(CloseConnection(t, p))
         ELSE IF t.peer[p].standby THEN Put(t) ELSE \E u \in RequestCheck(t, p) : Put(u)

\* BT_MSG_PIECE, of the slices that are not thrown away.
Piece(p, i, o, v) ==
  /\ peer[p].status = "up" /\ (v = "bad" => p \in Liars)
  /\ IsSent(peer[p].q, i, o) \/ Acceptable(Cur, p, i, o)
  /\ \E t \in PieceDeliver(Cur, p, i, o, v) : Put(t)

\* An honest peer answers one of the requests it was sent.
Answer(p) == \E s \in Slices : IsSent(peer[p].q, s[1], s[2]) /\ Piece(p, s[1], s[2], "good")

\* NeedWrite: a piece, or a queued request, can be asked for.
CanRequest(p) ==
  LET r == peer[p]
  IN  /\ ~ paused
      /\ \/ ~ r.choked /\ r.int /\ r.q.list = << >> /\ ~ r.standby
         \/ PeekSend(r.q) /\ r.out >= 0 /\ r.out < r.depth

\* SendModule, because of that ...
SendModule(p) ==
  /\ peer[p].status = "up" /\ ~ peer[p].choked /\ CanRequest(p)
  /\ \E t \in RequestCheck(Cur, p) : Put(t)
\* ... or because there is something to send: a keepalive, a HAVE, a slice.
SendOtherAwake(p) ==                  \* mutant: not to a peer on standby
  /\ peer[p].status = "up" /\ ~ peer[p].choked /\ ~ peer[p].standby
  /\ \E t \in RequestCheck(Cur, p) : Put(t)
SendOther(p) ==
  /\ peer[p].status = "up" /\ ~ peer[p].choked
  /\ \E t \in RequestCheck(Cur, p) : Put(t)

\* The time has passed in which a slice may come that was cancelled.
Lapse(p) ==
  /\ peer[p].grace
  /\ Put([Cur EXCEPT !.peer[p] = [@ EXCEPT !.grace = FALSE]])

\* HealthCheck: requests are out and nothing came; the queue is reset.
Unresponsive(p) ==
  /\ peer[p].status = "up" /\ ~ peer[p].choked /\ peer[p].out # 0 /\ have # Pieces
  /\ Upset(Cur, "health")
  /\ LET n == Cardinality(LeadingSent(peer[p].q))
     IN  Put(PutPending([Upsetting EXCEPT !.peer[p] = [peer[p] EXCEPT !.grace = @ \/ n > 0]], p))

Pause  == /\ ~ paused /\ Upset(Cur, "pause")
          /\ Put(StopDownload([Upsetting EXCEPT !.paused = TRUE]))
Resume == /\ paused
          /\ Put(CheckInterest([Cur EXCEPT !.paused = FALSE]))

\* FlushQueue: a write is refused, or after a failure accepted again.
FlushFails    == /\ Upset(Cur, "flush")
                 /\ Put(StopDownload([Upsetting EXCEPT !.failed = TRUE]))
FlushSucceeds == /\ failed
                 /\ Put(CheckInterest([Cur EXCEPT !.failed = FALSE]))

Next ==
  \/ \E p \in Peers : Connect(p)
  \/ \E p \in Peers : Close(p)
  \/ \E p \in Peers : Reap(p)
  \/ \E p \in Peers : Choke(p)
  \/ \E p \in Peers : Unchoke(p)
  \/ \E p \in Peers, i \in Pieces : Have(p, i)
  \/ \E p \in Peers, s \in Slices, v \in {"good", "bad"} : Piece(p, s[1], s[2], v)
  \/ \E p \in Peers : SendModule(p)
  \/ \E p \in Peers : SendOther(p)
  \/ \E p \in Peers : Lapse(p)
  \/ \E p \in Peers : Unresponsive(p)
  \/ Pause
  \/ Resume
  \/ FlushFails
  \/ FlushSucceeds

Spec == Init /\ [][Next]_vars

\* The event loop serves every connection that can be written to and reaps
\* failed peers; keepalives make it write to silent ones.  A seed stays to be
\* found and unchokes us some day; others may go, or choke us, for good.  An
\* honest peer answers the requests it accepts.
Seeds == {p \in Peers : Holds[p] = Pieces}
FairSpec ==
  /\ Spec
  /\ \A p \in Peers : WF_vars(Reap(p)) /\ WF_vars(SendModule(p)) /\ WF_vars(SendOther(p))
  /\ \A p \in Seeds : WF_vars(Connect(p)) /\ WF_vars(Unchoke(p))
  /\ \A p \in Peers \ Liars : WF_vars(Answer(p))
  /\ WF_vars(Resume) /\ WF_vars(FlushSucceeds)

-----------------------------------------------------------------------------
(* Properties.                                                             *)

Record ==
  [status : {"up", "failed", "gone"}, int : BOOLEAN, choked : BOOLEAN, bf : SUBSET Pieces,
   q : [list : Seq([piece : Pieces, off : Offsets, sent : BOOLEAN]), next : Nat],
   out : Int, depth : Nat, standby : BOOLEAN, last : Pieces \union {None}, grace : BOOLEAN]

\* Types; a queue names no slice twice.
TypeOK ==
  /\ peer \in [Peers -> Record]
  /\ \A q \in {pend} \union {peer[p].q : p \in Peers} :
       \A s \in Slices : Cardinality(At(q, s[1], s[2])) <= 1
  /\ mult \subseteq Pieces /\ have \subseteq Pieces
  /\ store \in [Slices -> {"none", "good", "bad"}]
  /\ dups \in Int /\ {endgame, failed, paused} \subseteq BOOLEAN

\* The cursor rq_send divides every request queue into what was sent and what
\* was not, whatever was moved, shuffled, duplicated or taken out: CancelRequest
\* stops at the first unsent slice, Append resets only the leading sent ones.
\* And by TypeOK no slice is in a queue twice.
CursorExact ==
  /\ TypeOK
  /\ \A p \in Peers : LET q == peer[p].q
                      IN  \A k \in DOMAIN q.list : q.list[k].sent <=> (q.next = 0 \/ k < q.next)

\* m_req_out is the number of requests the peer owes an answer to.
OutCount == \A p \in Peers : peer[p].out = Cardinality(SentSlices(peer[p].q))

\* Whoever works on a piece has all its missing slices on the list: the last
\* slice of the list completes the piece, however it came to be split among
\* peers, duplicated, cancelled, parked in PENDING and taken over.
CoversMissing ==
  \A q \in {pend} \union {peer[p].q : p \in Peers}, i \in Pieces \ have :
    HasPiece(q, i) => \A o \in Offsets : store[<<i, o>>] = "none" => HasSlice(q, i, o)

\* A piece that is complete is not requested, and not waiting to be: whoever
\* else was asked for it is found, though PieceDeliver and ReportComplete look
\* for nobody when m_dup_req_pieces is 0, which therefore misses no duplicate.
DoneNotRequested ==
  /\ dups >= RecalcDupReqs(Cur)
  /\ \A q \in {pend} \union {peer[p].q : p \in Peers} : QueuedPieces(q) \intersect have = {}

\* A peer that only sends the torrent's data is never charged with a bad piece.
HonestNotBlamed == \A b \in blamed : b[1] \in Liars

\* Every piece is downloaded in the end.
Completes == <>(have = Pieces)

=============================================================================
