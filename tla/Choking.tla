------------------------------ MODULE Choking ------------------------------
(***************************************************************************)
(* Who may download from us: PeerList's unchoke check with its array of    *)
(* slots, UnchokeIfFree between two checks, and the limit m_max_unchoke    *)
(* that is adjusted to the bandwidth. m_max_unchoke + 1 peers may be       *)
(* unchoked; when an optimistic unchoke is due, the last slot is for the   *)
(* peer that has waited longest.                                           *)
(*                                                                         *)
(* An unchoke check is the loop of FillFDSet over the peers (Pass), which  *)
(* may start over (Again), and the loop over the slots that follows        *)
(* (Unchoking). Nothing else runs in between.                              *)
(***************************************************************************)
EXTENDS Integers, FiniteSets, Sequences

CONSTANTS
  Peers,
  MinUnchokes,   \* MIN_UNCHOKES
  NoPeer,        \* an empty slot
  MaxPasses,     \* bound: how often FillFDSet goes over the peers
  Modes          \* of "leech", "seed": Seeding() without every piece, and "full": IsFull()

ASSUME ChokingAssumption ==
  /\ IsFiniteSet(Peers) /\ NoPeer \notin Peers
  /\ MinUnchokes \in Nat \ {0} /\ MaxPasses \in Nat \ {0}
  /\ Modes \subseteq {"leech", "seed", "full"} /\ Modes # {}

VARIABLES
  on,           \* the peers with status DT_PEER_SUCCESS
  interested,   \* of those, the ones with m_state.remote_interested
  unchoked,     \* the ones without m_state.local_choked
  requested,    \* the ones with m_requested
  has,          \* what a peer has of our pieces: "none", "some", "all"
  stamp,        \* m_unchoke_timestamp, as its rank among those of the peers
  max,          \* m_max_unchoke
  mode,         \* what BTCONTENT.Seeding() and IsFull() say
  paused,       \* m_f_pause
  check         \* the unchoke check that is going on

vars == <<on, interested, unchoked, requested, has, stamp, max, mode, paused, check>>

Idle == [begun |-> FALSE, pass |-> 0, slot |-> << >>, rank |-> << >>, opt |-> FALSE, chokedNow |-> {}]

Greatest(S) == CHOOSE x \in S : \A y \in S : y <= x
Smallest(S) == CHOOSE x \in S : \A y \in S : x <= y
Now == 1 + Greatest({stamp[p] : p \in Peers})
\* Only the order of the timestamps matters, until we have everything; 0 stands for none.
Ranked(s) ==
  [p \in Peers |-> IF s[p] = 0 \/ mode = "full" THEN 0
                   ELSE Cardinality({s[q] : q \in {r \in Peers : s[r] # 0 /\ s[r] <= s[p]}})]

Empty(p) == has[p] = "none"                   \* IsEmpty
NeedLocalData(p) == has[p] # "all"            \* Need_Local_Data
Candidates(c) == {p \in c.interested : NeedLocalData(p)}

-----------------------------------------------------------------------------
(* SelectUnchoke, on what it compares: the totals and the rate of a peer,   *)
(* and how many pieces it has, of twice half.                               *)

Seeding == mode # "leech"
Stats == [dl : 0 .. 2, ul : {0, 1, 4}, rate : 0 .. 1, pieces : 0 .. 3]

Abs(x) == IF x < 0 THEN -x ELSE x
\* Nearer to the beginning or the end, or at the same distance nearer to the end
Completion(a, b, half) ==
  \/ Abs(a.pieces - half) > Abs(b.pieces - half)
  \/ Abs(a.pieces - half) = Abs(b.pieces - half) /\ a.pieces >= b.pieces

\* A peer that gave us more than we gave it, of which proportionally less has been returned
Reciprocates(a, b, seeding) ==
  LET owed(c) == ~seeding \/ c.dl > c.ul
  IN  owed(a) /\ (owed(b) => a.ul * b.dl < b.ul * a.dl)


\* SelectUnchoke(a, b) is a.
Prefers(a, b, seeding, half) ==
  LET reciprocal == seeding \/ (a.dl = 0 /\ b.dl = 0)
  IN  IF ~reciprocal /\ (a.dl = 0 \/ b.dl = 0) THEN b.dl = 0
      ELSE IF ~reciprocal /\ a.rate # b.rate THEN a.rate > b.rate
      ELSE IF Reciprocates(a, b, reciprocal) THEN TRUE
      ELSE IF Reciprocates(b, a, reciprocal) THEN FALSE
      ELSE Completion(a, b, half)

\* So that SelectUnchoke compares ranks, and returns its first argument when they are equal.
Rankings(S) ==
  {f \in [S -> 1 .. Cardinality(S)] : \A r \in {f[p] : p \in S} : r = 1 \/ \E p \in S : f[p] = r - 1}
Orders(S) == {s \in [1 .. Cardinality(S) -> S] : \A p \in S : \E i \in DOMAIN s : s[i] = p}

-----------------------------------------------------------------------------
(* SetLocal, and CloseConnection when it fails. A handler works on a record *)
(* of what it changes; the sockets of the peers in bad do not take anything. *)

Peer == [on |-> on, interested |-> interested, unchoked |-> unchoked, requested |-> requested,
         has |-> has, stamp |-> stamp, check |-> check]

\* The peers in S are closed: what remains are the statistics that CopyStats may give to the
\* next connection of a peer.
Closed(c, S) ==
  [c EXCEPT !.on = @ \ S, !.interested = @ \ S, !.unchoked = @ \ S, !.requested = @ \ S,
            !.has = [p \in Peers |-> IF p \in S THEN "none" ELSE c.has[p]]]

\* The peers in S are choked, and closed if they do not take it or made no use of us.
Choke(c, S, bad, now) ==
  LET told == S \cap c.unchoked
      gone == {p \in told : p \in bad \/ (p \notin c.requested /\ mode = "full")}
      d    == [c EXCEPT !.unchoked = @ \ told, !.requested = @ \ told,
                        !.stamp = [p \in Peers |-> IF p \in told THEN now ELSE c.stamp[p]],
                        !.check.chokedNow = @ \cup told]
  IN  Closed(d, gone)

Unchoke(c, p, bad, now) ==
  IF p \in c.unchoked THEN c
  ELSE LET d == [c EXCEPT !.unchoked = @ \cup {p}, !.stamp[p] = now]
       IN  IF p \in bad THEN Closed(d, {p}) ELSE d

Becomes(c) ==
  /\ on' = c.on /\ interested' = c.interested /\ unchoked' = c.unchoked
  /\ requested' = c.requested /\ has' = c.has /\ stamp' = Ranked(c.stamp)

-----------------------------------------------------------------------------
(* The check *)

IsFree(c, i) == c.check.slot[i] = NoPeer \/ c.check.slot[i] \notin c.on

\* The last slot that is not for the optimistic unchoke.
LastRegular(opt) == IF opt THEN max - 1 ELSE max

\* Variant for the mutants: the strongest of the slots.
WeakestWrong(c, last) ==
  LET better(w, i) == c.check.rank[c.check.slot[i]] > c.check.rank[c.check.slot[w]]
      found[i \in 0 .. last] ==
        IF i = 0 THEN 0 ELSE IF better(found[i - 1], i) THEN i ELSE found[i - 1]
  IN  found[last]
\* The least favoured peer that has a slot: the one SelectUnchoke never returns.
Weakest(c, last) ==
  LET slot == c.check.slot
      worse(w, i) == slot[i] = slot[w] \/ c.check.rank[slot[i]] < c.check.rank[slot[w]]
      found[i \in 0 .. last] ==
        IF i = 0 THEN 0 ELSE IF worse(found[i - 1], i) THEN i ELSE found[i - 1]
  IN  found[last]

\* Variant for the mutants: the peer that was choked last.
WaitedLess(c, p, o) ==
  \/ p \notin c.unchoked /\ (o \in c.unchoked \/ c.stamp[p] > c.stamp[o])
  \/ p \in c.unchoked /\ o \in c.unchoked /\ c.stamp[o] < c.stamp[p]
\* Choked for longer, or unchoked for less time.
Waited(c, p, o) ==
  \/ p \notin c.unchoked /\ (o \in c.unchoked \/ c.stamp[p] < c.stamp[o])
  \/ p \in c.unchoked /\ o \in c.unchoked /\ c.stamp[o] < c.stamp[p]

\* p takes the optimistic slot from o; luck is RandBits(2), which favours the empty one.
TakesOver(c, p, o, luck) ==
  \/ Empty(p) /\ ~Empty(o) /\ luck
  \/ Waited(c, p, o) /\ (~Empty(o) \/ Empty(p) \/ luck)

\* The optimistic slot, for a peer without another; the one that has none is choked.
Optimistic(c, p, bad, now, luck) ==
  LET o == c.check.slot[max]
      took == [c EXCEPT !.check.slot[max] = p]
  IN  IF IsFree(c, max) THEN took
      ELSE IF TakesOver(c, p, o, luck) THEN Choke(took, {o}, bad, now)
      ELSE Choke(c, {p}, bad, now)

FreeSlots(c, last) == {i \in 0 .. last : IsFree(c, i)}

UnchokeCheck(c, p, bad, now, luck) ==
  LET last == LastRegular(c.check.opt)
      free == FreeSlots(c, last)
      w    == Weakest(c, last)
      wins == c.check.rank[p] >= c.check.rank[c.check.slot[w]]
      loser == IF wins THEN c.check.slot[w] ELSE p
      d     == IF wins THEN [c EXCEPT !.check.slot[w] = p] ELSE c
  IN  IF free # {} THEN [c EXCEPT !.check.slot[Smallest(free)] = p]
      ELSE IF ~c.check.opt THEN Choke(d, {loser}, bad, now)
      ELSE Optimistic(d, loser, bad, now, luck)

Visit(c, p, bad, now, luck) ==
  IF p \notin c.on THEN c
  ELSE IF p \in Candidates(c) THEN UnchokeCheck(c, p, bad, now, luck)
  ELSE Choke(c, {p}, bad, now)

\* The loop of FillFDSet, over the peers in the order of the list.
Loop(c, order, bad, now, luck) ==
  LET passed[i \in 0 .. Len(order)] ==
        IF i = 0 THEN c ELSE Visit(passed[i - 1], order[i], bad, now, luck)
  IN  passed[Len(order)]

\* Variant for the mutants: it is lowered below the minimum.
LoweredFar(n) == {n - 1}
Lowered(n) == IF n > MinUnchokes THEN {n - 1} ELSE {}

\* GetUnchoked
GetUnchoked == IF Cardinality(unchoked) > max THEN max + 1 ELSE Cardinality(unchoked)
\* m_max_unchoke is raised when bandwidth was left over; lowered, when an optimistic unchoke
\* is due, when slices had to wait; and MIN_UNCHOKES when there is no limit.
NewMax(due) ==
  LET raised == {max, IF GetUnchoked < MinUnchokes THEN MinUnchokes ELSE GetUnchoked}
  IN  {MinUnchokes} \cup raised \cup (IF due THEN UNION {Lowered(n) : n \in raised} ELSE {})

\* IntervalCheck, when it is time for an unchoke check.
Begin ==
  /\ check.pass = 0 /\ ~check.begun /\ ~paused /\ on # {}
  /\ \E due \in BOOLEAN : \E m \in NewMax(due) :
       /\ max' = m
       /\ check' = [Idle EXCEPT !.begun = TRUE, !.slot = [i \in 0 .. m |-> NoPeer], !.opt = due /\ ~Seeding]
  /\ UNCHANGED <<on, interested, unchoked, requested, has, stamp, mode, paused>>

\* RandBits matters only where there are both kinds of peers.
Lucks(S) == IF {Empty(p) : p \in S} = BOOLEAN /\ check.opt THEN BOOLEAN ELSE {TRUE}
AtMostOne(S) == {{}} \cup {{p} : p \in S}

Looped(rank, order, bad, luck) ==
  Loop([Peer EXCEPT !.check.rank = rank, !.check.pass = @ + 1], order, bad, Now, luck)

\* The peers come in the order of the list, and SelectUnchoke ranks them.
Pass ==
  /\ check.begun /\ check.pass = 0
  /\ \E rank \in Rankings(Candidates(Peer)), order \in Orders(on), bad \in AtMostOne(unchoked),
        luck \in Lucks(Candidates(Peer)) :
       LET c == Looped(rank, order, bad, luck)
       IN  Becomes(c) /\ check' = c.check
  /\ UNCHANGED <<max, mode, paused>>

\* The bandwidth limit ended meanwhile: FillFDSet starts over, with what is in the slots.
Again ==
  /\ check.pass \in 1 .. MaxPasses - 1
  /\ \E order \in Orders(on), luck \in Lucks(Candidates(Peer)) :
       LET c == Looped(check.rank, order, {}, luck)
       IN  Becomes(c) /\ check' = c.check
  /\ UNCHANGED <<max, mode, paused>>

\* The loop over the slots ends at the first one that was never filled.
Used == Cardinality({i \in 0 .. max : \A j \in 0 .. i : check.slot[j] # NoPeer})
Given(slot) == {slot[i] : i \in 0 .. Used - 1} \cap on

\* Those that have one of the first n slots are unchoked.
Unchokes(n, bad) ==
  LET give(c, i) == IF IsFree(c, i) THEN c ELSE Unchoke(c, c.check.slot[i], bad, Now)
      given[i \in 0 .. n] == IF i = 0 THEN Peer ELSE give(given[i - 1], i - 1)
  IN  given[n]

Unchoking ==
  /\ check.pass > 0
  /\ \E bad \in AtMostOne(Given(check.slot) \ unchoked) : Becomes(Unchokes(Used, bad))
  /\ check' = Idle
  /\ UNCHANGED <<max, mode, paused>>

-----------------------------------------------------------------------------
(* Between the checks *)

\* HandShake: a peer that returns has its old timestamp.
Connect(p) ==
  /\ p \notin on
  /\ on' = on \cup {p}
  /\ \E old \in {0, stamp[p]} :
       stamp' = Ranked([stamp EXCEPT ![p] = IF old = 0 /\ Seeding THEN Now ELSE old])
  /\ UNCHANGED <<interested, unchoked, requested, has, max, mode, paused, check>>

\* The peer leaves, breaks a rule, or is silent for too long.
Close(p) ==
  /\ p \in on
  /\ Becomes(Closed(Peer, {p}))
  /\ UNCHANGED <<max, mode, paused, check>>

\* HAVE and BITFIELD; a seed leaves when we are one.
Have(p, pieces) ==
  /\ p \in on
  /\ <<has[p], pieces>> \in {<<"none", "some">>, <<"none", "all">>, <<"some", "all">>}
  /\ Becomes(IF mode = "full" /\ pieces = "all" THEN Closed(Peer, {p})
             ELSE [Peer EXCEPT !.has[p] = pieces])
  /\ UNCHANGED <<max, mode, paused, check>>

\* Variant for the mutants: one too many.
HasSlotOneMore(c) == Cardinality(c.unchoked \cap c.interested) <= max + 1
\* A slot is free, as UnchokeIfFree counts them.
HasSlot(c) == Cardinality(c.unchoked \cap c.interested) <= max

UnchokeIfFree(c, p, bad, now) == IF ~paused /\ HasSlot(c) THEN Unchoke(c, p, bad, now) ELSE c

\* INTERESTED
Interested(p) ==
  /\ p \in on \ interested
  /\ \E bad \in {{}, {p}} :
       LET c == [Peer EXCEPT !.interested = @ \cup {p}]
       IN  Becomes(IF NeedLocalData(p) THEN UnchokeIfFree(c, p, bad, Now) ELSE c)
  /\ UNCHANGED <<max, mode, paused, check>>

\* NOT_INTERESTED
NotInterested(p) ==
  /\ p \in interested
  /\ interested' = interested \ {p}
  /\ UNCHANGED <<on, unchoked, requested, has, stamp, max, mode, paused, check>>

\* REQUEST: a choked peer that goes on asking is told again that it is choked, which counts
\* as a choke; one that is not interested is closed (Close).
Request(p) ==
  /\ p \in interested
  /\ \/ p \in unchoked /\ requested' = requested \cup {p} /\ UNCHANGED stamp
     \/ p \notin unchoked /\ stamp' = Ranked([stamp EXCEPT ![p] = Now]) /\ UNCHANGED requested
  /\ UNCHANGED <<on, interested, unchoked, has, max, mode, paused, check>>

\* A piece of ours is completed, which those in keep have already; it may be the last one.
GotPiece(keep, next) ==
  /\ mode = "leech"
  /\ mode' = next
  /\ has' = [p \in Peers |-> IF has[p] = "all" /\ p \notin keep THEN "some" ELSE has[p]]
  /\ stamp' = [p \in Peers |-> IF next = "full" THEN 0 ELSE stamp[p]]
  /\ UNCHANGED <<on, interested, unchoked, requested, max, paused, check>>

\* CloseAllConnectionToSeed
CloseSeeds ==
  /\ mode = "full" /\ \E p \in on : has[p] = "all"
  /\ Becomes(Closed(Peer, {p \in on : has[p] = "all"}))
  /\ UNCHANGED <<max, mode, paused, check>>

\* Pause, and Resume
Pause ==
  /\ ~paused
  /\ \E bad \in AtMostOne(unchoked) : Becomes(Choke(Peer, unchoked, bad, Now))
  /\ paused' = TRUE
  /\ UNCHANGED <<max, mode, check>>
Resume ==
  /\ paused
  /\ paused' = FALSE
  /\ UNCHANGED <<on, interested, unchoked, requested, has, stamp, max, mode, check>>

-----------------------------------------------------------------------------
Init ==
  /\ on = {} /\ interested = {} /\ unchoked = {} /\ requested = {}
  /\ has = [p \in Peers |-> "none"] /\ stamp = [p \in Peers |-> 0]
  /\ max = MinUnchokes /\ mode \in Modes /\ paused = FALSE /\ check = Idle

Checking == Begin \/ Pass \/ Again \/ Unchoking

Next ==
  \/ Checking
  \/ /\ ~check.begun
     /\ \/ \E p \in Peers : \/ Connect(p) \/ Close(p) \/ Interested(p) \/ NotInterested(p) \/ Request(p)
                            \/ \E pieces \in {"some", "all"} : Have(p, pieces)
        \/ \E keep \in SUBSET {p \in on : has[p] = "all"}, next \in Modes : GotPiece(keep, next)
        \/ CloseSeeds \/ Pause \/ Resume

Spec == Init /\ [][Next]_vars

-----------------------------------------------------------------------------
TypeOK ==
  /\ on \subseteq Peers /\ interested \subseteq on /\ unchoked \subseteq on /\ requested \subseteq unchoked
  /\ has \in [Peers -> {"none", "some", "all"}] /\ stamp \in [Peers -> 0 .. Cardinality(Peers)]
  /\ max \in MinUnchokes .. Cardinality(Peers) + MinUnchokes
  /\ mode \in Modes /\ paused \in BOOLEAN
  /\ check.pass \in 0 .. MaxPasses /\ check.opt \in BOOLEAN
  /\ check.begun => DOMAIN check.slot = 0 .. max

\* With half of the pieces at the middle of what Stats has.
SelectIsOrder ==
  \A seeding \in BOOLEAN : \A a, b \in Stats :
    /\ Prefers(a, b, seeding, 1) \/ Prefers(b, a, seeding, 1)
    /\ Prefers(a, b, seeding, 1) =>
         \A c \in Stats : Prefers(b, c, seeding, 1) => Prefers(a, c, seeding, 1)

InSlots(slots) == {check.slot[i] : i \in slots} \cap on
Losers == {p \in Candidates(Peer) : p \notin InSlots(0 .. max)}

\* After one pass nobody who wants data of ours does without while a slot is free, and the
\* peers in the regular slots are our best, in whatever order the list has them: SelectUnchoke
\* orders the peers whatever their figures are.
BestServed ==
  /\ check.begun => SelectIsOrder
  /\ check.pass = 1 =>
       /\ Losers # {} => \A i \in 0 .. max : ~IsFree(Peer, i)
       /\ \A p \in Candidates(Peer) \ InSlots(0 .. LastRegular(check.opt)), i \in 0 .. LastRegular(check.opt) :
            ~IsFree(Peer, i) => check.rank[p] <= check.rank[check.slot[i]]

\* The optimistic slot goes to the one that has been choked for longest (those without any
\* piece are favoured by chance, and one may have made way for a peer that was then closed).
OptimisticFair ==
  (check.pass = 1 /\ check.opt /\ ~IsFree(Peer, max) /\ \A p \in on \cup check.chokedNow : ~Empty(p)) =>
    \A p \in Losers \ check.chokedNow :
      check.slot[max] \notin unchoked /\ stamp[check.slot[max]] <= stamp[p]

\* Who is unchoked has a slot: never more than m_max_unchoke and one, neither by the check,
\* however often it started over, nor by UnchokeIfFree; and nobody is unchoked during a pause.
NoOverbooking ==
  [][/\ unchoked' \ unchoked # {} => Cardinality(unchoked' \cap interested') <= max' + 1
     /\ paused' => unchoked' = {}]_vars
=============================================================================
