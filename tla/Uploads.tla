------------------------------ MODULE Uploads ------------------------------
(***************************************************************************)
(* What we send to the peers: the slices they ask for, and the HAVEs about *)
(* pieces we complete. The upload bandwidth is shared through the queue    *)
(* m_next_ul: only its head may send a slice, and the others join it. A    *)
(* head whose socket does not become ready is passed over. HAVEs wait in   *)
(* m_haveq until something else is sent.                                   *)
(*                                                                         *)
(* A round of the main loop is FillFDSet, select and the beginning of      *)
(* AnyPeerReady (Round), and a SendModule for each socket that is ready.   *)
(* Who is unchoked is Choking's concern: here it happens at any time.      *)
(***************************************************************************)
EXTENDS Integers, FiniteSets, Sequences, SequencesExt

CONSTANTS
  Peers,
  Live,        \* the peers whose sockets take whatever is sent, at once
  Pieces,      \* how many pieces the torrent has
  HaveqSize,   \* HAVEQ_SIZE
  MaxAsked     \* bound: how many requests of a peer are in respond_q

ASSUME UploadsAssumption ==
  /\ IsFiniteSet(Peers) /\ Live \subseteq Peers
  /\ Pieces \in Nat /\ HaveqSize \in Nat \ {0} /\ MaxAsked \in Nat \ {0}

VARIABLES
  on,           \* the peers with status DT_PEER_SUCCESS
  interested,   \* of those, the ones with m_state.remote_interested
  unchoked,     \* the ones without m_state.local_choked
  asked,        \* how many requests are in respond_q
  out,          \* whether out_buffer has data
  next,         \* m_next_ul
  deferred,     \* the peers with m_deferred_ul
  limited,      \* BandwidthLimitUp
  ready,        \* the peers that AnyPeerReady has yet to call SendModule for
  ours,         \* how many pieces we have: 1 .. ours, in the order they were completed
  haveq,        \* m_haveq
  told          \* the pieces a peer was told of, by the bitfield and HAVEs, in that order

vars == <<on, interested, unchoked, asked, out, next, deferred, limited, ready, ours, haveq, told>>
peerVars == <<on, interested, unchoked>>
haveVars == <<ours, haveq, told>>

-----------------------------------------------------------------------------
(* The queue *)

IsNext(p) == IF next = << >> THEN TRUE ELSE Head(next) = p             \* IsNextUL
WaitUL(q, p) == IF \E i \in DOMAIN q : q[i] = p THEN q ELSE Append(q, p)
\* q without those in S, as a recursive function: its properties are proved.
Without(q, S) ==
  LET kept[i \in 0 .. Len(q)] ==
        IF i = 0 THEN << >> ELSE IF q[i] \in S THEN kept[i - 1] ELSE Append(kept[i - 1], q[i])
  IN  kept[Len(q)]
DontWaitUL(q, p) == Without(q, {p})
\* BWReQueue is meant to move p to the end. It ties p to itself instead: p drops out.
ReQueueUL(q, p) == IF q = <<p>> THEN q ELSE DontWaitUL(q, p)

\* NeedWrite
NeedWrite(p) == p \in on /\ (out[p] \/ (p \in unchoked /\ asked[p] > 0 /\ ~limited))

\* Variant for the mutants: the head stays.
CheckSendStatusIdle(p) == UNCHANGED <<next, deferred>>
CheckSendStatus(p) ==
  IF p \in deferred THEN next' = ReQueueUL(next, p) /\ deferred' = deferred \ {p}
  ELSE UNCHANGED <<next, deferred>>

\* Time passes during select. A socket may still be watched from earlier rounds, and be
\* ready, without NeedWrite; AnyPeerReady is not called when nothing is ready.
Round ==
  /\ ready = {}
  /\ limited' \in {limited, FALSE}
  /\ ready' \in {W \in SUBSET on : \A p \in Live : NeedWrite(p) => p \in W}
  /\ IF next # << >> /\ Head(next) \notin ready' /\ ~limited'
     THEN CheckSendStatus(Head(next)) \/ (ready' = {} /\ UNCHANGED <<next, deferred>>)
     ELSE UNCHANGED <<next, deferred>>
  /\ UNCHANGED <<peerVars, asked, out, haveVars>>

-----------------------------------------------------------------------------
(* SendModule *)

\* Flush, or the PutFlush of Send_Piece, when there is something to send.
Rest(p, some) == IF some /\ p \notin Live THEN BOOLEAN ELSE {FALSE}

\* Variant for the mutants: they stay in the queue.
SendHavesKept(p) == told' = [told EXCEPT ![p] = @ \o haveq[p]] /\ UNCHANGED haveq
SendHaves(p) == told' = [told EXCEPT ![p] = @ \o haveq[p]] /\ haveq' = [haveq EXCEPT ![p] = << >>]

\* Variant for the mutants: only slices take the HAVEs along.
AlongSlices(p, some) == UNCHANGED <<haveq, told>>
\* The HAVEs go with whatever is in the buffer.
Along(p, some) == IF some THEN SendHaves(p) ELSE UNCHANGED <<haveq, told>>

\* The head sends a slice, if bandwidth permits, or when nobody waits.
Respond(p) ==
  /\ asked[p] > 0 /\ IsNext(p) /\ ~limited
  /\ next' = DontWaitUL(next, p)
  /\ asked' = [asked EXCEPT ![p] = @ - 1]
  /\ deferred' = deferred \ {p}
  /\ limited' \in BOOLEAN
  /\ SendHaves(p)
  /\ \E rest \in Rest(p, TRUE) : out' = [out EXCEPT ![p] = rest]

\* The others wait, and tell the head that they could have sent.
Wait(p) ==
  /\ asked[p] > 0 /\ ~(IsNext(p) /\ ~limited)
  /\ deferred' = (IF IsNext(p) \/ limited THEN deferred ELSE deferred \cup {Head(next)}) \ {p}
  /\ next' = WaitUL(next, p)
  /\ Along(p, out[p])
  /\ \E rest \in Rest(p, out[p]) : out' = [out EXCEPT ![p] = rest]
  /\ UNCHANGED <<asked, limited>>

\* No slice to send, or no room for one (CouldRespondSlice).
NoSlice(p) ==
  /\ asked[p] = 0 \/ (out[p] /\ p \notin Live)
  /\ next' = IF next # << >> /\ Head(next) = p THEN DontWaitUL(next, p) ELSE next
  /\ Along(p, out[p])
  /\ \E rest \in Rest(p, out[p]) : out' = [out EXCEPT ![p] = rest]
  /\ UNCHANGED <<asked, deferred, limited>>

SendModule(p) ==
  /\ p \in ready /\ ready' = ready \ {p}
  /\ Respond(p) \/ Wait(p) \/ NoSlice(p)
  /\ UNCHANGED <<peerVars, ours>>

\* The bandwidth used is made up for.
TimePasses ==
  /\ limited /\ limited' = FALSE
  /\ UNCHANGED <<peerVars, asked, out, next, deferred, ready, haveVars>>

-----------------------------------------------------------------------------
(* Peers come, go, and ask *)

\* HandShake sends the bitfield.
Connect(p) ==
  /\ p \notin on
  /\ on' = on \cup {p}
  /\ told' = [told EXCEPT ![p] = [i \in 1 .. ours |-> i]]
  /\ out' = [out EXCEPT ![p] = TRUE]
  /\ UNCHANGED <<interested, unchoked, asked, next, deferred, limited, ready, ours, haveq>>

\* Variant for the mutants: the queue still has the peers.
CloseWaiting(S) ==
  /\ on' = on \ S /\ interested' = interested \ S /\ unchoked' = unchoked \ S
  /\ asked' = [p \in Peers |-> IF p \in S THEN 0 ELSE asked[p]]
  /\ deferred' = deferred \ S /\ ready' = ready \ S
  /\ UNCHANGED next
\* CloseConnection; a peer that returns is another btPeer.
Close(S) ==
  /\ on' = on \ S /\ interested' = interested \ S /\ unchoked' = unchoked \ S
  /\ asked' = [p \in Peers |-> IF p \in S THEN 0 ELSE asked[p]]
  /\ deferred' = deferred \ S /\ ready' = ready \ S
  /\ next' = Without(next, S)

\* The peer leaves, or something fails.
Leave(p) ==
  /\ p \in on
  /\ Close({p})
  /\ out' = [out EXCEPT ![p] = FALSE]
  /\ haveq' = [haveq EXCEPT ![p] = << >>] /\ told' = [told EXCEPT ![p] = << >>]
  /\ UNCHANGED <<limited, ours>>

\* INTERESTED
Interested(p) ==
  /\ p \in on \ interested
  /\ interested' = interested \cup {p}
  /\ UNCHANGED <<on, unchoked, asked, out, next, deferred, limited, ready, haveVars>>

\* NOT_INTERESTED empties respond_q; the peer stays where it is in the queue.
NotInterested(p) ==
  /\ p \in interested
  /\ interested' = interested \ {p}
  /\ asked' = [asked EXCEPT ![p] = 0]
  /\ UNCHANGED <<on, unchoked, out, next, deferred, limited, ready, haveVars>>

\* REQUEST
Request(p) ==
  /\ p \in interested \cap unchoked /\ ours > 0 /\ asked[p] < MaxAsked
  /\ asked' = [asked EXCEPT ![p] = @ + 1]
  /\ UNCHANGED <<peerVars, out, next, deferred, limited, ready, haveVars>>

\* CANCEL
Cancel(p) ==
  /\ asked[p] > 0
  /\ asked' = [asked EXCEPT ![p] = @ - 1]
  /\ next' = IF asked[p] = 1 THEN DontWaitUL(next, p) ELSE next
  /\ UNCHANGED <<peerVars, out, deferred, limited, ready, haveVars>>

\* SetLocal
Unchoke(p) ==
  /\ p \in interested \ unchoked
  /\ unchoked' = unchoked \cup {p}
  /\ out' = [out EXCEPT ![p] = TRUE]
  /\ UNCHANGED <<on, interested, asked, next, deferred, limited, ready, haveVars>>
Choke(p) ==
  /\ p \in unchoked
  /\ unchoked' = unchoked \ {p}
  /\ next' = DontWaitUL(next, p)
  /\ asked' = [asked EXCEPT ![p] = 0]
  /\ out' = [out EXCEPT ![p] = TRUE]
  /\ UNCHANGED <<on, interested, deferred, limited, ready, haveVars>>

\* A keepalive, ours or the answer to the peer's (or any other short message).
Keepalive(p) ==
  /\ p \in on
  /\ out' = [out EXCEPT ![p] = TRUE]
  /\ UNCHANGED <<peerVars, asked, next, deferred, limited, ready, haveVars>>

-----------------------------------------------------------------------------
(* Tell_World_I_Have *)

\* At once: we seed, it is our first piece, or the peer wants nothing, yet lacks the piece.
Urgent(p, lacks) == ours' = Pieces \/ ours' = 1 \/ p \in lacks

\* What a peer has been told then, what still waits for it, and whether its buffer got some.
\* Variant for the mutants: a HAVE that finds the queue full is forgotten.
QueueHaveDrops(p) ==
  IF Len(haveq[p]) < HaveqSize THEN [told |-> told[p], haveq |-> Append(haveq[p], ours'), puts |-> FALSE]
  ELSE [told |-> told[p] \o haveq[p], haveq |-> << >>, puts |-> TRUE]
QueueHave(p) ==
  IF Len(haveq[p]) < HaveqSize THEN [told |-> told[p], haveq |-> Append(haveq[p], ours'), puts |-> FALSE]
  ELSE [told |-> Append(told[p] \o haveq[p], ours'), haveq |-> << >>, puts |-> TRUE]

SendHave(p) ==
  IF ours' = Pieces THEN [told |-> Append(told[p] \o haveq[p], ours'), haveq |-> << >>, puts |-> TRUE]
  ELSE [told |-> Append(told[p], ours'), haveq |-> haveq[p], puts |-> TRUE]

\* The peers that are closed: one whose buffer takes no more, and those after it in the list
\* whose HAVE is urgent. Only when we seed is the result of the peer before forgotten; there
\* is no telling which of the peers come after it.
Closings(news, urgent) ==
  {{}} \cup {{p} \cup after : p \in {x \in on : news[x].puts},
                             after \in IF ours' = Pieces THEN {{}} ELSE SUBSET urgent}

TellWorldIHave ==
  /\ ours < Pieces /\ ours' = ours + 1
  /\ \E lacks \in SUBSET (on \ interested) :
       LET urgent == {p \in on : Urgent(p, lacks)}
           news == [p \in on |-> IF p \in urgent THEN SendHave(p) ELSE QueueHave(p)]
       IN  /\ \E closed \in Closings(news, urgent) : Close(closed)
           /\ told' = [p \in Peers |-> IF p \in on' THEN news[p].told ELSE << >>]
           /\ haveq' = [p \in Peers |-> IF p \in on' THEN news[p].haveq ELSE << >>]
           /\ out' = [p \in Peers |-> p \in on' /\ (out[p] \/ news[p].puts)]
  /\ UNCHANGED limited

-----------------------------------------------------------------------------
Init ==
  /\ on = {} /\ interested = {} /\ unchoked = {}
  /\ asked = [p \in Peers |-> 0] /\ out = [p \in Peers |-> FALSE]
  /\ next = << >> /\ deferred = {} /\ limited = FALSE /\ ready = {}
  /\ ours = 0 /\ haveq = [p \in Peers |-> << >>] /\ told = [p \in Peers |-> << >>]

Next ==
  \/ Round \/ TimePasses \/ TellWorldIHave
  \/ \E p \in Peers : \/ SendModule(p) \/ Connect(p) \/ Leave(p) \/ Interested(p) \/ NotInterested(p)
                      \/ Request(p) \/ Cancel(p) \/ Unchoke(p) \/ Choke(p) \/ Keepalive(p)

\* The loop goes round, handles what is ready, and is woken when the limit ends, so that it
\* keeps finding bandwidth to spare; a connection never stays silent for long.
Fairness ==
  /\ WF_vars(Round) /\ SF_vars(Round /\ ~limited) /\ WF_vars(TimePasses)
  /\ \A p \in Peers : WF_vars(SendModule(p)) /\ WF_vars(Keepalive(p))

Spec == Init /\ [][Next]_vars /\ Fairness

-----------------------------------------------------------------------------
TypeOK ==
  /\ on \subseteq Peers /\ interested \subseteq on /\ unchoked \subseteq on
  /\ asked \in [Peers -> 0 .. MaxAsked] /\ out \in [Peers -> BOOLEAN]
  /\ next \in Seq(Peers) /\ deferred \subseteq on /\ limited \in BOOLEAN /\ ready \subseteq on
  /\ ours \in 0 .. Pieces
  /\ \A p \in Peers : Len(haveq[p]) <= HaveqSize /\ told[p] \in Seq(1 .. Pieces)

\* Those who wait for their turn are there, once, and may still download; a request that is
\* kept is one of a peer that still may, and still wants to.
QueueExact ==
  /\ TypeOK
  /\ IsInjective(next) /\ ToSet(next) \subseteq unchoked
  /\ \A p \in Peers : asked[p] > 0 => p \in unchoked \cap interested

\* A peer is told of each of our pieces once: it knows, or it will be told; and when we become
\* a seed, nobody has to wait to hear of it.
ToldOnce ==
  /\ \A p \in on : LET all == told[p] \o haveq[p] IN IsInjective(all) /\ ToSet(all) = 1 .. ours
  /\ ours = Pieces => \A p \in on : haveq[p] = << >>

\* A peer that reads what we send is served however many requests it makes, unless it is
\* choked or changes its mind: peers that stopped reading never hold up the others.
Served == \A p \in Live : asked[p] = MaxAsked ~> asked[p] < MaxAsked

\* Those peers hear of our pieces in the end.
ToldAtLast == \A p \in Live : (haveq[p] # << >>) ~> (haveq[p] = << >>)
=============================================================================
