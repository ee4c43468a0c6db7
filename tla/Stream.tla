------------------------------- MODULE Stream -------------------------------
(***************************************************************************)
(* btStream and BufIo: one direction of the connection between two peers   *)
(* that both run this code. The sender puts messages in its out_buffer,    *)
(* which is flushed to a socket that takes as much as it likes; they       *)
(* arrive in pieces of any size, and the receiver cuts its in_buffer into  *)
(* messages by their length prefixes, after a handshake without one.       *)
(*                                                                         *)
(* A byte is <<n, k>>, the byte at k of message n; message 0 is the        *)
(* handshake. Either side may close at any time.                           *)
(***************************************************************************)
EXTENDS Integers, Sequences

CONSTANTS
  Pre,        \* BT_LEN_PRE
  Shake,      \* the length of the handshake, 68
  PieceHead,  \* BT_MSGLEN_PIECE
  Slice,      \* bytes of data in a PIECE message
  DefSize,    \* BUFIO_DEF_SIZ
  Inc,        \* BUFIO_INC_SIZ
  MaxSize,    \* what in_buffer and out_buffer are limited to, m_max
  MaxLen,     \* the longest message that HaveMessage accepts
  Kinds,      \* kinds of messages that are sent
  MaxMsgs     \* bound: messages sent

ASSUME StreamAssumption ==
  /\ Kinds \subseteq {"keepalive", "choke", "unchoke", "have", "piece"}
  /\ Pre \in Nat \ {0, 1} /\ Shake \in Nat /\ Shake > Pre
  /\ PieceHead \in Nat \ {0} /\ Slice \in Nat \ {0} /\ DefSize \in Nat \ {0} /\ Inc \in Nat \ {0}
  /\ MaxLen \in Nat /\ MaxLen >= PieceHead + Slice /\ MaxMsgs \in Nat
  /\ MaxSize \in Nat /\ MaxSize >= Pre + PieceHead + Slice + Inc /\ MaxSize >= DefSize /\ DefSize >= Shake

VARIABLES
  sent,       \* the messages sent, in order
  out,        \* the sender's out_buffer
  outsize,    \* its m_size
  open,       \* the sender has not closed
  wire,       \* what its socket took and the receiver's socket did not give out yet
  status,     \* of the receiver: "handshake", "success", "closed"
  in,         \* its in_buffer
  insize,     \* its m_size
  msglen,     \* m_msglen
  oldbytes,   \* m_oldbytes
  counted,    \* bytes of the piece at the head of in_buffer that RateAdd was told of
  at,         \* the receiver is in "select", at the beginning or in the loop of RecvModule
  got         \* the messages delivered, in order

sender   == <<sent, out, outsize, open>>
buffer   == <<in, insize, msglen, oldbytes, counted>>
receiver == <<status, buffer, at, got>>
vars     == <<sender, wire, receiver>>

Least(a, b) == IF a < b THEN a ELSE b
DropFirst(s, n) == SubSeq(s, n + 1, Len(s))

LenOf(kind) ==
  CASE kind = "keepalive"           -> 0
    [] kind \in {"choke", "unchoke"} -> 1
    [] kind = "have"                -> 2
    [] kind = "piece"               -> PieceHead + Slice

\* The bytes of message n from k to l - 1.
Bytes(n, k, l) == [i \in 1 .. l - k |-> <<n, k + i - 1>>]

\* The handshake read as a length is far too large.
Garbage == MaxLen + 1
\* get_bt_msglen
MsgLen(s) == IF s[1][2] = 0 /\ s[1][1] > 0 THEN LenOf(sent[s[1][1]]) ELSE Garbage
MsgLenOf(s) == IF Len(s) >= Pre THEN MsgLen(s) ELSE 0
\* A byte read as a type: the first byte of a length is 0, like BT_MSG_CHOKE.
TypeAt(b) ==
  IF b[1] = 0 THEN "other"
  ELSE IF b[2] = Pre THEN sent[b[1]] ELSE IF b[2] = 0 THEN "choke" ELSE "other"

-----------------------------------------------------------------------------
(* Sending *)

\* FlushOut: the socket takes r bytes.
Flushed(o, r) == [o EXCEPT !.buf = DropFirst(@, r), !.wire = @ \o SubSeq(o.buf, 1, r)]

\* _realloc_buffer, until there is room; or the buffer is as large as it may be.
Room(o, n) ==
  LET steps == IF Len(o.buf) + n <= o.size THEN 0 ELSE (Len(o.buf) + n - o.size + Inc - 1) \div Inc
  IN  IF o.size + steps * Inc > MaxSize THEN [o EXCEPT !.ok = FALSE]
      ELSE [o EXCEPT !.size = @ + steps * Inc]

\* Put
Put(o, bytes) ==
  LET flush == IF Len(o.buf) + Len(bytes) > o.size THEN {Flushed(o, r) : r \in 0 .. Len(o.buf)} ELSE {o}
  IN  {IF p.ok THEN [p EXCEPT !.buf = @ \o bytes] ELSE p : p \in {Room(q, Len(bytes)) : q \in flush}}

\* PutFlush
PutFlush(o, bytes) ==
  UNION {IF p.ok THEN {Flushed(p, r) : r \in 0 .. Len(p.buf)} ELSE {p} : p \in Put(o, bytes)}

Out == [buf |-> out, size |-> outsize, wire |-> wire, ok |-> TRUE]
SetOut(o) == out' = o.buf /\ outsize' = o.size /\ wire' = o.wire

\* A message of its own, or a PIECE message, whose data follow in another call.
Outcomes(kind, n) ==
  IF kind = "piece"
  THEN UNION {IF p.ok THEN PutFlush(p, Bytes(n, Pre + PieceHead, Pre + LenOf(kind))) ELSE {p}
              : p \in Put(Out, Bytes(n, 0, Pre + PieceHead))}
  ELSE Put(Out, Bytes(n, 0, Pre + LenOf(kind)))

Send(kind) ==
  /\ open /\ Len(sent) < MaxMsgs
  /\ sent' = Append(sent, kind)
  /\ \E o \in Outcomes(kind, Len(sent) + 1) :
       IF o.ok THEN SetOut(o) /\ UNCHANGED open
       ELSE /\ open' = FALSE                    \* the peer is closed
            /\ out' = << >> /\ wire' = o.wire /\ UNCHANGED outsize
  /\ UNCHANGED receiver

\* SendModule, when the socket is ready
Flush ==
  /\ open /\ out # << >>
  /\ \E r \in 1 .. Len(out) : SetOut(Flushed(Out, r))
  /\ UNCHANGED <<sent, open, receiver>>

\* SetSize, which never drops what is in the buffer
ShrinkOut ==
  /\ open
  /\ outsize' = IF Len(out) > DefSize THEN Len(out) ELSE DefSize
  /\ UNCHANGED <<sent, out, open, wire, receiver>>

\* Close, for whatever reason
CloseSender ==
  /\ open
  /\ open' = FALSE /\ out' = << >>
  /\ UNCHANGED <<sent, outsize, wire, receiver>>

-----------------------------------------------------------------------------
(* Receiving *)

HaveMessage(s, m) ==
  IF Len(s) < Pre THEN 0
  ELSE IF m > MaxLen THEN -1
  ELSE IF Len(s) >= m + Pre THEN 1 ELSE 0

\* PeekMessage(m)
PeekMessage(kind) == msglen > 0 /\ Len(in) > Pre /\ TypeAt(in[Pre + 1]) = kind

\* PeekNextMessage(m), asked when there is a whole message before it.
PeekNextMessage(kind) ==
  /\ Len(in) - Pre - msglen > Pre
  /\ TypeAt(in[2 * Pre + msglen + 1]) = kind
  /\ MsgLen(DropFirst(in, Pre + msglen)) # 0

CloseReceiver ==
  /\ status' = "closed" /\ at' = "select"
  /\ in' = << >> /\ msglen' = 0 /\ oldbytes' = 0 /\ counted' = 0
  /\ UNCHANGED <<insize, got>>

\* How much there is room for; FeedIn makes more when there is none.
Size == IF Len(in) < insize THEN insize ELSE insize + Inc
Limit(limit) == IF limit = 0 \/ limit > Size - Len(in) THEN Size - Len(in) ELSE limit

\* Variant for the mutants: it is calculated when there was nothing in the buffer.
NewLenEmpty(s) == IF Len(in) = 0 THEN MsgLenOf(s) ELSE msglen
\* m_msglen after Feed has made s of in_buffer
NewLen(s) == IF Len(in) < Pre THEN MsgLenOf(s) ELSE msglen

\* Variant for the mutants: m_oldbytes is kept when the message is complete.
OldBytesKept(s, m) == Len(s) - Pre - PieceHead
\* What m_oldbytes is when the rate has been told of what there is of a piece.
OldBytes(s, m) == IF Len(s) >= m + Pre THEN 0 ELSE Len(s) - Pre - PieceHead

\* RecvModule goes on with s in the buffer, of which m is the first length.
Fed(s, m) == in' = s /\ msglen' = m /\ at' = "loop" /\ UNCHANGED <<status, got>>

\* HandShake does; with all of the handshake there, the bitfield is sent.
FedShake(s, m) ==
  LET t == DropFirst(s, Shake)
  IN  /\ UNCHANGED got
      /\ IF Len(s) < Shake
         THEN in' = s /\ msglen' = m /\ UNCHANGED <<status, at>>
         ELSE /\ in' = t /\ msglen' = MsgLenOf(t)
              /\ status' = "success"
              /\ at' = IF HaveMessage(t, MsgLenOf(t)) = 1 THEN "recv" ELSE "select"

\* Feed, and how its caller goes on with what came; with the end of the stream, whatever came
\* with it, or when in_buffer cannot grow, the peer is closed.
Feed(limit, least) ==
  IF Size > MaxSize THEN CloseReceiver /\ UNCHANGED wire
  ELSE \E r \in 0 .. Least(Limit(limit), Len(wire)) :
    LET s == in \o SubSeq(wire, 1, r)
        m == NewLen(s)
        isPiece == m > PieceHead /\ Len(s) > Pre + PieceHead /\ TypeAt(s[Pre + 1]) = "piece"
    IN  /\ wire' = DropFirst(wire, r)
        /\ \/ ~open /\ r < Limit(limit) /\ r = Len(wire) /\ CloseReceiver
           \/ /\ r >= least
              /\ insize' = Size
              /\ oldbytes' = IF isPiece THEN OldBytes(s, m) ELSE oldbytes
              /\ counted' = IF isPiece THEN counted + Least(Len(s) - Pre, m) - PieceHead - oldbytes ELSE counted
              /\ IF status = "handshake" THEN FedShake(s, m) ELSE Fed(s, m)

HandShake ==
  /\ status = "handshake" /\ at = "select"
  /\ Feed(0, 1)
  /\ UNCHANGED sender

\* RecvModule. A PIECE message, once it is known to be one, is fed when the peer has the
\* bandwidth for it, as long as there is room; before that, select does not wake us.
RecvModule ==
  /\ status = "success" /\ at = "select"
  /\ Feed(IF PeekMessage("piece") THEN 0 ELSE DefSize, 1)
  /\ UNCHANGED sender

\* RecvModule, called from HandShake: only a PIECE is fed, if the peer has the bandwidth.
RecvAtOnce ==
  /\ at = "recv"
  /\ \/ PeekMessage("piece") /\ Feed(0, 0)
     \/ at' = "loop" /\ UNCHANGED <<wire, status, buffer, got>>
  /\ UNCHANGED sender

\* Variant for the mutants: the length prefix stays.
PickNoPrefix(s) == DropFirst(s, msglen)
\* PickMessage takes the message from the buffer.
Pick(s) == DropFirst(s, msglen + Pre)

\* MsgDeliver, and PickMessage
Deliver ==
  /\ at = "loop" /\ HaveMessage(in, msglen) = 1
  /\ got' = Append(got, IF msglen = 0 THEN "keepalive" ELSE TypeAt(in[Pre + 1]))
  /\ in' = Pick(in) /\ msglen' = MsgLenOf(Pick(in))
  /\ counted' = 0
  /\ UNCHANGED <<sender, wire, status, insize, oldbytes, at>>

\* MsgDeliver finds something wrong with the message, or with the peer; or HaveMessage does.
Reject ==
  /\ at = "loop" /\ HaveMessage(in, msglen) # 0
  /\ CloseReceiver
  /\ UNCHANGED <<sender, wire>>

\* Variant for the mutants: one message at a time.
LoopEndsOnce == got # << >> \/ HaveMessage(in, msglen) = 0
\* The loop of RecvModule ends when there is no whole message.
LoopEnds == HaveMessage(in, msglen) = 0

Done ==
  /\ at = "loop" /\ LoopEnds
  /\ at' = "select"
  /\ UNCHANGED <<sender, wire, status, buffer, got>>

ShrinkIn ==
  /\ at = "select" /\ status # "closed"
  /\ insize' = IF Len(in) > DefSize THEN Len(in) ELSE DefSize
  /\ UNCHANGED <<sender, wire, status, in, msglen, oldbytes, counted, at, got>>

\* The connection breaks, or the peer is closed for another reason.
Break ==
  /\ at = "select" /\ status # "closed"
  /\ CloseReceiver
  /\ wire' = << >> /\ UNCHANGED sender

-----------------------------------------------------------------------------
\* Send_ShakeInfo has been called.
Init ==
  /\ sent = << >> /\ open = TRUE
  /\ out = Bytes(0, 0, Shake) /\ outsize = DefSize /\ wire = << >>
  /\ status = "handshake" /\ in = << >> /\ insize = DefSize
  /\ msglen = 0 /\ oldbytes = 0 /\ counted = 0 /\ at = "select" /\ got = << >>

Next ==
  \/ \E kind \in Kinds : Send(kind)
  \/ Flush \/ ShrinkOut \/ CloseSender
  \/ HandShake \/ RecvModule \/ RecvAtOnce \/ Deliver \/ Reject \/ Done \/ ShrinkIn \/ Break

Spec == Init /\ [][Next]_vars

\* The loops of both sides go on, and there is bandwidth for a piece at some time.
FairSpec ==
  /\ Spec
  /\ WF_vars(Flush) /\ WF_vars(HandShake) /\ WF_vars(RecvModule) /\ WF_vars(RecvAtOnce)
  /\ WF_vars(Deliver) /\ WF_vars(Done)

-----------------------------------------------------------------------------
TypeOK ==
  /\ sent \in Seq(Kinds) /\ got \in Seq(Kinds) /\ open \in BOOLEAN
  /\ status \in {"handshake", "success", "closed"} /\ at \in {"select", "recv", "loop"}
  /\ Len(out) <= outsize /\ outsize <= MaxSize
  /\ Len(in) <= insize /\ insize <= MaxSize
  /\ msglen \in 0 .. Garbage /\ oldbytes \in 0 .. Slice

\* m_msglen is the length of the message that begins in_buffer, whatever arrived together
\* and wherever it was cut: framing is never lost. And no whole message waits there when the
\* loop goes back to select, which may never wake for it. PeekNextMessage says CHOKE when the
\* type of the next message has arrived, and is CHOKE.
Framing ==
  /\ TypeOK
  /\ status = "success" =>
       /\ in # << >> => in[1][2] = 0 /\ in[1][1] = Len(got) + 1
       /\ msglen = MsgLenOf(in)
       /\ at = "select" => HaveMessage(in, msglen) = 0
  /\ (at = "loop" /\ HaveMessage(in, msglen) = 1) =>
       (PeekNextMessage("choke") <=>
          \E i \in DOMAIN in : in[i] = <<Len(got) + 2, Pre>> /\ sent[Len(got) + 2] = "choke")

\* m_oldbytes is what the rate was told of the incomplete piece at the head, so that the
\* unsigned difference never wraps round, and no byte is told twice.
RateExact ==
  /\ oldbytes # 0 => PeekMessage("piece") /\ oldbytes <= Len(in) - Pre - PieceHead
  /\ counted \in {0, oldbytes, Slice}

Ordered == INSTANCE Channel WITH received <- got
\* The stream is a channel.
InOrder == Ordered!Spec

\* A message sent arrives, unless the connection is closed.
Arrives ==
  \A n \in 1 .. MaxMsgs : (Len(sent) >= n) ~> (Len(got) >= n \/ status = "closed" \/ ~open)
=============================================================================
