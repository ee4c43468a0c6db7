------------------------------ MODULE Tracker ------------------------------
(***************************************************************************)
(* One tracker (btTracker in tracker.cpp), as operators from the state of  *)
(* a btTracker to the set of states a call may leave it in.                *)
(*                                                                         *)
(* What the tracker or the network does is a choice.  Time is abstract:    *)
(* whether the interval to the next contact has passed is a choice too.    *)
(* The parameter c is what the rest of the client says: c.full that the    *)
(* download is complete, c.got that some of it was received in this run.   *)
(***************************************************************************)
EXTENDS Naturals

CONSTANT Behaviours    \* what may happen to a contact, a subset of:
AllBehaviours ==
  {"refused",          \* no connection
   "silent",           \* it is closed without an answer, or with no HTTP header
   "error",            \* the answer has a status code of 400 or more
   "failure",          \* the answer names a failure, or cannot be parsed
   "redirect",         \* the answer names another URL, for this time
   "moved",            \* ... for ever (301)
   "unreachable"}      \* a connection attempt that a redirect leads to fails at once

ASSUME BehavioursAssumption == Behaviours \subseteq AllBehaviours

Statuses == {"free", "connecting", "ready", "finished"}
Results  == {"normal", "success", "failure"}
Events   == {"none", "started", "stopped", "completed", "update"}

\* spec and kept are m_spec and m_redirect.  event is that of the request in
\* flight.  member: the tracker counts us as a member of the torrent, known:
\* it has at some time, told: it was asked to forget us since.
TrackerType ==
  [status : Statuses, result : Results,
   started : BOOLEAN, completed : BOOLEAN, stop : BOOLEAN, restart : BOOLEAN,
   spec : {"own", "other", "null"}, kept : {"own", "other", "null"},
   event : Events, member : BOOLEAN, known : BOOLEAN, told : BOOLEAN]

NewTracker ==
  [status |-> "free", result |-> "normal", started |-> FALSE, completed |-> FALSE,
   stop |-> FALSE, restart |-> FALSE, spec |-> "own", kept |-> "null",
   event |-> "none", member |-> FALSE, known |-> FALSE, told |-> FALSE]

InFlight(r)   == r.status \in {"connecting", "ready"}
IsQuitting(r) == r.stop /\ r.status # "finished"

-----------------------------------------------------------------------------
(* Reset, Restart and Stop.                                                *)

Restart(r) ==
  [r EXCEPT !.stop = FALSE, !.restart = FALSE, !.status = "free", !.started = FALSE,
            !.result = "normal"]

\* The socket is closed, a redirection is forgotten.
ResetRetries(r) ==                   \* mutant: stopping goes on until the tracker answers
  LET own == [r EXCEPT !.spec = IF r.kept = "null" THEN r.spec ELSE r.kept,
                       !.kept = "null", !.event = "none"]
  IN  IF ~ r.stop \/ r.started THEN [own EXCEPT !.status = "free"]
      ELSE [own EXCEPT !.status = "finished", !.started = FALSE]
Reset(r) ==
  LET own == [r EXCEPT !.spec = IF r.kept = "null" THEN r.spec ELSE r.kept,
                       !.kept = "null", !.event = "none"]
  IN  IF ~ r.stop \/ (r.restart /\ r.started) THEN [own EXCEPT !.status = "free"]
      ELSE IF r.restart THEN Restart(own)
      ELSE [own EXCEPT !.status = "finished", !.started = FALSE]

StopAlways(r) ==                     \* mutant: trackers we never reached are told, too
  [Reset([r EXCEPT !.stop = FALSE, !.restart = FALSE]) EXCEPT
     !.stop = TRUE, !.result = "normal"]
StopAtOnce(r) ==                     \* mutant: no tracker is told
  [Reset([r EXCEPT !.stop = FALSE, !.restart = FALSE]) EXCEPT
     !.stop = TRUE, !.status = "finished", !.result = "normal"]
Stop(r) ==
  LET x == Reset([r EXCEPT !.stop = FALSE, !.restart = FALSE])
  IN  [x EXCEPT !.stop = TRUE, !.status = IF x.started THEN @ ELSE "finished",
                !.result = "normal"]

RestartTracker(r) ==
  LET x == [Stop(r) EXCEPT !.restart = TRUE]
  IN  IF x.status = "finished" THEN Restart(x) ELSE x

-----------------------------------------------------------------------------
(* Connect and SendRequest.                                                *)

Event(r, c) ==
  IF r.stop THEN "stopped"
  ELSE IF ~ r.started THEN "started"
  ELSE IF c.full /\ ~ r.completed /\ c.got THEN "completed"
  ELSE "update"

Marked(r, c) == r.completed \/ (c.full /\ ~ r.stop)

Sent(r, c) ==
  [r EXCEPT !.status = "ready", !.completed = Marked(r, c), !.event = Event(r, c),
            !.told = @ \/ r.stop]
NotSent(r, c) ==
  [r EXCEPT !.completed = Marked(r, c) /\ Event(r, c) # "completed"]

\* The connection may be there at once, or take time, or fail.
Connected(r, c) ==
  LET x == [r EXCEPT !.result = "normal", !.told = @ \/ r.stop]
  IN  {[x EXCEPT !.status = "connecting"], Sent(x, c)}
ConnectFails(r, c) ==
  LET x == [r EXCEPT !.result = "normal", !.told = @ \/ r.stop] IN {x, NotSent(x, c)}

Failed(S) == {[Reset(x) EXCEPT !.result = "failure"] : x \in S}

-----------------------------------------------------------------------------
(* IntervalCheck.                                                          *)

MustReport(r, c) == c.full /\ ~ r.completed /\ c.got

IntervalCheck(r, c) ==
  IF r.status # "free" THEN {r}
  ELSE Connected(r, c)
       \union (IF "refused" \in Behaviours THEN Failed(ConnectFails(r, c)) ELSE {})
       \union (IF MustReport(r, c) THEN {} ELSE {r})

-----------------------------------------------------------------------------
(* SocketReady.                                                            *)

\* A connection attempt ends.
ConnectionEnds(r, c) ==
  {Sent(r, c)} \union (IF "refused" \in Behaviours THEN Failed({r, NotSent(r, c)}) ELSE {})

\* An answer of status 200: it is taken note of, whatever it says.
Heard(r) ==
  [r EXCEPT !.started = ~ r.stop, !.member = ~ r.stop, !.known = @ \/ ~ r.stop,
            !.told = @ /\ r.stop]

FailureThenReset(r) == Reset([r EXCEPT !.result = "failure"])

\* A redirection to another URL; permanent is that of a 301.  When the
\* connection there fails at once, Reset has restored the old m_spec already.
Redirected(r, c, permanent) ==
  LET x    == Reset(r)
      gone == [x EXCEPT !.kept = IF permanent THEN "null" ELSE x.spec, !.spec = "other"]
      lost == {[Reset(y) EXCEPT !.kept = "null", !.spec = "null"] : y \in ConnectFails(gone, c)}
  IN  Connected(gone, c)
      \union (IF "unreachable" \in Behaviours THEN {FailureThenReset(y) : y \in lost} ELSE {})

\* What CheckResponse and the Reset after it make of an answer.  A redirection
\* leads to a tracker that answers.
Answers(r, c) ==
  {Reset([Heard(r) EXCEPT !.result = "success"])}
  \union (IF "silent" \in Behaviours
          THEN {FailureThenReset(r), Reset([Reset(r) EXCEPT !.result = "failure"])} ELSE {})
  \union (IF "error" \in Behaviours
          THEN {FailureThenReset([r EXCEPT !.started = FALSE, !.member = FALSE])} ELSE {})
  \union (IF "failure" \in Behaviours THEN {FailureThenReset(Heard(r))} ELSE {})
  \union (IF "redirect" \in Behaviours /\ r.spec = "own" THEN Redirected(r, c, FALSE) ELSE {})
  \union (IF "moved" \in Behaviours /\ r.spec = "own" THEN Redirected(r, c, TRUE) ELSE {})

\* All of SocketReady for a socket that select() reports; a part of an answer
\* changes nothing.
SocketReady(r, c) ==
  IF r.status = "connecting" THEN ConnectionEnds(r, c) ELSE Answers(r, c) \union {r}

=============================================================================
