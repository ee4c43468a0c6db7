---------------------------- MODULE MultiTracker ----------------------------
(***************************************************************************)
(* The tiers of trackers (MultiTracker in tracker.cpp), and the end of the *)
(* event loop in downloader.cpp, which waits for them.                     *)
(*                                                                         *)
(* A tier is a sequence of trackers.  A pass over the tiers handles one    *)
(* tracker after the other, and each may do several things: passed[n] is   *)
(* the set of states in which n of them have been handled.                 *)
(***************************************************************************)
EXTENDS Tracker, Sequences

CONSTANTS
  NoTracker,        \* no value of m_tracker
  Tiers,            \* the tiers, as they are read from the torrent
  Reliable,         \* trackers that always answer well
  Commands,         \* what the user or CTCS may do: stop, restart, requit, rejoin
  MaxCommands       \* bound: how often

AllTrackers == UNION {{Tiers[i][j] : j \in DOMAIN Tiers[i]} : i \in DOMAIN Tiers}

ASSUME TiersAssumption ==
  /\ MaxCommands \in Nat /\ NoTracker \notin AllTrackers /\ Reliable \subseteq AllTrackers
  /\ Tiers \in Seq(Seq(AllTrackers)) /\ Tiers # << >>
  /\ \A i \in DOMAIN Tiers : Tiers[i] # << >>
  /\ \A i, j \in DOMAIN Tiers : \A k \in DOMAIN Tiers[i], l \in DOMAIN Tiers[j] :
       Tiers[i][k] = Tiers[j][l] => i = j /\ k = l      \* each is a btTracker of its own

VARIABLES
  tiers,      \* m_trackers
  tr,         \* the state of each tracker
  current,    \* m_tracker
  outcome,    \* m_result
  quit,       \* m_stop
  content,    \* IsFull, and whether anything was downloaded
  commands    \* commands given so far

vars == <<tiers, tr, current, outcome, quit, content, commands>>

Cur == [tiers |-> tiers, tr |-> tr, current |-> current, outcome |-> outcome]

Put(s) == tiers' = s.tiers /\ tr' = s.tr /\ current' = s.current /\ outcome' = s.outcome

-----------------------------------------------------------------------------
(* GetStatus and the end of the loop.                                      *)

Members(tier) == {tier[j] : j \in DOMAIN tier}
\* The trackers that a walk of the tiers meets
Listed == UNION {Members(tiers[i]) : i \in DOMAIN tiers}

IsRestarting ==
  IF current # NoTracker THEN tr[current].restart ELSE \E t \in Listed : tr[t].restart

AllFinished ==
  IF ~ quit /\ current # NoTracker /\ tr[current].result # "failure"
  THEN tr[current].status = "finished"
  ELSE \A t \in Listed : tr[t].status = "finished"

Done == AllFinished /\ ~ IsRestarting
Works == ~ Done /\ \A t \in AllTrackers : tr[t].spec # "null"

-----------------------------------------------------------------------------
(* IntervalCheck.                                                          *)

\* May tracker number k of a tier be contacted, given the state s?
Eligible(s, tier, k) ==
  LET r == s.tr[tier[k]]
  IN  /\ r.result # "failure" /\ r.status # "finished"
      /\ \/ InFlight(r) \/ s.current = tier[k] \/ IsQuitting(r)
         \/ s.current = NoTracker /\ k = 1
         \/ k > 1 /\ r.result = "normal" /\ s.tr[tier[k - 1]].result = "failure"

\* A reliable tracker is reached and answers well.
Outcomes(t, S) ==
  IF t \in Reliable THEN {x \in S : x.result # "failure" /\ x.spec = "own"} ELSE S

CheckOne(s, tier, k) ==
  IF ~ Eligible(s, tier, k) THEN {s}
  ELSE {[s EXCEPT !.tr = [@ EXCEPT ![tier[k]] = x], !.ok = @ \/ x.result # "failure"] :
          x \in Outcomes(tier[k], IntervalCheck(s.tr[tier[k]], content))}

\* ClearResult, for the trackers in S
Cleared(states, S) ==
  [t \in AllTrackers |-> IF t \in S THEN [states[t] EXCEPT !.result = "normal"] ELSE states[t]]

\* The results of a tier in which nothing worked are forgotten.
ExhaustedKeeps(s, tier) ==                  \* mutant: the current tracker stays
  IF s.ok THEN s
  ELSE [s EXCEPT !.tr = Cleared(@, Members(tier))]
Exhausted(s, tier) ==
  LET lost == s.current \in {NoTracker, tier[1]}
  IN  IF s.ok THEN s
      ELSE [s EXCEPT !.tr = Cleared(@, Members(tier)), !.current = IF lost THEN NoTracker ELSE @,
                     !.outcome = IF lost THEN "failure" ELSE @]

CheckTier(S, tier) ==
  LET passed[k \in 0 .. Len(tier)] ==
        IF k = 0 THEN {[s EXCEPT !.ok = FALSE] : s \in S}
        ELSE UNION {CheckOne(s, tier, k) : s \in passed[k - 1]}
  IN  {Exhausted(s, tier) : s \in passed[Len(tier)]}

Checked ==
  LET passed[i \in 0 .. Len(tiers)] ==
        IF i = 0 THEN {[tiers |-> tiers, tr |-> tr, current |-> current, outcome |-> outcome,
                        ok |-> FALSE]}
        ELSE CheckTier(passed[i - 1], tiers[i])
  IN  passed[Len(tiers)]

-----------------------------------------------------------------------------
(* SocketReady.                                                            *)

\* The tracker at position k has answered and becomes the head of its tier;
\* pp is where the loop believes its predecessor is.
PromotedBehind(tier, k, pp) ==            \* mutant: the predecessor is taken to be the head
  <<tier[k], tier[1]>> \o SubSeq(tier, k + 1, Len(tier))
Promoted(tier, k, pp) ==
  <<tier[k], tier[1]>> \o SubSeq(tier, 2, pp) \o SubSeq(tier, k + 1, Len(tier))

\* m_tracker after the tracker at position k has answered.  After a promotion
\* the loop's node holds the tracker that was the head before.  more: it knows
\* of (half as) many peers more than the current one.
Chosen(tier, k, new) == IF k = 1 THEN new[1] ELSE new[2]

Succeeded(s, i, k, pp, more) ==
  LET old   == s.tiers[i]
      new   == IF k = 1 THEN old ELSE Promoted(old, k, pp)
      x     == IF k = 1 THEN s
               ELSE [s EXCEPT !.tiers[i] = new, !.tr = Cleared(@, Members(Tail(new)))]
      take  == \/ s.current = NoTracker \/ x.tr[x.current].result = "failure" \/ more
  IN  IF take THEN [x EXCEPT !.current = Chosen(old, k, new), !.outcome = "success"] ELSE x

\* Did the tracker answer well, and is it to go on?
Worked(r) == r.result = "success" /\ r.status # "finished"

\* The pass stands at position k of tier i; ready are the sockets reported.
ReadyOne(s, i, ready) ==
  LET t    == s.tiers[i][s.k]
      next(x) == [x EXCEPT !.k = s.k + 1, !.pp = s.k]
      moved(x) == [x EXCEPT !.k = s.pp + 2, !.pp = 2]
      after(x) == IF Worked(x.tr[t])
                  THEN {IF s.k = 1 THEN next(Succeeded(x, i, 1, 0, m))
                        ELSE moved(Succeeded(x, i, s.k, s.pp, m)) : m \in BOOLEAN}
                  ELSE {next(x)}
  IN  IF t \notin ready THEN {next(s)}
      ELSE UNION {after([s EXCEPT !.tr = [@ EXCEPT ![t] = x]]) :
                    x \in Outcomes(t, SocketReady(s.tr[t], content))}

ReadyTier(S, i, ready) ==
  LET passed[n \in 0 .. Len(tiers[i])] ==
        IF n = 0 THEN {[s EXCEPT !.k = 1, !.pp = 0] : s \in S}
        ELSE UNION {ReadyOne(s, i, ready) : s \in passed[n - 1]}
  IN  passed[Len(tiers[i])]

Answered(ready) ==
  LET passed[i \in 0 .. Len(tiers)] ==
        IF i = 0 THEN {[tiers |-> tiers, tr |-> tr, current |-> current, outcome |-> outcome,
                        k |-> 1, pp |-> 0]}
        ELSE ReadyTier(passed[i - 1], i, ready)
  IN  passed[Len(tiers)]

-----------------------------------------------------------------------------
Init ==
  /\ tiers = Tiers /\ tr = [t \in AllTrackers |-> NewTracker]
  /\ current = NoTracker /\ outcome = "normal" /\ quit = FALSE
  /\ content \in [full : BOOLEAN, got : {FALSE}] /\ commands = 0

\* A turn of the loop: the trackers that are due are contacted.
Poll ==
  /\ Works /\ \E s \in Checked : Put(s)
  /\ UNCHANGED <<quit, content, commands>>

\* Sockets of trackers are reported by select().
Ready ==
  /\ Works
  /\ \E ready \in SUBSET {t \in AllTrackers : InFlight(tr[t])} :
       ready # {} /\ \E s \in Answered(ready) : Put(s)
  /\ UNCHANGED <<quit, content, commands>>

Complete ==
  /\ Works /\ ~ content.full /\ ~ quit
  /\ content' = [full |-> TRUE, got |-> TRUE]
  /\ UNCHANGED <<tiers, tr, current, outcome, quit, commands>>

Command(name) == name \in Commands /\ commands < MaxCommands /\ commands' = commands + 1

\* MultiTracker::Stop: the user, a signal, CTCS or SeedTimeout; maybe twice.
StopAll ==
  /\ Works /\ IF quit THEN Command("requit") ELSE Command("stop")
  /\ quit' = TRUE
  /\ tr' = [t \in AllTrackers |-> IF t \in Listed THEN Stop(tr[t]) ELSE tr[t]]
  /\ UNCHANGED <<tiers, current, outcome, content>>

\* MultiTracker::RestartTracker: the user or CTCS; maybe while stopping.
RestartAll ==
  /\ Works /\ IF quit THEN Command("rejoin") ELSE Command("restart")
  /\ current' = NoTracker /\ outcome' = "normal"
  /\ tr' = [t \in AllTrackers |-> IF t \in Listed THEN RestartTracker(tr[t]) ELSE tr[t]]
  /\ UNCHANGED <<tiers, quit, content>>

Next == Poll \/ Ready \/ Complete \/ StopAll \/ RestartAll

Spec == Init /\ [][Next]_vars

\* Intervals pass, so that a tracker the loop may contact is contacted; and
\* what was begun with a tracker ends one way or another.
Contact(t) == Poll /\ tr'[t] # tr[t]
Answer(t)  == Ready /\ tr[t].status # tr'[t].status
FairSpec ==
  Spec /\ \A t \in AllTrackers : WF_vars(Contact(t)) /\ WF_vars(Answer(t))

-----------------------------------------------------------------------------
(* Properties.                                                             *)

\* Types; no tracker gets lost while tiers are reordered.
TypeOK ==
  /\ tr \in [AllTrackers -> TrackerType]
  /\ \A i \in DOMAIN Tiers : Len(tiers[i]) = Len(Tiers[i]) /\ Members(tiers[i]) = Members(Tiers[i])
  /\ current \in AllTrackers \union {NoTracker} /\ outcome \in Results /\ quit \in BOOLEAN

\* While a tracker's redirection is followed, its own URL is kept, and it always
\* has one (comment of m_redirect: "preserves original spec when redirected").
SpecPreserved == \A t \in AllTrackers : tr[t].spec # "null"

\* While quitting, only trackers are contacted that have counted us a member.
QuitContactsKnown ==
  \A t \in AllTrackers : InFlight(tr[t]) /\ tr[t].stop => tr[t].known

\* The program ends only because it was told to, and not before every tracker
\* that counts us a member was asked to forget us.
EndsAfterStop == Done => quit /\ \A t \in AllTrackers : tr[t].member => tr[t].told

\* A client that was told to stop exits ("the client will exit even if the connection
\* fails"), whatever its trackers do.
Exits == quit ~> Done

\* As long as it runs, the client goes on hearing from trackers, if one of them works.
KeepsAnnouncing ==
  <>quit \/ []<><<\E t \in AllTrackers : tr[t].result # "success" /\ tr'[t].result = "success">>_vars

=============================================================================
