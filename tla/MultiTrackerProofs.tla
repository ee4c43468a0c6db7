------------------------- MODULE MultiTrackerProofs -------------------------
(***************************************************************************)
(* Proofs about MultiTracker, for any trackers in any tiers, whatever may  *)
(* happen to a contact: only a tracker that knows us is contacted while we *)
(* quit (OnlyMembersContacted); and, if no tier has more than three, none  *)
(* gets lost (TypeCorrect), and the program ends only when it was told to  *)
(* and every tracker that counts us a member was asked to forget us        *)
(* (EndsWhenStopped). A tier of four may lose one: then Promoted is not a  *)
(* permutation.                                                            *)
(*                                                                         *)
(* The argument: what a btTracker's flags say of each other (Sane) is kept *)
(* by each of its functions; the tiers keep their trackers, each at one    *)
(* place (Shape); and a pass keeps both from one tracker to the next,      *)
(* because what it has yet to come to is as it was when it began (Within). *)
(***************************************************************************)
EXTENDS MultiTracker, Integers, WellFoundedInduction, TLAPS

\* A set of numbers that is not empty has a least one.
LEMMA LeastNumber ==
  ASSUME NEW T \in SUBSET Nat, T # {}
  PROVE  \E n \in T : \A m \in T : n <= m
<1> DEFINE R == OpToRel(<, Nat)
<1>1. IsWellFoundedOn(R, Nat)
  BY NatLessThanWellFounded, Zenon
<1>2. \A m, n \in Nat : <<m, n>> \in R <=> m < n
  BY DEF OpToRel
<1> HIDE DEF R
<1>3. \E n \in T : \A m \in T : ~ (<<m, n>> \in R)
  BY <1>1, WFMin, Zenon
<1>4. PICK n \in T : \A m \in T : ~ (<<m, n>> \in R)
  BY <1>3
<1>5. ASSUME NEW m \in T
      PROVE  n <= m
  <2>1. ~ (m < n)
    BY <1>2, <1>4
  <2> QED
    BY <2>1
<1> QED
  BY <1>5

\* The recursion of a pass: G[n] is what the n-th step makes of a set of states.
Recursion(f, base, G, N) == f = [n \in 0 .. N |-> IF n = 0 THEN base ELSE G[n][f[n - 1]]]

\* There is a function that satisfies it: the least N for which there is none has a predecessor.
LEMMA PassesExist ==
  ASSUME NEW N \in Nat, NEW base, NEW G
  PROVE  \E f : Recursion(f, base, G, N)
<1> DEFINE ok(n) == \E f : Recursion(f, base, G, n)
           T == {n \in Nat : ~ ok(n)}
<1> SUFFICES ASSUME T # {} PROVE FALSE
  OBVIOUS
<1>1. PICK n \in T : \A m \in T : n <= m
  <2>1. T \in SUBSET Nat
    OBVIOUS
  <2> HIDE DEF T
  <2> QED
    BY <2>1, LeastNumber
<1>2. n \in Nat /\ ~ ok(n)
  BY <1>1
<1>3. CASE n = 0
  <2> DEFINE f == [i \in 0 .. 0 |-> base]
  <2>1. Recursion(f, base, G, 0)
    BY DEF Recursion
  <2> QED
    BY <1>2, <1>3, <2>1
<1>4. CASE n # 0
  <2>1. n - 1 \in Nat /\ ~ (n <= n - 1)
    BY <1>2, <1>4
  <2>2. ok(n - 1)
    <3>1. n - 1 \notin T
      BY <1>1, <2>1
    <3> HIDE DEF ok
    <3> QED
      BY <2>1, <3>1
  <2>3. PICK g : Recursion(g, base, G, n - 1)
    BY <2>2
  <2> DEFINE f == [i \in 0 .. n |-> IF i < n THEN g[i] ELSE G[n][g[n - 1]]]
  <2>4. ASSUME NEW i \in 0 .. n
        PROVE  f[i] = IF i = 0 THEN base ELSE G[i][f[i - 1]]
    <3>1. g = [k \in 0 .. n - 1 |-> IF k = 0 THEN base ELSE G[k][g[k - 1]]]
      BY <2>3 DEF Recursion
    <3>2. CASE i = n
      <4>1. f[i] = G[n][g[n - 1]] /\ f[i - 1] = g[n - 1]
        BY <1>2, <1>4, <3>2
      <4> QED
        BY <1>4, <3>2, <4>1
    <3>3. CASE i # n
      <4>1. i \in 0 .. n - 1 /\ f[i] = g[i]
        BY <1>2, <3>3
      <4>2. i # 0 => f[i - 1] = g[i - 1]
        BY <1>2, <3>3
      <4>3. g[i] = IF i = 0 THEN base ELSE G[i][g[i - 1]]
        BY <3>1, <4>1
      <4> QED
        BY <4>1, <4>2, <4>3
    <3> QED
      BY <3>2, <3>3
  <2>5. f = [i \in 0 .. n |-> IF i = 0 THEN base ELSE G[i][f[i - 1]]]
    <3>1. f = [i \in 0 .. n |-> f[i]]
      OBVIOUS
    <3> HIDE DEF f
    <3> QED
      BY <2>4, <3>1
  <2>6. Recursion(f, base, G, n)
    <3> HIDE DEF f
    <3> QED
      BY <2>5 DEF Recursion
  <2> HIDE DEF f
  <2> QED
    BY <1>2, <2>6
<1> QED
  BY <1>3, <1>4

\* What holds of the states at first, and after each step if before, holds throughout.
LEMMA PassesWithin ==
  ASSUME NEW N \in Nat, NEW f, NEW D, f[0] \subseteq D[0],
         \A n \in 1 .. N : f[n - 1] \subseteq D[n - 1] => f[n] \subseteq D[n]
  PROVE  \A n \in 0 .. N : f[n] \subseteq D[n]
<1> DEFINE T == {n \in Nat : n <= N /\ ~ (f[n] \subseteq D[n])}
<1> SUFFICES ASSUME T # {} PROVE FALSE
  OBVIOUS
<1>1. PICK n \in T : \A m \in T : n <= m
  <2>1. T \in SUBSET Nat
    OBVIOUS
  <2> HIDE DEF T
  <2> QED
    BY <2>1, LeastNumber
<1>2. n \in Nat /\ n <= N /\ ~ (f[n] \subseteq D[n])
  BY <1>1
<1>3. n # 0
  BY <1>2
<1>4. n - 1 \in Nat /\ n - 1 <= N /\ ~ (n <= n - 1) /\ n \in 1 .. N
  BY <1>2, <1>3
<1>5. n - 1 \notin T
  BY <1>1, <1>4
<1>6. f[n - 1] \subseteq D[n - 1]
  BY <1>4, <1>5
<1> QED
  BY <1>2, <1>4, <1>6

\* A recursion whose steps keep within D exists, and keeps within D.
LEMMA PassesSound ==
  ASSUME NEW N \in Nat, NEW D, NEW base, base \subseteq D[0], NEW G,
         \A n \in 1 .. N : \A X \in SUBSET D[n - 1] : G[n][X] \subseteq D[n]
  PROVE  \E f : Recursion(f, base, G, N) /\ \A n \in 0 .. N : f[n] \subseteq D[n]
<1>1. PICK f : Recursion(f, base, G, N)
  BY PassesExist
<1>2. f[0] \subseteq D[0]
  BY <1>1 DEF Recursion
<1>3. ASSUME NEW n \in 1 .. N, f[n - 1] \subseteq D[n - 1] PROVE f[n] \subseteq D[n]
  <2>1. f[n] = G[n][f[n - 1]]
    BY <1>1 DEF Recursion
  <2> QED
    BY <1>3, <2>1
<1> QED
  BY <1>1, <1>2, <1>3, PassesWithin

-----------------------------------------------------------------------------
(* One tracker.                                                            *)

\* What a tracker's flags say of each other, when no function of its runs; q: we are to quit.
\* Who stops without having finished was a member and knows us, and is told when it is contacted;
\* who counts us a member has not been told, and we know it, or it was asked to forget us.
HasSpec(r) == r.spec # "null" \/ "unreachable" \in Behaviours

Sane(r, q) ==
  /\ r \in TrackerType /\ HasSpec(r)
  /\ r.started => r.known
  /\ r.stop /\ r.status # "finished" => r.known
  /\ InFlight(r) /\ r.stop => r.told
  /\ r.member => r.started \/ r.told
  /\ r.status = "finished" => r.stop /\ ~ r.started /\ ~ r.restart
  /\ r.stop /\ ~ r.restart => q

\* A tracker whose contact ends: what Reset needs.
Ending(r, q) ==
  /\ r \in TrackerType /\ HasSpec(r)
  /\ r.started => r.known
  /\ r.member => r.started \/ r.told
  /\ r.stop /\ ~ r.restart => q /\ (r.member => r.told)

\* What the client says of its content.
Contents == [full : BOOLEAN, got : BOOLEAN]

\* btTracker::btTracker
LEMMA NewSane ==
  ASSUME NEW q \in BOOLEAN
  PROVE  Sane(NewTracker, q)
BY DEF Sane, NewTracker, TrackerType, Statuses, Results, Events, InFlight, HasSpec

\* A contact that ends, however it does.
LEMMA InFlightEnding ==
  ASSUME NEW q \in BOOLEAN, NEW r, Sane(r, q), InFlight(r)
  PROVE  Ending(r, q)
BY DEF Sane, Ending, InFlight, HasSpec

\* What Restart leaves, of the rest nothing changed.
LEMMA RestartFacts ==
  ASSUME NEW r \in TrackerType
  PROVE  LET x == Restart(r) IN
         /\ x \in TrackerType /\ ~ x.stop /\ ~ x.restart /\ ~ x.started /\ x.status = "free" /\ x.result = "normal"
         /\ x.known = r.known /\ x.told = r.told /\ x.member = r.member /\ x.spec = r.spec
BY DEF Restart, TrackerType, Statuses, Results, Events

\* Reset leaves a tracker free or finished, and may be called again.
LEMMA ResetEnds ==
  ASSUME NEW q \in BOOLEAN, NEW r, Ending(r, q)
  PROVE  /\ Reset(r) \in TrackerType /\ Sane(Reset(r), q) /\ Ending(Reset(r), q)
         /\ Reset(r).status \in {"free", "finished"} /\ Reset(r).result \in {r.result, "normal"}
         /\ Reset(r).known = r.known /\ Reset(r).told = r.told /\ (Reset(r).stop => r.stop)
<1>1. r \in TrackerType
  BY DEF Ending, HasSpec
<1> DEFINE own == [r EXCEPT !.spec = IF r.kept = "null" THEN r.spec ELSE r.kept,
                            !.kept = "null", !.event = "none"]
<1>2. /\ own \in TrackerType /\ own.started = r.started /\ own.known = r.known /\ own.member = r.member
      /\ own.told = r.told /\ own.stop = r.stop /\ own.restart = r.restart /\ own.result = r.result
      /\ HasSpec(own)
  <2>1. HasSpec(r)
    BY DEF Ending
  <2> QED
    BY <1>1, <2>1 DEF TrackerType, Events, HasSpec
<1>3. Reset(r) = IF ~ r.stop \/ (r.restart /\ r.started) THEN [own EXCEPT !.status = "free"]
                 ELSE IF r.restart THEN Restart(own)
                 ELSE [own EXCEPT !.status = "finished", !.started = FALSE]
  BY DEF Reset
<1> HIDE DEF own
<1>4. CASE ~ r.stop \/ (r.restart /\ r.started)
  <2>1. Reset(r) = [own EXCEPT !.status = "free"]
    BY <1>3, <1>4
  <2> QED
    BY <1>1, <1>2, <1>4, <2>1 DEF TrackerType, Statuses, Sane, Ending, InFlight, HasSpec
<1>5. CASE ~ (~ r.stop \/ (r.restart /\ r.started)) /\ r.restart
  <2>1. Reset(r) = Restart(own)
    BY <1>3, <1>5
  <2>2. LET x == Reset(r) IN
        /\ x \in TrackerType /\ ~ x.stop /\ ~ x.restart /\ ~ x.started /\ x.status = "free" /\ x.result = "normal"
        /\ x.known = r.known /\ x.told = r.told /\ x.member = r.member /\ x.spec = own.spec
    <3> DEFINE y == Restart(own)
    <3>1. /\ y \in TrackerType /\ ~ y.stop /\ ~ y.restart /\ ~ y.started /\ y.status = "free" /\ y.result = "normal"
          /\ y.known = own.known /\ y.told = own.told /\ y.member = own.member /\ y.spec = own.spec
      BY <1>2, RestartFacts
    <3> HIDE DEF y
    <3> QED
      BY <1>2, <2>1, <3>1 DEF y
  <2>3. r.member => r.told
    BY <1>5 DEF Ending, HasSpec
  <2>4. HasSpec(Reset(r))
    BY <1>2, <2>2 DEF HasSpec
  <2> QED
    BY <1>1, <2>2, <2>3, <2>4 DEF Sane, Ending, InFlight
<1>6. CASE ~ (~ r.stop \/ (r.restart /\ r.started)) /\ ~ r.restart
  <2>1. Reset(r) = [own EXCEPT !.status = "finished", !.started = FALSE]
    BY <1>3, <1>6
  <2> QED
    BY <1>1, <1>2, <1>6, <2>1, ZenonT(60) DEF TrackerType, Statuses, Sane, Ending, InFlight, HasSpec
<1> QED
  BY <1>4, <1>5, <1>6

\* The result of a tracker says nothing about the rest.
LEMMA ResultFree ==
  ASSUME NEW q \in BOOLEAN, NEW r, NEW v \in Results
  PROVE  /\ Sane(r, q) => Sane([r EXCEPT !.result = v], q)
         /\ Ending(r, q) => Ending([r EXCEPT !.result = v], q)
         /\ r \in TrackerType => /\ [r EXCEPT !.result = v] \in TrackerType
                                 /\ InFlight([r EXCEPT !.result = v]) = InFlight(r)
                                 /\ [r EXCEPT !.result = v].result = v
BY DEF Sane, Ending, TrackerType, InFlight, HasSpec

\* A contact that could not be begun.
LEMMA FailedSane ==
  ASSUME NEW q \in BOOLEAN, NEW S, \A r \in S : Ending(r, q), NEW x \in Failed(S)
  PROVE  Sane(x, q)
<1>1. PICK r \in S : x = [Reset(r) EXCEPT !.result = "failure"]
  BY DEF Failed
<1>2. Sane(Reset(r), q)
  BY <1>1, ResetEnds
<1> QED
  BY <1>1, <1>2, ResultFree DEF Results

\* A contact that failed.
LEMMA FailureSane ==
  ASSUME NEW q \in BOOLEAN, NEW r, Ending(r, q)
  PROVE  Sane(FailureThenReset(r), q)
<1>1. Ending([r EXCEPT !.result = "failure"], q)
  BY ResultFree DEF Results
<1> QED
  BY <1>1, ResetEnds DEF FailureThenReset

-----------------------------------------------------------------------------
\* The request is sent, at once or later, or is not.
LEMMA MarkedType ==
  ASSUME NEW r \in TrackerType, NEW c \in Contents
  PROVE  Marked(r, c) \in BOOLEAN /\ Event(r, c) \in Events
BY DEF Marked, Event, Events, TrackerType, Contents

\* A contact that begins or goes on: who is told to forget us is one who knows us.
LEMMA SentSane ==
  ASSUME NEW q \in BOOLEAN, NEW r, Ending(r, q), r.stop => r.known, NEW c \in Contents
  PROVE  Sane(Sent(r, c), q)
<1>1. r \in TrackerType
  BY DEF Ending, HasSpec
<1>2. Marked(r, c) \in BOOLEAN /\ Event(r, c) \in Events
  BY <1>1, MarkedType
<1>3. Sent(r, c) \in TrackerType
  BY <1>1, <1>2 DEF Sent, TrackerType, Statuses
<1>4. LET x == Sent(r, c) IN
      /\ x.status = "ready" /\ x.told = (r.told \/ r.stop) /\ x.started = r.started /\ x.known = r.known
      /\ x.stop = r.stop /\ x.restart = r.restart /\ x.member = r.member /\ x.spec = r.spec
  BY <1>1 DEF Sent, TrackerType
<1> QED
  BY <1>1, <1>3, <1>4 DEF Sane, Ending, TrackerType, HasSpec

\* Writing the request failed.
LEMMA NotSentEnding ==
  ASSUME NEW q \in BOOLEAN, NEW r, Ending(r, q), NEW c \in Contents
  PROVE  Ending(NotSent(r, c), q)
<1>1. r \in TrackerType
  BY DEF Ending, HasSpec
<1>2. (Marked(r, c) /\ Event(r, c) # "completed") \in BOOLEAN
  BY <1>1, MarkedType
<1>3. NotSent(r, c) \in TrackerType
  BY <1>1, <1>2 DEF NotSent, TrackerType
<1> QED
  BY <1>1, <1>3 DEF Ending, NotSent, TrackerType, HasSpec

\* A connection is attempted, by one who is free or was redirected. What is told counts.
Begins(r, q) ==
  /\ r \in TrackerType /\ HasSpec(r)
  /\ r.started => r.known
  /\ r.member => r.started \/ r.told
  /\ r.stop => r.known
  /\ r.stop /\ ~ r.restart => q

\* The attempt counts as telling, however it ends.
LEMMA AttemptEnding ==
  ASSUME NEW q \in BOOLEAN, NEW r, Begins(r, q)
  PROVE  LET x == [r EXCEPT !.result = "normal", !.told = @ \/ r.stop]
         IN  Ending(x, q) /\ (x.stop => x.known) /\ (x.stop => x.told)
BY DEF Begins, Ending, TrackerType, Results, HasSpec

\* It is made, or takes time.
LEMMA ConnectedSane ==
  ASSUME NEW q \in BOOLEAN, NEW r, Begins(r, q), NEW c \in Contents, NEW x \in Connected(r, c)
  PROVE  Sane(x, q)
<1> DEFINE y == [r EXCEPT !.result = "normal", !.told = @ \/ r.stop]
<1>1. Ending(y, q) /\ (y.stop => y.known) /\ (y.stop => y.told)
  BY AttemptEnding
<1>2. x = [y EXCEPT !.status = "connecting"] \/ x = Sent(y, c)
  BY DEF Connected
<1> HIDE DEF y
<1>3. CASE x = [y EXCEPT !.status = "connecting"]
  BY <1>1, <1>3 DEF Sane, Ending, TrackerType, Statuses, InFlight, HasSpec
<1>4. CASE x = Sent(y, c)
  BY <1>1, <1>4, SentSane
<1> QED
  BY <1>2, <1>3, <1>4

\* It fails.
LEMMA ConnectFailsEnding ==
  ASSUME NEW q \in BOOLEAN, NEW r, Begins(r, q), NEW c \in Contents, NEW x \in ConnectFails(r, c)
  PROVE  Ending(x, q)
<1> DEFINE y == [r EXCEPT !.result = "normal", !.told = @ \/ r.stop]
<1>1. Ending(y, q)
  BY AttemptEnding
<1>2. x = y \/ x = NotSent(y, c)
  BY DEF ConnectFails
<1> HIDE DEF y
<1> QED
  BY <1>1, <1>2, NotSentEnding

\* btTracker::IntervalCheck
LEMMA IntervalCheckSane ==
  ASSUME NEW q \in BOOLEAN, NEW r, Sane(r, q), NEW c \in Contents, NEW x \in IntervalCheck(r, c)
  PROVE  Sane(x, q)
<1>1. CASE x = r
  BY <1>1
<1>2. CASE r.status = "free" /\ x \in Connected(r, c)
  <2>1. Begins(r, q)
    BY <1>2 DEF Sane, Begins, HasSpec
  <2> QED
    BY <1>2, <2>1, ConnectedSane
<1>3. CASE r.status = "free" /\ x \in Failed(ConnectFails(r, c))
  <2>1. Begins(r, q)
    BY <1>3 DEF Sane, Begins, HasSpec
  <2>2. \A y \in ConnectFails(r, c) : Ending(y, q)
    BY <2>1, ConnectFailsEnding
  <2> QED
    BY <1>3, <2>2, FailedSane
<1> QED
  BY <1>1, <1>2, <1>3 DEF IntervalCheck

-----------------------------------------------------------------------------
\* An answer of status 200: a started tracker knows us, one that stopped has forgotten us.
LEMMA HeardEnding ==
  ASSUME NEW q \in BOOLEAN, NEW r, Sane(r, q), InFlight(r)
  PROVE  Ending(Heard(r), q)
<1>1. Heard(r) \in TrackerType
  BY DEF Sane, Heard, TrackerType, HasSpec
<1> QED
  BY <1>1 DEF Sane, Ending, Heard, TrackerType, HasSpec

\* A redirection, whatever becomes of it.
LEMMA RedirectedSane ==
  ASSUME NEW q \in BOOLEAN, NEW r, Sane(r, q), InFlight(r), NEW c \in Contents, NEW permanent \in BOOLEAN,
         NEW x \in Redirected(r, c, permanent)
  PROVE  Sane(x, q)
<1> DEFINE y == Reset(r)
           gone == [y EXCEPT !.kept = IF permanent THEN "null" ELSE y.spec, !.spec = "other"]
           lost == {[Reset(z) EXCEPT !.kept = "null", !.spec = "null"] : z \in ConnectFails(gone, c)}
<1>1. Ending(r, q)
  BY InFlightEnding
<1>2. y \in TrackerType /\ Ending(y, q) /\ y.known = r.known /\ (y.stop => r.stop)
  BY <1>1, ResetEnds
<1>3. r.stop => r.known
  BY DEF Sane, InFlight, HasSpec
<1>4. \/ x \in Connected(gone, c)
      \/ "unreachable" \in Behaviours /\ \E z \in lost : x = FailureThenReset(z)
  BY DEF Redirected
<1> HIDE DEF y
<1>5. Begins(gone, q)
  BY <1>2, <1>3 DEF Begins, Ending, TrackerType, HasSpec
<1> HIDE DEF gone
<1>6. CASE x \in Connected(gone, c)
  BY <1>5, <1>6, ConnectedSane
<1>7. ASSUME "unreachable" \in Behaviours, NEW z \in lost, x = FailureThenReset(z) PROVE Sane(x, q)
  <2>1. PICK w \in ConnectFails(gone, c) : z = [Reset(w) EXCEPT !.kept = "null", !.spec = "null"]
    OBVIOUS
  <2>2. Ending(Reset(w), q)
    BY <1>5, ConnectFailsEnding, ResetEnds, ZenonT(60)
  <2>3. Ending(z, q)
    BY <1>7, <2>1, <2>2 DEF Ending, TrackerType, HasSpec
  <2> QED
    BY <1>7, <2>3, FailureSane
<1> QED
  BY <1>4, <1>6, <1>7

\* btTracker::CheckResponse
LEMMA AnswersSane ==
  ASSUME NEW q \in BOOLEAN, NEW r, Sane(r, q), InFlight(r), NEW c \in Contents, NEW x \in Answers(r, c)
  PROVE  Sane(x, q)
<1>1. Ending(r, q) /\ Ending(Heard(r), q)
  BY InFlightEnding, HeardEnding
<1>2. CASE x = Reset([Heard(r) EXCEPT !.result = "success"])
  <2>1. Ending([Heard(r) EXCEPT !.result = "success"], q)
    BY <1>1, ResultFree DEF Results
  <2> QED
    BY <1>2, <2>1, ResetEnds
<1>3. CASE x = FailureThenReset(r)
  BY <1>1, <1>3, FailureSane
<1>4. CASE x = Reset([Reset(r) EXCEPT !.result = "failure"])
  <2>1. Ending([Reset(r) EXCEPT !.result = "failure"], q)
    BY <1>1, ResetEnds, ResultFree DEF Results
  <2> QED
    BY <1>4, <2>1, ResetEnds
<1>5. CASE x = FailureThenReset([r EXCEPT !.started = FALSE, !.member = FALSE])
  <2>1. Ending([r EXCEPT !.started = FALSE, !.member = FALSE], q)
    BY <1>1 DEF Ending, TrackerType, HasSpec
  <2> QED
    BY <1>5, <2>1, FailureSane
<1>6. CASE x = FailureThenReset(Heard(r))
  BY <1>1, <1>6, FailureSane
<1>7. CASE x \in Redirected(r, c, FALSE) \/ x \in Redirected(r, c, TRUE)
  BY <1>7, RedirectedSane
<1> QED
  BY <1>2, <1>3, <1>4, <1>5, <1>6, <1>7 DEF Answers

\* btTracker::SocketReady
LEMMA SocketReadySane ==
  ASSUME NEW q \in BOOLEAN, NEW r, Sane(r, q), InFlight(r), NEW c \in Contents, NEW x \in SocketReady(r, c)
  PROVE  Sane(x, q)
<1>1. Ending(r, q) /\ (r.stop => r.known)
  BY InFlightEnding DEF Sane, InFlight, HasSpec
<1>2. CASE x = Sent(r, c)
  BY <1>1, <1>2, SentSane
<1>3. CASE x \in Failed({r, NotSent(r, c)})
  <2>1. \A y \in {r, NotSent(r, c)} : Ending(y, q)
    BY <1>1, NotSentEnding
  <2> QED
    BY <1>3, <2>1, FailedSane
<1>4. CASE x \in Answers(r, c)
  BY <1>4, AnswersSane
<1>5. CASE x = r
  BY <1>5
<1> QED
  BY <1>2, <1>3, <1>4, <1>5 DEF SocketReady, ConnectionEnds

-----------------------------------------------------------------------------
\* btTracker::Stop, when we are to quit.
LEMMA StopSane ==
  ASSUME NEW q \in BOOLEAN, NEW r, Sane(r, q)
  PROVE  /\ Sane(Stop(r), TRUE)
         /\ Stop(r) \in TrackerType /\ Stop(r).stop
         /\ Stop(r).started \in BOOLEAN
<1> DEFINE w == [r EXCEPT !.stop = FALSE, !.restart = FALSE]
           x == Reset(w)
<1>1. Ending(w, q) /\ ~ w.stop
  BY DEF Sane, Ending, TrackerType, HasSpec
<1>2. Sane(x, q) /\ Ending(x, q) /\ ~ x.stop /\ x \in TrackerType /\ x.status \in {"free", "finished"} /\ ~ x.restart
  <2>1. ~ w.restart /\ w \in TrackerType
    BY DEF Sane, TrackerType, HasSpec
  <2>2. ~ Reset(w).restart
    BY <1>1, <2>1 DEF Reset, Restart, TrackerType
  <2> HIDE DEF w
  <2> QED
    BY <1>1, <2>2, ResetEnds
<1>3. Stop(r) = [x EXCEPT !.stop = TRUE, !.status = IF x.started THEN @ ELSE "finished", !.result = "normal"]
  BY DEF Stop
<1> HIDE DEF x
<1>4. Stop(r) \in TrackerType
  BY <1>2, <1>3 DEF TrackerType, Statuses, Results
<1> QED
  BY <1>2, <1>3, <1>4 DEF Sane, Ending, TrackerType, InFlight, Statuses, HasSpec

\* btTracker::RestartTracker, whether or not we are to quit.
LEMMA RestartTrackerSane ==
  ASSUME NEW q \in BOOLEAN, NEW r, Sane(r, q)
  PROVE  Sane(RestartTracker(r), q)
<1> DEFINE s == Stop(r)
           x == [s EXCEPT !.restart = TRUE]
<1>1. Sane(s, TRUE) /\ s \in TrackerType
  BY StopSane
<1>2. RestartTracker(r) = IF x.status = "finished" THEN Restart(x) ELSE x
  BY DEF RestartTracker
<1> HIDE DEF s
<1>3. CASE x.status = "finished"
  <2>1. x \in TrackerType /\ x.member = s.member /\ x.told = s.told /\ x.status = s.status /\ x.spec = s.spec
    BY <1>1 DEF TrackerType
  <2>2. LET y == Restart(x) IN
        /\ y \in TrackerType /\ ~ y.stop /\ ~ y.restart /\ ~ y.started /\ y.status = "free" /\ y.result = "normal"
        /\ y.known = x.known /\ y.told = x.told /\ y.member = x.member /\ y.spec = x.spec
    BY <2>1, RestartFacts
  <2>3. (s.member => s.told) /\ HasSpec(s)
    BY <1>1, <1>3, <2>1 DEF Sane
  <2> HIDE DEF x
  <2> QED
    BY <1>2, <1>3, <2>1, <2>2, <2>3 DEF Sane, InFlight, HasSpec
<1>4. CASE x.status # "finished"
  BY <1>1, <1>2, <1>4 DEF Sane, TrackerType, InFlight, HasSpec
<1> QED
  BY <1>3, <1>4

-----------------------------------------------------------------------------
(* The tiers.                                                              *)

\* A tier as it may be reordered: of the trackers it had, each once; none is lost of up to three.
TierOK(a, b) ==
  /\ a # << >> /\ \A j, k \in 1 .. Len(a) : a[j] = a[k] => j = k
  /\ Members(a) \subseteq Members(b)
  /\ Len(b) <= 3 => Len(a) = Len(b) /\ Members(a) = Members(b)

\* The tiers are those of the torrent, reordered.
Shape(ts) ==
  /\ ts \in Seq(Seq(AllTrackers)) /\ Len(ts) = Len(Tiers)
  /\ \A i \in 1 .. Len(Tiers) : TierOK(ts[i], Tiers[i])

\* The tiers as they were read.
LEMMA TiersShape == Shape(Tiers)
<1>1. Tiers \in Seq(Seq(AllTrackers))
  BY TiersAssumption
<1>2. ASSUME NEW i \in 1 .. Len(Tiers) PROVE TierOK(Tiers[i], Tiers[i])
  <2>1. i \in DOMAIN Tiers /\ Tiers[i] \in Seq(AllTrackers)
    BY <1>1
  <2>2. DOMAIN Tiers[i] = 1 .. Len(Tiers[i])
    BY <2>1
  <2>3. Tiers[i] # << >>
    BY <2>1, TiersAssumption
  <2>4. \A j, k \in 1 .. Len(Tiers[i]) : Tiers[i][j] = Tiers[i][k] => j = k
    BY <2>1, <2>2, TiersAssumption
  <2> QED
    BY <2>3, <2>4 DEF TierOK
<1> QED
  BY <1>1, <1>2 DEF Shape

\* Nobody is at two places.
LEMMA OnePlace ==
  ASSUME NEW ts, Shape(ts), NEW a \in 1 .. Len(ts), NEW b \in 1 .. Len(ts[a]),
         NEW c \in 1 .. Len(ts), NEW d \in 1 .. Len(ts[c]), ts[a][b] = ts[c][d]
  PROVE  a = c /\ b = d
<1>1. /\ ts \in Seq(Seq(AllTrackers)) /\ a \in 1 .. Len(Tiers) /\ c \in 1 .. Len(Tiers)
      /\ TierOK(ts[a], Tiers[a]) /\ TierOK(ts[c], Tiers[c])
  BY DEF Shape
<1>2. ts[a] \in Seq(AllTrackers) /\ ts[c] \in Seq(AllTrackers) /\ Tiers \in Seq(Seq(AllTrackers))
  BY <1>1, TiersAssumption
<1>3. b \in DOMAIN ts[a] /\ d \in DOMAIN ts[c] /\ a \in DOMAIN Tiers /\ c \in DOMAIN Tiers
  <2>1. DOMAIN Tiers = 1 .. Len(Tiers) /\ DOMAIN ts[a] = 1 .. Len(ts[a]) /\ DOMAIN ts[c] = 1 .. Len(ts[c])
    BY <1>2
  <2> QED
    BY <1>1, <2>1
<1>4. ts[a][b] \in Members(Tiers[a]) /\ ts[c][d] \in Members(Tiers[c])
  BY <1>1, <1>3 DEF TierOK, Members
<1>5. PICK k \in DOMAIN Tiers[a], l \in DOMAIN Tiers[c] : Tiers[a][k] = ts[a][b] /\ Tiers[c][l] = ts[c][d]
  BY <1>4 DEF Members
<1>6. a = c
  BY <1>3, <1>5, TiersAssumption
<1> QED
  BY <1>1, <1>6 DEF TierOK

\* The elements of two sequences in one.
LEMMA ConcatElements ==
  ASSUME NEW A, NEW s \in Seq(A), NEW t \in Seq(A)
  PROVE  /\ s \o t \in Seq(A) /\ Len(s \o t) = Len(s) + Len(t)
         /\ \A m \in 1 .. Len(s) : (s \o t)[m] = s[m]
         /\ \A m \in Len(s) + 1 .. Len(s) + Len(t) : (s \o t)[m] = t[m - Len(s)]
OBVIOUS

\* The elements of a tier with the one at k brought to the head.
LEMMA PromotedElements ==
  ASSUME NEW A, NEW tier \in Seq(A), NEW k \in 2 .. Len(tier), NEW pp \in 1 .. k - 1
  PROVE  LET new == Promoted(tier, k, pp) IN
         /\ new \in Seq(A) /\ Len(new) = Len(tier) + 1 + pp - k
         /\ new[1] = tier[k] /\ new[2] = tier[1]
         /\ \A m \in 3 .. pp + 1 : new[m] = tier[m - 1]
         /\ \A m \in pp + 2 .. Len(new) : new[m] = tier[m - pp - 1 + k]
<1> DEFINE u == <<tier[k], tier[1]>>
           v == SubSeq(tier, 2, pp)
           w == SubSeq(tier, k + 1, Len(tier))
           uv == u \o v
           new == uv \o w
<1>0. k \in Nat /\ pp \in Nat /\ Len(tier) \in Nat /\ 1 <= pp /\ pp <= k - 1 /\ k <= Len(tier)
  OBVIOUS
<1>1. u \in Seq(A) /\ Len(u) = 2 /\ u[1] = tier[k] /\ u[2] = tier[1]
  OBVIOUS
<1>2. v \in Seq(A) /\ Len(v) = pp - 1 /\ \A m \in 1 .. pp - 1 : v[m] = tier[m + 1]
  BY <1>0
<1>3. w \in Seq(A) /\ Len(w) = Len(tier) - k /\ \A m \in 1 .. Len(tier) - k : w[m] = tier[m + k]
  BY <1>0
<1> HIDE DEF u, v, w
<1>4. /\ uv \in Seq(A) /\ Len(uv) = pp + 1 /\ uv[1] = tier[k] /\ uv[2] = tier[1]
      /\ \A m \in 3 .. pp + 1 : uv[m] = tier[m - 1]
  <2>1. /\ uv \in Seq(A) /\ Len(uv) = Len(u) + Len(v)
        /\ \A m \in 1 .. Len(u) : uv[m] = u[m]
        /\ \A m \in Len(u) + 1 .. Len(u) + Len(v) : uv[m] = v[m - Len(u)]
    BY <1>1, <1>2, ConcatElements, Zenon
  <2> HIDE DEF uv
  <2>2. (\A m \in 1 .. 2 : uv[m] = u[m]) /\ \A m \in 3 .. pp + 1 : uv[m] = v[m - 2]
    BY <1>0, <1>1, <1>2, <2>1
  <2>3. \A m \in 3 .. pp + 1 : v[m - 2] = tier[m - 1]
    <3>1. \A m \in 3 .. pp + 1 : m - 2 \in 1 .. pp - 1 /\ (m - 2) + 1 = m - 1
      BY <1>0
    <3> QED
      BY <1>2, <3>1
  <2> QED
    BY <1>0, <1>1, <1>2, <2>1, <2>2, <2>3
<1> HIDE DEF uv
<1>5. /\ new \in Seq(A) /\ Len(new) = Len(uv) + Len(w)
      /\ \A m \in 1 .. Len(uv) : new[m] = uv[m]
      /\ \A m \in Len(uv) + 1 .. Len(uv) + Len(w) : new[m] = w[m - Len(uv)]
  BY <1>3, <1>4, ConcatElements, Zenon
<1> HIDE DEF new
<1>6. (\A m \in 1 .. pp + 1 : new[m] = uv[m]) /\ \A m \in pp + 2 .. Len(new) : new[m] = w[m - (pp + 1)]
  BY <1>0, <1>3, <1>4, <1>5
<1>7. \A m \in pp + 2 .. Len(new) : w[m - (pp + 1)] = tier[m - pp - 1 + k]
  <2>1. \A m \in pp + 2 .. Len(new) : m - (pp + 1) \in 1 .. Len(tier) - k /\ (m - (pp + 1)) + k = m - pp - 1 + k
    BY <1>0, <1>3, <1>4, <1>5
  <2> QED
    BY <1>3, <2>1
<1>8. new = Promoted(tier, k, pp)
  BY DEF Promoted, u, v, w, uv, new
<1>9. 1 \in 1 .. pp + 1 /\ 2 \in 1 .. pp + 1 /\ \A m \in 3 .. pp + 1 : m \in 1 .. pp + 1
  BY <1>0
<1>10. /\ new \in Seq(A) /\ Len(new) = Len(tier) + 1 + pp - k
       /\ new[1] = tier[k] /\ new[2] = tier[1]
       /\ \A m \in 3 .. pp + 1 : new[m] = tier[m - 1]
       /\ \A m \in pp + 2 .. Len(new) : new[m] = tier[m - pp - 1 + k]
  <2>1. new \in Seq(A) /\ Len(new) = Len(tier) + 1 + pp - k
    BY <1>0, <1>3, <1>4, <1>5
  <2>2. new[1] = tier[k] /\ new[2] = tier[1]
    BY <1>4, <1>6, <1>9
  <2>3. \A m \in 3 .. pp + 1 : new[m] = tier[m - 1]
    BY <1>4, <1>6, <1>9
  <2>4. \A m \in pp + 2 .. Len(new) : new[m] = tier[m - pp - 1 + k]
    BY <1>6, <1>7
  <2> QED
    BY <2>1, <2>2, <2>3, <2>4
<1> QED
  BY <1>8, <1>10

\* It holds trackers of the tier, each once, and all of them if pp is just before k.
LEMMA PromotedOK ==
  ASSUME NEW tier \in Seq(AllTrackers), NEW b, TierOK(tier, b), NEW k \in 2 .. Len(tier), NEW pp \in 1 .. k - 1,
         Len(b) <= 3 => pp = k - 1
  PROVE  TierOK(Promoted(tier, k, pp), b)
<1> DEFINE new == Promoted(tier, k, pp)
           at(m) == IF m = 1 THEN k ELSE IF m = 2 THEN 1 ELSE IF m <= pp + 1 THEN m - 1 ELSE m - pp - 1 + k
<1>1. /\ new \in Seq(AllTrackers) /\ Len(new) = Len(tier) + 1 + pp - k
      /\ new[1] = tier[k] /\ new[2] = tier[1]
      /\ \A m \in 3 .. pp + 1 : new[m] = tier[m - 1]
      /\ \A m \in pp + 2 .. Len(new) : new[m] = tier[m - pp - 1 + k]
  BY PromotedElements
<1>2. k \in Nat /\ pp \in Nat /\ Len(tier) \in Nat /\ 1 <= pp /\ pp <= k - 1 /\ k <= Len(tier) /\ Len(new) >= 2
  BY <1>1
<1> HIDE DEF new
<1>3. ASSUME NEW m \in 1 .. Len(new) PROVE at(m) \in 1 .. Len(tier) /\ new[m] = tier[at(m)]
  BY <1>1, <1>2
<1>4. ASSUME NEW m \in 1 .. Len(new), NEW l \in 1 .. Len(new), at(m) = at(l) PROVE m = l
  BY <1>1, <1>2, <1>4
<1>5. ASSUME NEW m \in 1 .. Len(new), NEW l \in 1 .. Len(new), new[m] = new[l] PROVE m = l
  <2>1. at(m) \in 1 .. Len(tier) /\ at(l) \in 1 .. Len(tier) /\ tier[at(m)] = tier[at(l)]
    BY <1>3, <1>5
  <2> HIDE DEF at
  <2>2. at(m) = at(l)
    BY <2>1 DEF TierOK
  <2> QED
    BY <1>4, <2>2
<1>6. Members(new) \subseteq Members(tier)
  <2>1. DOMAIN new = 1 .. Len(new) /\ DOMAIN tier = 1 .. Len(tier)
    BY <1>1
  <2> HIDE DEF at
  <2> QED
    BY <1>3, <2>1 DEF Members
<1>7. ASSUME pp = k - 1 PROVE Len(new) = Len(tier) /\ Members(tier) \subseteq Members(new)
  <2> DEFINE from(j) == IF j = k THEN 1 ELSE IF j < k THEN j + 1 ELSE j
  <2>1. ASSUME NEW j \in 1 .. Len(tier) PROVE from(j) \in 1 .. Len(new) /\ at(from(j)) = j
    <3>1. CASE j = k
      BY <1>1, <1>2, <1>7, <3>1
    <3>2. CASE j < k
      BY <1>1, <1>2, <1>7, <3>2
    <3>3. CASE j > k
      BY <1>1, <1>2, <1>7, <3>3
    <3> QED
      BY <1>2, <3>1, <3>2, <3>3
  <2>2. ASSUME NEW j \in 1 .. Len(tier) PROVE \E m \in 1 .. Len(new) : new[m] = tier[j]
    <3>1. from(j) \in 1 .. Len(new) /\ at(from(j)) = j
      BY <2>1
    <3> HIDE DEF from, at
    <3> QED
      BY <1>3, <3>1
  <2>3. DOMAIN new = 1 .. Len(new) /\ DOMAIN tier = 1 .. Len(tier)
    BY <1>1
  <2>4. Members(tier) \subseteq Members(new)
    BY <2>2, <2>3 DEF Members
  <2> QED
    BY <1>1, <1>2, <1>7, <2>4
<1>8. new # << >>
  BY <1>1, <1>2
<1>9. TierOK(new, b)
  BY <1>5, <1>6, <1>7, <1>8 DEF TierOK
<1> QED
  BY <1>9 DEF new

-----------------------------------------------------------------------------
(* The states of a pass.                                                   *)

\* Every tracker is sane.
AllSane(states) == states \in [AllTrackers -> TrackerType] /\ \A t \in AllTrackers : Sane(states[t], quit)
\* m_tracker
Views == AllTrackers \union {NoTracker}

\* Of what is not in the passes: types.
Outside == quit \in BOOLEAN /\ content \in Contents

\* One tracker changes.
LEMMA SaneUpdate ==
  ASSUME NEW states, AllSane(states), NEW t \in AllTrackers, NEW x, Sane(x, quit)
  PROVE  AllSane([states EXCEPT ![t] = x])
BY DEF AllSane, Sane

\* ClearResult, for any of them.
LEMMA SaneCleared ==
  ASSUME NEW states, AllSane(states), quit \in BOOLEAN, NEW S
  PROVE  /\ AllSane(Cleared(states, S))
         /\ \A t \in AllTrackers : Cleared(states, S)[t].status = states[t].status
<1>1. ASSUME NEW t \in AllTrackers
      PROVE  /\ Sane([states[t] EXCEPT !.result = "normal"], quit)
             /\ [states[t] EXCEPT !.result = "normal"] \in TrackerType
             /\ [states[t] EXCEPT !.result = "normal"].status = states[t].status
  <2>1. Sane(states[t], quit) /\ states[t] \in TrackerType
    BY DEF AllSane
  <2>2. "normal" \in Results
    BY DEF Results
  <2>3. Sane([states[t] EXCEPT !.result = "normal"], quit) /\ [states[t] EXCEPT !.result = "normal"] \in TrackerType
    BY <2>1, <2>2, ResultFree
  <2>4. [states[t] EXCEPT !.result = "normal"].status = states[t].status
    BY <2>1 DEF TrackerType
  <2> QED
    BY <2>3, <2>4
<1> QED
  BY <1>1 DEF AllSane, Cleared

-----------------------------------------------------------------------------
(* IntervalCheck.                                                          *)

\* The states of IntervalCheck: the tiers stay as they are.
CheckStates ==
  {s \in [tiers : {tiers}, tr : [AllTrackers -> TrackerType], current : Views, outcome : Results, ok : BOOLEAN] :
     AllSane(s.tr)}

\* One tracker is contacted, or not.
LEMMA CheckOneKeeps ==
  ASSUME Outside, NEW tier \in Seq(AllTrackers), NEW k \in 1 .. Len(tier), NEW s \in CheckStates,
         NEW y \in CheckOne(s, tier, k)
  PROVE  y \in CheckStates
<1>1. /\ s \in [tiers : {tiers}, tr : [AllTrackers -> TrackerType], current : Views, outcome : Results, ok : BOOLEAN]
      /\ AllSane(s.tr) /\ tier[k] \in AllTrackers
  BY DEF CheckStates
<1>2. CASE y = s
  BY <1>2
<1>3. ASSUME NEW x \in IntervalCheck(s.tr[tier[k]], content),
             y = [s EXCEPT !.tr = [@ EXCEPT ![tier[k]] = x], !.ok = @ \/ x.result # "failure"]
      PROVE  y \in CheckStates
  <2>1. Sane(x, quit)
    BY <1>1, IntervalCheckSane DEF Outside, AllSane
  <2> DEFINE states == [s.tr EXCEPT ![tier[k]] = x]
  <2>2. AllSane(states)
    BY <1>1, <2>1, SaneUpdate
  <2>3. states \in [AllTrackers -> TrackerType]
    BY <2>2 DEF AllSane
  <2>4. y = [s EXCEPT !.tr = states, !.ok = s.ok \/ x.result # "failure"]
    BY <1>1, <1>3
  <2> HIDE DEF states
  <2>5. /\ y \in [tiers : {tiers}, tr : [AllTrackers -> TrackerType], current : Views, outcome : Results,
                 ok : BOOLEAN]
        /\ y.tr = states
    BY <1>1, <2>3, <2>4
  <2> QED
    BY <2>2, <2>5 DEF CheckStates
<1> QED
  BY <1>2, <1>3 DEF CheckOne, Outcomes

\* The tier was exhausted, or not.
LEMMA ExhaustedSane ==
  ASSUME Outside, NEW tier \in Seq(AllTrackers), NEW s \in CheckStates
  PROVE  Exhausted(s, tier) \in CheckStates
<1>1. /\ s \in [tiers : {tiers}, tr : [AllTrackers -> TrackerType], current : Views, outcome : Results, ok : BOOLEAN]
      /\ AllSane(s.tr)
  BY DEF CheckStates
<1> DEFINE states == Cleared(s.tr, Members(tier))
           lost == s.current \in {NoTracker, tier[1]}
           y == [s EXCEPT !.tr = states, !.current = IF lost THEN NoTracker ELSE s.current,
                          !.outcome = IF lost THEN "failure" ELSE s.outcome]
<1>2. AllSane(states) /\ states \in [AllTrackers -> TrackerType]
  BY <1>1, SaneCleared DEF Outside, AllSane
<1>3. Exhausted(s, tier) = IF s.ok THEN s ELSE y
  BY <1>1 DEF Exhausted
<1> HIDE DEF states, lost
<1>4. /\ y \in [tiers : {tiers}, tr : [AllTrackers -> TrackerType], current : Views, outcome : Results, ok : BOOLEAN]
      /\ y.tr = states
  BY <1>1, <1>2 DEF Views, Results
<1> QED
  BY <1>1, <1>2, <1>3, <1>4 DEF CheckStates

\* All of a tier.
LEMMA CheckTierKeeps ==
  ASSUME Outside, NEW tier \in Seq(AllTrackers), NEW S \in SUBSET CheckStates
  PROVE  CheckTier(S, tier) \subseteq CheckStates
<1> DEFINE N == Len(tier)
           first == {[s EXCEPT !.ok = FALSE] : s \in S}
           passed == CHOOSE f : f = [k \in 0 .. N |-> IF k = 0 THEN first
                                                      ELSE UNION {CheckOne(s, tier, k) : s \in f[k - 1]}]
           D == [n \in 0 .. N |-> CheckStates]
           G == [n \in 1 .. N |-> [X \in SUBSET CheckStates |-> UNION {CheckOne(s, tier, n) : s \in X}]]
<1>0. CheckTier(S, tier) = {Exhausted(s, tier) : s \in passed[N]}
  BY Zenon DEF CheckTier
<1>1. first \subseteq CheckStates
  BY DEF CheckStates
<1>2. N \in Nat
  OBVIOUS
<1>3. \A n \in 1 .. N : \A X \in SUBSET CheckStates : UNION {CheckOne(s, tier, n) : s \in X} \subseteq CheckStates
  BY CheckOneKeeps
<1> HIDE DEF first, N
<1>4. \A n \in 1 .. N : \A X \in SUBSET D[n - 1] : G[n][X] \subseteq D[n]
  <2>1. \A n \in 1 .. N : n \in 0 .. N /\ n - 1 \in 0 .. N
    BY <1>2
  <2> QED
    BY <1>3, <2>1
<1>5. PICK f : Recursion(f, first, G, N) /\ \A n \in 0 .. N : f[n] \subseteq D[n]
  <2>1. first \subseteq D[0]
    BY <1>1, <1>2
  <2> HIDE DEF D, G
  <2> QED
    BY <1>2, <1>4, <2>1, PassesSound
<1>6. f = [k \in 0 .. N |-> IF k = 0 THEN first ELSE UNION {CheckOne(s, tier, k) : s \in f[k - 1]}]
  <2>1. ASSUME NEW k \in 0 .. N, k # 0 PROVE G[k][f[k - 1]] = UNION {CheckOne(s, tier, k) : s \in f[k - 1]}
    <3>1. k \in 1 .. N /\ k - 1 \in 0 .. N
      BY <1>2, <2>1
    <3>2. f[k - 1] \in SUBSET CheckStates
      BY <1>5, <3>1
    <3> QED
      BY <3>1, <3>2
  <2>2. f = [k \in 0 .. N |-> IF k = 0 THEN first ELSE G[k][f[k - 1]]]
    BY <1>5 DEF Recursion
  <2> HIDE DEF G
  <2> QED
    BY <2>1, <2>2
<1>7. passed = [k \in 0 .. N |-> IF k = 0 THEN first ELSE UNION {CheckOne(s, tier, k) : s \in passed[k - 1]}]
  BY <1>6, Zenon
<1> HIDE DEF passed
<1>8. \A n \in 0 .. N : passed[n] \subseteq D[n]
  <2>1. passed[0] \subseteq D[0]
    BY <1>1, <1>2, <1>7
  <2>2. ASSUME NEW n \in 1 .. N, passed[n - 1] \subseteq D[n - 1] PROVE passed[n] \subseteq D[n]
    <3>1. n \in 0 .. N /\ n - 1 \in 0 .. N /\ n # 0
      BY <1>2
    <3>2. passed[n] = UNION {CheckOne(s, tier, n) : s \in passed[n - 1]}
      BY <1>7, <3>1
    <3> QED
      BY <1>3, <2>2, <3>1, <3>2
  <2> HIDE DEF D
  <2> QED
    BY <1>2, <2>1, <2>2, PassesWithin
<1>9. passed[N] \subseteq CheckStates
  BY <1>2, <1>8
<1> QED
  BY <1>0, <1>9, ExhaustedSane

\* All tiers.
LEMMA CheckedKeeps ==
  ASSUME Outside, Shape(tiers), AllSane(tr), current \in Views, outcome \in Results
  PROVE  Checked \subseteq CheckStates
<1> DEFINE N == Len(tiers)
           first == {[tiers |-> tiers, tr |-> tr, current |-> current, outcome |-> outcome, ok |-> FALSE]}
           passed == CHOOSE f : f = [i \in 0 .. N |-> IF i = 0 THEN first ELSE CheckTier(f[i - 1], tiers[i])]
           D == [n \in 0 .. N |-> CheckStates]
           G == [n \in 1 .. N |-> [X \in SUBSET CheckStates |-> CheckTier(X, tiers[n])]]
<1>0. Checked = passed[N]
  BY Zenon DEF Checked
<1>1. first \subseteq CheckStates
  <2>1. tr \in [AllTrackers -> TrackerType]
    BY DEF AllSane
  <2> QED
    BY <2>1 DEF CheckStates
<1>2. N \in Nat /\ \A n \in 1 .. N : tiers[n] \in Seq(AllTrackers)
  BY DEF Shape
<1>3. \A n \in 1 .. N : \A X \in SUBSET CheckStates : CheckTier(X, tiers[n]) \subseteq CheckStates
  BY <1>2, CheckTierKeeps
<1> HIDE DEF first, N
<1>4. \A n \in 1 .. N : \A X \in SUBSET D[n - 1] : G[n][X] \subseteq D[n]
  <2>1. \A n \in 1 .. N : n \in 0 .. N /\ n - 1 \in 0 .. N
    BY <1>2
  <2> QED
    BY <1>3, <2>1
<1>5. PICK f : Recursion(f, first, G, N) /\ \A n \in 0 .. N : f[n] \subseteq D[n]
  <2>1. first \subseteq D[0]
    BY <1>1, <1>2
  <2> HIDE DEF D, G
  <2> QED
    BY <1>2, <1>4, <2>1, PassesSound
<1>6. f = [i \in 0 .. N |-> IF i = 0 THEN first ELSE CheckTier(f[i - 1], tiers[i])]
  <2>1. ASSUME NEW k \in 0 .. N, k # 0 PROVE G[k][f[k - 1]] = CheckTier(f[k - 1], tiers[k])
    <3>1. k \in 1 .. N /\ k - 1 \in 0 .. N
      BY <1>2, <2>1
    <3>2. f[k - 1] \in SUBSET CheckStates
      BY <1>5, <3>1
    <3> QED
      BY <3>1, <3>2
  <2>2. f = [k \in 0 .. N |-> IF k = 0 THEN first ELSE G[k][f[k - 1]]]
    BY <1>5 DEF Recursion
  <2> HIDE DEF G
  <2> QED
    BY <2>1, <2>2
<1>7. passed = [i \in 0 .. N |-> IF i = 0 THEN first ELSE CheckTier(passed[i - 1], tiers[i])]
  BY <1>6, Zenon
<1> HIDE DEF passed
<1>8. \A n \in 0 .. N : passed[n] \subseteq D[n]
  <2>1. passed[0] \subseteq D[0]
    BY <1>1, <1>2, <1>7
  <2>2. ASSUME NEW n \in 1 .. N, passed[n - 1] \subseteq D[n - 1] PROVE passed[n] \subseteq D[n]
    <3>1. n \in 0 .. N /\ n - 1 \in 0 .. N /\ n # 0
      BY <1>2
    <3>2. passed[n] = CheckTier(passed[n - 1], tiers[n])
      BY <1>7, <3>1
    <3>3. passed[n - 1] \in SUBSET CheckStates
      BY <2>2, <3>1
    <3> QED
      BY <1>3, <3>1, <3>2, <3>3
  <2> HIDE DEF D
  <2> QED
    BY <1>2, <2>1, <2>2, PassesWithin
<1> QED
  BY <1>0, <1>2, <1>8

-----------------------------------------------------------------------------
(* SocketReady.                                                            *)

\* The states of SocketReady.
ReadyType ==
  [tiers : Seq(Seq(AllTrackers)), tr : [AllTrackers -> TrackerType], current : Views, outcome : Results,
   k : Nat, pp : Nat]

\* The trackers in S that the pass has yet to come to, from number n of tier i on, are as they were.
Ahead(s, i, n, S) ==
  \A a \in i .. Len(tiers) : \A b \in 1 .. Len(tiers[a]) :
    (a > i \/ b >= n) /\ tiers[a][b] \in S => InFlight(s.tr[tiers[a][b]])

\* Where the pass stands in tier i when n of its trackers have been handled: what is left of the
\* tier is as it was, and pp is behind it, just behind it if the tier has up to three.
Stands(s, i, n) ==
  LET tier == s.tiers[i]
      old == tiers[i]
  IN  /\ s.k >= 1 /\ Len(tier) - s.k = Len(old) - n - 1
      /\ \A j \in 1 .. Len(old) - n : tier[s.k - 1 + j] = old[n + j]
      /\ s.k = 1 \/ s.pp \in 1 .. s.k - 1
      /\ Len(Tiers[i]) <= 3 /\ s.k \in 2 .. 3 => s.pp = s.k - 1

\* Tiers 1 to i have been handled; S are the sockets reported.
Between(i, S) ==
  {s \in ReadyType : /\ AllSane(s.tr) /\ Shape(s.tiers) /\ Ahead(s, i + 1, 1, S)
                     /\ \A a \in i + 1 .. Len(tiers) : s.tiers[a] = tiers[a]}

\* And n trackers of tier i, while it is being handled.
Within(i, n, S) ==
  {s \in ReadyType : /\ AllSane(s.tr) /\ Shape(s.tiers) /\ Ahead(s, i, n + 1, S) /\ Stands(s, i, n)
                     /\ \A a \in i + 1 .. Len(tiers) : s.tiers[a] = tiers[a]}

\* The pass comes to the next tier.
LEMMA EnterTier ==
  ASSUME Shape(tiers), NEW S, NEW i \in 1 .. Len(tiers), NEW s \in Between(i - 1, S)
  PROVE  [s EXCEPT !.k = 1, !.pp = 0] \in Within(i, 0, S)
<1> DEFINE y == [s EXCEPT !.k = 1, !.pp = 0]
<1>1. s \in ReadyType /\ AllSane(s.tr) /\ Shape(s.tiers) /\ Ahead(s, i, 1, S)
      /\ \A a \in i .. Len(tiers) : s.tiers[a] = tiers[a]
  BY DEF Between
<1>2. y \in ReadyType /\ y.tiers = s.tiers /\ y.tr = s.tr /\ y.k = 1
  BY <1>1 DEF ReadyType
<1> HIDE DEF y
<1>3. Ahead(y, i, 0 + 1, S)
  BY <1>1, <1>2 DEF Ahead
<1>4. y.tiers[i] = tiers[i] /\ Len(tiers[i]) \in Nat
  BY <1>1, <1>2 DEF Shape
<1>5. Stands(y, i, 0)
  BY <1>2, <1>4 DEF Stands
<1>6. y \in Within(i, 0, S)
  BY <1>1, <1>2, <1>3, <1>5 DEF Within
<1> QED
  BY <1>6 DEF y

\* The pass has come to the end of a tier.
LEMMA LeaveTier ==
  ASSUME NEW S, NEW i \in 1 .. Len(tiers)
  PROVE  Within(i, Len(tiers[i]), S) \subseteq Between(i, S)
<1>1. ASSUME NEW s, Ahead(s, i, Len(tiers[i]) + 1, S) PROVE Ahead(s, i + 1, 1, S)
  BY <1>1 DEF Ahead
<1> QED
  BY <1>1 DEF Within, Between

\* The state after a step that leaves the tiers alone and takes the pass to the next tracker.
LEMMA StandsNext ==
  ASSUME Shape(tiers), NEW i \in 1 .. Len(tiers), NEW n \in 1 .. Len(tiers[i]),
         NEW s \in ReadyType, Shape(s.tiers), Stands(s, i, n - 1),
         NEW y \in ReadyType, y.tiers = s.tiers, y.k = s.k + 1, y.pp = s.k
  PROVE  Stands(y, i, n)
<1> DEFINE old == tiers[i]
           tier == s.tiers[i]
<1>1. s.k \in Nat /\ n \in Nat /\ Len(old) \in Nat /\ Len(tier) \in Nat /\ n <= Len(old)
  BY SMTT(60) DEF ReadyType, Shape
<1>2. /\ s.k >= 1 /\ Len(tier) - s.k = Len(old) - (n - 1) - 1
      /\ \A j \in 1 .. Len(old) - (n - 1) : tier[s.k - 1 + j] = old[n - 1 + j]
  BY DEF Stands
<1>3. y.tiers[i] = tier /\ y.k = s.k + 1 /\ y.pp = s.k
  OBVIOUS
<1> HIDE DEF old, tier
<1>4. ASSUME NEW j \in 1 .. Len(old) - n PROVE tier[y.k - 1 + j] = old[n + j]
  <2>0. j \in Nat /\ 1 <= j /\ j <= Len(old) - n
    BY <1>1
  <2>1a. j + 1 \in 1 .. Len(old) - (n - 1)
    BY <1>1, <2>0
  <2>1b. s.k - 1 + (j + 1) = (s.k + 1) - 1 + j
    <3> DEFINE k == s.k
    <3>1. k \in Nat /\ j \in Nat
      BY <1>1, <2>0
    <3> HIDE DEF k
    <3>2. k - 1 + (j + 1) = (k + 1) - 1 + j
      BY <3>1
    <3> QED
      BY <3>2 DEF k
  <2>1c. n - 1 + (j + 1) = n + j
    BY <1>1, <2>0
  <2>1. j + 1 \in 1 .. Len(old) - (n - 1) /\ s.k - 1 + (j + 1) = (s.k + 1) - 1 + j /\ n - 1 + (j + 1) = n + j
    BY <2>1a, <2>1b, <2>1c
  <2> QED
    BY <1>2, <1>3, <2>1
<1>5. y.k >= 1 /\ Len(tier) - y.k = Len(old) - n - 1 /\ y.pp \in 1 .. y.k - 1 /\ y.pp = y.k - 1
  BY <1>1, <1>2, <1>3, SMTT(60)
<1> QED
  BY <1>3, <1>4, <1>5 DEF Stands, old

\* The tracker that is handled.
LEMMA Standing ==
  ASSUME Shape(tiers), NEW i \in 1 .. Len(tiers), NEW n \in 1 .. Len(tiers[i]),
         NEW s \in ReadyType, Shape(s.tiers), Stands(s, i, n - 1)
  PROVE  /\ s.tiers[i] \in Seq(AllTrackers) /\ s.k \in 1 .. Len(s.tiers[i])
         /\ s.tiers[i][s.k] = tiers[i][n] /\ tiers[i][n] \in AllTrackers
<1>1. s.k \in Nat /\ Len(tiers[i]) \in Nat /\ s.tiers[i] \in Seq(AllTrackers) /\ tiers[i] \in Seq(AllTrackers)
  BY DEF ReadyType, Shape
<1>2. 1 \in 1 .. Len(tiers[i]) - (n - 1) /\ s.k - 1 + 1 = s.k /\ n - 1 + 1 = n
  BY <1>1
<1>3. s.tiers[i][s.k] = tiers[i][n]
  BY <1>2 DEF Stands
<1>4. s.k >= 1 /\ s.k <= Len(s.tiers[i])
  BY <1>1 DEF Stands
<1> QED
  BY <1>1, <1>3, <1>4

\* Others are left as they are.
LEMMA AheadNext ==
  ASSUME Shape(tiers), NEW i \in 1 .. Len(tiers), NEW n \in 1 .. Len(tiers[i]), NEW S, NEW s, Ahead(s, i, n, S),
         NEW y, \A t \in AllTrackers : t # tiers[i][n] => y.tr[t].status = s.tr[t].status
  PROVE  Ahead(y, i, n + 1, S)
<1>1. ASSUME NEW a \in i .. Len(tiers), NEW b \in 1 .. Len(tiers[a]), a > i \/ b >= n + 1, tiers[a][b] \in S
      PROVE  InFlight(y.tr[tiers[a][b]])
  <2>1. a \in 1 .. Len(tiers) /\ (a > i \/ b >= n) /\ ~ (a = i /\ b = n)
    BY <1>1 DEF Shape
  <2>2. tiers[a][b] # tiers[i][n]
    BY <2>1, OnePlace
  <2>3. tiers[a][b] \in AllTrackers
    BY <2>1 DEF Shape
  <2>4. InFlight(s.tr[tiers[a][b]])
    BY <1>1, <2>1 DEF Ahead
  <2> QED
    BY <2>2, <2>3, <2>4 DEF InFlight
<1> QED
  BY <1>1 DEF Ahead

\* The tracker at the position has answered well: it comes first.
LEMMA SucceededFirst ==
  ASSUME NEW s \in ReadyType, NEW i \in 1 .. Len(s.tiers), s.tiers[i] \in Seq(AllTrackers), s.tiers[i] # << >>,
         NEW m \in BOOLEAN
  PROVE  LET x == Succeeded(s, i, 1, 0, m) IN
         x \in ReadyType /\ x.tiers = s.tiers /\ x.tr = s.tr /\ x.k = s.k /\ x.pp = s.pp
<1>1. s.tiers[i][1] \in AllTrackers
  OBVIOUS
<1>2. PICK take \in BOOLEAN : Succeeded(s, i, 1, 0, m) =
        IF take THEN [s EXCEPT !.current = s.tiers[i][1], !.outcome = "success"] ELSE s
  BY DEF Succeeded, Chosen
<1> QED
  BY <1>1, <1>2 DEF ReadyType, Views, Results

\* Any other that has answered well comes first from now on; the rest of its tier are cleared.
LEMMA SucceededPromotes ==
  ASSUME Outside, NEW s \in ReadyType, AllSane(s.tr), Shape(s.tiers), NEW i \in 1 .. Len(s.tiers),
         NEW k \in 2 .. Len(s.tiers[i]), NEW pp \in 1 .. k - 1,
         Len(Tiers[i]) <= 3 => pp = k - 1, NEW m \in BOOLEAN
  PROVE  LET x == Succeeded(s, i, k, pp, m) IN
         /\ x \in ReadyType /\ AllSane(x.tr) /\ Shape(x.tiers) /\ x.k = s.k /\ x.pp = s.pp
         /\ x.tiers = [s.tiers EXCEPT ![i] = Promoted(s.tiers[i], k, pp)]
         /\ \A t \in AllTrackers : x.tr[t].status = s.tr[t].status
<1> DEFINE old == s.tiers[i]
           new == Promoted(old, k, pp)
           states == Cleared(s.tr, Members(Tail(new)))
           y == [s EXCEPT !.tiers = [s.tiers EXCEPT ![i] = new], !.tr = states]
<1>1. old \in Seq(AllTrackers) /\ i \in 1 .. Len(Tiers) /\ TierOK(old, Tiers[i]) /\ s.tiers \in Seq(Seq(AllTrackers))
  BY DEF Shape
<1>2. new \in Seq(AllTrackers) /\ new[2] = old[1] /\ old[1] \in AllTrackers
  BY <1>1, PromotedElements, SMTT(60)
<1>3. TierOK(new, Tiers[i])
  BY <1>1, PromotedOK
<1>4. /\ AllSane(states) /\ states \in [AllTrackers -> TrackerType]
      /\ \A t \in AllTrackers : states[t].status = s.tr[t].status
  BY SaneCleared DEF Outside, AllSane
<1>5. PICK take \in BOOLEAN : Succeeded(s, i, k, pp, m) =
        IF take THEN [y EXCEPT !.current = new[2], !.outcome = "success"] ELSE y
  <2>1. k # 1
    OBVIOUS
  <2> QED
    BY <2>1 DEF Succeeded, Chosen
<1> HIDE DEF new, states, old
<1> DEFINE ts == [s.tiers EXCEPT ![i] = new]
<1>6. Shape(ts)
  <2>1. ts \in Seq(Seq(AllTrackers)) /\ Len(ts) = Len(s.tiers)
    BY <1>1, <1>2
  <2>2. ASSUME NEW j \in 1 .. Len(Tiers) PROVE TierOK(ts[j], Tiers[j])
    <3>1. j \in 1 .. Len(s.tiers) /\ ts[j] = IF j = i THEN new ELSE s.tiers[j]
      BY <1>1 DEF Shape
    <3> HIDE DEF ts
    <3> QED
      BY <1>3, <3>1 DEF Shape
  <2> QED
    BY <2>1, <2>2 DEF Shape
<1>7. ts \in Seq(Seq(AllTrackers))
  BY <1>6 DEF Shape
<1> HIDE DEF ts
<1>8. y \in ReadyType /\ y.tiers = ts /\ y.tr = states /\ y.k = s.k /\ y.pp = s.pp
  BY <1>4, <1>7 DEF ReadyType, ts
<1> HIDE DEF y
<1>9. LET x == Succeeded(s, i, k, pp, m) IN
      x \in ReadyType /\ x.tiers = ts /\ x.tr = states /\ x.k = s.k /\ x.pp = s.pp
  BY <1>2, <1>5, <1>8 DEF ReadyType, Views, Results
<1> QED
  BY <1>4, <1>6, <1>9 DEF ts, new, old

\* The pass stands where it should after a promotion: behind it, what is left of the tier.
LEMMA StandsPromoted ==
  ASSUME Shape(tiers), NEW i \in 1 .. Len(tiers), NEW n \in 1 .. Len(tiers[i]),
         NEW s \in ReadyType, Shape(s.tiers), Stands(s, i, n - 1),
         NEW k \in 2 .. Len(s.tiers[i]), NEW pp \in 1 .. k - 1, s.k = k,
         NEW y \in ReadyType, y.tiers = [s.tiers EXCEPT ![i] = Promoted(s.tiers[i], k, pp)], y.k = pp + 2, y.pp = 2
  PROVE  Stands(y, i, n)
<1> DEFINE old == tiers[i]
           tier == s.tiers[i]
           new == Promoted(tier, k, pp)
<1>1. n \in Nat /\ Len(old) \in Nat /\ Len(tier) \in Nat /\ 1 <= n /\ n <= Len(old) /\ i \in 1 .. Len(s.tiers)
  BY SMTT(60) DEF ReadyType, Shape
<1>2. /\ Len(tier) - k = Len(old) - (n - 1) - 1
      /\ \A j \in 1 .. Len(old) - (n - 1) : tier[k - 1 + j] = old[n - 1 + j]
  BY DEF Stands
<1>3. tier \in Seq(AllTrackers)
  BY <1>1 DEF Shape
<1>4. Len(new) = Len(tier) + 1 + pp - k /\ \A l \in pp + 2 .. Len(new) : new[l] = tier[l - pp - 1 + k]
  <2> HIDE DEF tier
  <2>1. k \in 2 .. Len(tier)
    BY DEF tier
  <2> QED
    BY <1>3, <2>1, PromotedElements
<1>5. y.tiers[i] = new /\ y.k = pp + 2 /\ y.pp = 2
  <2>1. i \in DOMAIN s.tiers
    BY <1>1 DEF Shape
  <2> QED
    BY <2>1
<1>6. k \in Nat /\ pp \in Nat /\ 1 <= pp /\ pp <= k - 1 /\ k <= Len(tier)
  BY <1>1
<1> HIDE DEF old, tier, new
<1>7. ASSUME NEW j \in 1 .. Len(old) - n PROVE new[pp + 2 - 1 + j] = old[n + j]
  <2>0. j \in Nat /\ 1 <= j /\ j <= Len(old) - n
    BY <1>1
  <2>1. j + 1 \in 1 .. Len(old) - (n - 1)
    BY <1>1, <2>0
  <2>2. n - 1 + (j + 1) = n + j
    BY <1>1, <2>0
  <2>3. pp + 2 - 1 + j \in pp + 2 .. Len(new)
    BY <1>1, <1>2, <1>4, <1>6, <2>0
  <2>4. (pp + 2 - 1 + j) - pp - 1 + k = k - 1 + (j + 1)
    BY <1>6, <2>0
  <2>5. new[pp + 2 - 1 + j] = tier[k - 1 + (j + 1)]
    BY <1>4, <2>3, <2>4
  <2>6. tier[k - 1 + (j + 1)] = old[n - 1 + (j + 1)]
    BY <1>2, <2>1
  <2> QED
    BY <2>2, <2>5, <2>6
<1>8. Len(new) - (pp + 2) = Len(old) - n - 1 /\ 2 \in 1 .. (pp + 2) - 1 /\ pp + 2 >= 1
  <2>1. Len(new) = Len(tier) + 1 + pp - k /\ Len(tier) - k = Len(old) - (n - 1) - 1
    BY <1>2, <1>4
  <2>2. Len(new) - (pp + 2) = Len(old) - n - 1
    <3> DEFINE lt == Len(tier)
               lo == Len(old)
    <3>0. lt - k = lo - (n - 1) - 1 /\ lt \in Nat /\ lo \in Nat /\ n \in Nat /\ k \in Nat
      BY <1>1, <1>6, <2>1
    <3> HIDE DEF lt, lo
    <3>1. lt = lo - n + k
      BY <3>0
    <3> USE DEF lt, lo
    <3>2. Len(new) = Len(old) - n + 1 + pp
      BY <1>1, <1>6, <2>1, <3>1
    <3> QED
      BY <1>1, <1>6, <3>2
  <2> QED
    BY <1>6, <2>2
<1>9. pp + 2 \in 2 .. 3 => 2 = (pp + 2) - 1
  BY <1>6
<1> QED
  <2>1. y.k >= 1 /\ Len(y.tiers[i]) - y.k = Len(old) - n - 1
    BY <1>5, <1>8
  <2>2. ASSUME NEW j \in 1 .. Len(old) - n PROVE y.tiers[i][y.k - 1 + j] = old[n + j]
    <3>1. new[pp + 2 - 1 + j] = old[n + j]
      BY <1>7
    <3> QED
      BY <1>5, <3>1
  <2>3. y.pp \in 1 .. y.k - 1
    BY <1>5, <1>8
  <2>4. y.k \in 2 .. 3 => y.pp = y.k - 1
    BY <1>5, <1>9
  <2> QED
    BY <2>1, <2>2, <2>3, <2>4 DEF Stands, old

\* Whatever the socket says, the tracker is sane after it, and nothing else changes.
LEMMA SocketKeeps ==
  ASSUME Outside, NEW s \in ReadyType, AllSane(s.tr), NEW t \in AllTrackers, InFlight(s.tr[t]),
         NEW x \in SocketReady(s.tr[t], content)
  PROVE  LET y == [s EXCEPT !.tr = [@ EXCEPT ![t] = x]] IN
         /\ y \in ReadyType /\ AllSane(y.tr) /\ y.tiers = s.tiers /\ y.k = s.k /\ y.pp = s.pp
         /\ \A u \in AllTrackers : u # t => y.tr[u] = s.tr[u]
<1> DEFINE states == [s.tr EXCEPT ![t] = x]
           y == [s EXCEPT !.tr = states]
<1>1. Sane(x, quit)
  BY SocketReadySane DEF Outside, AllSane
<1>2. AllSane(states)
  BY <1>1, SaneUpdate
<1>3. states \in [AllTrackers -> TrackerType] /\ \A u \in AllTrackers : u # t => states[u] = s.tr[u]
  BY <1>2 DEF AllSane, ReadyType
<1> HIDE DEF states
<1>4. y \in ReadyType /\ y.tr = states /\ y.tiers = s.tiers /\ y.k = s.k /\ y.pp = s.pp
  BY <1>3 DEF ReadyType
<1> QED
  BY <1>2, <1>3, <1>4 DEF states

\* On to the next node, when the tiers are as they were.
LEMMA NextWithin ==
  ASSUME Outside, Shape(tiers), NEW i \in 1 .. Len(tiers), NEW n \in 1 .. Len(tiers[i]), NEW S,
         NEW s \in Within(i, n - 1, S), NEW x \in ReadyType, AllSane(x.tr), x.tiers = s.tiers, x.k = s.k,
         \A u \in AllTrackers : u # tiers[i][n] => x.tr[u].status = s.tr[u].status
  PROVE  [x EXCEPT !.k = s.k + 1, !.pp = s.k] \in Within(i, n, S)
<1> DEFINE y == [x EXCEPT !.k = s.k + 1, !.pp = s.k]
<1>1. n - 1 + 1 = n
  OBVIOUS
<1>2. /\ s \in ReadyType /\ Shape(s.tiers) /\ Ahead(s, i, n, S) /\ Stands(s, i, n - 1)
      /\ \A a \in i + 1 .. Len(tiers) : s.tiers[a] = tiers[a]
  BY <1>1 DEF Within
<1>3. y \in ReadyType /\ y.tiers = s.tiers /\ y.tr = x.tr /\ y.k = s.k + 1 /\ y.pp = s.k
  <2> DEFINE k1 == s.k + 1
             pp1 == s.k
  <2>1. k1 \in Nat /\ pp1 \in Nat /\ y = [x EXCEPT !.k = k1, !.pp = pp1]
    BY <1>2 DEF ReadyType
  <2> HIDE DEF k1, pp1, y
  <2>2. y \in ReadyType /\ y.tiers = x.tiers /\ y.tr = x.tr /\ y.k = k1 /\ y.pp = pp1
    BY <2>1 DEF ReadyType
  <2> QED
    BY <2>2 DEF k1, pp1
<1> HIDE DEF y
<1>4. Stands(y, i, n)
  BY <1>2, <1>3, StandsNext
<1>5. Ahead(y, i, n + 1, S)
  BY <1>2, <1>3, AheadNext
<1>6. y \in Within(i, n, S)
  BY <1>2, <1>3, <1>4, <1>5 DEF Within
<1> QED
  BY <1>6 DEF y

\* On to the next node after a promotion.
LEMMA MovedWithin ==
  ASSUME Outside, Shape(tiers), NEW i \in 1 .. Len(tiers), NEW n \in 1 .. Len(tiers[i]), NEW S,
         NEW s \in Within(i, n - 1, S), s.k # 1, NEW m \in BOOLEAN,
         NEW x \in ReadyType, AllSane(x.tr), x.tiers = s.tiers, x.k = s.k, x.pp = s.pp,
         \A u \in AllTrackers : u # tiers[i][n] => x.tr[u].status = s.tr[u].status
  PROVE  [Succeeded(x, i, s.k, s.pp, m) EXCEPT !.k = s.pp + 2, !.pp = 2] \in Within(i, n, S)
<1> DEFINE z == Succeeded(x, i, s.k, s.pp, m)
           y == [z EXCEPT !.k = s.pp + 2, !.pp = 2]
<1>1. n - 1 + 1 = n
  OBVIOUS
<1>2. /\ s \in ReadyType /\ Shape(s.tiers) /\ Ahead(s, i, n, S) /\ Stands(s, i, n - 1)
      /\ \A a \in i + 1 .. Len(tiers) : s.tiers[a] = tiers[a]
  BY <1>1 DEF Within
<1>3. s.tiers[i] \in Seq(AllTrackers) /\ s.k \in 1 .. Len(s.tiers[i]) /\ i \in 1 .. Len(s.tiers)
  <2>1. i \in 1 .. Len(s.tiers)
    BY <1>2 DEF Shape
  <2> QED
    BY <1>2, <2>1, Standing
<1>4. PICK k \in 2 .. Len(s.tiers[i]) : s.k = k
  BY <1>3
<1>5. PICK pp \in 1 .. k - 1 : s.pp = pp
  <2>1. k # 1
    BY <1>4
  <2> QED
    BY <1>2, <1>4, <2>1 DEF Stands
<1>6. Len(Tiers[i]) <= 3 => pp = k - 1
  <2>1. ASSUME Len(Tiers[i]) <= 3 PROVE k \in 2 .. 3
    <3>1. TierOK(s.tiers[i], Tiers[i])
      BY <1>2 DEF Shape
    <3>2. Len(s.tiers[i]) = Len(Tiers[i])
      BY <2>1, <3>1 DEF TierOK
    <3> QED
      BY <1>3, <2>1, <3>2
  <2> QED
    BY <1>2, <1>4, <1>5, <2>1 DEF Stands
<1>7. /\ z \in ReadyType /\ AllSane(z.tr) /\ Shape(z.tiers) /\ z.k = x.k /\ z.pp = x.pp
      /\ z.tiers = [s.tiers EXCEPT ![i] = Promoted(s.tiers[i], k, pp)]
      /\ \A t \in AllTrackers : z.tr[t].status = x.tr[t].status
  <2>1. z = Succeeded(x, i, k, pp, m)
    BY <1>4, <1>5
  <2>2. Shape(x.tiers) /\ i \in 1 .. Len(x.tiers) /\ k \in 2 .. Len(x.tiers[i])
    BY <1>2, <1>3
  <2> HIDE DEF z
  <2>3. /\ z \in ReadyType /\ AllSane(z.tr) /\ Shape(z.tiers) /\ z.k = x.k /\ z.pp = x.pp
        /\ z.tiers = [x.tiers EXCEPT ![i] = Promoted(x.tiers[i], k, pp)]
        /\ \A t \in AllTrackers : z.tr[t].status = x.tr[t].status
    BY <1>6, <2>1, <2>2, SucceededPromotes, SMTT(60)
  <2> QED
    BY <2>3
<1> HIDE DEF z
<1>8. y \in ReadyType /\ y.tiers = z.tiers /\ y.tr = z.tr /\ y.k = pp + 2 /\ y.pp = 2
  <2> DEFINE k1 == pp + 2
  <2>1. k1 \in Nat /\ y = [z EXCEPT !.k = k1, !.pp = 2]
    BY <1>4, <1>5
  <2> HIDE DEF k1, y
  <2>2. y \in ReadyType /\ y.tiers = z.tiers /\ y.tr = z.tr /\ y.k = k1 /\ y.pp = 2
    BY <1>7, <2>1 DEF ReadyType
  <2> QED
    BY <2>2 DEF k1
<1> HIDE DEF y
<1>9. Stands(y, i, n)
  <2>1. y.tiers = [s.tiers EXCEPT ![i] = Promoted(s.tiers[i], k, pp)]
    BY <1>7, <1>8
  <2> QED
    BY <1>2, <1>4, <1>8, <2>1, StandsPromoted, ZenonT(60)
<1>10. \A u \in AllTrackers : u # tiers[i][n] => y.tr[u].status = s.tr[u].status
  BY <1>7, <1>8
<1>11. Ahead(y, i, n + 1, S)
  BY <1>2, <1>10, AheadNext
<1>12. \A a \in i + 1 .. Len(tiers) : y.tiers[a] = tiers[a]
  <2>1. \A a \in i + 1 .. Len(tiers) : a \in 1 .. Len(s.tiers) /\ a # i
    BY <1>2 DEF Shape
  <2>2. \A a \in i + 1 .. Len(tiers) : y.tiers[a] = s.tiers[a]
    <3> DEFINE new == Promoted(s.tiers[i], k, pp)
    <3>1. y.tiers = [s.tiers EXCEPT ![i] = new] /\ DOMAIN s.tiers = 1 .. Len(s.tiers)
      BY <1>2, <1>7, <1>8 DEF Shape
    <3> HIDE DEF new
    <3> QED
      BY <2>1, <3>1
  <2> QED
    BY <1>2, <2>2
<1>13. y \in Within(i, n, S)
  BY <1>7, <1>8, <1>9, <1>11, <1>12 DEF Within
<1> QED
  BY <1>13 DEF y, z

\* One tracker of a tier.
LEMMA ReadyOneKeeps ==
  ASSUME Outside, Shape(tiers), NEW i \in 1 .. Len(tiers), NEW n \in 1 .. Len(tiers[i]), NEW S,
         NEW s \in Within(i, n - 1, S), NEW y \in ReadyOne(s, i, S)
  PROVE  y \in Within(i, n, S)
<1> DEFINE t == s.tiers[i][s.k]
           next(x) == [x EXCEPT !.k = s.k + 1, !.pp = s.k]
           moved(x) == [x EXCEPT !.k = s.pp + 2, !.pp = 2]
<1>1. n - 1 + 1 = n
  OBVIOUS
<1>2. /\ s \in ReadyType /\ AllSane(s.tr) /\ Shape(s.tiers) /\ Ahead(s, i, n, S) /\ Stands(s, i, n - 1)
  BY <1>1 DEF Within
<1>3. /\ s.tiers[i] \in Seq(AllTrackers) /\ s.k \in 1 .. Len(s.tiers[i]) /\ i \in 1 .. Len(s.tiers)
      /\ t = tiers[i][n] /\ t \in AllTrackers
  <2>1. i \in 1 .. Len(s.tiers)
    BY <1>2 DEF Shape
  <2> QED
    BY <1>2, <2>1, Standing
<1> HIDE DEF t
<1>4. CASE t \notin S
  <2>1. y = next(s)
    BY <1>4 DEF ReadyOne, t
  <2> QED
    BY <1>2, <2>1, NextWithin
<1>5. CASE t \in S
  <2>1. PICK x \in Outcomes(t, SocketReady(s.tr[t], content)) :
          LET z == [s EXCEPT !.tr = [@ EXCEPT ![t] = x]] IN
          y \in IF Worked(z.tr[t])
                THEN {IF s.k = 1 THEN next(Succeeded(z, i, 1, 0, m))
                      ELSE moved(Succeeded(z, i, s.k, s.pp, m)) : m \in BOOLEAN}
                ELSE {next(z)}
    BY <1>5 DEF ReadyOne, t
  <2> DEFINE z == [s EXCEPT !.tr = [@ EXCEPT ![t] = x]]
  <2>2. x \in SocketReady(s.tr[t], content)
    BY <2>1 DEF Outcomes
  <2>3. InFlight(s.tr[t])
    <3>1. i \in i .. Len(tiers) /\ n >= n
      BY <1>2 DEF Shape
    <3> QED
      BY <1>2, <1>3, <1>5, <3>1 DEF Ahead
  <2>4. /\ z \in ReadyType /\ AllSane(z.tr) /\ z.tiers = s.tiers /\ z.k = s.k /\ z.pp = s.pp
        /\ \A u \in AllTrackers : u # t => z.tr[u] = s.tr[u]
    BY <1>2, <1>3, <2>2, <2>3, SocketKeeps
  <2>5. \/ y = next(z)
        \/ s.k = 1 /\ \E m \in BOOLEAN : y = next(Succeeded(z, i, 1, 0, m))
        \/ s.k # 1 /\ \E m \in BOOLEAN : y = moved(Succeeded(z, i, s.k, s.pp, m))
    BY <2>1
  <2> HIDE DEF z
  <2>6. CASE y = next(z)
    BY <1>3, <2>4, <2>6, NextWithin
  <2>7. ASSUME NEW m \in BOOLEAN, y = next(Succeeded(z, i, 1, 0, m)) PROVE y \in Within(i, n, S)
    <3> DEFINE w == Succeeded(z, i, 1, 0, m)
    <3>1. z.tiers[i] # << >>
      BY <1>3, <2>4
    <3>2. w \in ReadyType /\ w.tiers = z.tiers /\ w.tr = z.tr /\ w.k = z.k /\ w.pp = z.pp
      BY <1>3, <2>4, <3>1, SucceededFirst
    <3> HIDE DEF w
    <3>3. next(w) \in Within(i, n, S)
      BY <1>3, <2>4, <3>2, NextWithin
    <3> QED
      BY <2>7, <3>3 DEF w
  <2>8. ASSUME s.k # 1, NEW m \in BOOLEAN, y = moved(Succeeded(z, i, s.k, s.pp, m)) PROVE y \in Within(i, n, S)
    BY <1>3, <2>4, <2>8, MovedWithin
  <2> QED
    BY <2>5, <2>6, <2>7, <2>8
<1> QED
  BY <1>4, <1>5

\* All of a tier.
LEMMA ReadyTierKeeps ==
  ASSUME Outside, Shape(tiers), NEW i \in 1 .. Len(tiers), NEW ready, NEW S \in SUBSET Between(i - 1, ready)
  PROVE  ReadyTier(S, i, ready) \subseteq Between(i, ready)
<1> DEFINE N == Len(tiers[i])
           first == {[s EXCEPT !.k = 1, !.pp = 0] : s \in S}
           passed == CHOOSE f : f = [n \in 0 .. N |-> IF n = 0 THEN first
                                                      ELSE UNION {ReadyOne(s, i, ready) : s \in f[n - 1]}]
           D == [n \in 0 .. N |-> Within(i, n, ready)]
           G == [n \in 1 .. N |-> [X \in SUBSET Within(i, n - 1, ready) |-> UNION {ReadyOne(s, i, ready) : s \in X}]]
<1>0. ReadyTier(S, i, ready) = passed[N]
  BY Zenon DEF ReadyTier
<1>1. first \subseteq Within(i, 0, ready)
  BY EnterTier
<1>2. N \in Nat
  BY DEF Shape
<1>3. \A n \in 1 .. N : \A X \in SUBSET Within(i, n - 1, ready) :
        UNION {ReadyOne(s, i, ready) : s \in X} \subseteq Within(i, n, ready)
  BY ReadyOneKeeps
<1>a. Within(i, N, ready) \subseteq Between(i, ready)
  BY LeaveTier
<1> HIDE DEF first, N
<1>4. \A n \in 1 .. N : \A X \in SUBSET D[n - 1] : G[n][X] \subseteq D[n]
  <2>1. \A n \in 1 .. N : n \in 0 .. N /\ n - 1 \in 0 .. N
    BY <1>2
  <2> QED
    BY <1>3, <2>1
<1>5. PICK f : Recursion(f, first, G, N) /\ \A n \in 0 .. N : f[n] \subseteq D[n]
  <2>1. first \subseteq D[0]
    BY <1>1, <1>2
  <2> HIDE DEF D, G
  <2> QED
    BY <1>2, <1>4, <2>1, PassesSound
<1>6. f = [n \in 0 .. N |-> IF n = 0 THEN first ELSE UNION {ReadyOne(s, i, ready) : s \in f[n - 1]}]
  <2>1. ASSUME NEW n \in 0 .. N, n # 0 PROVE G[n][f[n - 1]] = UNION {ReadyOne(s, i, ready) : s \in f[n - 1]}
    <3>1. n \in 1 .. N /\ n - 1 \in 0 .. N
      BY <1>2, <2>1
    <3>2. f[n - 1] \in SUBSET Within(i, n - 1, ready)
      BY <1>5, <3>1
    <3> QED
      BY <3>1, <3>2
  <2>2. f = [n \in 0 .. N |-> IF n = 0 THEN first ELSE G[n][f[n - 1]]]
    BY <1>5 DEF Recursion
  <2> HIDE DEF G
  <2> QED
    BY <2>1, <2>2
<1>7. passed = [n \in 0 .. N |-> IF n = 0 THEN first ELSE UNION {ReadyOne(s, i, ready) : s \in passed[n - 1]}]
  BY <1>6, Zenon
<1> HIDE DEF passed
<1>8. \A n \in 0 .. N : passed[n] \subseteq D[n]
  <2>1. passed[0] \subseteq D[0]
    BY <1>1, <1>2, <1>7
  <2>2. ASSUME NEW n \in 1 .. N, passed[n - 1] \subseteq D[n - 1] PROVE passed[n] \subseteq D[n]
    <3>1. n \in 0 .. N /\ n - 1 \in 0 .. N /\ n # 0
      BY <1>2
    <3>2. passed[n] = UNION {ReadyOne(s, i, ready) : s \in passed[n - 1]}
      BY <1>7, <3>1
    <3>3. passed[n - 1] \in SUBSET Within(i, n - 1, ready)
      BY <2>2, <3>1
    <3> QED
      BY <1>3, <3>1, <3>2, <3>3
  <2> HIDE DEF D
  <2> QED
    BY <1>2, <2>1, <2>2, PassesWithin
<1> QED
  BY <1>0, <1>2, <1>8, <1>a

\* All tiers.
LEMMA AnsweredKeeps ==
  ASSUME Outside, Shape(tiers), AllSane(tr), current \in Views, outcome \in Results,
         NEW ready, \A t \in ready : InFlight(tr[t])
  PROVE  Answered(ready) \subseteq Between(Len(tiers), ready)
<1> DEFINE N == Len(tiers)
           first == {[tiers |-> tiers, tr |-> tr, current |-> current, outcome |-> outcome, k |-> 1, pp |-> 0]}
           passed == CHOOSE f : f = [i \in 0 .. N |-> IF i = 0 THEN first ELSE ReadyTier(f[i - 1], i, ready)]
           D == [n \in 0 .. N |-> Between(n, ready)]
           G == [n \in 1 .. N |-> [X \in SUBSET Between(n - 1, ready) |-> ReadyTier(X, n, ready)]]
<1>0. Answered(ready) = passed[N]
  BY Zenon DEF Answered
<1>1. first \subseteq Between(0, ready)
  <2> DEFINE s == [tiers |-> tiers, tr |-> tr, current |-> current, outcome |-> outcome, k |-> 1, pp |-> 0]
  <2>1. tr \in [AllTrackers -> TrackerType] /\ tiers \in Seq(Seq(AllTrackers))
    BY DEF AllSane, Shape
  <2>2. s \in ReadyType /\ s.tr = tr /\ s.tiers = tiers
    BY <2>1 DEF ReadyType
  <2> HIDE DEF s
  <2>3. Ahead(s, 0 + 1, 1, ready)
    BY <2>2 DEF Ahead
  <2>4. s \in Between(0, ready)
    BY <2>2, <2>3 DEF Between
  <2> QED
    BY <2>4 DEF s
<1>2. N \in Nat
  BY DEF Shape
<1>3. \A n \in 1 .. N : \A X \in SUBSET Between(n - 1, ready) : ReadyTier(X, n, ready) \subseteq Between(n, ready)
  BY ReadyTierKeeps
<1> HIDE DEF first, N
<1>4. \A n \in 1 .. N : \A X \in SUBSET D[n - 1] : G[n][X] \subseteq D[n]
  <2>1. \A n \in 1 .. N : n \in 0 .. N /\ n - 1 \in 0 .. N
    BY <1>2
  <2> QED
    BY <1>3, <2>1
<1>5. PICK f : Recursion(f, first, G, N) /\ \A n \in 0 .. N : f[n] \subseteq D[n]
  <2>1. first \subseteq D[0]
    BY <1>1, <1>2
  <2> HIDE DEF D, G
  <2> QED
    BY <1>2, <1>4, <2>1, PassesSound
<1>6. f = [i \in 0 .. N |-> IF i = 0 THEN first ELSE ReadyTier(f[i - 1], i, ready)]
  <2>1. ASSUME NEW n \in 0 .. N, n # 0 PROVE G[n][f[n - 1]] = ReadyTier(f[n - 1], n, ready)
    <3>1. n \in 1 .. N /\ n - 1 \in 0 .. N
      BY <1>2, <2>1
    <3>2. f[n - 1] \in SUBSET Between(n - 1, ready)
      BY <1>5, <3>1
    <3> QED
      BY <3>1, <3>2
  <2>2. f = [n \in 0 .. N |-> IF n = 0 THEN first ELSE G[n][f[n - 1]]]
    BY <1>5 DEF Recursion
  <2> HIDE DEF G
  <2> QED
    BY <2>1, <2>2
<1>7. passed = [i \in 0 .. N |-> IF i = 0 THEN first ELSE ReadyTier(passed[i - 1], i, ready)]
  BY <1>6, Zenon
<1> HIDE DEF passed
<1>8. \A n \in 0 .. N : passed[n] \subseteq D[n]
  <2>1. passed[0] \subseteq D[0]
    BY <1>1, <1>2, <1>7
  <2>2. ASSUME NEW n \in 1 .. N, passed[n - 1] \subseteq D[n - 1] PROVE passed[n] \subseteq D[n]
    <3>1. n \in 0 .. N /\ n - 1 \in 0 .. N /\ n # 0
      BY <1>2
    <3>2. passed[n] = ReadyTier(passed[n - 1], n, ready)
      BY <1>7, <3>1
    <3>3. passed[n - 1] \in SUBSET Between(n - 1, ready)
      BY <2>2, <3>1
    <3> QED
      BY <1>3, <3>1, <3>2, <3>3
  <2> HIDE DEF D
  <2> QED
    BY <1>2, <2>1, <2>2, PassesWithin
<1> QED
  BY <1>0, <1>2, <1>8 DEF N

-----------------------------------------------------------------------------
(* Theorems.                                                               *)

\* The inductive invariant.
TInv == Shape(tiers) /\ AllSane(tr) /\ current \in Views /\ outcome \in Results /\ Outside

\* The constructor, and the announce list of the torrent.
LEMMA InitInv == Init => TInv
<1> SUFFICES ASSUME Init PROVE TInv
  OBVIOUS
<1>1. quit \in BOOLEAN /\ content \in Contents
  BY DEF Init, Contents
<1>2. Shape(tiers)
  BY TiersShape DEF Init
<1>3. AllSane(tr)
  <2>1. Sane(NewTracker, quit) /\ NewTracker \in TrackerType
    BY <1>1, NewSane DEF Sane
  <2> QED
    BY <2>1 DEF Init, AllSane
<1> QED
  BY <1>1, <1>2, <1>3 DEF Init, TInv, Outside, Views, Results

\* Every action.
LEMMA StepInv == TInv /\ [Next]_vars => TInv'
<1> SUFFICES ASSUME TInv, [Next]_vars PROVE TInv'
  OBVIOUS
<1>1. Shape(tiers) /\ AllSane(tr) /\ current \in Views /\ outcome \in Results /\ Outside
  BY DEF TInv
<1>2. CASE Poll
  <2>1. PICK s \in Checked : Put(s) /\ UNCHANGED <<quit, content>>
    BY <1>2 DEF Poll
  <2>2. s \in CheckStates
    BY <1>1, CheckedKeeps
  <2>3. s.tiers = tiers /\ AllSane(s.tr) /\ s.current \in Views /\ s.outcome \in Results
    BY <2>2 DEF CheckStates
  <2>4. /\ tiers' = s.tiers /\ tr' = s.tr /\ current' = s.current /\ outcome' = s.outcome
        /\ quit' = quit /\ content' = content
    BY <2>1 DEF Put
  <2> QED
    BY <1>1, <2>3, <2>4 DEF TInv, Shape, AllSane, Outside
<1>3. CASE Ready
  <2>1. PICK ready \in SUBSET {t \in AllTrackers : InFlight(tr[t])} :
          (\E s \in Answered(ready) : Put(s)) /\ UNCHANGED <<quit, content>>
    BY <1>3 DEF Ready
  <2>2. PICK s \in Answered(ready) : Put(s)
    BY <2>1
  <2>3. \A t \in ready : InFlight(tr[t])
    BY <2>1
  <2>4. s \in Between(Len(tiers), ready)
    BY <1>1, <2>3, AnsweredKeeps
  <2>5. Shape(s.tiers) /\ AllSane(s.tr) /\ s.current \in Views /\ s.outcome \in Results
    BY <2>4 DEF Between, ReadyType
  <2>6. /\ tiers' = s.tiers /\ tr' = s.tr /\ current' = s.current /\ outcome' = s.outcome
        /\ quit' = quit /\ content' = content
    BY <2>1, <2>2 DEF Put
  <2> QED
    BY <1>1, <2>5, <2>6 DEF TInv, Shape, AllSane, Outside
<1>4. CASE Complete
  <2>1. content' \in Contents /\ UNCHANGED <<tiers, tr, current, outcome, quit>>
    BY <1>4 DEF Complete, Contents
  <2> QED
    BY <1>1, <2>1 DEF TInv, Shape, AllSane, Outside
<1>5. CASE StopAll
  <2>1. /\ quit' = TRUE /\ UNCHANGED <<tiers, current, outcome, content>>
        /\ tr' = [t \in AllTrackers |-> IF t \in Listed THEN Stop(tr[t]) ELSE tr[t]]
    BY <1>5 DEF StopAll
  <2>2. ASSUME NEW t \in AllTrackers PROVE Sane(Stop(tr[t]), TRUE) /\ Sane(tr[t], TRUE)
    <3>1. Sane(tr[t], quit) /\ quit \in BOOLEAN
      BY <1>1 DEF AllSane, Outside
    <3>2. Sane(Stop(tr[t]), TRUE)
      BY <3>1, StopSane
    <3>3. Sane(tr[t], TRUE)
      BY <3>1 DEF Sane
    <3> QED
      BY <3>2, <3>3
  <2>3. ASSUME NEW t \in AllTrackers PROVE Sane(tr'[t], TRUE) /\ tr'[t] \in TrackerType
    <3>1. Sane(tr'[t], TRUE)
      BY <2>1, <2>2
    <3> QED
      BY <3>1 DEF Sane
  <2>4. tr' \in [AllTrackers -> TrackerType]
    BY <2>1, <2>3
  <2> QED
    BY <1>1, <2>1, <2>3, <2>4 DEF TInv, Shape, AllSane, Outside
<1>6. CASE RestartAll
  <2>1. /\ current' = NoTracker /\ outcome' = "normal" /\ UNCHANGED <<tiers, quit, content>>
        /\ tr' = [t \in AllTrackers |-> IF t \in Listed THEN RestartTracker(tr[t]) ELSE tr[t]]
    BY <1>6 DEF RestartAll
  <2>2. ASSUME NEW t \in AllTrackers PROVE Sane(tr'[t], quit) /\ tr'[t] \in TrackerType
    <3>1. Sane(tr[t], quit) /\ quit \in BOOLEAN
      BY <1>1 DEF AllSane, Outside
    <3>2. Sane(RestartTracker(tr[t]), quit)
      BY <3>1, RestartTrackerSane
    <3>3. Sane(tr'[t], quit)
      BY <2>1, <3>1, <3>2
    <3> QED
      BY <3>3 DEF Sane
  <2>3. tr' \in [AllTrackers -> TrackerType]
    BY <2>1, <2>2
  <2> QED
    BY <1>1, <2>1, <2>2, <2>3 DEF TInv, Shape, AllSane, Outside, Views, Results
<1>7. CASE UNCHANGED vars
  BY <1>1, <1>7 DEF vars, TInv, Shape, AllSane, Outside
<1> QED
  BY <1>2, <1>3, <1>4, <1>5, <1>6, <1>7 DEF Next

\* The inductive invariant.
LEMMA Invariant == Spec => []TInv
<1>1. Init => TInv
  BY InitInv
<1>2. TInv /\ [Next]_vars => TInv'
  BY StepInv
<1> QED
  BY <1>1, <1>2, PTL DEF Spec

\* No tier has more than three trackers.
ShortTiers == \A i \in DOMAIN Tiers : Len(Tiers[i]) <= 3

\* Then no tier has lost any.
LEMMA ShortKept ==
  ASSUME ShortTiers, TInv, NEW i \in DOMAIN Tiers
  PROVE  Len(tiers[i]) = Len(Tiers[i]) /\ Members(tiers[i]) = Members(Tiers[i])
<1>1. i \in 1 .. Len(Tiers)
  BY TiersAssumption
<1>2. TierOK(tiers[i], Tiers[i])
  BY <1>1 DEF TInv, Shape
<1> QED
  BY <1>2 DEF TierOK, ShortTiers

\* Types; promotions reorder a tier and lose nobody (tracker.cpp:1217-1225), up to three trackers.
THEOREM TypeCorrect ==
  ASSUME ShortTiers
  PROVE  Spec => []TypeOK
<1>1. TInv => TypeOK
  <2> SUFFICES ASSUME TInv PROVE TypeOK
    OBVIOUS
  <2>1. \A i \in DOMAIN Tiers : Len(tiers[i]) = Len(Tiers[i]) /\ Members(tiers[i]) = Members(Tiers[i])
    BY ShortKept
  <2> QED
    BY <2>1 DEF TInv, AllSane, Views, Outside, TypeOK
<1> QED
  BY <1>1, Invariant, PTL

\* A stop is sent only to trackers that have counted us a member (tracker.cpp:786-801, 1166-1172),
\* in tiers of any length.
THEOREM OnlyMembersContacted == Spec => []QuitContactsKnown
<1>1. TInv => QuitContactsKnown
  BY DEF TInv, AllSane, Sane, InFlight, QuitContactsKnown
<1> QED
  BY <1>1, Invariant, PTL

\* The loop of downloader.cpp:144-145 ends only because it was told to, and not before every tracker
\* that counts us a member was asked to forget us.
THEOREM EndsWhenStopped ==
  ASSUME ShortTiers
  PROVE  Spec => []EndsAfterStop
<1>1. TInv => EndsAfterStop
  <2> SUFFICES ASSUME TInv, Done PROVE quit /\ \A t \in AllTrackers : tr[t].member => tr[t].told
    BY DEF EndsAfterStop
  <2>1. \A t \in AllTrackers : Sane(tr[t], quit)
    BY DEF TInv, AllSane
  <2>2. \A t \in AllTrackers : tr[t].status = "finished" => quit /\ (tr[t].member => tr[t].told)
    BY <2>1 DEF Sane
  <2>3. \A i \in DOMAIN Tiers : Members(tiers[i]) = Members(Tiers[i])
    BY ShortKept
  <2>4. Listed = AllTrackers
    <3>1. DOMAIN tiers = DOMAIN Tiers
      <4>1. Len(tiers) = Len(Tiers) /\ tiers \in Seq(Seq(AllTrackers)) /\ Tiers \in Seq(Seq(AllTrackers))
        BY TiersAssumption DEF TInv, Shape
      <4> QED
        BY <4>1
    <3>2. AllTrackers = UNION {Members(Tiers[i]) : i \in DOMAIN Tiers}
      BY DEF AllTrackers, Members
    <3>3. Listed = UNION {Members(Tiers[i]) : i \in DOMAIN Tiers}
      BY <2>3, <3>1 DEF Listed
    <3> QED
      BY <3>2, <3>3
  <2>5. \E t \in AllTrackers : TRUE
    <3>1. Tiers \in Seq(Seq(AllTrackers)) /\ Tiers # << >>
      BY TiersAssumption
    <3>2. 1 \in DOMAIN Tiers
      BY <3>1
    <3>3. Tiers[1] \in Seq(AllTrackers) /\ Tiers[1] # << >>
      BY <3>1, <3>2, TiersAssumption
    <3>4. Tiers[1][1] \in AllTrackers
      BY <3>3
    <3> QED
      BY <3>4
  <2>6. CASE ~ quit /\ current # NoTracker /\ tr[current].result # "failure"
    <3>1. tr[current].status = "finished" /\ current \in AllTrackers
      BY <2>6 DEF Done, AllFinished, TInv, Views
    <3> QED
      BY <2>2, <2>6, <3>1
  <2>7. CASE ~ (~ quit /\ current # NoTracker /\ tr[current].result # "failure")
    <3>1. \A t \in AllTrackers : tr[t].status = "finished"
      BY <2>4, <2>7 DEF Done, AllFinished
    <3> QED
      BY <2>2, <2>5, <3>1
  <2> QED
    BY <2>6, <2>7
<1> QED
  BY <1>1, Invariant, PTL

\* A tracker always has a URL, as tracker.h:44 says of redirections, unless the target of one cannot
\* be connected to: that is the only way to lose it.
THEOREM SpecKept ==
  ASSUME "unreachable" \notin Behaviours
  PROVE  Spec => []SpecPreserved
<1>1. TInv => SpecPreserved
  BY DEF TInv, AllSane, Sane, HasSpec, SpecPreserved
<1> QED
  BY <1>1, Invariant, PTL
=============================================================================
