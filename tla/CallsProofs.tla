----------------------------- MODULE CallsProofs -----------------------------
(* Proofs about Calls, for any agents, IVR flow, transfers and requests.      *)
EXTENDS Calls, SequenceTheorems, TLAPS

-----------------------------------------------------------------------------
(* The invariant                                                              *)

(* Before there is a session nothing is published and no menu runs; a request *)
(* that waits for the API is the only one and finds that state.               *)
LifeInv ==
  /\ s.st = "none" => ~s.live /\ s.neg = "no" /\ out = <<>> /\ ivr.at = "off"
  /\ log.status = "none" => s.st = "none" /\ \A k \in conns : k.at # "api"
  /\ \A k \in conns : k.at = "api" => s.st = "none" /\ s.dir = "out"
  /\ \A k, j \in conns : k.at = "api" /\ j.at = "api" => k = j
  /\ OneOutcome

(* A bridge that was started for an agent still has one, and the caller's     *)
(* track if there is one: it is the session's, or in the hands of a start.    *)
AudioInv ==
  s.bridge /\ s.with # None /\ ~Starting => s.pc # None /\ (s.track => s.att)

(* The stages of an accept that has taken the row. *)
Holding == {"claimed", "setup", "await", "track", "snap", "bridged", "write"}
Holds(k, x) == k.at \in Holding /\ k.x = x

(* One accept at a time holds a row; while it does the row is not on offer;   *)
(* and after the write that records the agent nobody holds it or offers it.   *)
ClaimsInv ==
  /\ \A k \in conns : (k.at \in {"read", "claimed", "setup", "await", "track", "write"} => k.x # 0)
                      /\ (k.at \in {"read", "claimed", "setup"} => k.agent # None)
                      /\ (k.at \in Holding \cup {"read"} => k.x \in 0..Len(xfer))
  /\ \A x \in DOMAIN xfer : \A k, j \in conns : Holds(k, x) /\ Holds(j, x) => k = j
  /\ \A x \in DOMAIN xfer : \A k \in conns : Holds(k, x) => xfer[x].status # "waiting"
  /\ \A x \in DOMAIN xfer : xfer[x].connectedAt =>
       xfer[x].status # "waiting" /\ \A k \in conns : ~Holds(k, x)

CallsIInv == TypeOK /\ LifeInv /\ AwaitIsAnswered /\ AudioInv /\ ClaimsInv

-----------------------------------------------------------------------------
(* What the manager does to a session                                         *)

LEMMA Bounds == MaxXfers \in Nat /\ MaxOps \in Nat /\ 0 \in 0..MaxXfers /\ Xfers \subseteq 0..MaxXfers
BY CallsAssumption DEF Xfers

LEMMA IdleWatch == Idle \in Watch /\ Over \in Watch
<1>1. Idle \in Watch
  BY DEF Idle, Watch
<1>2. Over \in Watch
  BY <1>1 DEF Over, Watch
<1> QED  BY <1>1, <1>2

LEMMA NewIsSession ==
  ASSUME NEW dir \in {"in", "out"}, NEW sticky \in BOOLEAN, NEW flow \in BOOLEAN
  PROVE  NewSession(dir, sticky, flow) \in Session
<1>1. [x \in Xfers |-> Idle] \in [Xfers -> Watch]
  BY IdleWatch
<1> QED  BY <1>1, Bounds DEF NewSession, Session

(* The watchers change, nothing else of the session does. *)
LEMMA WatchSet ==
  ASSUME NEW q \in Session, NEW w \in [Xfers -> Watch]
  PROVE  [q EXCEPT !.watch = w] \in Session
BY DEF Session

(* What a step that does not begin a session keeps of it.                     *)
Carries(q, r) ==
  /\ (q.st = "none") = (r.st = "none")
  /\ r.dir = q.dir /\ (r.live => q.live) /\ (q.st = "none" => r.neg = q.neg)
  /\ q.done \/ q.chan # "empty" => r.done \/ r.chan # "empty"

(* ... and of its audio: a bridge is not raised, and one that stands keeps    *)
(* its agent and its caller.                                                  *)
Quiet(q, r) ==
  r.bridge => /\ q.bridge /\ r.with = q.with /\ r.track = q.track
              /\ (q.att => r.att) /\ (q.pc # None => r.pc # None)

LEMMA CancelledSame ==
  ASSUME NEW q \in Session
  PROVE  /\ Cancelled(q) \in Session
         /\ \E w \in [Xfers -> Watch] : Cancelled(q) = [q EXCEPT !.watch = w]
<1>1. q.watch \in [Xfers -> Watch] /\ q.cancel \in 0..MaxXfers
  BY DEF Session
<1>2. CASE q.cancel = 0 \/ q.watch[q.cancel].ctx # "live" \/ q.watch[q.cancel].at = "done"
  <2>1. Cancelled(q) = q /\ q = [q EXCEPT !.watch = q.watch]
    BY <1>2 DEF Cancelled, Session
  <2> QED  BY <1>1, <2>1
<1>3. CASE ~(q.cancel = 0 \/ q.watch[q.cancel].ctx # "live" \/ q.watch[q.cancel].at = "done")
  <2> DEFINE v == [q.watch[q.cancel] EXCEPT !.ctx = "cancelled"]
             w == [q.watch EXCEPT ![q.cancel] = v]
  <2>1. q.watch[q.cancel] \in Watch
    BY <1>1, <1>3, Bounds DEF Xfers
  <2>2. v \in Watch
    BY <2>1 DEF Watch
  <2>3. w \in [Xfers -> Watch]
    BY <1>1, <2>2
  <2>4. Cancelled(q) = [q EXCEPT !.watch = w]
    BY <1>3 DEF Cancelled
  <2> HIDE DEF w
  <2> QED  BY <2>3, <2>4, WatchSet
<1> QED  BY <1>2, <1>3

LEMMA AcceptedSame ==
  ASSUME NEW q \in Session
  PROVE  /\ Accepted(q) \in Session
         /\ \E w \in [Xfers -> Watch] : Accepted(q) = [q EXCEPT !.watch = w]
<1>1. q.watch \in [Xfers -> Watch] /\ q.acc \in 0..MaxXfers
  BY DEF Session
<1>2. CASE q.acc = 0 \/ q.watch[q.acc].at = "done"
  <2>1. Accepted(q) = q /\ q = [q EXCEPT !.watch = q.watch]
    BY <1>2 DEF Accepted, Session
  <2> QED  BY <1>1, <2>1
<1>3. CASE ~(q.acc = 0 \/ q.watch[q.acc].at = "done")
  <2> DEFINE v == [q.watch[q.acc] EXCEPT !.accepted = TRUE]
             w == [q.watch EXCEPT ![q.acc] = v]
  <2>1. q.watch[q.acc] \in Watch
    BY <1>1, <1>3, Bounds DEF Xfers
  <2>2. v \in Watch
    BY <2>1 DEF Watch
  <2>3. w \in [Xfers -> Watch]
    BY <1>1, <2>2
  <2>4. Accepted(q) = [q EXCEPT !.watch = w]
    BY <1>3 DEF Accepted
  <2> HIDE DEF w
  <2> QED  BY <2>3, <2>4, WatchSet
<1> QED  BY <1>2, <1>3

(* cleanupSession: the session leaves the map with its resources, unless a    *)
(* transfer waits. *)
LEMMA CleanedSame ==
  ASSUME NEW q \in Session
  PROVE  /\ Cleaned(q) \in Session /\ Carries(q, Cleaned(q)) /\ Quiet(q, Cleaned(q))
         /\ Cleanable(q) => ~Cleaned(q).live
<1>1. CASE ~q.live
  BY <1>1 DEF Cleaned, Cleanable, Carries, Quiet
<1>2. CASE q.live /\ q.ts = "waiting"
  <2>1. Cleaned(q) = [q EXCEPT !.skipped = TRUE]
    BY <1>2 DEF Cleaned
  <2>2. [q EXCEPT !.skipped = TRUE] \in Session
    BY DEF Session
  <2>3. Carries(q, Cleaned(q)) /\ Quiet(q, Cleaned(q))
    BY <2>1 DEF Carries, Quiet, Session
  <2> QED  BY <1>2, <2>1, <2>2, <2>3 DEF Cleanable
<1>3. CASE q.live /\ q.ts # "waiting"
  <2>1. PICK w \in [Xfers -> Watch] : Cancelled(q) = [q EXCEPT !.watch = w]
    BY CancelledSame
  <2> DEFINE c == IF q.done THEN "closed" ELSE q.chan
             r == [q EXCEPT !.watch = w, !.live = FALSE, !.bridge = FALSE, !.hold = FALSE, !.pc = None,
                            !.cancel = 0, !.done = FALSE, !.track = FALSE, !.att = FALSE, !.with = None,
                            !.chan = c]
  <2>2. Cleaned(q) = r
    BY <1>3, <2>1 DEF Cleaned, Session
  <2>3. c \in {"empty", "completed", "no_answer", "closed"} /\ (q.done \/ q.chan # "empty" => c # "empty")
    BY DEF Session
  <2> HIDE DEF c
  <2>4. r \in Session
    BY <2>3, Bounds DEF Session
  <2>5. Carries(q, r) /\ ~r.live /\ ~r.bridge
    BY <2>3 DEF Carries, Session
  <2> QED  BY <2>2, <2>4, <2>5 DEF Quiet
<1> QED  BY <1>1, <1>2, <1>3

LEMMA CarriesOn ==
  ASSUME NEW p, NEW q, NEW r, Carries(p, q), Carries(q, r)
  PROVE  Carries(p, r)
BY DEF Carries

LEMMA QuietOn ==
  ASSUME NEW p, NEW q, NEW r, Quiet(p, q), Quiet(q, r)
  PROVE  Quiet(p, r)
BY DEF Quiet

-----------------------------------------------------------------------------
(* What every step has to show                                                *)

XferRow == [status: {"waiting", "connected", "completed", "no_answer"}, team: BOOLEAN, connectedAt: BOOLEAN]
LogRow == [status: {"none", "initiating", "ringing", "answered", "transferring",
                    "completed", "missed", "rejected", "failed"}, agent: BOOLEAN, answered: BOOLEAN]
Menu == [at: {"off", "run", "await", "done"}, node: Nodes]
Work == [agent: Agents \cup {None}, x: 0..MaxXfers, at: Stages, flag: BOOLEAN]
Event == {"call.completed", "call.missed"}

(* Nothing is published, or the outcome by the step that removes the session. *)
Publishes ==
  /\ out' \in Seq(Event)
  /\ out' = out \/ (s.live /\ ~s'.live /\ Len(out') =< 1)

(* The session, its outcome, its menu and the requests for one go on. *)
LifeGoesOn ==
  /\ s' \in Session /\ Carries(s, s') /\ Publishes
  /\ log' \in LogRow /\ (log'.status = "none" => log.status = "none")
  /\ ivr' \in Menu /\ (ivr'.at = "off" \/ ivr.at # "off" \/ s.st # "none")
  /\ conns' \subseteq Work /\ \A k \in conns' : k.at = "api" => k \in conns

(* The people and the counters. *)
AroundIt ==
  /\ caller' \in {"none", "on", "gone"} /\ due' \subseteq {"ended", "media"} /\ ops' \in 0..MaxOps

LEMMA LifeStep ==
  ASSUME CallsIInv, LifeGoesOn
  PROVE  LifeInv'
<1>1. /\ s.st = "none" => ~s.live /\ s.neg = "no" /\ out = <<>> /\ ivr.at = "off"
      /\ log.status = "none" => s.st = "none" /\ \A k \in conns : k.at # "api"
      /\ \A k \in conns : k.at = "api" => s.st = "none" /\ s.dir = "out"
      /\ \A k, j \in conns : k.at = "api" /\ j.at = "api" => k = j
      /\ Len(out) =< 1 /\ (out # <<>> => ~s.live)
  BY DEF CallsIInv, LifeInv, OneOutcome
<1>2. /\ (s.st = "none") = (s'.st = "none") /\ s'.dir = s.dir /\ (s'.live => s.live)
      /\ (s.st = "none" => s'.neg = s.neg)
  BY DEF LifeGoesOn, Carries
<1>3. out' = out \/ (s.live /\ ~s'.live /\ Len(out') =< 1)
  BY DEF LifeGoesOn, Publishes
<1>4. OneOutcome'
  BY <1>1, <1>2, <1>3 DEF OneOutcome
<1>5. s'.st = "none" => ~s'.live /\ s'.neg = "no" /\ out' = <<>> /\ ivr'.at = "off"
  BY <1>1, <1>2, <1>3 DEF LifeGoesOn
<1>6. /\ log'.status = "none" => s'.st = "none" /\ \A k \in conns' : k.at # "api"
      /\ \A k \in conns' : k.at = "api" => s'.st = "none" /\ s'.dir = "out"
      /\ \A k, j \in conns' : k.at = "api" /\ j.at = "api" => k = j
  BY <1>1, <1>2 DEF LifeGoesOn
<1> QED  BY <1>4, <1>5, <1>6 DEF LifeInv

LEMMA Step ==
  ASSUME CallsIInv, LifeGoesOn, AroundIt,
         xfer' \in Seq(XferRow), Len(xfer') =< MaxXfers,
         AwaitIsAnswered', AudioInv', ClaimsInv'
  PROVE  CallsIInv'
<1>1. out' \in Seq(Event)
  BY DEF LifeGoesOn, Publishes
<1>2. TypeOK'
  BY <1>1 DEF TypeOK, LifeGoesOn, AroundIt, XferRow, LogRow, Menu, Work, Event
<1> QED  BY <1>2, LifeStep DEF CallsIInv

LEMMA AudioStep ==
  ASSUME CallsIInv, Quiet(s, s'), Starting => Starting'
  PROVE  AudioInv'
BY DEF CallsIInv, AudioInv, Quiet

LEMMA AwaitStep ==
  ASSUME CallsIInv, Carries(s, s'), ivr'.at = "await" => ivr.at = "await"
  PROVE  AwaitIsAnswered'
BY DEF CallsIInv, AwaitIsAnswered, Carries

(* A request that comes into being without taking a row. *)
Takes0(k) == \/ k.at \in {"init", "end", "noans", "ring", "api"}
             \/ k.at \in {"snap", "bridged"} /\ k.x = 0
             \/ k.at = "read" /\ k.x \in DOMAIN xfer /\ k.agent # None

LEMMA ClaimsFrame ==
  ASSUME CallsIInv, xfer' = xfer, \A k \in conns' : k \in conns \/ Takes0(k)
  PROVE  ClaimsInv'
<1>1. xfer \in Seq(XferRow)
  BY DEF CallsIInv, TypeOK, XferRow
<1>2. Len(xfer) \in Nat /\ DOMAIN xfer = 1..Len(xfer)
  BY <1>1
<1>3. \A k \in conns' : \A x \in DOMAIN xfer : Holds(k, x) => k \in conns
  BY <1>2 DEF Takes0, Holds, Holding
<1>4. \A k \in conns' : (k.at \in {"read", "claimed", "setup", "await", "track", "write"} => k.x # 0)
                      /\ (k.at \in {"read", "claimed", "setup"} => k.agent # None)
                      /\ (k.at \in Holding \cup {"read"} => k.x \in 0..Len(xfer))
  BY <1>2 DEF Takes0, Holding, CallsIInv, ClaimsInv
<1> QED  BY <1>3, <1>4 DEF ClaimsInv, CallsIInv

(* An accept goes on to its next stage. *)
LEMMA ClaimsMove ==
  ASSUME CallsIInv, xfer' = xfer, NEW k \in conns, k.at \in Holding,
         NEW j, j.at \in Holding, j.x = k.x, j.x # 0 \/ j.at \in {"snap", "bridged"},
         j.at \in {"claimed", "setup"} => j.agent # None,
         \A i \in conns' : i \in conns \ {k} \/ i = j
  PROVE  ClaimsInv'
<1>1. /\ \A i \in conns : (i.at \in {"read", "claimed", "setup", "await", "track", "write"} => i.x # 0)
                          /\ (i.at \in {"read", "claimed", "setup"} => i.agent # None)
                          /\ (i.at \in Holding \cup {"read"} => i.x \in 0..Len(xfer))
      /\ \A x \in DOMAIN xfer : \A i, l \in conns : Holds(i, x) /\ Holds(l, x) => i = l
      /\ \A x \in DOMAIN xfer : \A i \in conns : Holds(i, x) => xfer[x].status # "waiting"
      /\ \A x \in DOMAIN xfer : xfer[x].connectedAt =>
           xfer[x].status # "waiting" /\ \A i \in conns : ~Holds(i, x)
  BY DEF CallsIInv, ClaimsInv
<1>2. \A x \in DOMAIN xfer : Holds(j, x) => Holds(k, x)
  BY DEF Holds
<1>3. \A i \in conns' : (i.at \in {"read", "claimed", "setup", "await", "track", "write"} => i.x # 0)
                      /\ (i.at \in {"read", "claimed", "setup"} => i.agent # None)
                      /\ (i.at \in Holding \cup {"read"} => i.x \in 0..Len(xfer'))
  BY <1>1 DEF Holding
<1>4. \A x \in DOMAIN xfer' : \A i, l \in conns' : Holds(i, x) /\ Holds(l, x) => i = l
  BY <1>1, <1>2
<1>5. \A x \in DOMAIN xfer' : \A i \in conns' : Holds(i, x) => xfer'[x].status # "waiting"
  BY <1>1, <1>2
<1>6. \A x \in DOMAIN xfer' : xfer'[x].connectedAt =>
        xfer'[x].status # "waiting" /\ \A i \in conns' : ~Holds(i, x)
  BY <1>1, <1>2
<1> QED  BY <1>3, <1>4, <1>5, <1>6 DEF ClaimsInv

-----------------------------------------------------------------------------
(* The parts of a step                                                        *)

SessionGoesOn == s' \in Session /\ Carries(s, s') /\ Quiet(s, s')
LogGoesOn == log' \in LogRow /\ (log'.status = "none" => log.status = "none")
MenuGoesOn == /\ ivr' \in Menu /\ (ivr'.at = "off" \/ ivr.at # "off" \/ s.st # "none")
              /\ (ivr'.at = "await" => ivr.at = "await")
WorkGoesOn == /\ conns' \subseteq Work /\ (\A k \in conns' : k.at = "api" => k \in conns)
              /\ (Starting => Starting')

LEMMA Typed ==
  ASSUME CallsIInv
  PROVE  /\ s \in Session /\ xfer \in Seq(XferRow) /\ Len(xfer) =< MaxXfers /\ log \in LogRow /\ ivr \in Menu
         /\ conns \subseteq Work /\ caller \in {"none", "on", "gone"} /\ due \subseteq {"ended", "media"}
         /\ out \in Seq(Event) /\ ops \in 0..MaxOps
BY DEF CallsIInv, TypeOK, XferRow, LogRow, Menu, Work, Event

LEMMA General ==
  ASSUME CallsIInv, SessionGoesOn, Publishes, LogGoesOn, MenuGoesOn, WorkGoesOn, AroundIt,
         xfer' \in Seq(XferRow), Len(xfer') =< MaxXfers, ClaimsInv'
  PROVE  CallsIInv'
<1>1. LifeGoesOn
  BY DEF SessionGoesOn, LogGoesOn, MenuGoesOn, WorkGoesOn, LifeGoesOn
<1>2. AwaitIsAnswered'
  BY AwaitStep DEF SessionGoesOn, MenuGoesOn
<1>3. AudioInv'
  BY AudioStep DEF SessionGoesOn, WorkGoesOn
<1> QED  BY <1>1, <1>2, <1>3, Step

(* A step that leaves the transfer rows alone. *)
LEMMA Usual ==
  ASSUME CallsIInv, SessionGoesOn, Publishes, LogGoesOn, MenuGoesOn, WorkGoesOn, AroundIt,
         UNCHANGED xfer, \A k \in conns' : k \in conns \/ Takes0(k)
  PROVE  CallsIInv'
<1>1. ClaimsInv'
  BY ClaimsFrame
<1>2. xfer' \in Seq(XferRow) /\ Len(xfer') =< MaxXfers
  BY Typed
<1> QED  BY <1>1, <1>2, General

LEMMA Stays ==
  ASSUME CallsIInv
  PROVE  /\ UNCHANGED s => SessionGoesOn
         /\ UNCHANGED log => LogGoesOn
         /\ UNCHANGED ivr => MenuGoesOn
         /\ UNCHANGED conns => WorkGoesOn
         /\ UNCHANGED out => Publishes
<1> USE Typed
<1>1. UNCHANGED s => SessionGoesOn
  BY DEF SessionGoesOn, Carries, Quiet
<1>2. UNCHANGED log => LogGoesOn
  BY DEF LogGoesOn
<1>3. UNCHANGED ivr => MenuGoesOn
  BY DEF MenuGoesOn
<1>4. UNCHANGED conns => WorkGoesOn
  BY DEF WorkGoesOn, Starting
<1>5. UNCHANGED out => Publishes
  BY DEF Publishes
<1> QED  BY <1>1, <1>2, <1>3, <1>4, <1>5

LEMMA Around ==
  ASSUME CallsIInv,
         Terminate \/ (caller' \in {"none", "on", "gone"} /\ due' \subseteq {"ended", "media"}),
         Request \/ LateWebhook \/ UNCHANGED ops
  PROVE  AroundIt
<1>1. caller' \in {"none", "on", "gone"} /\ due' \subseteq {"ended", "media"}
  BY Typed DEF Terminate
<1>2. ops' \in 0..MaxOps
  BY Typed, Bounds DEF Request, LateWebhook
<1> QED  BY <1>1, <1>2 DEF AroundIt

(* The log gets a status that is not that of no row. *)
LEMMA LogSet ==
  ASSUME CallsIInv, NEW v \in {"initiating", "ringing", "answered", "transferring",
                    "completed", "missed", "rejected", "failed"}
  PROVE  /\ [log EXCEPT !.status = v] \in LogRow /\ [log EXCEPT !.status = v].status = v
         /\ log' = [log EXCEPT !.status = v] => LogGoesOn
BY Typed DEF LogRow, LogGoesOn

(* A handler that ends, and one that begins without taking a row. *)
LEMMA WorkEnds ==
  ASSUME CallsIInv, NEW k \in conns, k.at # "bridged", Ends(k)
  PROVE  WorkGoesOn /\ \A j \in conns' : j \in conns \/ Takes0(j)
BY Typed DEF WorkGoesOn, Starting, Ends

LEMMA WorkBegins ==
  ASSUME CallsIInv, NEW j \in Work, Takes0(j), j.at # "api", conns' = conns \cup {j}
  PROVE  WorkGoesOn /\ \A i \in conns' : i \in conns \/ Takes0(i)
BY Typed DEF WorkGoesOn, Starting

(* The cleanup is one step for the session and its outcome. *)
LEMMA CleanupStep ==
  ASSUME CallsIInv, NEW q \in Session, Carries(s, q), Quiet(s, q), NEW l, Cleanup(q, l)
  PROVE  SessionGoesOn /\ Publishes
<1>1. s' = Cleaned(q) /\ out' = out \o PublishCallOutcome(q, l)
  BY DEF Cleanup
<1>2. SessionGoesOn
  BY <1>1, CleanedSame, CarriesOn, QuietOn DEF SessionGoesOn
<1>3. CASE ~Cleanable(q)
  <2>1. out' = out \o << >>
    BY <1>1, <1>3 DEF PublishCallOutcome
  <2>2. out' = out
    BY <2>1, Typed, ConcatEmptySeq
  <2> QED  BY <1>2, <2>2, Stays
<1>4. CASE Cleanable(q)
  <2>1. s.live /\ ~s'.live
    BY <1>1, <1>4, CleanedSame DEF Cleanable, Carries
  <2>2. out = << >>
    BY <2>1 DEF CallsIInv, LifeInv, OneOutcome
  <2>3. CallEventType(l) \in {<<"call.completed">>, <<"call.missed">>, << >>}
    BY DEF CallEventType
  <2>4. out' = out \o CallEventType(l)
    BY <1>1, <1>4 DEF PublishCallOutcome
  <2>5. CallEventType(l) \in Seq(Event) /\ Len(CallEventType(l)) =< 1
    <3>1. << >> \in Seq(Event) /\ <<"call.completed">> \in Seq(Event) /\ <<"call.missed">> \in Seq(Event)
      BY DEF Event
    <3>2. Len(<<"call.completed">>) =< 1 /\ Len(<<"call.missed">>) =< 1 /\ Len(<< >>) =< 1
      OBVIOUS
    <3> QED  BY <2>3, <3>1, <3>2, Zenon
  <2>6. out' = CallEventType(l)
    BY <2>2, <2>4, <2>5, ConcatEmptySeq
  <2> QED  BY <1>2, <2>1, <2>5, <2>6 DEF Publishes
<1> QED  BY <1>3, <1>4

LEMMA SessionSelf == ASSUME NEW q PROVE Carries(q, q) /\ Quiet(q, q)
BY DEF Carries, Quiet

(* A session there is was begun, so it may change its state. *)
LEMMA Begun ==
  ASSUME CallsIInv, s.live \/ s.neg # "no"
  PROVE  s.st # "none"
BY DEF CallsIInv, LifeInv

LEMMA SignalOrCleanupStep ==
  ASSUME CallsIInv, NEW v \in {"completed", "no_answer"}, NEW l, SignalOrCleanup(s, v, l)
  PROVE  SessionGoesOn /\ Publishes
<1>1. CASE s.done
  <2>1. s' = [s EXCEPT !.done = FALSE, !.chan = v] /\ out' = out
    BY <1>1 DEF SignalOrCleanup
  <2>2. SessionGoesOn
    BY <2>1, Typed DEF SessionGoesOn, Session, Carries, Quiet
  <2> QED  BY <2>1, <2>2, Stays
<1>2. CASE ~s.done
  <2>1. Cleanup(s, l)
    BY <1>2 DEF SignalOrCleanup
  <2> QED  BY <2>1, Typed, SessionSelf, CleanupStep
<1> QED  BY <1>1, <1>2

-----------------------------------------------------------------------------
(* An incoming call                                                           *)

LEMMA StepWebhookRinging ==
  ASSUME CallsIInv, WebhookRinging
  PROVE  CallsIInv'
<1>1. LogGoesOn
  BY LogSet, Stays DEF WebhookRinging, GetOrCreateCallLog
<1>2. AroundIt
  BY Around, Typed DEF WebhookRinging
<1> QED  BY <1>1, <1>2, Usual, Stays DEF WebhookRinging

(* The log of a call that is answered. *)
LEMMA LogAnswered ==
  ASSUME CallsIInv, NEW l \in LogRow, log' = [l EXCEPT !.status = "answered", !.answered = TRUE]
  PROVE  LogGoesOn /\ log'.status = "answered"
BY DEF LogGoesOn, LogRow

(* A session that begins: nothing of an earlier one is left to disturb it. *)
LEMMA NewSessionStep ==
  ASSUME CallsIInv, s.st = "none", s' \in Session, ~s'.bridge,
         s'.st = "none" => ~s'.live /\ s'.neg = "no",
         log' \in LogRow, log'.status # "none", UNCHANGED <<xfer, ivr, out>>, AroundIt,
         conns' \subseteq Work, \A k \in conns' : k \in conns \/ Takes0(k),
         \A k \in conns' : k.at = "api" => s'.st = "none" /\ s'.dir = "out",
         \A k, j \in conns' : k.at = "api" /\ j.at = "api" => k = j
  PROVE  CallsIInv'
<1>1. out = << >> /\ ivr.at = "off"
  BY DEF CallsIInv, LifeInv
<1>2. LifeInv'
  BY <1>1, Typed DEF LifeInv, OneOutcome
<1>3. AudioInv' /\ AwaitIsAnswered'
  BY <1>1 DEF AudioInv, AwaitIsAnswered
<1>4. ClaimsInv'
  BY ClaimsFrame
<1>5. TypeOK'
  BY Typed DEF TypeOK, AroundIt, XferRow, LogRow, Menu, Work, Event
<1> QED  BY <1>2, <1>3, <1>4, <1>5 DEF CallsIInv

LEMMA NoSessionState ==
  NoSession \in Session /\ NoSession.st = "none" /\ ~NoSession.live /\ NoSession.dir = "in"
    /\ NoSession.neg = "no" /\ ~NoSession.bridge
<1>1. NewSession("in", FALSE, FALSE) \in Session
  BY NewIsSession
<1>2. NewSession("in", FALSE, FALSE).dir = "in" /\ NewSession("in", FALSE, FALSE).neg = "no"
        /\ ~NewSession("in", FALSE, FALSE).bridge
  BY DEF NewSession
<1> HIDE DEF NewSession
<1> QED  BY <1>1, <1>2 DEF NoSession, Session

LEMMA HandleCallEventStep ==
  ASSUME CallsIInv, s.live, HandleCallEvent
  PROVE  SessionGoesOn
BY Typed, Begun DEF HandleCallEvent, SessionGoesOn, Session, Carries, Quiet

LEMMA StepWebhookConnect ==
  ASSUME CallsIInv, WebhookConnect
  PROVE  CallsIInv'
<1>1. GetOrCreateCallLog \in LogRow
  BY Typed, LogSet DEF GetOrCreateCallLog
<1>2. LogGoesOn /\ log'.status = "answered"
  BY <1>1, LogAnswered DEF WebhookConnect
<1>3. CASE s = NoSession
  <2>1. PICK sticky \in BOOLEAN, flow \in BOOLEAN : HandleIncomingCall(sticky, flow)
    BY <1>3 DEF WebhookConnect, ResolveStickyAgent
  <2> DEFINE n == NewSession("in", sticky, flow /\ ~sticky)
  <2>2. n \in Session /\ n.st = "ringing" /\ ~n.bridge
    <3>1. n \in Session
      BY NewIsSession
    <3> QED  BY <3>1 DEF NewSession
  <2>3. s' = [n EXCEPT !.neg = "pending"]
    BY <2>1 DEF HandleIncomingCall
  <2> HIDE DEF n
  <2>4. s' \in Session /\ s'.st = "ringing" /\ ~s'.bridge
    BY <2>2, <2>3 DEF Session
  <2>5. s.st = "none" /\ \A k \in conns : k.at # "api"
    BY <1>3, NoSessionState DEF CallsIInv, LifeInv
  <2>6. AroundIt
    BY <1>3, Around, Typed DEF WebhookConnect
  <2>7. UNCHANGED <<xfer, ivr, conns, out>>
    BY DEF WebhookConnect
  <2> QED  BY <1>2, <2>4, <2>5, <2>6, <2>7, NewSessionStep, Typed DEF LogGoesOn
<1>4. CASE s # NoSession
  <2>1. s.live /\ LateWebhook /\ HandleCallEvent
    BY <1>4 DEF WebhookConnect
  <2>2. AroundIt
    BY <2>1, Around, Typed DEF WebhookConnect
  <2> QED  BY <1>2, <2>1, <2>2, HandleCallEventStep, Usual, Stays DEF WebhookConnect
<1> QED  BY <1>3, <1>4

LEMMA StepWebhookInCall ==
  ASSUME CallsIInv, WebhookInCall
  PROVE  CallsIInv'
<1>1. LogGoesOn
  BY LogAnswered, Typed DEF WebhookInCall
<1>2. AroundIt
  BY Around, Typed DEF WebhookInCall
<1>3. SessionGoesOn
  BY HandleCallEventStep, Stays DEF WebhookInCall
<1> QED  BY <1>1, <1>2, <1>3, Usual, Stays DEF WebhookInCall

LEMMA StepNegotiateFails ==
  ASSUME CallsIInv, NegotiateFails
  PROVE  CallsIInv'
<1>1. SessionGoesOn
  BY Typed, Begun DEF NegotiateFails, SessionGoesOn, Session, Carries, Quiet
<1>2. AroundIt
  BY Around DEF NegotiateFails
<1> QED  BY <1>1, <1>2, Usual, Stays DEF NegotiateFails

LEMMA StepNegotiateWebRTC ==
  ASSUME CallsIInv, NegotiateWebRTC
  PROVE  CallsIInv'
<1>1. SessionGoesOn
  BY Typed, Begun DEF NegotiateWebRTC, SessionGoesOn, Session, Carries, Quiet
<1>2. AroundIt
  BY Around, Typed DEF NegotiateWebRTC
<1>3. MenuGoesOn
  <2>1. [at |-> "run", node |-> Entry] \in Menu
    BY CallsAssumption DEF Menu
  <2> QED  BY <2>1, Begun, Stays DEF NegotiateWebRTC, MenuGoesOn
<1>4. WorkGoesOn /\ \A k \in conns' : k \in conns \/ Takes0(k)
  <2>1. CASE s.sticky
    <3> DEFINE j == Job(None, 0, "ring", FALSE)
    <3>1. j \in Work /\ j.at = "ring"
      BY Bounds DEF Job, Work, Stages
    <3>2. conns' = conns \cup {j}
      BY <2>1 DEF NegotiateWebRTC
    <3> HIDE DEF j
    <3> QED  BY <3>1, <3>2, WorkBegins DEF Takes0
  <2>2. CASE ~s.sticky
    BY <2>2, Stays DEF NegotiateWebRTC
  <2> QED  BY <2>1, <2>2
<1> QED  BY <1>1, <1>2, <1>3, <1>4, Usual, Stays DEF NegotiateWebRTC

(* The caller's track arrives: it is the one step that changes what a running *)
(* bridge has to forward. *)
LEMMA StepOnTrack ==
  ASSUME CallsIInv, OnTrack
  PROVE  CallsIInv'
<1> DEFINE a == s.att \/ (s.pc # None /\ (s.bridge \/ s.dir = "out"))
           b == s.bridge \/ (s.pc # None /\ s.dir = "out")
           w == IF s.pc # None /\ s.dir = "out" THEN s.pc ELSE s.with
<1>1. s' = [s EXCEPT !.track = TRUE, !.att = a, !.bridge = b, !.with = w]
  BY DEF OnTrack
<1>2. a \in BOOLEAN /\ b \in BOOLEAN /\ w \in Agents \cup {None}
  BY Typed DEF Session
<1>3. s.bridge /\ s.with # None /\ ~Starting => s.pc # None
  BY DEF CallsIInv, AudioInv
<1>4. b /\ w # None /\ ~Starting => s.pc # None /\ a
  BY <1>3, Typed DEF Session
<1> HIDE DEF a, b, w
<1>5. s' \in Session /\ Carries(s, s')
  BY <1>1, <1>2, Typed DEF Session, Carries
<1>6. s'.bridge = b /\ s'.with = w /\ s'.att = a /\ s'.pc = s.pc
  BY <1>1, Typed DEF Session
<1>7. AudioInv'
  BY <1>4, <1>6 DEF AudioInv, Starting, OnTrack
<1>8. AroundIt
  BY Around, Typed DEF OnTrack
<1>9. UNCHANGED <<xfer, log, ivr, conns, out>>
  BY DEF OnTrack
<1>10. LifeGoesOn
  BY <1>5, <1>9, Stays DEF LifeGoesOn, LogGoesOn, MenuGoesOn, WorkGoesOn
<1>11. ClaimsInv' /\ AwaitIsAnswered'
  BY <1>5, <1>9, ClaimsFrame, AwaitStep
<1> QED  BY <1>7, <1>8, <1>9, <1>10, <1>11, Step, Typed

-----------------------------------------------------------------------------
(* The end of a call, and an outgoing one                                     *)

LEMMA StepCallerHangsUp ==
  ASSUME CallsIInv, CallerHangsUp
  PROVE  CallsIInv'
<1>1. AroundIt
  BY Around, Typed DEF CallerHangsUp
<1> QED  BY <1>1, Usual, Stays DEF CallerHangsUp

(* The cleanup of the session as it is. *)
LEMMA CleanupNow ==
  ASSUME CallsIInv, NEW l, Cleanup(s, l)
  PROVE  SessionGoesOn /\ Publishes
BY CleanupStep, SessionSelf, Typed

LEMMA StepWebhookEnded ==
  ASSUME CallsIInv, WebhookEnded
  PROVE  CallsIInv'
<1> DEFINE ended == [log EXCEPT !.status = FinalStatus(log)]
<1>1. PICK err \in BOOLEAN : Cleanup(s, ended) /\ log' = WithError(ended, err)
  BY DEF WebhookEnded
<1>2. ended \in LogRow /\ ended.status # "none"
  BY LogSet DEF FinalStatus
<1> HIDE DEF ended
<1>3. LogGoesOn
  BY <1>1, <1>2 DEF WithError, LogGoesOn, LogRow
<1>4. AroundIt
  BY Around, Typed DEF WebhookEnded
<1> QED  BY <1>1, <1>3, <1>4, CleanupNow, Usual, Stays DEF WebhookEnded

LEMMA StepWebhookMissed ==
  ASSUME CallsIInv, WebhookMissed
  PROVE  CallsIInv'
<1>1. LogGoesOn
  BY LogSet DEF WebhookMissed
<1>2. AroundIt
  BY Around, Typed DEF WebhookMissed
<1> QED  BY <1>1, <1>2, Usual, Stays DEF WebhookMissed

LEMMA StepMediaLost ==
  ASSUME CallsIInv, MediaLost
  PROVE  CallsIInv'
<1>1. SessionGoesOn /\ Publishes
  BY CleanupNow, Stays DEF MediaLost
<1>2. AroundIt
  BY Around, Typed DEF MediaLost
<1> QED  BY <1>1, <1>2, Usual, Stays DEF MediaLost

LEMMA StepInitiateOutgoingCall ==
  ASSUME CallsIInv, NEW a \in Agents, InitiateOutgoingCall(a)
  PROVE  CallsIInv'
<1> DEFINE j == Job(a, 0, "api", FALSE)
<1>1. s.st = "none" /\ \A k \in conns : k.at # "api"
  BY DEF InitiateOutgoingCall, CallsIInv, LifeInv
<1>2. s' \in Session /\ s'.st = "none" /\ s'.dir = "out" /\ ~s'.live /\ s'.neg = "no" /\ ~s'.bridge
  BY NoSessionState DEF InitiateOutgoingCall, Session
<1>3. log' \in LogRow /\ log'.status # "none"
  BY Typed DEF InitiateOutgoingCall, LogRow
<1>4. j \in Work /\ j.at = "api"
  BY Bounds DEF Job, Work, Stages
<1>5. conns' = conns \cup {j} /\ UNCHANGED <<xfer, ivr, out>>
  BY DEF InitiateOutgoingCall
<1>6. AroundIt
  BY Around, Typed DEF InitiateOutgoingCall
<1> HIDE DEF j
<1>7. /\ conns' \subseteq Work /\ \A k \in conns' : k \in conns \/ Takes0(k)
      /\ \A k, i \in conns' : k.at = "api" /\ i.at = "api" => k = i
  BY <1>1, <1>4, <1>5, Typed DEF Takes0
<1> QED  BY <1>1, <1>2, <1>3, <1>5, <1>6, <1>7, NewSessionStep

LEMMA StepOutgoingRefused ==
  ASSUME CallsIInv, NEW k \in conns, OutgoingRefused(k)
  PROVE  CallsIInv'
<1>1. LogGoesOn
  BY LogSet DEF OutgoingRefused
<1>2. AroundIt
  BY Around, Typed DEF OutgoingRefused
<1> QED  BY <1>1, <1>2, WorkEnds, Usual, Stays DEF OutgoingRefused

LEMMA StepOutgoingStored ==
  ASSUME CallsIInv, NEW k \in conns, OutgoingStored(k)
  PROVE  CallsIInv'
<1> DEFINE n == NewSession("out", FALSE, FALSE)
<1>1. n \in Session /\ ~n.bridge
  <2>1. n \in Session
    BY NewIsSession
  <2> QED  BY <2>1 DEF NewSession
<1>2. s' = [n EXCEPT !.st = "initiating", !.neg = "pending", !.pc = k.agent]
  BY DEF OutgoingStored
<1>3. k.agent \in Agents \cup {None}
  BY Typed DEF Work
<1> HIDE DEF n
<1>4. s' \in Session /\ s'.st = "initiating" /\ ~s'.bridge
  BY <1>1, <1>2, <1>3 DEF Session
<1>5. s.st = "none" /\ log.status # "none" /\ \A j \in conns : j.at = "api" => j = k
  BY DEF OutgoingStored, CallsIInv, LifeInv
<1>6. conns' = conns \ {k} /\ UNCHANGED <<xfer, log, ivr, out>>
  BY DEF OutgoingStored, Ends
<1>7. AroundIt
  BY Around, Typed DEF OutgoingStored
<1> QED  BY <1>4, <1>5, <1>6, <1>7, NewSessionStep, Typed

LEMMA StepSDPTimeout ==
  ASSUME CallsIInv, SDPTimeout
  PROVE  CallsIInv'
<1> DEFINE q == [s EXCEPT !.neg = "no"]
<1>1. q \in Session /\ Carries(s, q) /\ Quiet(s, q)
  BY Typed, Begun DEF SDPTimeout, Session, Carries, Quiet
<1>2. Cleanup(q, log)
  BY DEF SDPTimeout
<1>3. AroundIt
  BY Around, Typed DEF SDPTimeout
<1> HIDE DEF q
<1> QED  BY <1>1, <1>2, <1>3, CleanupStep, Usual, Stays DEF SDPTimeout

LEMMA StepOutgoingProgress ==
  ASSUME CallsIInv, NEW event \in {"ringing", "accepted", "connect"}, NEW sdp \in BOOLEAN,
         OutgoingProgress(event, sdp)
  PROVE  CallsIInv'
<1> DEFINE st == IF event = "ringing" THEN "ringing" ELSE "answered"
           neg == IF sdp /\ s.neg = "pending" THEN "done" ELSE s.neg
<1>1. s' = [s EXCEPT !.st = st, !.neg = neg] /\ st \in {"ringing", "answered"} /\ neg \in {"no", "pending", "done"}
  BY Typed DEF OutgoingProgress, Session
<1> HIDE DEF st, neg
<1>2. SessionGoesOn
  <2>1. s.st # "none"
    BY Begun DEF OutgoingProgress
  <2> QED  BY <1>1, <2>1, Typed DEF SessionGoesOn, Session, Carries, Quiet
<1>3. LogGoesOn
  <2>1. CASE event = "ringing"
    BY <2>1, LogSet DEF OutgoingProgress
  <2>2. CASE event # "ringing"
    <3>1. log' = [log EXCEPT !.status = "answered", !.answered = TRUE]
      BY <2>2 DEF OutgoingProgress
    <3> QED  BY <3>1, LogAnswered, Typed
  <2> QED  BY <2>1, <2>2
<1>4. AroundIt
  BY Around, Typed DEF OutgoingProgress, Late
<1> QED  BY <1>2, <1>3, <1>4, Usual, Stays DEF OutgoingProgress

LEMMA StepOutgoingRejected ==
  ASSUME CallsIInv, OutgoingRejected
  PROVE  CallsIInv'
<1>1. SessionGoesOn /\ Publishes /\ LogGoesOn
  <2>1. CASE ~s.live
    BY <2>1, Stays DEF OutgoingRejected
  <2>2. CASE s.live
    <3> DEFINE l == [log EXCEPT !.status = "rejected"]
    <3>1. log' = l /\ Cleanup(s, l)
      BY <2>2 DEF OutgoingRejected
    <3>2. LogGoesOn
      BY <3>1, LogSet
    <3> HIDE DEF l
    <3> QED  BY <3>1, <3>2, CleanupNow
  <2> QED  BY <2>1, <2>2
<1>2. AroundIt
  BY Around, Typed DEF OutgoingRejected
<1> QED  BY <1>1, <1>2, Usual, Stays DEF OutgoingRejected

LEMMA StepOutgoingEnded ==
  ASSUME CallsIInv, OutgoingEnded
  PROVE  CallsIInv'
<1>1. AroundIt /\ UNCHANGED <<xfer, ivr, conns>>
  BY Around, Typed DEF OutgoingEnded
<1>2. CASE ~s.live
  <2>1. OrphanedEvent /\ UNCHANGED <<s, out>>
    BY <1>2 DEF OutgoingEnded
  <2>2. LogGoesOn
    BY <2>1, LogSet, Stays DEF OrphanedEvent
  <2> QED  BY <1>1, <2>1, <2>2, Usual, Stays
<1>3. CASE s.live /\ IVRActive
  <2>1. s' = [s EXCEPT !.st = "completed"] /\ UNCHANGED <<log, out>>
    BY <1>3 DEF OutgoingEnded
  <2>2. SessionGoesOn
    BY <1>3, <2>1, Typed, Begun DEF SessionGoesOn, Session, Carries, Quiet
  <2> QED  BY <1>1, <2>1, <2>2, Usual, Stays
<1>4. CASE s.live /\ ~IVRActive
  <2> DEFINE l == [log EXCEPT !.status = "completed"]
  <2>1. log' = l /\ Cleanup(s, l)
    BY <1>4 DEF OutgoingEnded
  <2>2. LogGoesOn
    BY <2>1, LogSet
  <2> HIDE DEF l
  <2> QED  BY <1>1, <2>1, <2>2, CleanupNow, Usual, Stays
<1> QED  BY <1>2, <1>3, <1>4

LEMMA StepHangupOutgoingCall ==
  ASSUME CallsIInv, NEW flow \in BOOLEAN, HangupOutgoingCall(flow)
  PROVE  CallsIInv'
<1>1. CASE ~flow
  <2>1. log' = [log EXCEPT !.status = "completed"] /\ Terminate /\ Cleanup(s, log') /\ UNCHANGED ivr
    BY <1>1 DEF HangupOutgoingCall
  <2>2. LogGoesOn /\ AroundIt
    BY <2>1, LogSet, Around DEF HangupOutgoingCall
  <2> QED  BY <2>1, <2>2, CleanupNow, Usual, Stays DEF HangupOutgoingCall
<1>2. CASE flow
  <2>1. /\ s' = [s EXCEPT !.bridge = FALSE, !.pc = None, !.flow = TRUE]
        /\ ivr' = [at |-> "run", node |-> Entry]
        /\ UNCHANGED <<log, out, caller, due>>
    BY <1>2 DEF HangupOutgoingCall
  <2>2. SessionGoesOn
    BY <2>1, Typed DEF SessionGoesOn, Session, Carries, Quiet
  <2>3. MenuGoesOn
    BY <2>1, CallsAssumption, Begun DEF MenuGoesOn, Menu, HangupOutgoingCall
  <2>4. AroundIt
    BY <2>1, Around, Typed DEF HangupOutgoingCall
  <2> QED  BY <2>1, <2>2, <2>3, <2>4, Usual, Stays DEF HangupOutgoingCall
<1> QED  BY <1>1, <1>2

-----------------------------------------------------------------------------
(* Starting a transfer                                                        *)

(* What the transfer does to the session keeps what a step has to keep. *)
Keeps(q, r) == r \in Session /\ Carries(q, r) /\ Quiet(q, r) /\ (q.done => r.done)

(* A watcher starts anew or goes on: nothing else of the session changes but  *)
(* what it has to cancel and whom it tells. *)
LEMMA WatchChanges ==
  ASSUME NEW q \in Session, NEW x \in Xfers, NEW v \in Watch, NEW c \in 0..MaxXfers, NEW a \in 0..MaxXfers
  PROVE  Keeps(q, [q EXCEPT !.watch[x] = v, !.cancel = c, !.acc = a])
<1> DEFINE w == [q.watch EXCEPT ![x] = v]
           r == [q EXCEPT !.watch = w, !.cancel = c, !.acc = a]
<1>1. w \in [Xfers -> Watch]
  BY DEF Session
<1>2. [q EXCEPT !.watch[x] = v, !.cancel = c, !.acc = a] = r
  OBVIOUS
<1> HIDE DEF w
<1>3. r \in Session
  BY <1>1 DEF Session
<1>4. Carries(q, r)
  BY DEF Session, Carries
<1>5. Quiet(q, r)
  BY DEF Session, Quiet
<1>6. q.done => r.done
  BY DEF Session
<1> QED  BY <1>2, <1>3, <1>4, <1>5, <1>6 DEF Keeps

LEMMA StartedWatch ==
  ASSUME NEW at \in {"sticky", "loop", "wait"}
  PROVE  [Idle EXCEPT !.at = at] \in Watch
BY IdleWatch DEF Watch

LEMMA KeepsOn ==
  ASSUME NEW p, NEW q, NEW r, Keeps(p, q), Keeps(q, r)
  PROVE  Keeps(p, r)
BY CarriesOn, QuietOn DEF Keeps

LEMMA RotatingSame ==
  ASSUME NEW q \in Session, NEW x \in Xfers
  PROVE  Keeps(q, Rotating(q, x))
<1>1. x \in 0..MaxXfers
  BY Bounds
<1> QED  BY <1>1, WatchChanges, StartedWatch DEF Rotating

LEMMA WaitingSame ==
  ASSUME NEW q \in Session, NEW x \in Xfers, NEW at \in {"sticky", "wait"}
  PROVE  Keeps(q, Waiting(q, x, at)) /\ Keeps(q, [Waiting(q, x, at) EXCEPT !.acc = x])
<1> DEFINE v == [Idle EXCEPT !.at = at]
<1>1. x \in 0..MaxXfers /\ q.acc \in 0..MaxXfers /\ v \in Watch
  BY Bounds, StartedWatch DEF Session
<1>2. Waiting(q, x, at) = [q EXCEPT !.watch[x] = v, !.cancel = x, !.acc = q.acc]
  BY DEF Waiting, Session
<1>3. [Waiting(q, x, at) EXCEPT !.acc = x] = [q EXCEPT !.watch[x] = v, !.cancel = x, !.acc = x]
  BY DEF Waiting
<1> HIDE DEF v
<1>4. Keeps(q, [q EXCEPT !.watch[x] = v, !.cancel = x, !.acc = q.acc])
  BY <1>1, WatchChanges
<1>5. Keeps(q, [q EXCEPT !.watch[x] = v, !.cancel = x, !.acc = x])
  BY <1>1, WatchChanges
<1> QED  BY <1>2, <1>3, <1>4, <1>5

LEMMA RingForSame ==
  ASSUME NEW q \in Session, NEW x \in Xfers, NEW team \in BOOLEAN, NEW preferred \in BOOLEAN
  PROVE  Keeps(q, RingFor(q, x, team, preferred))
<1> DEFINE held == [q EXCEPT !.tid = x, !.ts = "waiting", !.hold = TRUE]
<1>0. x \in 0..MaxXfers
  BY Bounds
<1>1. held \in Session /\ Carries(q, held) /\ Quiet(q, held)
  <2>1. held \in Session
    BY <1>0 DEF Session
  <2>2. Carries(q, held)
    BY DEF Session, Carries
  <2>3. Quiet(q, held)
    BY DEF Session, Quiet
  <2> QED  BY <2>1, <2>2, <2>3
<1>4. q.done => held.done
  BY DEF Session
<1> HIDE DEF held
<1>2. RingFor(q, x, team, preferred) \in {[Waiting(held, x, "sticky") EXCEPT !.acc = x], Rotating(held, x),
                                           Waiting(held, x, "wait")}
  BY DEF RingFor, held
<1>3. Keeps(held, RingFor(q, x, team, preferred))
  BY <1>1, <1>2, RotatingSame, WaitingSame
<1> QED  BY <1>1, <1>3, <1>4, KeepsOn DEF Keeps

(* A new row is on offer and nobody holds it. *)
LEMMA ClaimsAppend ==
  ASSUME CallsIInv, NEW row \in XferRow, ~row.connectedAt, xfer' = Append(xfer, row),
         \A k \in conns' : k \in conns
  PROVE  ClaimsInv'
<1>1. xfer \in Seq(XferRow) /\ Len(xfer) \in Nat /\ DOMAIN xfer = 1..Len(xfer)
  BY Typed
<1>2. Len(xfer') = Len(xfer) + 1 /\ DOMAIN xfer' = 1..(Len(xfer) + 1)
  BY <1>1
<1>3. \A x \in DOMAIN xfer' : IF x \in DOMAIN xfer THEN xfer'[x] = xfer[x] ELSE xfer'[x] = row /\ x = Len(xfer) + 1
  BY <1>1, <1>2
<1>4. /\ \A k \in conns : (k.at \in {"read", "claimed", "setup", "await", "track", "write"} => k.x # 0)
                          /\ (k.at \in {"read", "claimed", "setup"} => k.agent # None)
                          /\ (k.at \in Holding \cup {"read"} => k.x \in 0..Len(xfer))
      /\ \A x \in DOMAIN xfer : \A k, j \in conns : Holds(k, x) /\ Holds(j, x) => k = j
      /\ \A x \in DOMAIN xfer : \A k \in conns : Holds(k, x) => xfer[x].status # "waiting"
      /\ \A x \in DOMAIN xfer : xfer[x].connectedAt =>
           xfer[x].status # "waiting" /\ \A k \in conns : ~Holds(k, x)
  BY DEF CallsIInv, ClaimsInv
<1>5. \A k \in conns : \A x \in DOMAIN xfer' : Holds(k, x) => x \in DOMAIN xfer
  <2>1. SUFFICES ASSUME NEW k \in conns, NEW x \in DOMAIN xfer', Holds(k, x)
                 PROVE  x \in DOMAIN xfer
    OBVIOUS
  <2>2. k.at \in Holding \cup {"read"} /\ k.x = x
    BY <2>1 DEF Holds
  <2> QED  BY <1>1, <1>2, <1>4, <2>2
<1>6. \A k \in conns' : (k.at \in {"read", "claimed", "setup", "await", "track", "write"} => k.x # 0)
                          /\ (k.at \in {"read", "claimed", "setup"} => k.agent # None)
                          /\ (k.at \in Holding \cup {"read"} => k.x \in 0..Len(xfer'))
  BY <1>1, <1>2, <1>4
<1>7. \A x \in DOMAIN xfer' : \A k, j \in conns' : Holds(k, x) /\ Holds(j, x) => k = j
  BY <1>4, <1>5
<1>8. \A x \in DOMAIN xfer' : \A k \in conns' : Holds(k, x) => xfer'[x].status # "waiting"
  BY <1>3, <1>4, <1>5
<1>9. \A x \in DOMAIN xfer' : xfer'[x].connectedAt =>
           xfer'[x].status # "waiting" /\ \A k \in conns' : ~Holds(k, x)
  BY <1>3, <1>4
<1> QED  BY <1>6, <1>7, <1>8, <1>9 DEF ClaimsInv

LEMMA RowAppend ==
  ASSUME CallsIInv, NEW team \in BOOLEAN, Len(xfer) < MaxXfers, xfer' = Append(xfer, Row(team)),
         \A k \in conns' : k \in conns
  PROVE  xfer' \in Seq(XferRow) /\ Len(xfer') =< MaxXfers /\ ClaimsInv' /\ Len(xfer) + 1 \in Xfers
<1>1. Row(team) \in XferRow /\ ~Row(team).connectedAt
  BY DEF Row, XferRow
<1>2. xfer \in Seq(XferRow) /\ Len(xfer) \in Nat /\ MaxXfers \in Nat
  BY Typed, Bounds
<1> HIDE DEF Row
<1>3. xfer' \in Seq(XferRow) /\ Len(xfer') = Len(xfer) + 1
  BY <1>1, <1>2
<1> QED  BY <1>1, <1>2, <1>3, ClaimsAppend DEF Xfers

LEMMA InitiateTransferStep ==
  ASSUME CallsIInv, NEW q \in Session, Carries(s, q), Quiet(s, q), NEW team \in BOOLEAN,
         InitiateTransfer(q, team), \A k \in conns' : k \in conns
  PROVE  /\ SessionGoesOn /\ (q.done => s'.done) /\ LogGoesOn
         /\ xfer' \in Seq(XferRow) /\ Len(xfer') =< MaxXfers /\ ClaimsInv'
<1>1. ASSUME NEW preferred \in BOOLEAN,
             Len(xfer) < MaxXfers, xfer' = Append(xfer, Row(team)),
             log' = [log EXCEPT !.status = "transferring"],
             s' = RingFor(q, Len(xfer) + 1, team, preferred)
      PROVE  /\ SessionGoesOn /\ (q.done => s'.done) /\ LogGoesOn
             /\ xfer' \in Seq(XferRow) /\ Len(xfer') =< MaxXfers /\ ClaimsInv'
  <2>1. xfer' \in Seq(XferRow) /\ Len(xfer') =< MaxXfers /\ ClaimsInv' /\ Len(xfer) + 1 \in Xfers
    BY <1>1, RowAppend
  <2>2. Keeps(q, s')
    BY <1>1, <2>1, RingForSame
  <2>3. LogGoesOn
    BY <1>1, LogSet
  <2> QED  BY <2>1, <2>2, <2>3, CarriesOn, QuietOn DEF Keeps, SessionGoesOn
<1>2. ASSUME s' = [q EXCEPT !.hold = TRUE], UNCHANGED <<xfer, log>>
      PROVE  /\ SessionGoesOn /\ (q.done => s'.done) /\ LogGoesOn
             /\ xfer' \in Seq(XferRow) /\ Len(xfer') =< MaxXfers /\ ClaimsInv'
  <2>1. Keeps(q, s')
    BY <1>2 DEF Keeps, Session, Carries, Quiet
  <2>2. ClaimsInv'
    BY <1>2, ClaimsFrame
  <2> QED  BY <1>2, <2>1, <2>2, CarriesOn, QuietOn, Stays, Typed DEF Keeps, SessionGoesOn
<1>3. (\E preferred \in BOOLEAN :
         Len(xfer) < MaxXfers /\ xfer' = Append(xfer, Row(team))
         /\ log' = [log EXCEPT !.status = "transferring"]
         /\ s' = RingFor(q, Len(xfer) + 1, team, preferred))
      \/ (s' = [q EXCEPT !.hold = TRUE] /\ UNCHANGED <<xfer, log>>)
  BY DEF InitiateTransfer
<1> QED  BY <1>1, <1>2, <1>3

LEMMA StepStickyTransfer ==
  ASSUME CallsIInv, NEW k \in conns, StickyTransfer(k)
  PROVE  CallsIInv'
<1>1. InitiateTransfer(s, FALSE) /\ Ends(k) /\ k.at = "ring" /\ \A j \in conns' : j \in conns
  BY DEF StickyTransfer, Ends
<1>2. /\ SessionGoesOn /\ LogGoesOn
      /\ xfer' \in Seq(XferRow) /\ Len(xfer') =< MaxXfers /\ ClaimsInv'
  BY <1>1, InitiateTransferStep, SessionSelf, Typed
<1>3. AroundIt
  BY Around, Typed DEF StickyTransfer
<1> QED  BY <1>1, <1>2, <1>3, WorkEnds, General, Stays DEF StickyTransfer

LEMMA StepAgentTransferBegins ==
  ASSUME CallsIInv, NEW target \in Members \cup {None}, AgentTransferBegins(target)
  PROVE  CallsIInv'
<1> DEFINE j == Job(target, 0, "init", FALSE)
<1>1. SessionGoesOn
  <2>1. s' = [s EXCEPT !.hold = TRUE, !.bridge = FALSE, !.pc = None, !.tid = 0, !.ts = "waiting"]
    BY DEF AgentTransferBegins
  <2> QED  BY <2>1, Typed, Bounds DEF SessionGoesOn, Session, Carries, Quiet
<1>2. j \in Work /\ j.at = "init"
  BY CallsAssumption, Bounds DEF Job, Work, Stages
<1>3. conns' = conns \cup {j}
  BY DEF AgentTransferBegins
<1> HIDE DEF j
<1>4. WorkGoesOn /\ \A i \in conns' : i \in conns \/ Takes0(i)
  BY <1>2, <1>3, WorkBegins DEF Takes0
<1>5. AroundIt
  BY Around, Typed DEF AgentTransferBegins
<1> QED  BY <1>1, <1>4, <1>5, Usual, Stays DEF AgentTransferBegins

LEMMA StepInitiateAgentTransfer ==
  ASSUME CallsIInv, NEW k \in conns, InitiateAgentTransfer(k)
  PROVE  CallsIInv'
<1>1. k.at = "init" /\ Ends(k) /\ \A j \in conns' : j \in conns
  BY DEF InitiateAgentTransfer, Ends
<1>2. AroundIt /\ UNCHANGED <<ivr, out>>
  BY Around, Typed DEF InitiateAgentTransfer
<1>3. CASE UNCHANGED <<s, xfer, log>>
  BY <1>1, <1>2, <1>3, WorkEnds, Usual, Stays
<1>4. CASE ~UNCHANGED <<s, xfer, log>>
  <2> DEFINE x == Len(xfer) + 1
             q == [s EXCEPT !.tid = x]
  <2>1. /\ Len(xfer) < MaxXfers /\ xfer' = Append(xfer, Row(TRUE))
        /\ log' = [log EXCEPT !.status = "transferring"]
        /\ s' = IF k.agent = None THEN Rotating(q, x) ELSE Waiting(q, x, "wait")
    BY <1>4 DEF InitiateAgentTransfer
  <2>2. xfer' \in Seq(XferRow) /\ Len(xfer') =< MaxXfers /\ ClaimsInv' /\ x \in Xfers
    BY <1>1, <2>1, RowAppend
  <2>3. LogGoesOn
    BY <2>1, LogSet
  <2> HIDE DEF x
  <2>4. x \in 0..MaxXfers
    BY <2>2, Bounds
  <2>5. q \in Session /\ Carries(s, q) /\ Quiet(s, q)
    BY <2>4, Typed DEF Session, Carries, Quiet
  <2> HIDE DEF q
  <2>6. Keeps(q, s')
    BY <2>1, <2>2, <2>5, RotatingSame, WaitingSame
  <2>7. SessionGoesOn
    BY <2>5, <2>6, CarriesOn, QuietOn DEF Keeps, SessionGoesOn
  <2> QED  BY <1>1, <1>2, <2>2, <2>3, <2>7, WorkEnds, General, Stays
<1> QED  BY <1>3, <1>4

-----------------------------------------------------------------------------
(* An agent accepts                                                           *)

(* A row changes: what has to hold of it and of those who hold it. *)
LEMMA ClaimsRow ==
  ASSUME CallsIInv, NEW i \in DOMAIN xfer, NEW r \in XferRow, xfer' = [xfer EXCEPT ![i] = r],
         \A k \in conns' : k \in conns \/ (k.at = "claimed" /\ k.x = i /\ k.agent # None),
         \A k, l \in conns' : Holds(k, i) /\ Holds(l, i) => k = l,
         \A k \in conns' : Holds(k, i) => r.status # "waiting",
         r.connectedAt => r.status # "waiting" /\ \A k \in conns' : ~Holds(k, i)
  PROVE  xfer' \in Seq(XferRow) /\ Len(xfer') =< MaxXfers /\ ClaimsInv'
<1>1. xfer \in Seq(XferRow) /\ Len(xfer) \in Nat /\ DOMAIN xfer = 1..Len(xfer) /\ Len(xfer) =< MaxXfers
  BY Typed
<1>2. xfer' \in Seq(XferRow) /\ Len(xfer') = Len(xfer) /\ DOMAIN xfer' = DOMAIN xfer
  BY <1>1
<1>3. xfer'[i] = r /\ \A x \in DOMAIN xfer \ {i} : xfer'[x] = xfer[x]
  BY <1>1
<1>4. /\ \A k \in conns : (k.at \in {"read", "claimed", "setup", "await", "track", "write"} => k.x # 0)
                          /\ (k.at \in {"read", "claimed", "setup"} => k.agent # None)
                          /\ (k.at \in Holding \cup {"read"} => k.x \in 0..Len(xfer))
      /\ \A x \in DOMAIN xfer : \A k, j \in conns : Holds(k, x) /\ Holds(j, x) => k = j
      /\ \A x \in DOMAIN xfer : \A k \in conns : Holds(k, x) => xfer[x].status # "waiting"
      /\ \A x \in DOMAIN xfer : xfer[x].connectedAt =>
           xfer[x].status # "waiting" /\ \A k \in conns : ~Holds(k, x)
  BY DEF CallsIInv, ClaimsInv
<1>5. \A x \in DOMAIN xfer \ {i} : \A k \in conns' : Holds(k, x) => k \in conns
  BY DEF Holds
<1>6. \A k \in conns' : (k.at \in {"read", "claimed", "setup", "await", "track", "write"} => k.x # 0)
                          /\ (k.at \in {"read", "claimed", "setup"} => k.agent # None)
                          /\ (k.at \in Holding \cup {"read"} => k.x \in 0..Len(xfer'))
  BY <1>1, <1>2, <1>4
<1>7. \A x \in DOMAIN xfer' : \A k, j \in conns' : Holds(k, x) /\ Holds(j, x) => k = j
  BY <1>2, <1>4, <1>5
<1>8. \A x \in DOMAIN xfer' : \A k \in conns' : Holds(k, x) => xfer'[x].status # "waiting"
  BY <1>2, <1>3, <1>4, <1>5
<1>9. \A x \in DOMAIN xfer' : xfer'[x].connectedAt =>
           xfer'[x].status # "waiting" /\ \A k \in conns' : ~Holds(k, x)
  BY <1>2, <1>3, <1>4, <1>5
<1> QED  BY <1>1, <1>2, <1>6, <1>7, <1>8, <1>9 DEF ClaimsInv

(* A row that is no longer on offer, whoever holds it. *)
LEMMA ClaimsClosed ==
  ASSUME CallsIInv, NEW i, NEW v \in {"connected", "completed", "no_answer"},
         xfer' = [xfer EXCEPT ![i].status = v], \A k \in conns' : k \in conns
  PROVE  xfer' \in Seq(XferRow) /\ Len(xfer') =< MaxXfers /\ ClaimsInv'
<1>1. CASE i \in DOMAIN xfer
  <2> DEFINE r == [xfer[i] EXCEPT !.status = v]
  <2>1. xfer[i] \in XferRow
    BY <1>1, Typed
  <2>2. r \in XferRow /\ r.status = v /\ (r.connectedAt => xfer[i].connectedAt)
    BY <2>1 DEF XferRow
  <2>3. xfer' = [xfer EXCEPT ![i] = r]
    OBVIOUS
  <2> HIDE DEF r
  <2>4. /\ \A k, l \in conns' : Holds(k, i) /\ Holds(l, i) => k = l
        /\ xfer[i].connectedAt => \A k \in conns' : ~Holds(k, i)
    BY <1>1 DEF CallsIInv, ClaimsInv
  <2> QED  BY <1>1, <2>2, <2>3, <2>4, ClaimsRow
<1>2. CASE i \notin DOMAIN xfer
  <2>1. xfer' = xfer
    BY <1>2, Typed
  <2> QED  BY <2>1, ClaimsFrame, Typed
<1> QED  BY <1>1, <1>2

(* The one who holds a row gives it up. *)
LEMMA ClaimsRelease ==
  ASSUME CallsIInv, NEW k \in conns, k.at \in Holding, k.x # 0, Ends(k), NEW r \in XferRow,
         xfer' = [xfer EXCEPT ![k.x] = r],
         r.connectedAt => xfer[k.x].connectedAt \/ r.status # "waiting"
  PROVE  xfer' \in Seq(XferRow) /\ Len(xfer') =< MaxXfers /\ ClaimsInv'
<1>1. k.x \in 0..Len(xfer) /\ xfer \in Seq(XferRow)
  BY Typed DEF CallsIInv, ClaimsInv
<1>2. k.x \in DOMAIN xfer
  BY <1>1
<1>3. Holds(k, k.x)
  BY DEF Holds
<1>4. ~xfer[k.x].connectedAt /\ \A j \in conns : Holds(j, k.x) => j = k
  BY <1>2, <1>3 DEF CallsIInv, ClaimsInv
<1>5. conns' = conns \ {k}
  BY DEF Ends
<1> QED  BY <1>2, <1>4, <1>5, ClaimsRow

LEMMA WorkMoves ==
  ASSUME CallsIInv, NEW k \in conns, k.at # "bridged",
         NEW j \in Work, j.at # "api", conns' = (conns \ {k}) \cup {j}
  PROVE  WorkGoesOn
BY Typed DEF WorkGoesOn, Starting

(* What is known of a request that has taken a row, or is about to. *)
LEMMA WorkOf ==
  ASSUME CallsIInv, NEW k \in conns
  PROVE  /\ k \in Work
         /\ k.at \in {"read", "claimed", "setup", "await", "track", "write"} => k.x # 0
         /\ k.at \in {"read", "claimed", "setup"} => k.agent # None
         /\ k.at \in Holding \cup {"read"} => k.x \in 0..Len(xfer)
BY Typed DEF CallsIInv, ClaimsInv

LEMMA StageSet ==
  ASSUME NEW k \in Work, NEW at \in Stages
  PROVE  LET j == [k EXCEPT !.at = at] IN j \in Work /\ j.at = at /\ j.x = k.x /\ j.agent = k.agent
BY DEF Work

LEMMA StepConnectCallTransfer ==
  ASSUME CallsIInv, NEW a \in Agents, NEW x \in DOMAIN xfer, ConnectCallTransfer(a, x)
  PROVE  CallsIInv'
<1> DEFINE j == Job(a, x, "read", FALSE)
<1>1. x \in 0..MaxXfers
  <2>1. xfer \in Seq(XferRow) /\ Len(xfer) =< MaxXfers /\ MaxXfers \in Nat
    BY Typed, Bounds
  <2> QED  BY <2>1
<1>2. j \in Work /\ j.at = "read" /\ j.x = x /\ j.agent # None
  BY <1>1, CallsAssumption DEF Job, Work, Stages
<1>3. conns' = conns \cup {j}
  BY DEF ConnectCallTransfer
<1> HIDE DEF j
<1>4. WorkGoesOn /\ \A i \in conns' : i \in conns \/ Takes0(i)
  BY <1>2, <1>3, WorkBegins DEF Takes0
<1>5. AroundIt
  BY Around, Typed DEF ConnectCallTransfer
<1> QED  BY <1>4, <1>5, Usual, Stays DEF ConnectCallTransfer

LEMMA StepClaimTransfer ==
  ASSUME CallsIInv, NEW k \in conns, ClaimTransfer(k)
  PROVE  CallsIInv'
<1>1. k.at = "read" /\ UNCHANGED <<s, log, ivr, out>> /\ AroundIt
  BY Around, Typed DEF ClaimTransfer
<1>2. CASE xfer[k.x].status # "waiting"
  <2>1. Ends(k) /\ UNCHANGED xfer
    BY <1>2 DEF ClaimTransfer
  <2> QED  BY <1>1, <2>1, WorkEnds, Usual, Stays
<1>3. CASE xfer[k.x].status = "waiting"
  <2> DEFINE j == [k EXCEPT !.at = "claimed"]
             r == [xfer[k.x] EXCEPT !.status = "connected"]
  <2>1. conns' = (conns \ {k}) \cup {j} /\ xfer' = [xfer EXCEPT ![k.x] = r]
    BY <1>3 DEF ClaimTransfer, Moves
  <2>2. k.x \in 0..Len(xfer) /\ k.x # 0 /\ k.agent # None /\ k \in Work
    BY <1>1, WorkOf
  <2>3. xfer \in Seq(XferRow) /\ k.x \in DOMAIN xfer
    BY <2>2, Typed
  <2>4. j \in Work /\ j.at = "claimed" /\ j.x = k.x /\ j.agent # None
    BY <2>2, StageSet DEF Stages
  <2>5. xfer[k.x] \in XferRow
    BY <2>3
  <2>6. r \in XferRow /\ r.status = "connected" /\ (r.connectedAt => xfer[k.x].connectedAt)
    BY <2>5 DEF XferRow
  <2> HIDE DEF j, r
  <2>7. ~xfer[k.x].connectedAt /\ \A i \in conns : ~Holds(i, k.x)
    BY <1>3, <2>3 DEF CallsIInv, ClaimsInv
  <2>8. xfer' \in Seq(XferRow) /\ Len(xfer') =< MaxXfers /\ ClaimsInv'
    BY <2>1, <2>3, <2>4, <2>6, <2>7, ClaimsRow
  <2>9. WorkGoesOn
    BY <1>1, <2>1, <2>4, WorkMoves
  <2> QED  BY <1>1, <2>8, <2>9, General, Stays
<1> QED  BY <1>2, <1>3

LEMMA StepConnectRefused ==
  ASSUME CallsIInv, NEW k \in conns, ConnectRefused(k)
  PROVE  CallsIInv'
<1>1. AroundIt
  BY Around, Typed DEF ConnectRefused
<1> QED  BY <1>1, WorkEnds, Usual, Stays DEF ConnectRefused

(* The handler gives the row back and ends. *)
LEMMA RevertedStep ==
  ASSUME CallsIInv, NEW k \in conns, k.at \in {"claimed", "setup"}, Ends(k), xfer' = Reverted(k.x)
  PROVE  WorkGoesOn /\ xfer' \in Seq(XferRow) /\ Len(xfer') =< MaxXfers /\ ClaimsInv'
<1> DEFINE v == IF xfer[k.x].status = "connected" THEN "waiting" ELSE xfer[k.x].status
           r == [xfer[k.x] EXCEPT !.status = v]
<1>1. xfer' = [xfer EXCEPT ![k.x] = r]
  BY DEF Reverted
<1>2. k.x \in 0..Len(xfer) /\ k.x # 0 /\ k.at \in Holding
  BY WorkOf DEF Holding
<1>3. k.x \in DOMAIN xfer /\ xfer[k.x] \in XferRow
  <2>1. xfer \in Seq(XferRow)
    BY Typed
  <2> QED  BY <1>2, <2>1
<1>4. v \in {"waiting", "connected", "completed", "no_answer"}
  BY <1>3 DEF XferRow
<1> HIDE DEF v
<1>5. r \in XferRow /\ (r.connectedAt => xfer[k.x].connectedAt)
  BY <1>3, <1>4 DEF XferRow
<1> HIDE DEF r
<1> QED  BY <1>1, <1>2, <1>5, ClaimsRelease, WorkEnds

LEMMA StepConnectAgentToTransfer ==
  ASSUME CallsIInv, NEW k \in conns, ConnectAgentToTransfer(k)
  PROVE  CallsIInv'
<1>1. k.at = "claimed" /\ UNCHANGED <<log, ivr, out>> /\ AroundIt
  BY Around, Typed DEF ConnectAgentToTransfer
<1>2. CASE FindSessionByTransferID(k.x) /\ s.ts = "waiting"
  <2> DEFINE q == [s EXCEPT !.ts = "connected"]
             j == [k EXCEPT !.at = "setup"]
  <2>1. s' = Accepted(q) /\ conns' = (conns \ {k}) \cup {j} /\ UNCHANGED xfer
    BY <1>2 DEF ConnectAgentToTransfer, Moves
  <2>2. q \in Session /\ Carries(s, q) /\ Quiet(s, q)
    <3>1. q \in Session
      BY Typed DEF Session
    <3>2. Carries(s, q)
      BY Typed DEF Session, Carries
    <3>3. Quiet(s, q)
      BY Typed DEF Session, Quiet
    <3> QED  BY <3>1, <3>2, <3>3
  <2> HIDE DEF q
  <2>3. PICK w \in [Xfers -> Watch] : Accepted(q) = [q EXCEPT !.watch = w]
    BY <2>2, AcceptedSame
  <2>4. Accepted(q) \in Session /\ Carries(q, Accepted(q)) /\ Quiet(q, Accepted(q))
    BY <2>2, <2>3, AcceptedSame DEF Session, Carries, Quiet
  <2>5. SessionGoesOn
    BY <2>1, <2>2, <2>4, CarriesOn, QuietOn DEF SessionGoesOn
  <2>6. k \in Work /\ k.x # 0 /\ k.agent # None
    BY <1>1, WorkOf
  <2>7. j \in Work /\ j.at = "setup" /\ j.x = k.x /\ j.agent # None
    BY <2>6, StageSet DEF Stages
  <2> HIDE DEF j
  <2>8. ClaimsInv'
    BY <1>1, <2>1, <2>6, <2>7, ClaimsMove DEF Holding
  <2> QED  BY <1>1, <2>1, <2>5, <2>7, <2>8, WorkMoves, General, Stays, Typed
<1>3. CASE ~(FindSessionByTransferID(k.x) /\ s.ts = "waiting")
  <2>1. Ends(k) /\ xfer' = Reverted(k.x) /\ UNCHANGED s
    BY <1>3 DEF ConnectAgentToTransfer
  <2> QED  BY <1>1, <2>1, RevertedStep, General, Stays
<1> QED  BY <1>2, <1>3

LEMMA StepSetupFails ==
  ASSUME CallsIInv, NEW k \in conns, SetupFails(k)
  PROVE  CallsIInv'
<1>1. AroundIt
  BY Around, Typed DEF SetupFails
<1> QED  BY <1>1, RevertedStep, General, Stays DEF SetupFails

LEMMA StepSetupDone ==
  ASSUME CallsIInv, NEW k \in conns, SetupDone(k)
  PROVE  CallsIInv'
<1> DEFINE j == [k EXCEPT !.at = "await"]
<1>1. k.at = "setup" /\ s' = [s EXCEPT !.pc = k.agent] /\ conns' = (conns \ {k}) \cup {j}
      /\ UNCHANGED <<xfer, log, ivr, out>> /\ AroundIt
  BY Around, Typed DEF SetupDone, Moves
<1>2. k \in Work /\ k.x # 0 /\ k.agent # None
  BY <1>1, WorkOf
<1>3. k.agent \in Agents
  BY <1>2 DEF Work
<1>4. SessionGoesOn
  BY <1>1, <1>2, <1>3, Typed DEF SessionGoesOn, Session, Carries, Quiet
<1>5. j \in Work /\ j.at = "await" /\ j.x = k.x
  BY <1>2, StageSet DEF Stages
<1> HIDE DEF j
<1>6. ClaimsInv'
  BY <1>1, <1>2, <1>5, ClaimsMove DEF Holding
<1> QED  BY <1>1, <1>4, <1>5, <1>6, WorkMoves, General, Stays, Typed

LEMMA StepAgentTrackArrives ==
  ASSUME CallsIInv, NEW k \in conns, AgentTrackArrives(k)
  PROVE  CallsIInv'
<1> DEFINE j == [k EXCEPT !.at = "track"]
<1>1. k.at = "await" /\ conns' = (conns \ {k}) \cup {j} /\ UNCHANGED <<s, xfer, log, ivr, out>> /\ AroundIt
  BY Around, Typed DEF AgentTrackArrives, Moves
<1>2. k \in Work /\ k.x # 0
  BY <1>1, WorkOf
<1>3. j \in Work /\ j.at = "track" /\ j.x = k.x
  BY <1>2, StageSet DEF Stages
<1> HIDE DEF j
<1>4. ClaimsInv'
  BY <1>1, <1>2, <1>3, ClaimsMove DEF Holding
<1> QED  BY <1>1, <1>3, <1>4, WorkMoves, General, Stays, Typed

LEMMA StepCompleteTransferConnection ==
  ASSUME CallsIInv, NEW k \in conns, CompleteTransferConnection(k)
  PROVE  CallsIInv'
<1> DEFINE j == [k EXCEPT !.at = "snap", !.flag = s.track, !.agent = s.pc]
<1>1. /\ k.at = "track" /\ conns' = (conns \ {k}) \cup {j} /\ UNCHANGED <<xfer, log, ivr, out>>
      /\ s' = [Cancelled(s) EXCEPT !.hold = FALSE, !.ts = "connected"] /\ AroundIt
  BY Around, Typed DEF CompleteTransferConnection
<1>2. k \in Work /\ k.x # 0
  BY <1>1, WorkOf
<1>3. j \in Work /\ j.at = "snap" /\ j.x = k.x
  BY <1>2, Typed DEF Work, Session, Stages
<1>4. PICK w \in [Xfers -> Watch] : Cancelled(s) = [s EXCEPT !.watch = w]
  BY CancelledSame, Typed
<1>5. SessionGoesOn
  <2>1. s' = [s EXCEPT !.watch = w, !.hold = FALSE, !.ts = "connected"]
    BY <1>1, <1>4
  <2>2. s' \in Session
    BY <2>1, Typed DEF Session
  <2>3. Carries(s, s')
    BY <2>1, Typed DEF Session, Carries
  <2>4. Quiet(s, s')
    BY <2>1, Typed DEF Session, Quiet
  <2> QED  BY <2>2, <2>3, <2>4 DEF SessionGoesOn
<1> HIDE DEF j
<1>6. ClaimsInv'
  BY <1>1, <1>2, <1>3, ClaimsMove DEF Holding
<1> QED  BY <1>1, <1>3, <1>5, <1>6, WorkMoves, General, Stays, Typed

LEMMA StepSetupAudioBridge ==
  ASSUME CallsIInv, NEW k \in conns, SetupAudioBridge(k)
  PROVE  CallsIInv'
<1> DEFINE j == [k EXCEPT !.at = "bridged"]
<1>1. /\ k.at = "snap" /\ conns' = (conns \ {k}) \cup {j} /\ UNCHANGED <<xfer, log, ivr, out>>
      /\ s' = [s EXCEPT !.bridge = TRUE, !.att = FALSE] /\ AroundIt
  BY Around, Typed DEF SetupAudioBridge, Moves
<1>2. j \in Work /\ j.at = "bridged" /\ j.x = k.x
  BY StageSet, WorkOf DEF Stages
<1>3. s' \in Session
  BY <1>1, Typed DEF Session
<1>4. Carries(s, s')
  BY <1>1, Typed DEF Session, Carries
<1> HIDE DEF j
<1>5. WorkGoesOn
  BY <1>1, <1>2, WorkMoves
<1>6. ClaimsInv'
  BY <1>1, <1>2, ClaimsMove DEF Holding
<1>7. AudioInv'
  BY <1>1, <1>2 DEF AudioInv, Starting
<1>8. LifeGoesOn
  BY <1>1, <1>3, <1>4, <1>5, Stays DEF LifeGoesOn, LogGoesOn, MenuGoesOn, WorkGoesOn
<1>9. AwaitIsAnswered'
  BY <1>1, <1>4, AwaitStep
<1> QED  BY <1>1, <1>6, <1>7, <1>8, <1>9, Step, Typed

(* The bridge starts with the agent and the caller the session has by now. *)
LEMMA StepStartBridge ==
  ASSUME CallsIInv, NEW k \in conns, StartBridge(k)
  PROVE  CallsIInv'
<1> DEFINE a == s.att \/ (k.agent # None /\ CallerRemote(k))
           w == IF k.agent = s.pc THEN s.pc ELSE None
           j == [k EXCEPT !.at = "write"]
<1>1. /\ k.at = "bridged" /\ s' = [s EXCEPT !.att = a, !.with = w] /\ UNCHANGED <<xfer, log, ivr, out>> /\ AroundIt
  BY Around, Typed DEF StartBridge
<1>2. a \in BOOLEAN /\ w \in Agents \cup {None}
  BY Typed DEF Session
<1>3. w # None => s.pc # None /\ (s.track => a)
  BY DEF CallerRemote
<1> HIDE DEF a, w
<1>4. s' \in Session
  BY <1>1, <1>2, Typed DEF Session
<1>5. Carries(s, s')
  BY <1>1, Typed DEF Session, Carries
<1>6. s'.with = w /\ s'.pc = s.pc /\ s'.track = s.track /\ s'.att = a
  BY <1>1, Typed DEF Session
<1>7. AudioInv'
  BY <1>3, <1>6 DEF AudioInv
<1>8. j \in Work /\ j.at = "write" /\ j.x = k.x
  BY StageSet, WorkOf DEF Stages
<1>9. conns' = conns \ {k} \/ (k.x # 0 /\ conns' = (conns \ {k}) \cup {j})
  BY DEF StartBridge, Ends, Moves
<1> HIDE DEF j
<1>10. conns' \subseteq Work /\ \A i \in conns' : i.at = "api" => i \in conns
  BY <1>8, <1>9, Typed
<1>11. ClaimsInv'
  <2>1. CASE conns' = conns \ {k}
    BY <1>1, <2>1, ClaimsFrame
  <2>2. CASE k.x # 0 /\ conns' = (conns \ {k}) \cup {j}
    BY <1>1, <1>8, <2>2, ClaimsMove DEF Holding
  <2> QED  BY <1>9, <2>1, <2>2
<1>12. LifeGoesOn
  BY <1>1, <1>4, <1>5, <1>10, Stays DEF LifeGoesOn, LogGoesOn, MenuGoesOn
<1>13. AwaitIsAnswered'
  BY <1>1, <1>5, AwaitStep
<1> QED  BY <1>1, <1>7, <1>11, <1>12, <1>13, Step, Typed

LEMMA StepConnectedWrite ==
  ASSUME CallsIInv, NEW k \in conns, ConnectedWrite(k)
  PROVE  CallsIInv'
<1> DEFINE r == [xfer[k.x] EXCEPT !.status = "connected", !.connectedAt = TRUE]
<1>1. /\ k.at = "write" /\ Ends(k) /\ xfer' = [xfer EXCEPT ![k.x] = r]
      /\ log' = [log EXCEPT !.agent = TRUE] /\ UNCHANGED <<s, ivr, out>> /\ AroundIt
  BY Around, Typed DEF ConnectedWrite
<1>2. LogGoesOn
  BY <1>1, Typed DEF LogGoesOn, LogRow
<1>3. k.x \in 0..Len(xfer) /\ k.x # 0 /\ k.at \in Holding
  BY <1>1, WorkOf DEF Holding
<1>4. xfer[k.x] \in XferRow
  <2>1. xfer \in Seq(XferRow)
    BY Typed
  <2> QED  BY <1>3, <2>1
<1>5. r \in XferRow /\ r.status = "connected"
  BY <1>4 DEF XferRow
<1> HIDE DEF r
<1>6. xfer' \in Seq(XferRow) /\ Len(xfer') =< MaxXfers /\ ClaimsInv'
  BY <1>1, <1>3, <1>5, ClaimsRelease
<1> QED  BY <1>1, <1>2, <1>6, WorkEnds, General, Stays

-----------------------------------------------------------------------------
(* Ending a transfer                                                          *)

LEMMA EndsTransferStep ==
  ASSUME CallsIInv, NEW x \in 0..MaxXfers, NEW from \in SUBSET conns,
         \A k \in conns \ from : k.at # "bridged", EndsTransfer(x, from)
  PROVE  SessionGoesOn /\ WorkGoesOn /\ \A k \in conns' : k \in conns \/ Takes0(k)
<1>1. CASE FindSessionByTransferID(x) /\ s.ts # "completed"
  <2> DEFINE j == Job(None, x, "end", FALSE)
  <2>1. /\ s' = [Cancelled(s) EXCEPT !.ts = "completed", !.bridge = FALSE, !.hold = FALSE, !.cancel = 0, !.pc = None]
        /\ conns' = from \cup {j}
    BY <1>1 DEF EndsTransfer
  <2>2. j \in Work /\ j.at = "end"
    BY DEF Job, Work, Stages
  <2> HIDE DEF j
  <2>3. PICK w \in [Xfers -> Watch] : Cancelled(s) = [s EXCEPT !.watch = w]
    BY CancelledSame, Typed
  <2>4. s' = [s EXCEPT !.watch = w, !.ts = "completed", !.bridge = FALSE, !.hold = FALSE, !.cancel = 0, !.pc = None]
    BY <2>1, <2>3
  <2>5. s' \in Session
    BY <2>4, Typed, Bounds DEF Session
  <2>6. Carries(s, s')
    BY <2>4, Typed DEF Session, Carries
  <2>7. Quiet(s, s')
    BY <2>4, Typed DEF Session, Quiet
  <2>8. WorkGoesOn /\ \A k \in conns' : k \in conns \/ Takes0(k)
    BY <2>1, <2>2, Typed DEF WorkGoesOn, Starting, Takes0
  <2> QED  BY <2>5, <2>6, <2>7, <2>8 DEF SessionGoesOn
<1>2. CASE ~(FindSessionByTransferID(x) /\ s.ts # "completed")
  <2>1. conns' = from /\ UNCHANGED s
    BY <1>2 DEF EndsTransfer
  <2>2. WorkGoesOn /\ \A k \in conns' : k \in conns \/ Takes0(k)
    BY <2>1, Typed DEF WorkGoesOn, Starting
  <2> QED  BY <2>1, <2>2, Stays
<1> QED  BY <1>1, <1>2

LEMMA StepEndTransfer ==
  ASSUME CallsIInv, NEW k \in conns, EndTransfer(k)
  PROVE  CallsIInv'
<1>1. k.at = "end" /\ Ends(k) /\ xfer' = [xfer EXCEPT ![k.x].status = "completed"]
      /\ SignalOrCleanup(s, "completed", log) /\ UNCHANGED <<log, ivr>>
  BY DEF EndTransfer
<1>2. AroundIt
  BY Around, Typed DEF EndTransfer
<1>3. \A j \in conns' : j \in conns
  BY <1>1 DEF Ends
<1>4. xfer' \in Seq(XferRow) /\ Len(xfer') =< MaxXfers /\ ClaimsInv'
  BY <1>1, <1>3, ClaimsClosed
<1> QED  BY <1>1, <1>2, <1>4, SignalOrCleanupStep, WorkEnds, General, Stays

LEMMA StepHangupCallTransfer ==
  ASSUME CallsIInv, NEW x \in Xfers, HangupCallTransfer(x)
  PROVE  CallsIInv'
<1>1. x \in 0..MaxXfers /\ EndsTransfer(x, conns)
  BY Bounds DEF HangupCallTransfer
<1>2. SessionGoesOn /\ WorkGoesOn /\ \A k \in conns' : k \in conns \/ Takes0(k)
  BY <1>1, EndsTransferStep
<1>3. AroundIt
  BY Around, Typed DEF HangupCallTransfer
<1> QED  BY <1>2, <1>3, Usual, Stays DEF HangupCallTransfer

LEMMA StepAgentDisconnects ==
  ASSUME CallsIInv, AgentDisconnects
  PROVE  CallsIInv'
<1>1. s.tid \in 0..MaxXfers /\ EndsTransfer(s.tid, conns)
  BY Typed DEF AgentDisconnects, Session
<1>2. SessionGoesOn /\ WorkGoesOn /\ \A k \in conns' : k \in conns \/ Takes0(k)
  BY <1>1, EndsTransferStep
<1>3. AroundIt
  BY Around, Typed DEF AgentDisconnects
<1> QED  BY <1>2, <1>3, Usual, Stays DEF AgentDisconnects

LEMMA StepAwaitTimeout ==
  ASSUME CallsIInv, NEW k \in conns, AwaitTimeout(k)
  PROVE  CallsIInv'
<1>1. k.x \in 0..MaxXfers /\ EndsTransfer(k.x, conns \ {k}) /\ k.at = "await"
  BY WorkOf DEF AwaitTimeout, Work
<1>2. SessionGoesOn /\ WorkGoesOn /\ \A j \in conns' : j \in conns \/ Takes0(j)
  BY <1>1, EndsTransferStep
<1>3. AroundIt
  BY Around, Typed DEF AwaitTimeout
<1> QED  BY <1>2, <1>3, Usual, Stays DEF AwaitTimeout

LEMMA StepHandleTransferNoAnswer ==
  ASSUME CallsIInv, NEW k \in conns, HandleTransferNoAnswer(k)
  PROVE  CallsIInv'
<1>1. k.at = "noans" /\ Ends(k) /\ xfer' = [xfer EXCEPT ![k.x].status = "no_answer"]
      /\ SignalOrCleanup(s, "no_answer", log) /\ UNCHANGED <<log, ivr>>
  BY DEF HandleTransferNoAnswer
<1>2. AroundIt
  BY Around, Typed DEF HandleTransferNoAnswer
<1>3. \A j \in conns' : j \in conns
  BY <1>1 DEF Ends
<1>4. xfer' \in Seq(XferRow) /\ Len(xfer') =< MaxXfers /\ ClaimsInv'
  BY <1>1, <1>3, ClaimsClosed
<1> QED  BY <1>1, <1>2, <1>4, SignalOrCleanupStep, WorkEnds, General, Stays

-----------------------------------------------------------------------------
(* The goroutine that watches a waiting transfer                              *)

LEMMA WatchOnly ==
  ASSUME CallsIInv, NEW x \in Xfers, NEW v \in Watch, s' = [s EXCEPT !.watch[x] = v]
  PROVE  SessionGoesOn
<1>1. s.cancel \in 0..MaxXfers /\ s.acc \in 0..MaxXfers
  BY Typed DEF Session
<1>2. s' = [s EXCEPT !.watch[x] = v, !.cancel = s.cancel, !.acc = s.acc]
  BY Typed DEF Session
<1>3. Keeps(s, [s EXCEPT !.watch[x] = v, !.cancel = s.cancel, !.acc = s.acc])
  BY <1>1, Typed, WatchChanges
<1> QED  BY <1>2, <1>3 DEF Keeps, SessionGoesOn

LEMMA WatchType ==
  ASSUME CallsIInv, NEW x \in Xfers
  PROVE  s.watch[x] \in Watch
BY Typed DEF Session

LEMMA GoesStep ==
  ASSUME CallsIInv, NEW x \in Xfers, NEW at \in {"loop", "fallback", "wait2", "done"}, Goes(x, at)
  PROVE  SessionGoesOn
<1> DEFINE v == IF at = "done" THEN Over ELSE [s.watch[x] EXCEPT !.at = at]
<1>1. s' = [s EXCEPT !.watch[x] = v]
  BY DEF Goes
<1>2. v \in Watch
  BY WatchType, IdleWatch DEF Watch
<1> HIDE DEF v
<1> QED  BY <1>1, <1>2, WatchOnly

LEMMA OnlyWatchStep ==
  ASSUME CallsIInv, SessionGoesOn, WorkGoesOn, \A k \in conns' : k \in conns \/ Takes0(k),
         UNCHANGED xfer, OnlyWatch
  PROVE  CallsIInv'
<1>1. AroundIt
  BY Around, Typed DEF OnlyWatch
<1> QED  BY <1>1, Usual, Stays DEF OnlyWatch

LEMMA StepExpire ==
  ASSUME CallsIInv, NEW x \in Xfers, Expire(x)
  PROVE  CallsIInv'
<1> DEFINE v == [s.watch[x] EXCEPT !.ctx = "expired"]
<1>1. s' = [s EXCEPT !.watch[x] = v]
  BY DEF Expire
<1>2. v \in Watch
  BY WatchType DEF Watch
<1> HIDE DEF v
<1>3. SessionGoesOn
  BY <1>1, <1>2, WatchOnly
<1> QED  BY <1>3, OnlyWatchStep, Stays DEF Expire

LEMMA StepStickyEnds ==
  ASSUME CallsIInv, NEW x \in Xfers, StickyEnds(x)
  PROVE  CallsIInv'
<1>1. Keeps(s, Rotating(s, x)) /\ Keeps(s, [Waiting(s, x, "wait") EXCEPT !.acc = x])
  BY Typed, RotatingSame, WaitingSame
<1>2. \/ Goes(x, "done") \/ s' = [s EXCEPT !.watch[x] = Over] \/ s' = Rotating(s, x)
      \/ s' = [Waiting(s, x, "wait") EXCEPT !.acc = x]
  BY DEF StickyEnds
<1>3. SessionGoesOn
  <2>1. CASE Goes(x, "done")
    BY <2>1, GoesStep
  <2>2. CASE s' = [s EXCEPT !.watch[x] = Over]
    BY <2>2, WatchOnly, IdleWatch
  <2>3. CASE s' = Rotating(s, x)
    BY <1>1, <2>3 DEF Keeps, SessionGoesOn
  <2>4. CASE s' = [Waiting(s, x, "wait") EXCEPT !.acc = x]
    BY <1>1, <2>4 DEF Keeps, SessionGoesOn
  <2> QED  BY <1>2, <2>1, <2>2, <2>3, <2>4
<1> QED  BY <1>3, OnlyWatchStep, Stays DEF StickyEnds

LEMMA StepRotateNext ==
  ASSUME CallsIInv, NEW x \in Xfers, RotateNext(x)
  PROVE  CallsIInv'
<1>1. \/ Goes(x, "done") \/ Goes(x, "fallback")
      \/ \E a \in Untried(x), online \in BOOLEAN :
           s' = [s EXCEPT !.watch[x].tried = @ \cup {a},
                          !.watch[x].at = IF online THEN "offer" ELSE "loop"]
  BY DEF RotateNext
<1>2. SessionGoesOn
  <2>1. CASE Goes(x, "done") \/ Goes(x, "fallback")
    BY <2>1, GoesStep
  <2>2. ASSUME NEW a \in Untried(x), NEW online \in BOOLEAN,
               s' = [s EXCEPT !.watch[x].tried = @ \cup {a},
                              !.watch[x].at = IF online THEN "offer" ELSE "loop"]
        PROVE  SessionGoesOn
    <3> DEFINE at == IF online THEN "offer" ELSE "loop"
               v == [s.watch[x] EXCEPT !.tried = s.watch[x].tried \cup {a}, !.at = at]
    <3>1. s.watch \in [Xfers -> Watch] /\ s.watch[x] \in Watch /\ a \in Agents
      BY WatchType, Typed, CallsAssumption DEF Untried, Session
    <3>2. v \in Watch
      BY <3>1 DEF Watch
    <3>3. s' = [s EXCEPT !.watch[x] = v]
      BY <2>2, <3>1, Typed DEF Session, Watch
    <3> HIDE DEF v
    <3> QED  BY <3>2, <3>3, WatchOnly
  <2> QED  BY <1>1, <2>1, <2>2
<1> QED  BY <1>2, OnlyWatchStep, Stays DEF RotateNext

LEMMA StepOfferEnds ==
  ASSUME CallsIInv, NEW x \in Xfers, OfferEnds(x)
  PROVE  CallsIInv'
<1>1. SessionGoesOn
  BY GoesStep DEF OfferEnds
<1> QED  BY <1>1, OnlyWatchStep, Stays DEF OfferEnds

LEMMA NoAnswerStep ==
  ASSUME CallsIInv, NEW x \in Xfers, NoAnswer(x)
  PROVE  SessionGoesOn /\ WorkGoesOn /\ \A k \in conns' : k \in conns \/ Takes0(k)
<1>1. CASE s.ts = "waiting"
  <2> DEFINE w == [s.watch EXCEPT ![x] = Over]
             j == Job(None, x, "noans", FALSE)
  <2>1. s' = [s EXCEPT !.ts = "no_answer", !.watch = w] /\ conns' = conns \cup {j}
    BY <1>1 DEF NoAnswer
  <2>2. w \in [Xfers -> Watch]
    BY Typed, IdleWatch DEF Session
  <2>3. x \in 0..MaxXfers
    BY Bounds
  <2>4. j \in Work /\ j.at = "noans"
    BY <2>3 DEF Job, Work, Stages
  <2> HIDE DEF w, j
  <2>5. s' \in Session
    BY <2>1, <2>2, Typed DEF Session
  <2>6. Carries(s, s')
    BY <2>1, Typed DEF Session, Carries
  <2>7. Quiet(s, s')
    BY <2>1, Typed DEF Session, Quiet
  <2> QED  BY <2>1, <2>4, <2>5, <2>6, <2>7, WorkBegins DEF SessionGoesOn, Takes0
<1>2. CASE s.ts # "waiting"
  <2>1. s' = [s EXCEPT !.watch[x] = Over] /\ UNCHANGED conns
    BY <1>2 DEF NoAnswer
  <2> QED  BY <2>1, WatchOnly, IdleWatch, Stays
<1> QED  BY <1>1, <1>2

LEMMA StepFallback ==
  ASSUME CallsIInv, NEW x \in Xfers, Fallback(x)
  PROVE  CallsIInv'
<1>1. SessionGoesOn /\ WorkGoesOn /\ \A k \in conns' : k \in conns \/ Takes0(k)
  BY GoesStep, NoAnswerStep, Stays DEF Fallback
<1> QED  BY <1>1, OnlyWatchStep DEF Fallback

LEMMA StepWaitForTransferTimeout ==
  ASSUME CallsIInv, NEW x \in Xfers, WaitForTransferTimeout(x)
  PROVE  CallsIInv'
<1>1. SessionGoesOn /\ WorkGoesOn /\ \A k \in conns' : k \in conns \/ Takes0(k)
  BY GoesStep, NoAnswerStep, Stays DEF WaitForTransferTimeout
<1> QED  BY <1>1, OnlyWatchStep DEF WaitForTransferTimeout

-----------------------------------------------------------------------------
(* Hold                                                                       *)

LEMMA StepHoldCall ==
  ASSUME CallsIInv, HoldCall
  PROVE  CallsIInv'
<1>1. s' = [s EXCEPT !.bridge = FALSE, !.hold = TRUE]
  BY DEF HoldCall
<1>2. SessionGoesOn
  BY <1>1, Typed DEF SessionGoesOn, Session, Carries, Quiet
<1>3. AroundIt
  BY Around, Typed DEF HoldCall
<1> QED  BY <1>2, <1>3, Usual, Stays DEF HoldCall

LEMMA StepResumeCall ==
  ASSUME CallsIInv, ResumeCall
  PROVE  CallsIInv'
<1> DEFINE j == Job(s.pc, 0, "snap", s.track)
<1>1. s' = [s EXCEPT !.hold = FALSE] /\ conns' = conns \cup {j}
  BY DEF ResumeCall
<1>2. j \in Work /\ j.at = "snap" /\ j.x = 0
  BY Typed, Bounds DEF Job, Work, Stages, Session
<1> HIDE DEF j
<1>3. SessionGoesOn
  BY <1>1, Typed DEF SessionGoesOn, Session, Carries, Quiet
<1>4. AroundIt
  BY Around, Typed DEF ResumeCall
<1>5. WorkGoesOn /\ \A i \in conns' : i \in conns \/ Takes0(i)
  BY <1>1, <1>2, WorkBegins DEF Takes0
<1> QED  BY <1>3, <1>4, <1>5, Usual, Stays DEF ResumeCall

-----------------------------------------------------------------------------
(* The voice menu                                                             *)

LEMMA ResolvedMenu ==
  ASSUME NEW n \in Nodes, NEW o
  PROVE  Resolved(n, o) \in Menu /\ Resolved(n, o).at \in {"run", "done"}
<1>1. Finished \in Menu /\ Finished.at = "done"
  BY CallsAssumption DEF Finished, Menu
<1>2. \A e \in DOMAIN Graph[n].edges : [at |-> "run", node |-> Graph[n].edges[e]] \in Menu
  BY CallsAssumption DEF Menu
<1> DEFINE edge == IF o \in DOMAIN Graph[n].edges THEN o ELSE "default"
<1>3. Resolved(n, o) = IF edge \in DOMAIN Graph[n].edges THEN [at |-> "run", node |-> Graph[n].edges[edge]]
                       ELSE Finished
  BY DEF Resolved
<1> HIDE DEF edge, Finished
<1>4. CASE edge \in DOMAIN Graph[n].edges
  BY <1>2, <1>3, <1>4
<1>5. CASE edge \notin DOMAIN Graph[n].edges
  BY <1>1, <1>3, <1>5
<1> QED  BY <1>4, <1>5

(* The menu goes on, from a state in which it ran. *)
LEMMA MenuRuns ==
  ASSUME CallsIInv, ivr.at # "off", ivr' \in Menu, ivr'.at \in {"run", "done"}
  PROVE  MenuGoesOn
BY DEF MenuGoesOn

LEMMA FinishedMenu == Finished \in Menu /\ Finished.at = "done"
BY CallsAssumption DEF Finished, Menu

LEMMA OnlyMenuStep ==
  ASSUME CallsIInv, MenuGoesOn, UNCHANGED <<s, xfer, log, conns, caller, due, out, ops>>
  PROVE  CallsIInv'
<1>1. AroundIt
  BY Around, Typed
<1> QED  BY <1>1, Usual, Stays

LEMMA StepLoopStops ==
  ASSUME CallsIInv, LoopStops
  PROVE  CallsIInv'
<1>1. MenuGoesOn
  BY MenuRuns, FinishedMenu DEF LoopStops
<1> QED  BY <1>1, OnlyMenuStep DEF LoopStops

LEMMA StepExecuteNode ==
  ASSUME CallsIInv, ExecuteNode
  PROVE  CallsIInv'
<1>1. PICK o \in Outcomes(ivr.node) : ivr' = Resolved(ivr.node, o)
  BY DEF ExecuteNode
<1>2. ivr.node \in Nodes
  BY Typed DEF Menu
<1>3. MenuGoesOn
  BY <1>1, <1>2, ResolvedMenu, MenuRuns DEF ExecuteNode, Running
<1> QED  BY <1>3, OnlyMenuStep DEF ExecuteNode

(* The menu waits only after the session was given the channel to tell it. *)
LEMMA StepExecuteTransfer ==
  ASSUME CallsIInv, ExecuteTransfer
  PROVE  CallsIInv'
<1> DEFINE returns == DOMAIN Here.edges # {}
           d == s.done \/ returns
           c == IF returns THEN "empty" ELSE s.chan
           q == [s EXCEPT !.done = d, !.chan = c]
           m == [ivr EXCEPT !.at = IF returns THEN "await" ELSE "done",
                            !.node = IF returns THEN ivr.node ELSE Entry]
<1>1. InitiateTransfer(q, Here.team) /\ ivr' = m /\ ivr.at = "run" /\ UNCHANGED <<conns, caller, due, out, ops>>
  BY DEF ExecuteTransfer, Running
<1>2. Here.team \in BOOLEAN
  BY Typed, CallsAssumption DEF Here, Menu
<1>3. d \in BOOLEAN /\ c \in {"empty", "completed", "no_answer", "closed"}
      /\ (returns => d) /\ (s.done \/ s.chan # "empty" => d \/ c # "empty")
  BY Typed DEF Session
<1>4. m \in Menu /\ m.at # "off" /\ (m.at = "await" => returns)
  BY Typed, CallsAssumption DEF Menu
<1> HIDE DEF returns, d, c, m
<1>5. q \in Session
  BY <1>3, Typed DEF Session
<1>6. Carries(s, q)
  BY <1>3, Typed DEF Session, Carries
<1>7. Quiet(s, q)
  BY Typed DEF Session, Quiet
<1>8. q.done = d
  BY Typed DEF Session
<1> HIDE DEF q
<1>9. \A k \in conns' : k \in conns
  BY <1>1
<1>10. /\ SessionGoesOn /\ (q.done => s'.done) /\ LogGoesOn
       /\ xfer' \in Seq(XferRow) /\ Len(xfer') =< MaxXfers /\ ClaimsInv'
  BY <1>1, <1>2, <1>5, <1>6, <1>7, <1>9, InitiateTransferStep
<1>11. AwaitIsAnswered'
  BY <1>1, <1>3, <1>4, <1>8, <1>10 DEF AwaitIsAnswered
<1>12. AroundIt
  BY <1>1, Around, Typed
<1>13. LifeGoesOn
  BY <1>1, <1>4, <1>10, Stays DEF LifeGoesOn, SessionGoesOn, LogGoesOn, WorkGoesOn
<1>14. AudioInv'
  BY <1>1, <1>10, AudioStep DEF SessionGoesOn, Starting
<1> QED  BY <1>10, <1>11, <1>12, <1>13, <1>14, Step

LEMMA StepTransferReturns ==
  ASSUME CallsIInv, TransferReturns
  PROVE  CallsIInv'
<1>1. ivr.node \in Nodes
  BY Typed DEF Menu
<1>2. MenuGoesOn
  BY <1>1, ResolvedMenu, MenuRuns DEF TransferReturns
<1> QED  BY <1>2, OnlyMenuStep DEF TransferReturns

LEMMA StepExecuteGotoFlow ==
  ASSUME CallsIInv, ExecuteGotoFlow
  PROVE  CallsIInv'
<1>1. ivr' = [ivr EXCEPT !.node = Entry] \/ ivr' = Finished
  BY DEF ExecuteGotoFlow
<1>2. ivr.at = "run"
  BY DEF ExecuteGotoFlow, Running
<1>3. [ivr EXCEPT !.node = Entry] \in Menu /\ [ivr EXCEPT !.node = Entry].at = "run"
  BY <1>2, Typed, CallsAssumption DEF Menu
<1>4. MenuGoesOn
  BY <1>1, <1>2, <1>3, FinishedMenu, MenuRuns
<1> QED  BY <1>4, OnlyMenuStep DEF ExecuteGotoFlow

LEMMA StepExecuteHangup ==
  ASSUME CallsIInv, ExecuteHangup
  PROVE  CallsIInv'
<1>1. MenuGoesOn
  BY FinishedMenu, MenuRuns DEF ExecuteHangup, Running
<1>2. AroundIt
  BY Around DEF ExecuteHangup
<1> QED  BY <1>1, <1>2, Usual, Stays DEF ExecuteHangup

LEMMA StepPostCallIVREnds ==
  ASSUME CallsIInv, PostCallIVREnds
  PROVE  CallsIInv'
<1> DEFINE l == [log EXCEPT !.status = "completed"]
<1>1. log' = l /\ Cleanup(s, l) /\ Terminate /\ UNCHANGED <<xfer, ivr, conns, ops>>
  BY DEF PostCallIVREnds
<1>2. LogGoesOn
  BY <1>1, LogSet
<1>3. AroundIt
  BY <1>1, Around
<1> HIDE DEF l
<1> QED  BY <1>1, <1>2, <1>3, CleanupNow, Usual, Stays

-----------------------------------------------------------------------------
(* The invariant holds                                                        *)

LEMMA InitInv == Init => CallsIInv
<1> SUFFICES ASSUME Init PROVE CallsIInv
  OBVIOUS
<1>1. s \in Session /\ s.st = "none" /\ ~s.live /\ s.neg = "no" /\ ~s.bridge
  BY NoSessionState DEF Init
<1>2. /\ xfer = << >> /\ out = << >> /\ conns = {} /\ log \in LogRow /\ ivr \in Menu /\ ivr.at = "off"
      /\ caller = "none" /\ due = {} /\ ops \in 0..MaxOps
  BY CallsAssumption, Bounds DEF Init, LogRow, Menu
<1>3. xfer \in Seq(XferRow) /\ Len(xfer) =< MaxXfers /\ out \in Seq(Event) /\ Len(out) =< 1
  BY <1>2, Bounds
<1>4. TypeOK
  BY <1>1, <1>2, <1>3 DEF TypeOK, XferRow, LogRow, Menu, Event
<1>5. LifeInv
  BY <1>1, <1>2, <1>3 DEF LifeInv, OneOutcome
<1>6. AwaitIsAnswered /\ AudioInv
  BY <1>1, <1>2 DEF AwaitIsAnswered, AudioInv
<1>7. ClaimsInv
  BY <1>2 DEF ClaimsInv
<1> QED  BY <1>4, <1>5, <1>6, <1>7 DEF CallsIInv

LEMMA StutterInv == CallsIInv /\ UNCHANGED vars => CallsIInv'
<1> SUFFICES ASSUME CallsIInv, UNCHANGED vars PROVE CallsIInv'
  OBVIOUS
<1>1. AroundIt
  BY Around, Typed DEF vars
<1> QED  BY <1>1, Usual, Stays DEF vars

LEMMA PeopleInv == CallsIInv /\ People => CallsIInv'
<1> SUFFICES ASSUME CallsIInv, People PROVE CallsIInv'
  OBVIOUS
<1>1. CASE WebhookRinging \/ WebhookConnect \/ WebhookInCall \/ CallerHangsUp \/ WebhookMissed
  BY <1>1, StepWebhookRinging, StepWebhookConnect, StepWebhookInCall, StepCallerHangsUp, StepWebhookMissed
<1>2. CASE \E a \in Agents : InitiateOutgoingCall(a)
  BY <1>2, StepInitiateOutgoingCall
<1>3. CASE ProcessCallStatusWebhook \/ OutgoingProgress("connect", TRUE)
  BY <1>3, StepOutgoingProgress DEF ProcessCallStatusWebhook
<1>4. CASE OutgoingRejected \/ \E flow \in BOOLEAN : HangupOutgoingCall(flow)
  BY <1>4, StepOutgoingRejected, StepHangupOutgoingCall
<1>5. CASE \E target \in Members \cup {None} : AgentTransferBegins(target)
  BY <1>5, StepAgentTransferBegins
<1>6. CASE \E a \in Agents, x \in DOMAIN xfer : ConnectCallTransfer(a, x)
  BY <1>6, StepConnectCallTransfer
<1>7. CASE (\E x \in Xfers : HangupCallTransfer(x)) \/ AgentDisconnects \/ HoldCall \/ ResumeCall
  BY <1>7, StepHangupCallTransfer, StepAgentDisconnects, StepHoldCall, StepResumeCall
<1> QED  BY <1>1, <1>2, <1>3, <1>4, <1>5, <1>6, <1>7 DEF People

LEMMA HandlerInv ==
  ASSUME CallsIInv, NEW k \in conns, Handler(k)
  PROVE  CallsIInv'
<1>1. CASE StickyTransfer(k) \/ InitiateAgentTransfer(k) \/ ClaimTransfer(k) \/ ConnectRefused(k)
           \/ ConnectAgentToTransfer(k) \/ SetupFails(k)
  BY <1>1, StepStickyTransfer, StepInitiateAgentTransfer, StepClaimTransfer, StepConnectRefused,
     StepConnectAgentToTransfer, StepSetupFails
<1>2. CASE SetupDone(k) \/ AgentTrackArrives(k) \/ CompleteTransferConnection(k) \/ SetupAudioBridge(k)
           \/ StartBridge(k) \/ ConnectedWrite(k)
  BY <1>2, StepSetupDone, StepAgentTrackArrives, StepCompleteTransferConnection, StepSetupAudioBridge,
     StepStartBridge, StepConnectedWrite
<1>3. CASE EndTransfer(k) \/ AwaitTimeout(k) \/ HandleTransferNoAnswer(k) \/ OutgoingRefused(k) \/ OutgoingStored(k)
  BY <1>3, StepEndTransfer, StepAwaitTimeout, StepHandleTransferNoAnswer, StepOutgoingRefused, StepOutgoingStored
<1> QED  BY <1>1, <1>2, <1>3 DEF Handler

LEMMA SystemInv == CallsIInv /\ System => CallsIInv'
<1> SUFFICES ASSUME CallsIInv, System PROVE CallsIInv'
  OBVIOUS
<1>1. CASE NegotiateWebRTC \/ NegotiateFails \/ OnTrack \/ SDPTimeout
  BY <1>1, StepNegotiateWebRTC, StepNegotiateFails, StepOnTrack, StepSDPTimeout
<1>2. CASE WebhookEnded \/ OutgoingEnded \/ MediaLost
  BY <1>2, StepWebhookEnded, StepOutgoingEnded, StepMediaLost
<1>3. CASE RunIVRFlow
  BY <1>3, StepLoopStops, StepExecuteNode, StepExecuteTransfer, StepTransferReturns, StepExecuteGotoFlow,
     StepExecuteHangup, StepPostCallIVREnds DEF RunIVRFlow
<1>4. CASE \E k \in conns : Handler(k)
  BY <1>4, HandlerInv
<1>5. CASE \E x \in Xfers : Expire(x) \/ Watcher(x)
  BY <1>5, StepExpire, StepStickyEnds, StepRotateNext, StepOfferEnds, StepFallback,
     StepWaitForTransferTimeout DEF Watcher
<1> QED  BY <1>1, <1>2, <1>3, <1>4, <1>5 DEF System

(* The life of a session, the audio of its bridge and the claims on its       *)
(* transfers are in order in every state the call manager reaches.            *)
THEOREM CallsInvariant == Spec => []CallsIInv
<1>1. CallsIInv /\ [Next]_vars => CallsIInv'
  BY PeopleInv, SystemInv, StutterInv DEF Next
<1> QED  BY <1>1, InitInv, PTL DEF Spec

(* Whatever the order of accepts, hangups, timeouts and webhooks: a caller    *)
(* whose bridge was started is heard, a menu that waits will be told how its  *)
(* transfer ended, and one outcome is published (session.go, transfer.go,     *)
(* ivr.go).                                                                   *)
THEOREM CallsAreSound == Spec => []CallsInv
<1>1. CallsIInv => CallsInv
  BY DEF CallsIInv, CallsInv, LifeInv, AudioInv, NoOneWayAudio
<1> QED  BY <1>1, CallsInvariant, PTL

-----------------------------------------------------------------------------
(* A row an agent was connected to                                            *)

(* A row, once there, keeps the record that an agent was connected. *)
ConnectedKept ==
  \A x \in DOMAIN xfer : xfer[x].connectedAt => x \in DOMAIN xfer' /\ xfer'[x].connectedAt

LEMMA KeptSame == ASSUME UNCHANGED xfer PROVE ConnectedKept
BY DEF ConnectedKept

LEMMA KeptAppend ==
  ASSUME CallsIInv, NEW row, xfer' = Append(xfer, row)
  PROVE  ConnectedKept
<1>1. xfer \in Seq(XferRow)
  BY Typed
<1> QED  BY <1>1 DEF ConnectedKept

LEMMA KeptStatus ==
  ASSUME CallsIInv, NEW i, NEW v, xfer' = [xfer EXCEPT ![i].status = v]
  PROVE  ConnectedKept
<1>1. \A x \in DOMAIN xfer : xfer[x] \in XferRow
  BY Typed
<1>2. DOMAIN xfer' = DOMAIN xfer
  OBVIOUS
<1>3. \A x \in DOMAIN xfer : xfer'[x] = xfer[x] \/ xfer'[x] = [xfer[x] EXCEPT !.status = v]
  OBVIOUS
<1>4. \A x \in DOMAIN xfer : [xfer[x] EXCEPT !.status = v].connectedAt = xfer[x].connectedAt
  BY <1>1 DEF XferRow
<1> QED  BY <1>2, <1>3, <1>4 DEF ConnectedKept

LEMMA KeptWrite ==
  ASSUME CallsIInv, NEW i, xfer' = [xfer EXCEPT ![i] = [@ EXCEPT !.status = "connected", !.connectedAt = TRUE]]
  PROVE  ConnectedKept
<1>1. \A x \in DOMAIN xfer : xfer[x] \in XferRow
  BY Typed
<1>2. DOMAIN xfer' = DOMAIN xfer
  OBVIOUS
<1>3. \A x \in DOMAIN xfer :
        xfer'[x] = xfer[x] \/ xfer'[x] = [xfer[x] EXCEPT !.status = "connected", !.connectedAt = TRUE]
  OBVIOUS
<1>4. \A x \in DOMAIN xfer : [xfer[x] EXCEPT !.status = "connected", !.connectedAt = TRUE].connectedAt
  BY <1>1 DEF XferRow
<1> QED  BY <1>2, <1>3, <1>4 DEF ConnectedKept

LEMMA KeptTransfer ==
  ASSUME CallsIInv, NEW q, NEW team, InitiateTransfer(q, team)
  PROVE  ConnectedKept
BY KeptAppend, KeptSame DEF InitiateTransfer

LEMMA KeptHandler ==
  ASSUME CallsIInv, NEW k \in conns, Handler(k)
  PROVE  ConnectedKept
<1>1. CASE StickyTransfer(k) \/ InitiateAgentTransfer(k)
  BY <1>1, KeptTransfer, KeptAppend, KeptSame DEF StickyTransfer, InitiateAgentTransfer
<1>2. CASE ClaimTransfer(k) \/ EndTransfer(k) \/ HandleTransferNoAnswer(k)
  BY <1>2, KeptStatus, KeptSame DEF ClaimTransfer, EndTransfer, HandleTransferNoAnswer
<1>3. CASE ConnectAgentToTransfer(k) \/ SetupFails(k)
  <2>1. UNCHANGED xfer \/ xfer' = Reverted(k.x)
    BY <1>3 DEF ConnectAgentToTransfer, SetupFails
  <2>2. ASSUME xfer' = Reverted(k.x) PROVE ConnectedKept
    <3> DEFINE v == IF xfer[k.x].status = "connected" THEN "waiting" ELSE xfer[k.x].status
    <3>1. xfer' = [xfer EXCEPT ![k.x].status = v]
      BY <2>2 DEF Reverted
    <3> HIDE DEF v
    <3> QED  BY <3>1, KeptStatus
  <2> QED  BY <2>1, <2>2, KeptSame
<1>4. CASE ConnectedWrite(k)
  BY <1>4, KeptWrite DEF ConnectedWrite
<1>5. CASE ConnectRefused(k) \/ SetupDone(k) \/ AgentTrackArrives(k) \/ CompleteTransferConnection(k)
           \/ SetupAudioBridge(k) \/ StartBridge(k) \/ AwaitTimeout(k) \/ OutgoingRefused(k) \/ OutgoingStored(k)
  BY <1>5, KeptSame DEF ConnectRefused, SetupDone, AgentTrackArrives, CompleteTransferConnection,
     SetupAudioBridge, StartBridge, AwaitTimeout, OutgoingRefused, OutgoingStored
<1> QED  BY <1>1, <1>2, <1>3, <1>4, <1>5 DEF Handler

LEMMA KeptElse ==
  ASSUME CallsIInv, People \/ (System /\ ~\E k \in conns : Handler(k))
  PROVE  ConnectedKept
<1>1. CASE People
  <2>1. UNCHANGED xfer
    BY <1>1 DEF People, WebhookRinging, WebhookConnect, WebhookInCall, CallerHangsUp, WebhookMissed,
       InitiateOutgoingCall, ProcessCallStatusWebhook, OutgoingProgress, OutgoingRejected, HangupOutgoingCall,
       AgentTransferBegins, ConnectCallTransfer, HangupCallTransfer, AgentDisconnects, HoldCall, ResumeCall
  <2> QED  BY <2>1, KeptSame
<1>2. CASE ExecuteTransfer
  BY <1>2, KeptTransfer DEF ExecuteTransfer
<1>3. CASE System /\ ~(\E k \in conns : Handler(k)) /\ ~ExecuteTransfer
  <2>1. CASE NegotiateWebRTC \/ NegotiateFails \/ OnTrack \/ SDPTimeout \/ WebhookEnded \/ OutgoingEnded \/ MediaLost
    BY <2>1, KeptSame DEF NegotiateWebRTC, NegotiateFails, OnTrack, SDPTimeout, WebhookEnded, OutgoingEnded, MediaLost
  <2>2. CASE LoopStops \/ ExecuteNode \/ TransferReturns \/ ExecuteGotoFlow \/ ExecuteHangup \/ PostCallIVREnds
    BY <2>2, KeptSame DEF LoopStops, ExecuteNode, TransferReturns, ExecuteGotoFlow, ExecuteHangup, PostCallIVREnds
  <2>3. CASE \E x \in Xfers : Expire(x) \/ Watcher(x)
    BY <2>3, KeptSame DEF Expire, Watcher, StickyEnds, RotateNext, OfferEnds, Fallback, WaitForTransferTimeout
  <2> QED  BY <1>3, <2>1, <2>2, <2>3 DEF System, RunIVRFlow
<1> QED  BY <1>1, <1>2, <1>3

(* No accept that fails late, and no second one, puts a transfer an agent was *)
(* connected to back on offer: only the one who claimed the row gives it      *)
(* back, and only before the write that records the agent (call_transfers.go).*)
THEOREM ConnectedStays == Spec => ConnectedNotReoffered
<1> DEFINE Kept == \A x \in DOMAIN xfer : xfer[x].connectedAt => xfer'[x].status # "waiting"
<1>1. CallsIInv /\ CallsIInv' /\ [Next]_vars => [Kept]_vars
  <2> SUFFICES ASSUME CallsIInv, CallsIInv', Next PROVE Kept
    OBVIOUS
  <2>1. ConnectedKept
    BY KeptHandler, KeptElse DEF Next
  <2>2. \A x \in DOMAIN xfer' : xfer'[x].connectedAt => xfer'[x].status # "waiting"
    BY DEF CallsIInv, ClaimsInv
  <2> QED  BY <2>1, <2>2 DEF ConnectedKept
<1>2. Spec => [][Kept]_vars
  BY <1>1, CallsInvariant, PTL DEF Spec
<1> QED  BY <1>2 DEF ConnectedNotReoffered
=============================================================================
