------------------------------- MODULE Calls -------------------------------
(***************************************************************************)
(* One phone call: the session the call manager keeps for it, the voice    *)
(* menu (IVR) that answers it, the transfers that ring agents, and the     *)
(* call log in the database.  Every wait of the manager is a goroutine of  *)
(* its own, so an accept, a timeout, a hangup and a webhook may meet in    *)
(* any order.                                                              *)
(*                                                                         *)
(* A step is what the code does between two releases of the session lock   *)
(* or between two database writes that another handler can slip between.   *)
(* Audio, SDP and RTP are reduced to whether a leg is up; a context is     *)
(* live, expired or cancelled; a channel is empty, holds a value or is     *)
(* closed.                                                                 *)
(***************************************************************************)
EXTENDS Naturals, Sequences, FiniteSets

CONSTANTS
  Agents,
  Members,      \* the agents of the one team
  None,
  Nodes, Entry, \* the IVR flow graph
  Graph,        \* node -> [type, team, edges: outcome -> node]
  MaxXfers,     \* bound: transfer rows
  MaxOps        \* bound: requests of people

ASSUME CallsAssumption ==
  /\ Members \subseteq Agents /\ None \notin Agents
  /\ Entry \in Nodes /\ DOMAIN Graph = Nodes
  /\ \A n \in Nodes : /\ Graph[n].team \in BOOLEAN
                       /\ \A o \in DOMAIN Graph[n].edges : Graph[n].edges[o] \in Nodes
  /\ {MaxXfers, MaxOps} \subseteq Nat

VARIABLES
  s,       \* the session object, its IVR channel and the transfer watchers
  xfer,    \* call_transfers, in creation order
  log,     \* the call_logs row
  ivr,     \* the IVR goroutine
  conns,   \* handlers and goroutines in the middle of their work
  caller,  \* the customer's phone
  due,     \* notices of the end of the call still to be delivered
  out,     \* call events published
  ops

vars == <<s, xfer, log, ivr, conns, caller, due, out, ops>>

Xfers == 1..MaxXfers
Idle == [at |-> "off", ctx |-> "live", tried |-> {}, accepted |-> FALSE]

Over == [Idle EXCEPT !.at = "done"]

Watch == [at: {"off", "sticky", "loop", "offer", "fallback", "wait",
               "wait2", "done"},
          ctx: {"live", "expired", "cancelled"},
          tried: SUBSET Agents, accepted: BOOLEAN]

Session ==
  [live: BOOLEAN, dir: {"in", "out"}, neg: {"no", "pending", "done"},
   sticky: BOOLEAN, flow: BOOLEAN,
   st: {"none", "initiating", "ringing", "answered", "completed"},
   ts: {"none", "waiting", "connected", "completed", "no_answer"},
   tid: 0..MaxXfers, pc: Agents \cup {None}, bridge: BOOLEAN, att: BOOLEAN, with: Agents \cup {None},
   track: BOOLEAN, hold: BOOLEAN, done: BOOLEAN,
   chan: {"empty", "completed", "no_answer", "closed"},
   acc: 0..MaxXfers, cancel: 0..MaxXfers, skipped: BOOLEAN,
   watch: [Xfers -> Watch]]

Stages == {"read", "claimed", "setup", "await", "track", "snap", "bridged",
           "write", "end", "noans", "init", "api", "ring"}

TypeOK ==
  /\ s \in Session
  /\ xfer \in Seq([status: {"waiting", "connected", "completed", "no_answer"},
                   team: BOOLEAN, connectedAt: BOOLEAN])
  /\ Len(xfer) <= MaxXfers
  /\ log \in [status: {"none", "initiating", "ringing", "answered", "transferring",
                       "completed", "missed", "rejected", "failed"},
              agent: BOOLEAN, answered: BOOLEAN]
  /\ ivr \in [at: {"off", "run", "await", "done"}, node: Nodes]
  /\ conns \subseteq [agent: Agents \cup {None}, x: 0..MaxXfers, at: Stages, flag: BOOLEAN]
  /\ caller \in {"none", "on", "gone"}
  /\ due \subseteq {"ended", "media"}
  /\ out \in Seq({"call.completed", "call.missed"})
  /\ ops \in 0..MaxOps

NewSession(dir, sticky, flow) ==
  [live |-> TRUE, dir |-> dir, neg |-> "no", sticky |-> sticky,
   flow |-> flow, st |-> "ringing", ts |-> "none", tid |-> 0, pc |-> None,
   bridge |-> FALSE, att |-> FALSE, with |-> None, track |-> FALSE, hold |-> FALSE, done |-> FALSE,
   chan |-> "empty", acc |-> 0, cancel |-> 0, skipped |-> FALSE,
   watch |-> [x \in Xfers |-> Idle]]

NoSession == [NewSession("in", FALSE, FALSE) EXCEPT !.live = FALSE, !.st = "none"]

Init ==
  /\ s = NoSession /\ xfer = <<>>
  /\ log = [status |-> "none", agent |-> FALSE, answered |-> FALSE]
  /\ ivr = [at |-> "off", node |-> Entry]
  /\ conns = {} /\ caller = "none" /\ due = {} /\ out = <<>> /\ ops = 0

Request == ops < MaxOps /\ ops' = ops + 1
\* bound: a webhook that comes again or late uses up the requests
LateWebhook == ops = 0 /\ ops' = MaxOps
Late(again) == IF again THEN LateWebhook ELSE ops' = ops
Job(a, x, at, flag) == [agent |-> a, x |-> x, at |-> at, flag |-> flag]
Moves(k, at) == conns' = (conns \ {k}) \cup {[k EXCEPT !.at = at]}
Ends(k) == conns' = conns \ {k}

-----------------------------------------------------------------------------
(* What the manager does to a session *)

\* session.TransferCancel()
Cancelled(q) ==
  IF q.cancel = 0 \/ q.watch[q.cancel].ctx # "live" \/ q.watch[q.cancel].at = "done" THEN q
  ELSE [q EXCEPT !.watch[q.cancel].ctx = "cancelled"]

\* safeClose(session.TransferAccepted)
Accepted(q) == IF q.acc = 0 \/ q.watch[q.acc].at = "done" THEN q ELSE [q EXCEPT !.watch[q.acc].accepted = TRUE]

Cleanable(q) == q.live /\ q.ts # "waiting"

\* cleanupSession: nothing while a transfer waits; otherwise out of the map,
\* every resource released and an IVR that waits let go
Cleaned(q) ==
  IF ~q.live THEN q
  ELSE IF q.ts = "waiting" THEN [q EXCEPT !.skipped = TRUE]
  ELSE [Cancelled(q) EXCEPT !.live = FALSE, !.bridge = FALSE, !.hold = FALSE, !.pc = None,
                            !.cancel = 0, !.done = FALSE, !.track = FALSE, !.att = FALSE, !.with = None,
                            !.chan = IF q.done THEN "closed" ELSE @]

\* callEventType
CallEventType(l) ==
  CASE l.status = "completed" -> IF l.answered THEN <<"call.completed">> ELSE <<"call.missed">>
    [] l.status \in {"missed", "rejected", "failed"} -> <<"call.missed">>
    [] OTHER -> <<>>

\* publishCallOutcome: by the cleanup that took the session out of the map
PublishCallOutcome(q, l) == IF Cleanable(q) THEN CallEventType(l) ELSE <<>>

\* cleanupSession as a step, with the log as it then is
Cleanup(q, l) == s' = Cleaned(q) /\ out' = out \o PublishCallOutcome(q, l)

\* the IVR that waits is told how its transfer ended; otherwise the call is over
SignalOrCleanup(q, v, l) ==
  IF q.done THEN /\ s' = [q EXCEPT !.done = FALSE, !.chan = v] /\ out' = out
  ELSE Cleanup(q, l)

\* terminateCall: the customer's leg ends, unless the API call fails
Terminate == \/ caller' = caller /\ due' = due
             \/ /\ caller = "on" /\ caller' = "gone"
                /\ due' = due \cup {"ended", "media"}

-----------------------------------------------------------------------------
(* An incoming call *)

\* the log a new row starts with, its IVR flow by account and flag
GetOrCreateCallLog == IF log.status = "none" THEN [log EXCEPT !.status = "ringing"] ELSE log

\* HandleIncomingCall: a sticky call bypasses the IVR
HandleIncomingCall(sticky, flow) ==
  s' = [NewSession("in", sticky, flow /\ ~sticky) EXCEPT !.neg = "pending"]

\* resolveStickyAgent: the agent who sent the call button, when still eligible
ResolveStickyAgent == BOOLEAN

\* HandleCallEvent: only connect and in_call reach it
HandleCallEvent == s' = [s EXCEPT !.st = "answered"]

WebhookRinging ==
  /\ caller = "none" /\ log.status = "none"
  /\ log' = GetOrCreateCallLog /\ caller' = "on"
  /\ UNCHANGED <<s, xfer, ivr, conns, due, out, ops>>

\* "connect" with the SDP offer: the first creates the session
WebhookConnect ==
  /\ caller # "gone" /\ (log.status = "none" => caller = "none")
  /\ log.status \in {"none", "ringing", "answered", "transferring"} /\ s.dir = "in"
  /\ log' = [GetOrCreateCallLog EXCEPT !.status = "answered", !.answered = TRUE]
  /\ caller' = "on"
  /\ IF s = NoSession
     THEN ops' = ops /\ \E sticky \in ResolveStickyAgent, flow \in BOOLEAN :
                            HandleIncomingCall(sticky, flow)
     ELSE s.live /\ LateWebhook /\ HandleCallEvent
  /\ UNCHANGED <<xfer, ivr, conns, due, out>>

\* "in_call", possibly late: the log is answered again whatever happened since
WebhookInCall ==
  /\ LateWebhook /\ s.dir = "in" /\ s # NoSession
  /\ log' = [log EXCEPT !.status = "answered", !.answered = TRUE]
  /\ IF s.live THEN HandleCallEvent ELSE UNCHANGED s
  /\ UNCHANGED <<xfer, ivr, conns, caller, due, out>>

\* negotiateWebRTC, up to a media path; a refusal leaves the session behind
\* until the end of the call is reported
NegotiateFails ==
  /\ s.neg = "pending" /\ s.dir = "in"
  /\ s' = [s EXCEPT !.neg = "no"]
  /\ Terminate
  /\ UNCHANGED <<xfer, log, ivr, conns, out, ops>>

NegotiateWebRTC ==
  /\ s.neg = "pending" /\ s.dir = "in"
  /\ s' = [s EXCEPT !.neg = "done", !.st = "answered"]
  /\ ivr' = IF s.flow /\ ~s.sticky THEN [at |-> "run", node |-> Entry] ELSE ivr
  /\ conns' = IF s.sticky THEN conns \cup {Job(None, 0, "ring", FALSE)} ELSE conns
  /\ UNCHANGED <<xfer, log, caller, due, out, ops>>

\* OnTrack: a late caller track is wired into the bridge that already runs;
\* on an outgoing call its arrival starts the bridge
OnTrack ==
  /\ s.live /\ ~s.track /\ caller = "on" /\ s.neg = "done"
  /\ s' = [s EXCEPT !.track = TRUE,
             !.att = @ \/ (s.pc # None /\ (s.bridge \/ s.dir = "out")),
             !.bridge = @ \/ (s.pc # None /\ s.dir = "out"),
             !.with = IF s.pc # None /\ s.dir = "out" THEN s.pc ELSE @]
  /\ UNCHANGED <<xfer, log, ivr, conns, caller, due, out, ops>>

-----------------------------------------------------------------------------
(* The end of a call, as the manager hears of it *)

CallerHangsUp ==
  /\ Request /\ caller = "on" /\ s # NoSession
  /\ caller' = "gone" /\ due' = due \cup {"ended", "media"}
  /\ UNCHANGED <<s, xfer, log, ivr, conns, out>>

\* missed when no agent was ever reached, unless it was being transferred
FinalStatus(l) == IF ~l.agent /\ l.status # "transferring" THEN "missed" ELSE "completed"

\* the error object a call event may carry overrides the status
WithError(l, err) == IF err THEN [l EXCEPT !.status = "failed"] ELSE l

WebhookEnded ==
  /\ "ended" \in due /\ s.dir = "in"
  /\ due' = due \ {"ended"}
  /\ \E err \in BOOLEAN :
       LET ended == [log EXCEPT !.status = FinalStatus(log)]
       IN Cleanup(s, ended) /\ log' = WithError(ended, err)
  /\ UNCHANGED <<xfer, ivr, conns, caller, ops>>

\* "missed" and "unanswered" mark the log and tell the manager nothing
WebhookMissed ==
  /\ LateWebhook /\ caller = "gone" /\ s.dir = "in"
  /\ log' = [log EXCEPT !.status = "missed"]
  /\ UNCHANGED <<s, xfer, ivr, conns, caller, due, out>>

\* the caller's peer connection fails: EndCall
MediaLost ==
  /\ "media" \in due /\ due' = due \ {"media"}
  /\ IF s.neg = "done" THEN Cleanup(s, log) ELSE UNCHANGED <<s, out>>
  /\ UNCHANGED <<xfer, log, ivr, conns, caller, ops>>

-----------------------------------------------------------------------------
(* An outgoing call *)

\* the log row, both peer connections and the API call; the session is in the
\* map only after the API has answered
InitiateOutgoingCall(a) ==
  /\ caller = "none" /\ log.status = "none"
  /\ log' = [log EXCEPT !.status = "initiating", !.agent = TRUE]
  /\ conns' = conns \cup {Job(a, 0, "api", FALSE)}
  /\ s' = [NoSession EXCEPT !.dir = "out"]
  /\ caller' = "on"
  /\ UNCHANGED <<xfer, ivr, due, out, ops>>

OutgoingRefused(k) ==
  /\ k.at = "api" /\ Ends(k)
  /\ log' = [log EXCEPT !.status = "failed"]
  /\ caller' = "gone"
  /\ UNCHANGED <<s, xfer, ivr, due, out, ops>>

OutgoingStored(k) ==
  /\ k.at = "api" /\ Ends(k)
  /\ s' = [NewSession("out", FALSE, FALSE) EXCEPT !.st = "initiating", !.neg = "pending", !.pc = k.agent]
  /\ UNCHANGED <<xfer, log, ivr, caller, due, out, ops>>

\* waitForWASDPAnswer: half a minute
SDPTimeout ==
  /\ s.live /\ s.dir = "out" /\ s.neg = "pending"
  /\ Cleanup([s EXCEPT !.neg = "no"], log)
  /\ UNCHANGED <<xfer, log, ivr, conns, caller, due, ops>>

\* HandleOutgoingCallWebhook: "ringing" and "accepted"/"connect"; before the
\* session is stored they are lost
OutgoingProgress(event, sdp) ==
  /\ s.live /\ s.dir = "out" /\ caller = "on"
  /\ s' = [s EXCEPT !.st = IF event = "ringing" THEN "ringing" ELSE "answered",
                   !.neg = IF sdp /\ @ = "pending" THEN "done" ELSE @]
  /\ log' = IF event = "ringing" THEN [log EXCEPT !.status = "ringing"]
            ELSE [log EXCEPT !.status = "answered", !.answered = TRUE]
  /\ (event = "ringing" => s.st = "initiating") /\ Late(s.st = "answered")
  /\ UNCHANGED <<xfer, ivr, conns, caller, due, out>>

\* processCallStatusWebhook: RINGING and ACCEPTED carry no answer
ProcessCallStatusWebhook == \E e \in {"ringing", "accepted"} : OutgoingProgress(e, FALSE)

OutgoingRejected ==
  /\ s.dir = "out" /\ caller = "on" /\ s.st # "answered"
  /\ caller' = "gone" /\ due' = due \cup {"media"}
  /\ IF ~s.live THEN UNCHANGED <<s, log, out>>
     ELSE LET l == [log EXCEPT !.status = "rejected"]
          IN log' = l /\ Cleanup(s, l)
  /\ UNCHANGED <<xfer, ivr, conns, ops>>

\* a post-call IVR is told to stop and cleans up by itself
IVRActive == s.flow /\ s.pc = None

\* handleOrphanedOutgoingCallEvent: the session is gone; the log may lack the id
OrphanedEvent ==
  log' = IF \E k \in conns : k.at = "api" THEN log
         ELSE [log EXCEPT !.status = IF log.answered THEN "completed" ELSE "missed"]

OutgoingEnded ==
  /\ "ended" \in due /\ s.dir = "out" /\ due' = due \ {"ended"}
  /\ IF ~s.live THEN OrphanedEvent /\ UNCHANGED <<s, out>>
     ELSE IF IVRActive THEN s' = [s EXCEPT !.st = "completed"] /\ UNCHANGED <<log, out>>
     ELSE LET l == [log EXCEPT !.status = "completed"]
          IN log' = l /\ Cleanup(s, l)
  /\ UNCHANGED <<xfer, ivr, conns, caller, ops>>

\* HangupOutgoingCall: with no post-call flow the call ends; with one the
\* agent's side goes and the flow runs on the customer's leg
HangupOutgoingCall(flow) ==
  /\ Request /\ s.live /\ s.dir = "out"
  /\ flow => ivr.at = "off"     \* one post-call flow per call is modelled
  /\ IF ~flow
     THEN /\ log' = [log EXCEPT !.status = "completed"] /\ Terminate
          /\ Cleanup(s, log') /\ UNCHANGED ivr
     ELSE /\ s' = [s EXCEPT !.bridge = FALSE, !.pc = None, !.flow = TRUE]
          /\ ivr' = [at |-> "run", node |-> Entry]
          /\ UNCHANGED <<log, out, caller, due>>
  /\ UNCHANGED <<xfer, conns>>

-----------------------------------------------------------------------------
(* Starting a transfer *)

\* agent_id is left out: it is a hint of whom the rotation rings, no check of
\* a transfer with a team reads it, and one without a team never has it
Row(team) == [status |-> "waiting", team |-> team, connectedAt |-> FALSE]

\* runTransferRotation begins: its own deadline becomes the one to cancel
Rotating(q, x) == [q EXCEPT !.watch[x] = [Idle EXCEPT !.at = "loop"], !.cancel = x, !.acc = x]

Waiting(q, x, at) == [q EXCEPT !.watch[x] = [Idle EXCEPT !.at = at], !.cancel = x]

\* initiateTransfer: ring the preferred agent, else the team, else everybody
RingFor(q, x, team, preferred) ==
  LET held == [q EXCEPT !.tid = x, !.ts = "waiting", !.hold = TRUE]
  IN CASE preferred -> [Waiting(held, x, "sticky") EXCEPT !.acc = x]
       [] ~preferred /\ team -> Rotating(held, x)
       [] OTHER -> Waiting(held, x, "wait")

InitiateTransfer(q, team) ==
  \/ \E preferred \in IF q.sticky THEN {TRUE} ELSE BOOLEAN :   \* the contact's own agent
       /\ Len(xfer) < MaxXfers
       /\ xfer' = Append(xfer, Row(team))
       /\ log' = [log EXCEPT !.status = "transferring"]
       /\ s' = RingFor(q, Len(xfer) + 1, team, preferred)
  \/ /\ s' = [q EXCEPT !.hold = TRUE]                    \* the insert failed
     /\ UNCHANGED <<xfer, log>>

\* go m.initiateTransfer for a sticky call
StickyTransfer(k) ==
  /\ k.at = "ring" /\ Ends(k)
  /\ InitiateTransfer(s, FALSE)
  /\ UNCHANGED <<ivr, caller, due, out, ops>>

\* InitiateAgentTransfer, first half: the agent's side is torn down and the
\* session waits, not yet for any row
AgentTransferBegins(target) ==
  /\ Request /\ s.live /\ s.ts # "waiting" /\ (s.neg = "done" \/ s.dir = "out")
  /\ target \in Members \cup {None}
  /\ s' = [s EXCEPT !.hold = TRUE, !.bridge = FALSE, !.pc = None, !.tid = 0, !.ts = "waiting"]
  /\ conns' = conns \cup {Job(target, 0, "init", FALSE)}
  /\ UNCHANGED <<xfer, log, ivr, caller, due, out>>

\* second half: the row, then the wait; a failed insert leaves the session waiting
InitiateAgentTransfer(k) ==
  /\ k.at = "init" /\ Ends(k)
  /\ \/ /\ Len(xfer) < MaxXfers
        /\ LET x == Len(xfer) + 1
               q == [s EXCEPT !.tid = x]
           IN s' = IF k.agent = None THEN Rotating(q, x) ELSE Waiting(q, x, "wait")
        /\ xfer' = Append(xfer, Row(TRUE))
        /\ log' = [log EXCEPT !.status = "transferring"]
     \/ UNCHANGED <<s, xfer, log>>
  /\ UNCHANGED <<ivr, caller, due, out, ops>>

-----------------------------------------------------------------------------
(* An agent accepts *)

\* ConnectCallTransfer, the checks
Eligible(a, x) ==
  /\ xfer[x].status = "waiting"
  /\ xfer[x].team => a \in Members

ConnectCallTransfer(a, x) ==
  /\ Request /\ Eligible(a, x)
  /\ conns' = conns \cup {Job(a, x, "read", FALSE)}
  /\ UNCHANGED <<s, xfer, log, ivr, caller, due, out>>

ClaimUnguarded(k) ==
  /\ k.at = "read" /\ Moves(k, "claimed")
  /\ xfer' = [xfer EXCEPT ![k.x].status = "connected"]
  /\ UNCHANGED <<s, log, ivr, caller, due, out, ops>>

\* the atomic update: of two accepts only one row changes
ClaimTransfer(k) ==
  /\ k.at = "read"
  /\ IF xfer[k.x].status = "waiting"
     THEN Moves(k, "claimed") /\ xfer' = [xfer EXCEPT ![k.x].status = "connected"]
     ELSE Ends(k) /\ UNCHANGED xfer
  /\ UNCHANGED <<s, log, ivr, caller, due, out, ops>>

\* no offer in the body, or calling switched off: the claim stays
ConnectRefused(k) ==
  /\ k.at = "claimed" /\ Ends(k)
  /\ UNCHANGED <<s, xfer, log, ivr, caller, due, out, ops>>

\* the handler gives the row back when the manager refuses
Reverted(x) == [xfer EXCEPT ![x].status = IF @ = "connected" THEN "waiting" ELSE @]

\* findSessionByTransferID
FindSessionByTransferID(x) == s.live /\ s.tid = x

\* ConnectAgentToTransfer: the second claim, under the session's lock
ConnectAgentToTransfer(k) ==
  /\ k.at = "claimed"
  /\ IF FindSessionByTransferID(k.x) /\ s.ts = "waiting"
     THEN /\ s' = Accepted([s EXCEPT !.ts = "connected"])
          /\ Moves(k, "setup") /\ UNCHANGED xfer
     ELSE Ends(k) /\ xfer' = Reverted(k.x) /\ UNCHANGED s
  /\ UNCHANGED <<log, ivr, caller, due, out, ops>>

\* createPeerConnection, the SDP exchange, ICE: the row is given back, the
\* session stays connected to nobody
SetupFails(k) ==
  /\ k.at = "setup" /\ Ends(k)
  /\ xfer' = Reverted(k.x)
  /\ UNCHANGED <<s, log, ivr, caller, due, out, ops>>

SetupDone(k) ==
  /\ k.at = "setup" /\ Moves(k, "await")
  /\ s' = [s EXCEPT !.pc = k.agent]
  /\ UNCHANGED <<xfer, log, ivr, caller, due, out, ops>>

AgentTrackArrives(k) ==
  /\ k.at = "await" /\ s.pc = k.agent /\ Moves(k, "track")
  /\ UNCHANGED <<s, xfer, log, ivr, caller, due, out, ops>>

\* completeTransferConnection: hold music off, deadline cancelled, connected
\* whatever it was, and the caller's track and the agent's leg as they are now
CompleteTransferConnection(k) ==
  /\ k.at = "track"
  /\ conns' = (conns \ {k}) \cup {[k EXCEPT !.at = "snap", !.flag = s.track, !.agent = s.pc]}
  /\ s' = [Cancelled(s) EXCEPT !.hold = FALSE, !.ts = "connected"]
  /\ UNCHANGED <<xfer, log, ivr, caller, due, out, ops>>

\* setupAudioBridge
SetupAudioBridge(k) ==
  /\ k.at = "snap" /\ Moves(k, "bridged")
  /\ s' = [s EXCEPT !.bridge = TRUE, !.att = FALSE]
  /\ UNCHANGED <<xfer, log, ivr, caller, due, out, ops>>

SnapshotOnly(k) == k.flag

\* lateCallerTrack: a track that landed since the snapshot is not missed
CallerRemote(k) == k.flag \/ s.track

\* bridge.Start with the tracks there are; "with" keeps whom it was started for
StartBridge(k) ==
  /\ k.at = "bridged"
  /\ s' = [s EXCEPT !.att = @ \/ (k.agent # None /\ CallerRemote(k)),
                    !.with = IF k.agent = s.pc THEN s.pc ELSE None]
  /\ IF k.x = 0 THEN Ends(k) ELSE Moves(k, "write")
  /\ UNCHANGED <<xfer, log, ivr, caller, due, out, ops>>

\* the background write, whatever the row says by now
ConnectedWrite(k) ==
  /\ k.at = "write" /\ Ends(k)
  /\ xfer' = [xfer EXCEPT ![k.x] = [@ EXCEPT !.status = "connected", !.connectedAt = TRUE]]
  /\ log' = [log EXCEPT !.agent = TRUE]
  /\ UNCHANGED <<s, ivr, caller, due, out, ops>>

-----------------------------------------------------------------------------
(* Ending a transfer *)

\* EndTransfer under the lock; the row and the rest follow
EndsTransfer(x, from) ==
  IF FindSessionByTransferID(x) /\ s.ts # "completed"
  THEN /\ s' = [Cancelled(s) EXCEPT !.ts = "completed", !.bridge = FALSE, !.hold = FALSE,
                                    !.cancel = 0, !.pc = None]
       /\ conns' = from \cup {Job(None, x, "end", FALSE)}
  ELSE conns' = from /\ UNCHANGED s

EndTransfer(k) ==
  /\ k.at = "end" /\ Ends(k)
  /\ xfer' = [xfer EXCEPT ![k.x].status = "completed"]
  /\ IF s.done THEN UNCHANGED <<caller, due>> ELSE Terminate
  /\ SignalOrCleanup(s, "completed", log)
  /\ UNCHANGED <<log, ivr, ops>>

HangupCallTransfer(x) ==
  /\ Request /\ FindSessionByTransferID(x) /\ s.ts # "completed"
  /\ EndsTransfer(x, conns)
  /\ UNCHANGED <<xfer, log, ivr, caller, due, out>>

\* the agent's peer connection fails
AgentDisconnects ==
  /\ Request /\ s.live /\ s.pc # None /\ s.tid # 0 /\ s.ts # "completed"
  /\ EndsTransfer(s.tid, conns)
  /\ UNCHANGED <<xfer, log, ivr, caller, due, out>>

\* ten seconds without the agent's audio
AwaitTimeout(k) ==
  /\ k.at = "await"
  /\ EndsTransfer(k.x, conns \ {k})
  /\ UNCHANGED <<xfer, log, ivr, caller, due, out, ops>>

\* handleTransferNoAnswer under the lock: only while the session waits
NoAnswer(x) ==
  /\ s.watch[x].at # "done"
  /\ IF s.ts = "waiting"
     THEN /\ s' = [s EXCEPT !.ts = "no_answer", !.watch[x] = Over]
          /\ conns' = conns \cup {Job(None, x, "noans", FALSE)}
     ELSE s' = [s EXCEPT !.watch[x] = Over] /\ UNCHANGED conns

HandleTransferNoAnswer(k) ==
  /\ k.at = "noans" /\ Ends(k)
  /\ xfer' = [xfer EXCEPT ![k.x].status = "no_answer"]
  /\ SignalOrCleanup(s, "no_answer", log)
  /\ UNCHANGED <<log, ivr, caller, due, ops>>

-----------------------------------------------------------------------------
(* The goroutine that watches a waiting transfer *)

W(x) == s.watch[x]
Goes(x, at) == s' = [s EXCEPT !.watch[x] = IF at = "done" THEN Over ELSE [@ EXCEPT !.at = at]]
OnlyWatch == UNCHANGED <<log, ivr, caller, due, out, ops>>

\* the deadline of a wait passes; the goroutine may see it late.  In the
\* other stages the passing is part of the step that notices it
Expire(x) ==
  /\ W(x).at \in {"wait", "wait2"} /\ W(x).ctx = "live"
  /\ s' = [s EXCEPT !.watch[x].ctx = "expired"]
  /\ UNCHANGED <<xfer, conns>> /\ OnlyWatch

\* the preferred agent answered, or did not and the team or everybody is rung
StickyEnds(x) ==
  /\ W(x).at = "sticky"
  /\ \/ W(x).accepted /\ Goes(x, "done")
     \/ s' = IF s.ts = "connected" THEN [s EXCEPT !.watch[x] = Over]
             ELSE IF xfer[x].team THEN Rotating(s, x)
             ELSE [Waiting(s, x, "wait") EXCEPT !.acc = x]
  /\ UNCHANGED <<xfer, conns>> /\ OnlyWatch

\* agents the assigner may still name; which of them, and who is online, is theirs to say
Untried(x) == Members \ W(x).tried

\* runTransferRotation: the next agent, skipped when offline
RotateNext(x) ==
  /\ W(x).at = "loop"
  /\ IF s.ts # "waiting" THEN Goes(x, "done")
     ELSE \/ /\ W(x).ctx = "live"
             /\ \E a \in Untried(x), online \in BOOLEAN :
                  s' = [s EXCEPT !.watch[x].tried = @ \cup {a},
                                 !.watch[x].at = IF online THEN "offer" ELSE "loop"]
          \/ Goes(x, "fallback")
  /\ UNCHANGED <<xfer, conns>> /\ OnlyWatch

\* the agent's turn ends: accepted, out of time, or the whole transfer is
OfferEnds(x) ==
  /\ W(x).at = "offer"
  /\ \/ W(x).accepted /\ Goes(x, "done")
     \/ Goes(x, "loop")
     \/ Goes(x, "fallback")
  /\ UNCHANGED <<xfer, conns>> /\ OnlyWatch

\* everybody left who is online is rung; with nobody the transfer ends at once
Fallback(x) ==
  /\ W(x).at = "fallback"
  /\ \/ s.ts # "waiting" /\ Goes(x, "done") /\ UNCHANGED conns
     \/ s.ts = "waiting" /\ NoAnswer(x)
     \/ s.ts = "waiting" /\ Untried(x) # {} /\ Goes(x, "wait2") /\ UNCHANGED conns
  /\ UNCHANGED xfer /\ OnlyWatch

WaitNeverFires(x) ==
  /\ W(x).at \in {"wait", "wait2"}
  /\ \/ W(x).at = "wait2" /\ W(x).accepted /\ Goes(x, "done") /\ UNCHANGED conns
     \/ W(x).ctx = "cancelled" /\ Goes(x, "done") /\ UNCHANGED conns
  /\ UNCHANGED xfer /\ OnlyWatch

\* waitForTransferTimeout, and the end of the rotation's fallback
WaitForTransferTimeout(x) ==
  /\ W(x).at \in {"wait", "wait2"}
  /\ \/ W(x).at = "wait2" /\ W(x).accepted /\ Goes(x, "done") /\ UNCHANGED conns
     \/ W(x).ctx = "cancelled" /\ Goes(x, "done") /\ UNCHANGED conns
     \/ W(x).ctx = "expired" /\ NoAnswer(x)
  /\ UNCHANGED xfer /\ OnlyWatch

Watcher(x) == StickyEnds(x) \/ RotateNext(x) \/ OfferEnds(x) \/ Fallback(x)
              \/ WaitForTransferTimeout(x)

-----------------------------------------------------------------------------
(* Hold *)

HoldCall ==
  /\ Request /\ s.live /\ ~s.hold /\ s.bridge
  /\ s' = [s EXCEPT !.bridge = FALSE, !.hold = TRUE]
  /\ UNCHANGED <<xfer, log, ivr, conns, caller, due, out>>

\* ResumeCall: as completeTransferConnection builds its bridge, with no row to write
ResumeCall ==
  /\ Request /\ s.live /\ s.hold
  /\ s' = [s EXCEPT !.hold = FALSE]
  /\ conns' = conns \cup {Job(s.pc, 0, "snap", s.track)}
  /\ UNCHANGED <<xfer, log, ivr, caller, due, out>>

-----------------------------------------------------------------------------
(* The voice menu *)

\* what each node may answer
ExecuteGreeting == {"default"}
WaitForDTMF == BOOLEAN
ExecuteMenu == {IF got THEN "digit" ELSE "max_retries" : got \in WaitForDTMF}
CollectDTMFDigits == {"", "digits"}
ExecuteGather == {IF d = "" THEN "max_retries" ELSE "default" : d \in CollectDTMFDigits}
ExecuteHTTPCallback == {"http:2xx", "http:non2xx"}
ExecuteTiming == {"in_hours", "out_of_hours"}
ExecuteCRMCondition == {"match", "no_match"}

Outcomes(n) ==
  CASE Graph[n].type = "greeting" -> ExecuteGreeting
    [] Graph[n].type = "menu" -> ExecuteMenu
    [] Graph[n].type = "gather" -> ExecuteGather
    [] Graph[n].type = "http_callback" -> ExecuteHTTPCallback
    [] Graph[n].type = "timing" -> ExecuteTiming
    [] Graph[n].type = "crm_condition" -> ExecuteCRMCondition
    [] OTHER -> {}

Finished == [at |-> "done", node |-> Entry]

\* ResolveEdge: the edge of the outcome, else the default one; without either
\* the flow ends
Resolved(n, o) ==
  LET edge == IF o \in DOMAIN Graph[n].edges THEN o ELSE "default"
  IN IF edge \in DOMAIN Graph[n].edges THEN [at |-> "run", node |-> Graph[n].edges[edge]]
     ELSE Finished

Here == Graph[ivr.node]

\* executeNodeLoop: the check of every round; then the node
Running == ivr.at = "run" /\ s.st = "answered"

LoopStops ==
  /\ ivr.at = "run" /\ s.st # "answered"
  /\ ivr' = Finished
  /\ UNCHANGED <<s, xfer, log, conns, caller, due, out, ops>>

ExecuteNode ==
  /\ Running /\ \E o \in Outcomes(ivr.node) : ivr' = Resolved(ivr.node, o)
  /\ UNCHANGED <<s, xfer, log, conns, caller, due, out, ops>>

\* executeTransfer: a node with edges waits to be told how it ended
ExecuteTransfer ==
  /\ Running /\ Here.type = "transfer"
  /\ LET returns == DOMAIN Here.edges # {} IN
     /\ InitiateTransfer([s EXCEPT !.done = @ \/ returns,
                                   !.chan = IF returns THEN "empty" ELSE @], Here.team)
     /\ ivr' = [ivr EXCEPT !.at = IF returns THEN "await" ELSE "done",
                         !.node = IF returns THEN @ ELSE Entry]
  /\ UNCHANGED <<conns, caller, due, out, ops>>

TransferReturns ==
  /\ ivr.at = "await" /\ s.chan # "empty"
  /\ ivr' = Resolved(ivr.node, IF s.chan = "closed" THEN "completed" ELSE s.chan)
  /\ UNCHANGED <<s, xfer, log, conns, caller, due, out, ops>>

\* executeGotoFlow: a missing or disabled target ends the flow; another one
\* starts at its entry
ExecuteGotoFlow ==
  /\ Running /\ Here.type = "goto_flow"
  /\ \E found \in BOOLEAN : ivr' = IF found THEN [ivr EXCEPT !.node = Entry] ELSE Finished
  /\ UNCHANGED <<s, xfer, log, conns, caller, due, out, ops>>

ExecuteHangup ==
  /\ Running /\ Here.type = "hangup"
  /\ ivr' = Finished
  /\ Terminate
  /\ UNCHANGED <<s, xfer, log, conns, out, ops>>

\* the goroutine HangupOutgoingCall started: terminate, complete, clean up
PostCallIVREnds ==
  /\ ivr.at = "done" /\ s.dir = "out" /\ s.live
  /\ LET l == [log EXCEPT !.status = "completed"] IN log' = l /\ Cleanup(s, l)
  /\ Terminate
  /\ UNCHANGED <<xfer, ivr, conns, ops>>

RunIVRFlow == LoopStops \/ ExecuteNode \/ ExecuteTransfer \/ TransferReturns \/ ExecuteGotoFlow
              \/ ExecuteHangup \/ PostCallIVREnds

-----------------------------------------------------------------------------
Handler(k) == StickyTransfer(k) \/ InitiateAgentTransfer(k) \/ ClaimTransfer(k) \/ ConnectRefused(k)
              \/ ConnectAgentToTransfer(k) \/ SetupFails(k) \/ SetupDone(k) \/ AgentTrackArrives(k)
              \/ CompleteTransferConnection(k) \/ SetupAudioBridge(k) \/ StartBridge(k)
              \/ ConnectedWrite(k) \/ EndTransfer(k) \/ AwaitTimeout(k)
              \/ HandleTransferNoAnswer(k) \/ OutgoingRefused(k) \/ OutgoingStored(k)

People ==
  \/ WebhookRinging \/ WebhookConnect \/ WebhookInCall \/ CallerHangsUp \/ WebhookMissed
  \/ \E a \in Agents : InitiateOutgoingCall(a)
  \/ ProcessCallStatusWebhook \/ OutgoingProgress("connect", TRUE) \/ OutgoingRejected
  \/ \E flow \in BOOLEAN : HangupOutgoingCall(flow)
  \/ \E target \in Members \cup {None} : AgentTransferBegins(target)
  \/ \E a \in Agents, x \in DOMAIN xfer : ConnectCallTransfer(a, x)
  \/ \E x \in Xfers : HangupCallTransfer(x)
  \/ AgentDisconnects \/ HoldCall \/ ResumeCall

System ==
  \/ NegotiateWebRTC \/ NegotiateFails \/ OnTrack \/ SDPTimeout
  \/ WebhookEnded \/ OutgoingEnded \/ MediaLost
  \/ RunIVRFlow
  \/ \E k \in conns : Handler(k)
  \/ \E x \in Xfers : Expire(x) \/ Watcher(x)

Next == People \/ System

\* handlers, goroutines, timers and the end-of-call notices make progress;
\* people, the API's verdict and the menu's answers are free
Fairness ==
  /\ WF_vars(\E k \in conns : Handler(k))
  /\ \A x \in Xfers : WF_vars(Expire(x)) /\ WF_vars(Watcher(x))
  /\ WF_vars(RunIVRFlow)
  /\ WF_vars(WebhookEnded \/ OutgoingEnded) /\ WF_vars(MediaLost) /\ WF_vars(SDPTimeout)
  /\ WF_vars(NegotiateWebRTC \/ NegotiateFails)

Spec == Init /\ [][Next]_vars /\ Fairness

-----------------------------------------------------------------------------
(* Properties *)

Starting == \E k \in conns : k.at = "bridged"

\* The caller is heard: once a bridge was started for the agent's leg that the
\* session has and none is about to start, a caller track that has arrived,
\* however late, is forwarded (OnTrack against the snapshot of
\* completeTransferConnection and ResumeCall).
NoOneWayAudio ==
  s.live /\ s.bridge /\ s.with # None /\ s.track /\ ~Starting => s.att

\* An IVR that waits for its transfer will be told: its channel is still with
\* the session, or already holds an outcome, or was closed by the cleanup.
AwaitIsAnswered == ivr.at = "await" => s.done \/ s.chan # "empty"

\* The outcome of a call is published by one cleanup only, however many of
\* the hangup, the webhook, the failing media and the IVR arrive at it.
OneOutcome == Len(out) <= 1 /\ (out # <<>> => ~s.live)

\* A transfer an agent has been connected to is never offered again: no
\* accept that fails later gives its row back.
ConnectedNotReoffered ==
  [][\A x \in DOMAIN xfer : xfer[x].connectedAt => xfer'[x].status # "waiting"]_vars

\* A caller who waits for a recorded transfer is eventually connected or
\* released, whatever happens to the watchers of earlier transfers.
HoldEnds == []<>(~s.live \/ s.ts # "waiting" \/ s.tid = 0)

\* the calls whose end nobody acts on again: the hangup came during a waiting
\* transfer and an IVR, or an agent who took the dead call, holds the session;
\* or a post-call IVR waits for an agent who never got through
Stranded ==
  \/ s.skipped /\ (ivr.at # "off" \/ s.ts = "connected" \/ s.tid = 0)
  \/ s.dir = "out" /\ ivr.at = "await"

\* The session of a call whose customer is gone is eventually removed, except
\* in the cases above.
SessionsReleased == []<>(~s.live \/ caller # "gone" \/ Stranded)

\* In every state of a call: the caller is heard, a waiting menu will be told, and
\* one outcome is published (session.go, transfer.go, ivr.go).
CallsInv == TypeOK /\ NoOneWayAudio /\ AwaitIsAnswered /\ OneOutcome

\* A call comes to its end: nobody is kept on hold for good, and the session of
\* a caller who is gone is released (waitForTransferTimeout, cleanupSession).
CallsEnd == HoldEnds /\ SessionsReleased
============================================================================
