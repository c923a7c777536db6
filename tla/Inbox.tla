------------------------------- MODULE Inbox -------------------------------
(***************************************************************************)
(* The inbox: conversations, agent transfers and the people who work them. *)
(* A conversation is the state of talking to one contact; a transfer is a  *)
(* handoff to a person, queued until an agent holds it.  While a transfer  *)
(* is active it is mirrored onto the live conversation.                    *)
(*                                                                         *)
(* Each transaction of the conversation and transfer services runs under   *)
(* the contact's advisory lock and is one step.  A handler that reads      *)
(* without the lock and writes later is split: the read leaves a record in *)
(* `flight', the write takes it out, and any step may come in between.     *)
(* Instants are abstracted to what the code asks of them: a deadline is    *)
(* due or not, a resolution is inside the reopen window or not.            *)
(***************************************************************************)
EXTENDS Naturals, FiniteSets, FiniteSetsExt, SequencesExt

CONSTANTS
  Contacts, Agents, Teams,
  None,          \* a NULL column
  MaxConvs,      \* bound: conversations ever opened
  MaxTransfers,  \* bound: transfers ever created
  MaxFlight,     \* bound: unlocked reads in flight at once
  MaxOps,        \* bound: requests and messages that arrive
  Strategies,    \* assignment strategies a team may be switched to
  SameAgent,     \* settings.AgentAssignment.AssignToSameAgent
  AutoPending    \* inbox setting AutoPendingOnAgentReply

ASSUME BoundsAssumption ==
  /\ {MaxConvs, MaxTransfers, MaxFlight, MaxOps} \subseteq Nat
  /\ None \notin Agents \cup Teams \cup Contacts
  /\ SameAgent \in BOOLEAN /\ AutoPending \in BOOLEAN
  /\ "round_robin" \in Strategies    \* the strategy a team is created with

VARIABLES
  conv,      \* the conversations, in the order they were opened
  xfer,      \* the agent transfers, in transferred_at order
  owner,     \* contacts.assigned_user_id
  session,   \* contacts with an active chatbot session
  botWait,   \* contacts with chatbot_last_message_at set
  repliers,  \* agents who replied since the contact's last message
  away,      \* agents who are not available
  team,      \* per team: exists, is_active, agent members, strategy
  cache,     \* per team: the cached assignment config or None
  stamps,    \* per team: members by last_assigned_at, oldest first
  flight,    \* unlocked reads whose write is still to come
  ops        \* requests served so far

vars == <<conv, xfer, owner, session, botWait, repliers, away, team, cache,
          stamps, flight, ops>>
people == <<away, team, cache, stamps>>

AgentOrNone == Agents \cup {None}
TeamOrNone == Teams \cup {None}

Conversation ==
  [contact: Contacts, status: {"open", "pending", "snoozed", "resolved"},
   assignee: AgentOrNone, team: TeamOrNone,
   handling: {"none", "bot", "human", "handoff_pending"},
   waiting: BOOLEAN, snooze: {"no", "set", "due"}, fresh: BOOLEAN]

Transfer ==
  [contact: Contacts, status: {"active", "resumed", "expired"},
   agent: AgentOrNone, team: TeamOrNone, picked: BOOLEAN,
   respDue: BOOLEAN, escDue: BOOLEAN, expDue: BOOLEAN,
   breached: BOOLEAN, level: 0..2]

TeamConfig == [members: SUBSET Agents, strategy: Strategies]

TypeOK ==
  /\ conv \in Seq(Conversation) /\ Len(conv) <= MaxConvs
  /\ xfer \in Seq(Transfer) /\ Len(xfer) <= MaxTransfers
  /\ owner \in [Contacts -> AgentOrNone]
  /\ session \subseteq Contacts /\ botWait \subseteq Contacts
  /\ repliers \in [Contacts -> SUBSET Agents]
  /\ away \subseteq Agents
  /\ team \in [Teams -> [exists: BOOLEAN, active: BOOLEAN,
                         members: SUBSET Agents, strategy: Strategies]]
  /\ cache \in [Teams -> TeamConfig \cup {None}]
  /\ \A t \in Teams : stamps[t] \in Seq(Agents)
  /\ Cardinality(flight) <= MaxFlight
  /\ ops \in 0..MaxOps

Init ==
  /\ conv = <<>> /\ xfer = <<>>
  /\ owner = [c \in Contacts |-> None]
  /\ session = {} /\ botWait = {}
  /\ repliers = [c \in Contacts |-> {}]
  /\ away = {}
  /\ team = [t \in Teams |-> [exists |-> TRUE, active |-> TRUE,
                              members |-> Agents, strategy |-> "round_robin"]]
  /\ cache = [t \in Teams |-> None]
  /\ stamps = [t \in Teams |-> <<>>]
  /\ flight = {} /\ ops = 0

-----------------------------------------------------------------------------
(* Lookups *)

LiveConvs(c) == {i \in DOMAIN conv : conv[i].contact = c /\ conv[i].status # "resolved"}

\* activeForUpdate: the contact's live conversation (the code takes the first)
Live(c) == IF LiveConvs(c) = {} THEN 0 ELSE Min(LiveConvs(c))

ActiveXfers(c) == {x \in DOMAIN xfer : xfer[x].contact = c /\ xfer[x].status = "active"}

HasActive(c) == ActiveXfers(c) # {}

Queued == {x \in DOMAIN xfer : xfer[x].status = "active" /\ xfer[x].agent = None}

\* idx_agent_transfers_one_active: the database refuses a second active row
OneActiveIndex(c) == ActiveXfers(c) = {}

Request == ops < MaxOps /\ ops' = ops + 1

Launch(r) == /\ Cardinality(flight) < MaxFlight
             /\ flight' = flight \cup {r}

Land(r) == flight' = flight \ {r}

-----------------------------------------------------------------------------
(* Pure updates of the conversation and transfer tables *)

\* SetHandling: no lock, whichever conversation is live
Handled(cs, c, h) ==
  [i \in DOMAIN cs |-> IF cs[i].contact = c /\ cs[i].status # "resolved"
                       THEN [cs[i] EXCEPT !.handling = h] ELSE cs[i]]

MirroredOnlyIfHeld(cs, t) ==
  [i \in DOMAIN cs |->
    IF cs[i].contact = t.contact /\ cs[i].status # "resolved" /\ t.agent # None
    THEN [cs[i] EXCEPT !.assignee = IF t.status = "active" THEN t.agent ELSE None]
    ELSE cs[i]]

\* MirrorToConversation: an active transfer copies agent and team; an ended
\* one clears the assignee only while it is still that transfer's agent
Mirrored(cs, t) ==
  [i \in DOMAIN cs |->
    IF cs[i].contact # t.contact \/ cs[i].status = "resolved" THEN cs[i]
    ELSE IF t.status = "active"
         THEN [cs[i] EXCEPT !.assignee = t.agent, !.team = t.team,
                            !.handling = IF t.agent # None THEN "human" ELSE @]
    ELSE IF t.agent # None /\ cs[i].assignee = t.agent
         THEN [cs[i] EXCEPT !.assignee = None]
    ELSE cs[i]]

\* UpdateSLAOnPickup
PickedUp(t) == [t EXCEPT !.picked = TRUE, !.breached = @ \/ t.respDue]

\* AssignActiveTx: the other direction of the mirror
AssignedActive(xs, c, a, t) ==
  [x \in DOMAIN xs |->
    IF xs[x].contact # c \/ xs[x].status # "active" THEN xs[x]
    ELSE LET moved == [xs[x] EXCEPT !.agent = a, !.team = IF t # None THEN t ELSE @]
         IN IF a = None THEN [moved EXCEPT !.picked = FALSE]
            ELSE IF xs[x].picked THEN moved ELSE PickedUp(moved)]

\* SetSLADeadlines: every deadline lies ahead
NewTransfer(c, a, t) ==
  [contact |-> c, status |-> "active", agent |-> a, team |-> t,
   picked |-> a # None, respDue |-> FALSE, escDue |-> FALSE, expDue |-> FALSE,
   breached |-> FALSE, level |-> 0]

NewConversation(c, h) ==
  [contact |-> c, status |-> "open", assignee |-> None, team |-> None,
   handling |-> h, waiting |-> TRUE, snooze |-> "no", fresh |-> TRUE]

-----------------------------------------------------------------------------
(* The conversation service *)

\* willChatbotHandle: never while a transfer is active
WillChatbotHandle(c) == ~HasActive(c)

\* reopenRecent's candidates: fresh stands for "resolved inside the window"
Reopenable(c) == {i \in DOMAIN conv : conv[i].contact = c /\ conv[i].status = "resolved" /\ conv[i].fresh}

\* a message on the live conversation: open again, out of its snooze
Touched(k) == [k EXCEPT !.status = "open", !.waiting = TRUE, !.fresh = TRUE,
                        !.snooze = IF k.status = "snoozed" THEN "no" ELSE @]

TouchExisting(c) ==
  LET i == Live(c) IN
  /\ i # 0
  /\ conv' = [conv EXCEPT ![i] = Touched(@)]

ReopenRecent(c) ==
  LET i == Max(Reopenable(c)) IN
  /\ Live(c) = 0 /\ Reopenable(c) # {}
  /\ conv' = [conv EXCEPT ![i] = [@ EXCEPT !.status = "open", !.waiting = TRUE]]

CreateConversation(c, row) ==
  /\ Live(c) = 0 /\ Len(conv) < MaxConvs
  /\ conv' = Append(conv, row)

\* a customer message: the conversation, and the chatbot no longer waits for it
TouchInbound(c) ==
  /\ Request
  /\ \/ TouchExisting(c)
     \/ ReopenRecent(c)
     \/ \E bot \in BOOLEAN :      \* the chatbot may be off or the number excluded
          /\ Reopenable(c) = {}
          /\ CreateConversation(c, NewConversation(c,
               IF bot /\ WillChatbotHandle(c) THEN "bot" ELSE "none"))
  /\ repliers' = [repliers EXCEPT ![c] = {}]
  /\ botWait' = botWait \ {c}
  /\ UNCHANGED <<xfer, owner, session, people, flight>>

\* RecordOutbound for an agent's reply
Answered(k) == [k EXCEPT !.waiting = FALSE, !.fresh = TRUE,
                         !.status = IF AutoPending /\ @ = "open" THEN "pending" ELSE @]

AgentReply(c, a) ==
  /\ Request
  /\ LET i == Live(c) IN
     \/ /\ i # 0
        /\ conv' = [conv EXCEPT ![i] = Answered(@)]
     \/ CreateConversation(c, [NewConversation(c, "human") EXCEPT
          !.waiting = FALSE, !.status = IF AutoPending THEN "pending" ELSE "open"])
  /\ repliers' = [repliers EXCEPT ![c] = @ \cup {a}]
  /\ UNCHANGED <<xfer, owner, session, botWait, people, flight>>

\* RecordOutbound for the bot: it touches a live conversation, opens none, and
\* its message waits for an answer (UpdateContactChatbotMessage)
BotReply(c) ==
  /\ Request
  /\ ~HasActive(c)
  /\ conv' = IF Live(c) = 0 THEN conv ELSE [conv EXCEPT ![Live(c)] = [@ EXCEPT !.fresh = TRUE]]
  /\ session' = session \cup {c}
  /\ botWait' = botWait \cup {c}
  /\ UNCHANGED <<xfer, owner, repliers, people, flight>>

\* Resolve, the whole transaction: the conversation and the chatbot session end
ResolveEffect(c) ==
  /\ Live(c) # 0
  /\ conv' = [conv EXCEPT ![Live(c)] = [@ EXCEPT !.status = "resolved", !.waiting = FALSE,
                                   !.snooze = "no", !.handling = "none", !.fresh = TRUE]]
  /\ session' = session \ {c}

ResolveConversation(c) ==
  /\ Request
  /\ ResolveEffect(c)
  /\ UNCHANGED <<xfer, owner, botWait, repliers, people, flight>>

Snooze(c) ==
  /\ Live(c) # 0
  /\ conv' = [conv EXCEPT ![Live(c)] = [@ EXCEPT !.status = "snoozed", !.snooze = "set"]]

SnoozeConversation(c) ==
  /\ Request
  /\ Snooze(c)
  /\ UNCHANGED <<xfer, owner, session, botWait, repliers, people, flight>>

AssignedTo(k, a, t) == [k EXCEPT !.assignee = a, !.team = IF t # None THEN t ELSE @,
                                 !.handling = IF a # None THEN "human" ELSE @]

\* Assign: the conversation and, in the same transaction, its active transfer
Assign(c, a, t) ==
  /\ Live(c) # 0
  /\ conv' = [conv EXCEPT ![Live(c)] = AssignedTo(@, a, t)]
  /\ xfer' = AssignedActive(xfer, c, a, t)

AssignConversation(c, a, t) ==
  /\ Request
  /\ Assign(c, a, t)
  /\ UNCHANGED <<owner, session, botWait, repliers, people, flight>>

\* setStatus: nothing happens when the live conversation has the status already
SetStatus(c, status, row) ==
  /\ Live(c) # 0 /\ conv[Live(c)].status # status
  /\ conv' = [conv EXCEPT ![Live(c)] = row]

\* SetPending: waiting on them, not on us
MarkConversationPending(c) ==
  /\ Request
  /\ SetStatus(c, "pending", [conv[Live(c)] EXCEPT !.status = "pending", !.waiting = FALSE])
  /\ UNCHANGED <<xfer, owner, session, botWait, repliers, people, flight>>

OpenConversation(c) ==
  /\ Request
  /\ SetStatus(c, "open", [conv[Live(c)] EXCEPT !.status = "open", !.snooze = "no"])
  /\ UNCHANGED <<xfer, owner, session, botWait, repliers, people, flight>>

\* Reopen by id: a contact who has a live conversation keeps that one
ReopenBesideLive(i) ==
  \E recent \in BOOLEAN :
    conv' = [conv EXCEPT ![i] = [@ EXCEPT !.status = "open", !.snooze = "no", !.fresh = recent]]

Reopen(i) ==
  /\ Live(conv[i].contact) = 0
  /\ \E recent \in BOOLEAN :      \* last_message_at is as old as it was
       conv' = [conv EXCEPT ![i] = [@ EXCEPT !.status = "open", !.snooze = "no", !.fresh = recent]]

ReopenConversation(i) ==
  /\ Request
  /\ Reopen(i)
  /\ UNCHANGED <<xfer, owner, session, botWait, repliers, people, flight>>

\* BulkConversations: each id stands for its contact, and the action falls on
\* whatever conversation of that contact is live
BulkConversations(i) ==
  LET c == conv[i].contact IN
  \/ ResolveConversation(c)
  \/ MarkConversationPending(c)
  \/ SnoozeConversation(c)
  \/ \E a \in AgentOrNone, t \in TeamOrNone : AssignConversation(c, a, t)

\* the automation action set_conversation_status
SetConversationStatus(c) ==
  \/ OpenConversation(c)
  \/ ResolveConversation(c)
  \/ SnoozeConversation(c)

\* wakeSnoozedConversations: each row is claimed by its status
WakeSnoozed ==
  /\ \E i \in DOMAIN conv :
       /\ conv[i].status = "snoozed" /\ conv[i].snooze = "due"
       /\ conv' = [conv EXCEPT ![i] = [@ EXCEPT !.status = "open", !.snooze = "no"]]
  /\ UNCHANGED <<xfer, owner, session, botWait, repliers, people, flight, ops>>

\* resolveStale's read: open or pending, never snoozed, no recent message
StaleRows == {i \in DOMAIN conv : /\ conv[i].status \in {"open", "pending"}
                                  /\ conv[i].snooze = "no" /\ ~conv[i].fresh}

SweepIdleRead ==
  /\ StaleRows # {}
  /\ \A f \in flight : f.op # "sweep"
  /\ Launch([op |-> "sweep", rows |-> StaleRows])
  /\ UNCHANGED <<conv, xfer, owner, session, botWait, repliers, people, ops>>

\* resolveStale's loop: Resolve by contact, whatever has happened since
SweepIdleResolve(f) ==
  /\ f.op = "sweep"
  /\ \E i \in f.rows :
       LET c == conv[i].contact
           rest == f.rows \ {i}
       IN /\ \/ ResolveEffect(c)
             \/ Live(c) = 0 /\ UNCHANGED <<conv, session>>
          /\ flight' = (flight \ {f}) \cup
               IF rest = {} THEN {} ELSE {[f EXCEPT !.rows = rest]}
  /\ UNCHANGED <<xfer, owner, botWait, repliers, people, ops>>

-----------------------------------------------------------------------------
(* The assigner *)

\* GetTeamConfig: the cached config, else the team's row if it is active
DBConfig(t) == IF team[t].exists /\ team[t].active
               THEN [members |-> team[t].members, strategy |-> team[t].strategy] ELSE None

GetTeamConfig(t) == IF cache[t] # None THEN cache[t] ELSE DBConfig(t)

\* filterAvailable: availability is read from the database every time
Available(s) == s \ away

\* ChatLoadCounter
Load(a) == Cardinality({x \in DOMAIN xfer : xfer[x].agent = a /\ xfer[x].status = "active"})

\* ORDER BY last_assigned_at NULLS FIRST: never assigned first, then the oldest
Longest(rows, order) ==
  LET never == rows \ ToSet(order)
      ranked == {i \in DOMAIN order : order[i] \in rows}
  IN IF never # {} THEN never ELSE IF ranked # {} THEN {order[Min(ranked)]} ELSE {None}

\* Mutant: the rows are those of the cached config
RoundRobinFromCache(t, members) ==
  Longest(Available(members), stamps[t])

\* assignRoundRobin joins the current team_members rows
RoundRobin(t, members) ==
  LET rows == Available(members) \cap (IF team[t].exists THEN team[t].members ELSE {})
  IN Longest(rows, stamps[t])

LoadBalanced(members) ==
  LET rows == Available(members) IN
  IF rows = {} THEN {None} ELSE {a \in rows : \A b \in rows : Load(a) <= Load(b)}

\* AssignToTeam: the agents it may return
AssignToTeam(t) ==
  LET cfg == GetTeamConfig(t) IN
  IF cfg = None THEN {None}
  ELSE CASE cfg.strategy = "load_balanced" -> LoadBalanced(cfg.members)
         [] cfg.strategy = "manual" -> {None}
         [] OTHER -> RoundRobin(t, cfg.members)

\* the order without a member's stamp
Unstamped(order, a) ==
  IF a \in ToSet(order) THEN RemoveAt(order, CHOOSE i \in DOMAIN order : order[i] = a) ELSE order

\* its side effects: the config is cached, the chosen agent's stamp is renewed
AssignEffects(t, a) ==
  /\ cache' = [cache EXCEPT ![t] = GetTeamConfig(t)]
  /\ LET cfg == GetTeamConfig(t) IN
     stamps' = IF a # None /\ cfg # None /\ cfg.strategy = "round_robin"
               THEN [stamps EXCEPT ![t] = Append(Unstamped(@, a), a)]
               ELSE stamps
  /\ UNCHANGED <<away, team>>

\* another request's cache miss: the row is read now and stored later
LoadTeamConfig(t) ==
  /\ Request
  /\ cache[t] = None /\ DBConfig(t) # None
  /\ \A f \in flight : f.op # "fill"
  /\ Launch([op |-> "fill", team |-> t, cfg |-> DBConfig(t)])
  /\ UNCHANGED <<conv, xfer, owner, session, botWait, repliers, people>>

StoreTeamConfig(f) ==
  /\ f.op = "fill"
  /\ cache' = [cache EXCEPT ![f.team] = f.cfg]
  /\ Land(f)
  /\ UNCHANGED <<conv, xfer, owner, session, botWait, repliers, away, team, stamps, ops>>

-----------------------------------------------------------------------------
(* Creating transfers *)

\* the checks every path makes before it builds the row
CreateCheck(c, a, t) ==
  /\ Request
  /\ ~HasActive(c)
  /\ a # None => a \notin away
  /\ t # None => team[t].exists /\ team[t].active
  /\ Launch([op |-> "create", contact |-> c, agent |-> a, team |-> t])
  /\ UNCHANGED <<conv, xfer, owner, session, botWait, repliers, people>>

\* saveAndFinalizeTransfer and the tail of CreateAgentTransfer: the insert, the
\* contact's owner, the chatbot session, the handling and the mirror
Finalize(c, a, t, endSession) ==
  /\ OneActiveIndex(c) /\ Len(xfer) < MaxTransfers
  /\ xfer' = Append(xfer, NewTransfer(c, a, t))
  /\ owner' = IF a # None /\ SameAgent /\ owner[c] = None
              THEN [owner EXCEPT ![c] = a] ELSE owner
  /\ session' = IF endSession THEN session \ {c} ELSE session
  /\ conv' = Mirrored(Handled(conv, c, "human"), NewTransfer(c, a, t))
  /\ UNCHANGED <<botWait, repliers>>

\* the contact's owner, when the setting asks for the same agent again
SameAgentOf(c) == IF SameAgent /\ owner[c] # None /\ owner[c] \notin away THEN owner[c] ELSE None

CreateAgentTransfer(f) ==
  /\ f.op = "create"
  /\ Land(f)
  /\ UNCHANGED ops
  /\ \/ /\ f.agent = None /\ f.team # None
        /\ \E a \in AssignToTeam(f.team) :
             Finalize(f.contact, a, f.team, TRUE) /\ AssignEffects(f.team, a)
     \/ /\ f.agent # None
        /\ Finalize(f.contact, f.agent, f.team, TRUE) /\ UNCHANGED people
     \/ /\ f.agent = None /\ f.team = None
        /\ Finalize(f.contact, SameAgentOf(f.contact), None, TRUE) /\ UNCHANGED people
     \/ /\ ~OneActiveIndex(f.contact)     \* the insert fails
        /\ UNCHANGED <<conv, xfer, owner, session, botWait, repliers, people>>

\* outside business hours every chatbot path only marks the handoff
SuppressedOutOfHours(c) ==
  /\ conv' = Handled(conv, c, "handoff_pending")
  /\ UNCHANGED <<xfer, owner, session, botWait, repliers, people>>

\* createTransferToQueue: a flow step or the disabled-bot fallback
CreateTransferToQueue(c) ==
  /\ Request /\ ~HasActive(c) /\ UNCHANGED flight
  /\ \/ SuppressedOutOfHours(c)
     \/ Finalize(c, None, None, FALSE) /\ UNCHANGED people

CreateTransferFromKeyword(c) ==
  /\ Request /\ ~HasActive(c) /\ UNCHANGED flight
  /\ \/ SuppressedOutOfHours(c)
     \/ Finalize(c, SameAgentOf(c), None, TRUE) /\ UNCHANGED people

\* createTransferToTeam, also the automation action assign_conversation
CreateTransferToTeam(c, t) ==
  /\ Request /\ ~HasActive(c) /\ UNCHANGED flight
  /\ \/ SuppressedOutOfHours(c)
     \/ \E a \in AssignToTeam(t) : Finalize(c, a, t, TRUE) /\ AssignEffects(t, a)

\* the automation action assign_conversation: a team goes through the transfer
\* path, a user or nobody through the conversation
AssignConversationAction(c) ==
  \/ \E t \in Teams : CreateTransferToTeam(c, t)
  \/ \E a \in AgentOrNone : AssignConversation(c, a, None)

-----------------------------------------------------------------------------
(* Working transfers *)

\* nextCandidate for a picker without full access: the general queue and the
\* queues of the teams the picker belongs to, oldest first
MayPick(a, x) == xfer[x].team = None \/ a \in team[xfer[x].team].members

Candidates(a, skip) == {x \in Queued \ skip : MayPick(a, x)}

PickNextRead(a) ==
  /\ Request
  /\ Candidates(a, {}) # {}
  /\ Launch([op |-> "pick", agent |-> a, cand |-> Min(Candidates(a, {})), skip |-> {}])
  /\ UNCHANGED <<conv, xfer, owner, session, botWait, repliers, people>>

StillActive(x) == xfer[x].status = "active"

\* PickNext's claim: re-read under the contact lock, then skip and try again
StillQueued(x) == xfer[x].status = "active" /\ xfer[x].agent = None

PickNextClaim(f) ==
  /\ f.op = "pick"
  /\ \/ /\ StillQueued(f.cand)
        /\ LET c == xfer[f.cand].contact
               t == [xfer[f.cand] EXCEPT !.agent = f.agent, !.picked = TRUE]
           IN /\ xfer' = [xfer EXCEPT ![f.cand] = t]
              /\ conv' = Mirrored(conv, t)
              /\ owner' = IF SameAgent /\ owner[c] = None
                          THEN [owner EXCEPT ![c] = f.agent] ELSE owner
        /\ Land(f)
     \/ /\ ~StillQueued(f.cand)
        /\ LET skip == f.skip \cup {f.cand}
               next == Candidates(f.agent, skip)
           IN flight' = (flight \ {f}) \cup
                IF next = {} \/ Cardinality(skip) >= 3 THEN {}
                ELSE {[f EXCEPT !.cand = Min(next), !.skip = skip]}
        /\ UNCHANGED <<xfer, conv, owner>>
  /\ UNCHANGED <<session, botWait, repliers, people, ops>>

\* AssignAgentTransfer's read and checks, before the row is saved whole
AssignTransferRead(x, a, t) ==
  /\ Request
  /\ xfer[x].status = "active"
  /\ a # None => a \notin away
  /\ t # None => team[t].exists
  /\ Launch([op |-> "assign", id |-> x,
             row |-> LET moved == [xfer[x] EXCEPT !.agent = a, !.team = t]
                     IN IF a # None /\ ~xfer[x].picked THEN PickedUp(moved) ELSE moved])
  /\ UNCHANGED <<conv, xfer, owner, session, botWait, repliers, people>>

\* the save writes every column of the row as it was read; the index refuses it
\* when the row has ended since and another transfer is active
AssignTransferSave(f) ==
  /\ f.op = "assign"
  /\ Land(f)
  /\ LET c == f.row.contact IN
     \/ /\ ActiveXfers(c) \subseteq {f.id}
        /\ xfer' = [xfer EXCEPT ![f.id] = f.row]
        /\ conv' = Mirrored(conv, f.row)
        /\ owner' = IF f.row.agent # None /\ SameAgent /\ owner[c] = None
                    THEN [owner EXCEPT ![c] = f.row.agent] ELSE owner
     \/ /\ ~(ActiveXfers(c) \subseteq {f.id})
        /\ UNCHANGED <<xfer, conv, owner>>
  /\ UNCHANGED <<session, botWait, repliers, people, ops>>

\* ResumeFromTransfer: the service's transaction, then tracking and handling
ResumeFromTransfer(x) ==
  /\ Request
  /\ xfer[x].status = "active"
  /\ LET t == [xfer[x] EXCEPT !.status = "resumed"] IN
     /\ xfer' = [xfer EXCEPT ![x] = t]
     /\ conv' = Handled(Mirrored(conv, t), t.contact, "bot")
     /\ botWait' = botWait \ {t.contact}
  /\ UNCHANGED <<owner, session, repliers, people, flight>>

\* UpdateAvailability: the flag, then ReturnToQueue's unlocked read
GoAway(a) ==
  /\ Request
  /\ a \notin away
  /\ away' = away \cup {a}
  /\ LET held == {x \in DOMAIN xfer : xfer[x].agent = a /\ xfer[x].status = "active"} IN
     IF held = {} THEN UNCHANGED flight
     ELSE Launch([op |-> "return", agent |-> a, held |-> {<<x, xfer[x].team>> : x \in held}])
  /\ UNCHANGED <<conv, xfer, owner, session, botWait, repliers, team, cache, stamps>>

ComeBack(a) ==
  /\ Request
  /\ a \in away
  /\ away' = away \ {a}
  /\ UNCHANGED <<conv, xfer, owner, session, botWait, repliers, team, cache, stamps, flight>>

\* ReturnToQueue's transaction for one held row: matched by id and status only,
\* mirrored with the row as it was read
ReturnToQueue(f) ==
  /\ f.op = "return"
  /\ \E h \in f.held :
       LET x == h[1]
           rest == f.held \ {h}
       IN /\ xfer' = IF xfer[x].status = "active"
                     THEN [xfer EXCEPT ![x] = [@ EXCEPT !.agent = None, !.picked = FALSE]] ELSE xfer
          /\ conv' = Mirrored(conv, [xfer[x] EXCEPT !.status = "active", !.agent = None,
                                                    !.team = h[2]])
          /\ flight' = (flight \ {f}) \cup
               IF rest = {} THEN {} ELSE {[f EXCEPT !.held = rest]}
  /\ UNCHANGED <<owner, session, botWait, repliers, people, ops>>

-----------------------------------------------------------------------------
(* The SLA processor *)

\* agentRespondedSince: only the transfer's present agent counts
AgentResponded(t) == t.agent # None /\ t.agent \in repliers[t.contact]

SlaRead ==
  /\ \A f \in flight : f.op # "close"
  /\ LET due == {x \in DOMAIN xfer : xfer[x].status = "active" /\ xfer[x].expDue} IN
     /\ due # {}
     /\ Launch([op |-> "close", rows |-> {<<x, xfer[x]>> : x \in due}])
  /\ UNCHANGED <<conv, xfer, owner, session, botWait, repliers, people, ops>>

\* autoCloseExpiredTransfers: an answered transfer is extended; the others are
\* expired by primary key, and mirrored as they were read
AutoCloseExpired(f) ==
  /\ f.op = "close"
  /\ \E h \in f.rows :
       LET x == h[1]
           rest == f.rows \ {h}
       IN /\ \/ /\ AgentResponded(h[2])
                /\ xfer' = [xfer EXCEPT ![x] = [@ EXCEPT !.expDue = FALSE]]
                /\ UNCHANGED conv
             \/ /\ ~AgentResponded(h[2])
                /\ xfer' = [xfer EXCEPT ![x] = [@ EXCEPT !.status = "expired"]]
                /\ conv' = Mirrored(conv, [h[2] EXCEPT !.status = "expired"])
          /\ flight' = (flight \ {f}) \cup
               IF rest = {} THEN {} ELSE {[f EXCEPT !.rows = rest]}
  /\ UNCHANGED <<owner, session, botWait, repliers, people, ops>>

Escalated(t) == [t EXCEPT !.level = @ + 1, !.breached = @ \/ t.respDue]

\* escalateTransfers: an answered customer moves the deadline, a waiting one
\* raises the level and, past the response deadline, the breach flag
Escalate(x) ==
  /\ xfer[x].status = "active" /\ xfer[x].escDue /\ xfer[x].level < 2
  /\ xfer' = IF AgentResponded(xfer[x])
             THEN [xfer EXCEPT ![x] = [@ EXCEPT !.escDue = FALSE]]
             ELSE [xfer EXCEPT ![x] = Escalated(@)]
  /\ UNCHANGED <<conv, owner, session, botWait, repliers, people, flight, ops>>

\* markSLABreached: only unassigned transfers past their response deadline
MarkSLABreached ==
  /\ LET late == {x \in Queued : xfer[x].respDue /\ ~xfer[x].breached} IN
     /\ late # {}
     /\ xfer' = [x \in DOMAIN xfer |-> IF x \in late THEN [xfer[x] EXCEPT !.breached = TRUE]
                                       ELSE xfer[x]]
  /\ UNCHANGED <<conv, owner, session, botWait, repliers, people, flight, ops>>

\* processClientInactivity: reminders aside, the tracking is cleared, and never
\* for a contact a person has taken over
CloseInactiveBot(c) ==
  /\ c \in botWait /\ ~HasActive(c)
  /\ botWait' = botWait \ {c}
  /\ UNCHANGED <<conv, xfer, owner, session, repliers, people, flight, ops>>

-----------------------------------------------------------------------------
(* Teams *)

UpdateTeam(t) ==
  /\ Request
  /\ team[t].exists
  /\ \E on \in BOOLEAN, s \in Strategies :
       team' = [team EXCEPT ![t].active = on, ![t].strategy = s]
  /\ cache' = [cache EXCEPT ![t] = None]
  /\ UNCHANGED <<conv, xfer, owner, session, botWait, repliers, away, stamps, flight>>

AddTeamMember(t, a) ==
  /\ Request
  /\ team[t].exists /\ a \notin team[t].members
  /\ team' = [team EXCEPT ![t].members = @ \cup {a}]
  /\ cache' = [cache EXCEPT ![t] = None]
  /\ UNCHANGED <<conv, xfer, owner, session, botWait, repliers, away, stamps, flight>>

RemoveTeamMember(t, a) ==
  /\ Request
  /\ team[t].exists /\ a \in team[t].members
  /\ team' = [team EXCEPT ![t].members = @ \ {a}]
  /\ cache' = [cache EXCEPT ![t] = None]
  /\ stamps' = [stamps EXCEPT ![t] = Unstamped(@, a)]
  /\ UNCHANGED <<conv, xfer, owner, session, botWait, repliers, away, flight>>

\* CountTeamRefs: live work that names the team
TeamRefs(t) ==
  {<<"transfer", x>> : x \in {y \in DOMAIN xfer : xfer[y].team = t /\ xfer[y].status = "active"}}
  \cup {<<"conversation", i>> : i \in {j \in DOMAIN conv : conv[j].team = t /\ conv[j].status # "resolved"}}

\* DeleteTeam: refused while live work names the team, unless that work is
\* moved to another team in the same transaction (ReassignTeam)
DeleteTeam(t) ==
  /\ Request
  /\ team[t].exists
  /\ \/ TeamRefs(t) = {} /\ UNCHANGED <<conv, xfer>>
     \/ \E to \in Teams \ {t} :
          /\ team[to].exists
          /\ xfer' = [x \in DOMAIN xfer |-> IF <<"transfer", x>> \in TeamRefs(t)
                                            THEN [xfer[x] EXCEPT !.team = to] ELSE xfer[x]]
          /\ conv' = [i \in DOMAIN conv |-> IF <<"conversation", i>> \in TeamRefs(t)
                                            THEN [conv[i] EXCEPT !.team = to] ELSE conv[i]]
  /\ team' = [team EXCEPT ![t].exists = FALSE, ![t].members = {}]
  /\ cache' = [cache EXCEPT ![t] = None]
  /\ stamps' = [stamps EXCEPT ![t] = <<>>]
  /\ UNCHANGED <<owner, session, botWait, repliers, away, flight>>

-----------------------------------------------------------------------------
(* What the agents are shown *)

\* ListInbox, without a status filter, for a viewer who may read every contact
ListInbox(u, view) ==
  {i \in DOMAIN conv :
    /\ conv[i].status # "resolved"
    /\ CASE view = "mine" -> conv[i].assignee = u
         [] view = "unassigned" -> conv[i].assignee = None /\ conv[i].handling # "bot"
         [] view = "bot" -> conv[i].assignee = None /\ conv[i].handling = "bot"
         [] view = "unanswered" -> conv[i].waiting /\ conv[i].handling # "bot"
         [] view = "all" -> TRUE}

\* GetInboxCounts: one grouped query over the live conversations
GetInboxCounts(u) ==
  LET Live0 == {i \in DOMAIN conv : conv[i].status # "resolved"}
      free == {i \in Live0 : conv[i].assignee = None}
  IN [mine |-> Cardinality({i \in Live0 : conv[i].assignee = u}),
      unassigned |-> Cardinality({i \in free : conv[i].handling # "bot"}),
      bot |-> Cardinality({i \in free : conv[i].handling = "bot"})]

\* ListAgentTransfers for a user without full access
ListAgentTransfers(u) ==
  LET mine == {t \in Teams : u \in team[t].members} IN
  {x \in DOMAIN xfer : \/ xfer[x].agent = u
                       \/ xfer[x].agent = None /\ xfer[x].team \in mine \cup {None}}

\* its queue counters: the general queue and the queue of each of the user's teams
QueueCounts(u) ==
  [q \in {t \in Teams : u \in team[t].members} \cup {None} |->
     Cardinality({x \in Queued : xfer[x].team = q})]

-----------------------------------------------------------------------------
(* Time *)

SnoozeRunsOut ==
  \E i \in DOMAIN conv :
    /\ conv[i].snooze = "set"
    /\ conv' = [conv EXCEPT ![i] = [@ EXCEPT !.snooze = "due"]]
    /\ UNCHANGED <<xfer, owner, session, botWait, repliers, people, flight, ops>>

\* the idle cutoff passes a live conversation, the reopen window a resolved one
ConversationAges ==
  \E i \in DOMAIN conv :
    /\ conv[i].fresh
    /\ conv' = [conv EXCEPT ![i] = [@ EXCEPT !.fresh = FALSE]]
    /\ UNCHANGED <<xfer, owner, session, botWait, repliers, people, flight, ops>>

\* the response, escalation and expiry deadlines pass, in that order
DeadlinePasses ==
  \E x \in DOMAIN xfer :
    /\ xfer[x].status = "active"
    /\ \/ ~xfer[x].respDue /\ xfer' = [xfer EXCEPT ![x] = [@ EXCEPT !.respDue = TRUE]]
       \/ xfer[x].respDue /\ ~xfer[x].escDue /\ xfer' = [xfer EXCEPT ![x] = [@ EXCEPT !.escDue = TRUE]]
       \/ xfer[x].respDue /\ ~xfer[x].expDue /\ xfer' = [xfer EXCEPT ![x] = [@ EXCEPT !.expDue = TRUE]]
    /\ UNCHANGED <<conv, owner, session, botWait, repliers, people, flight, ops>>

-----------------------------------------------------------------------------
Customer == \E c \in Contacts : TouchInbound(c) \/ BotReply(c)

Conversations ==
  \/ \E c \in Contacts, a \in Agents : AgentReply(c, a)
  \/ \E c \in Contacts : SetConversationStatus(c) \/ MarkConversationPending(c)
  \/ \E c \in Contacts, a \in AgentOrNone, t \in TeamOrNone : AssignConversation(c, a, t)
  \/ \E i \in DOMAIN conv : ReopenConversation(i) \/ BulkConversations(i)
  \/ SweepIdleRead
  \/ \E f \in flight : SweepIdleResolve(f)

Creation ==
  \/ \E c \in Contacts, a \in AgentOrNone, t \in TeamOrNone : CreateCheck(c, a, t)
  \/ \E f \in flight : CreateAgentTransfer(f) \/ StoreTeamConfig(f)
  \/ \E c \in Contacts : \/ CreateTransferToQueue(c)
                          \/ CreateTransferFromKeyword(c)
                          \/ AssignConversationAction(c)
  \/ \E t \in Teams : LoadTeamConfig(t)

Work ==
  \/ \E a \in Agents : PickNextRead(a) \/ GoAway(a) \/ ComeBack(a)
  \/ \E f \in flight : PickNextClaim(f) \/ AssignTransferSave(f) \/ ReturnToQueue(f)
  \/ \E x \in DOMAIN xfer : \/ ResumeFromTransfer(x)
                            \/ \E a \in AgentOrNone, t \in TeamOrNone : AssignTransferRead(x, a, t)

Processor ==
  \/ SlaRead \/ MarkSLABreached
  \/ \E f \in flight : AutoCloseExpired(f)
  \/ \E x \in DOMAIN xfer : Escalate(x)
  \/ \E c \in Contacts : CloseInactiveBot(c)

TeamAdmin ==
  \/ \E t \in Teams : UpdateTeam(t) \/ DeleteTeam(t)
  \/ \E t \in Teams, a \in Agents : AddTeamMember(t, a) \/ RemoveTeamMember(t, a)

Time == SnoozeRunsOut \/ ConversationAges \/ DeadlinePasses

Next == Customer \/ Conversations \/ WakeSnoozed \/ Creation \/ Work \/ Processor
        \/ TeamAdmin \/ Time

Spec == Init /\ [][Next]_vars

-----------------------------------------------------------------------------
(* Properties *)

\* A contact never has two live conversations, however messages, replies,
\* reopenings and reopen-by-id come together: touchInbound, RecordOutbound and
\* Reopen decide under the contact lock (service.go:127-266, 657-707).
OneLiveConversation == \A c \in Contacts : Cardinality(LiveConvs(c)) <= 1

\* Round robin hands work only to people who are in the team now, even when the
\* cached config still lists a removed member because a cache fill read the row
\* before the removal; no strategy hands work to somebody away
\* (assigner.go:68-92, 126-157).
AssignmentIsSafe ==
  \A t \in Teams :
    /\ AssignToTeam(t) \cap away = {}
    /\ (GetTeamConfig(t) # None /\ GetTeamConfig(t).strategy = "round_robin")
         => AssignToTeam(t) \subseteq team[t].members \cup {None}

\* A transfer an agent holds has its pickup recorded, so the SLA view does not
\* count a customer somebody is talking to as waiting to be picked up
\* (mirror.go:53-94, service.go:80-147).
HeldIsPickedUp ==
  \A x \in DOMAIN xfer :
    xfer[x].status = "active" /\ xfer[x].agent # None => xfer[x].picked

\* What an agent is told and what an agent gets agree: the queued transfers
\* ListAgentTransfers shows are the ones PickNext may hand over, its queue
\* counters count them, and each badge of GetInboxCounts counts what the view behind it lists
\* (inbox.go:77-266, agent_transfers.go:197-215, transfers/service.go:149-181).
WorkListsAgree ==
  \A u \in Agents :
    /\ ListAgentTransfers(u) \cap Queued = Candidates(u, {})
    /\ \A q \in DOMAIN QueueCounts(u) :
         QueueCounts(u)[q] = Cardinality({x \in Candidates(u, {}) : xfer[x].team = q})
    /\ \A view \in {"mine", "unassigned", "bot"} :
         GetInboxCounts(u)[view] = Cardinality(ListInbox(u, view))

\* Whatever changes the agent of an active transfer leaves the contact's live
\* conversation naming the same person (mirrorTransfer, MirrorToConversation and
\* AssignActiveTx; agent_transfers.go:1423-1432).
MirrorFollowsTransfer ==
  [][\A x \in DOMAIN xfer' :
       /\ xfer'[x].status = "active"
       /\ IF x \in DOMAIN xfer THEN xfer'[x].agent # xfer[x].agent ELSE TRUE
       => \A i \in DOMAIN conv' :
            conv'[i].contact = xfer'[x].contact /\ conv'[i].status # "resolved"
              => conv'[i].assignee = xfer'[x].agent]_vars

\* A transfer passes from one agent straight to another only by an explicit
\* assignment, of the transfer or of its conversation: two agents picking from
\* the queue at once never take it from each other (PickNext, service.go:80-147).
ClaimIsExclusive ==
  [][\A x \in DOMAIN xfer :
       (xfer[x].agent # None /\ xfer'[x].agent \notin {None, xfer[x].agent})
         => \/ \E f \in flight \ flight' : f.op = "assign" /\ f.id = x
            \/ ops' = ops + 1]_vars

\* A transfer that was resumed or expired becomes active again in one way only:
\* AssignAgentTransfer saving the whole row it read while the transfer was still
\* active (agent_transfers.go:713-789).
EndedStaysEnded ==
  [][\A x \in DOMAIN xfer :
       (xfer[x].status # "active" /\ xfer'[x].status = "active")
         => \E f \in flight \ flight' : f.op = "assign" /\ f.id = x]_vars

\* What agents are given, shown and measured by agrees with the rows behind it
\* (assigner.go, transfers/service.go, inbox.go).
InboxInv == TypeOK /\ AssignmentIsSafe /\ HeldIsPickedUp /\ WorkListsAgree

\* A transfer stays with whoever has it, and an ended one stays ended, but for
\* the requests that say otherwise (PickNext, AssignAgentTransfer).
TransfersKept == ClaimIsExclusive /\ EndedStaysEnded
=============================================================================
