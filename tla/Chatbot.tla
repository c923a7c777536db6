------------------------------ MODULE Chatbot ------------------------------
(***************************************************************************)
(* The chatbot and one contact.  Every inbound message is handled in a     *)
(* goroutine of its own: it checks whether a person has taken over, loads  *)
(* the contact's session row, walks the flow's graph node by node on its   *)
(* copy of the row, and at the end saves the whole row.  Nothing locks the *)
(* session, so two messages, a timeout sweep, a resolved conversation or a *)
(* transfer may end the row while a run still holds a copy; `raced' notes  *)
(* that this has happened, and the properties say what holds without it.   *)
(*                                                                         *)
(* A message is a kind of input, an HTTP call or a WhatsApp send succeeds  *)
(* or fails, and a condition comes out either way.                         *)
(***************************************************************************)
EXTENDS Naturals, Sequences, FiniteSets

CONSTANTS
  Workers,       \* goroutines handling messages
  Flows, None,
  Graphs,        \* by name, the graphs an author may save
  InitialGraph,  \* per flow: the graph before the start-up, None for a legacy flow
  LegacySteps,   \* per flow: the rows of chatbot_flow_steps
  Trigger,       \* the flow whose trigger keyword the input "trigger" contains
  Settings, InitialSettings,   \* chatbot settings an administrator may save
  MaxRetries,    \* max_retries of a prompt node
  MaxIter,       \* maxChatGraphIterations
  MaxMsgs, MaxSessions, MaxEdits   \* bounds on arrivals, sessions, and what people and the clock do

ASSUME ChatbotAssumption ==
  /\ {MaxMsgs, MaxSessions, MaxEdits} \subseteq Nat /\ MaxSessions # 0
  /\ MaxRetries \in Nat \ {0} /\ MaxIter \in Nat \ {0}
  /\ None \notin Flows /\ Trigger \in Flows /\ InitialSettings \in Settings
  /\ Settings \subseteq [enabled: BOOLEAN, hours: BOOLEAN, outside: BOOLEAN, ai: BOOLEAN]
  /\ DOMAIN Graphs \cap (Flows \cup {None}) = {}
  /\ \A f \in Flows :
       /\ InitialGraph[f] \in DOMAIN Graphs \cup {None}
       /\ LegacySteps[f] \in Seq({LegacySteps[f][i] : i \in DOMAIN LegacySteps[f]})

Inputs == {"media", "text", "bad", "agent", "trigger", "cancel", "yes", "no", "form"}
Buttons == {"yes", "no"}

VARIABLES
  booted,     \* the graph backfill of the start-up has run
  flow,       \* chatbot_flows: the row exists and is enabled; its graph
  rules,      \* enabled keyword rules whose response is a transfer
  settings,   \* chatbot_settings
  open,       \* now is within business hours
  sess,       \* chatbot_sessions, in the order they were created
  transfer,   \* the contact has an active agent transfer
  run,        \* per worker: the message it is handling, or None
  sweep,      \* session rows the timeout job has read and not yet closed
  published,  \* chatbot.flow_completed events per session
  raced,      \* a session row was written or loaded while a run held it
  msgs, edits

vars == <<booted, flow, rules, settings, open, sess, transfer, run,
          sweep, published, raced, msgs, edits>>
admin == <<booted, flow, rules, settings, open, edits>>

Idle == \A w \in Workers : run[w] = None

-----------------------------------------------------------------------------
(* Flow graphs *)

\* ResolveEdge: the edge of that outcome, else the default edge, else ""
ResolveEdge(g, n, outcome) ==
  LET to(c) == {e \in g.edges : e.from = n /\ e.cond = c} IN
  CASE to(outcome) # {} -> (CHOOSE e \in to(outcome) : TRUE).to
    [] to(outcome) = {} /\ to("default") # {} -> (CHOOSE e \in to("default") : TRUE).to
    [] OTHER -> ""

\* v2SupportedMessageType
Supported == {"text", "buttons", "end", "condition", "timing", "goto_flow", "api_fetch",
              "whatsapp_flow", "transfer"}

\* messageTypeToNodeTypeGo and textStepCapturesInput
NodeTypeOf(s) ==
  CASE s.type = "text" -> IF s.captures THEN "prompt" ELSE "message"
    [] s.type = "api_fetch" -> "api_call"
    [] OTHER -> s.type

\* buildNodeConfig keeps what the runner asks of a node: its target flow
NodeOf(s) == [kind |-> NodeTypeOf(s), to |-> s.flow, skip |-> FALSE]

\* buttonsEdges: mapped buttons go where conditional_next says, the others on
ButtonsEdges(s, next, names) ==
  {[from |-> s.name, cond |-> b, to |-> s.branch[b]] :
     b \in {c \in DOMAIN s.branch : s.branch[c] \in names}}
  \cup {[from |-> s.name, cond |-> b, to |-> next] :
     b \in {c \in s.buttons \ DOMAIN s.branch : next \in names}}

\* branchEdges: one edge per handle that names an existing step
BranchEdges(s, handles, names) ==
  {[from |-> s.name, cond |-> h, to |-> s.branch[h]] :
     h \in {c \in handles \cap DOMAIN s.branch : s.branch[c] \in names}}

\* buildEdges, step by step in step_order
BuildEdges(steps, names) ==
  UNION {LET s == steps[i]
             next == IF i < Len(steps) THEN steps[i + 1].name ELSE ""
             target == IF s.next # "" THEN s.next ELSE next
         IN CASE s.type = "buttons" -> ButtonsEdges(s, next, names)
              [] s.type = "condition" -> BranchEdges(s, {"true", "false"}, names)
              [] s.type = "timing" -> BranchEdges(s, {"in_hours", "out_of_hours"}, names)
              [] s.type \in {"transfer", "end", "goto_flow"} -> {}
              [] OTHER -> IF target \in names
                          THEN {[from |-> s.name, cond |-> "default", to |-> target]} ELSE {}
         : i \in DOMAIN steps}

\* stepsToGraph: nil without steps or with a step that has no v2 mapping
StepsToGraph(steps) ==
  LET names == {steps[i].name : i \in DOMAIN steps} IN
  IF steps = <<>> \/ \E i \in DOMAIN steps : steps[i].type \notin Supported THEN None
  ELSE [entry |-> "__start__",
        node |-> [n \in names \cup {"__start__"} |->
                   IF n = "__start__" THEN [kind |-> "start", to |-> None, skip |-> FALSE]
                   ELSE NodeOf(steps[CHOOSE i \in DOMAIN steps : steps[i].name = n])],
        edges |-> BuildEdges(steps, names)
                  \cup {[from |-> "__start__", cond |-> "default", to |-> steps[1].name]}]

\* a flow whose graph column the start-up filled has the graph of its own steps
Migrated == [f \in Flows |-> StepsToGraph(LegacySteps[f])]
Graph(g) == IF g \in Flows THEN Migrated[g] ELSE Graphs[g]

\* the node names a session can be parked at
GraphSteps(g) == {g.entry} \cup DOMAIN g.node \cup {e.to : e \in g.edges}
Steps == {""} \cup (UNION {GraphSteps(Graphs[g]) : g \in DOMAIN Graphs})
              \cup (UNION {GraphSteps(Migrated[f]) : f \in {g \in Flows : Migrated[g] # None}})

-----------------------------------------------------------------------------
Session ==
  [status: {"active", "completed", "cancelled", "timeout"},
   flow: Flows \cup {None}, step: Steps, retries: 0..(MaxRetries - 1),
   done: BOOLEAN,     \* completed_at is set
   stale: BOOLEAN]    \* last_activity_at is before the timeout cutoff

\* the graphs a flow may have, and a message being handled
GraphNames == DOMAIN Graphs \cup {g \in Flows : Migrated[g] # None}
Heard == Inputs \cup {"none", "used"}
Run == [sid : 1..MaxSessions, row : Session, input : Heard, flow : Flows \cup {None},
        graph : GraphNames \cup {None}, iter : 0..MaxIter, phase : {"dispatch", "graph", "save"}]

ASSUME NoneAssumption == None \notin Run

TypeOK ==
  /\ \A f \in Flows : flow[f].graph \in GraphNames \cup {None}
  /\ rules \subseteq {"agent", "text"} /\ settings \in Settings
  /\ {booted, open, transfer, raced} \subseteq BOOLEAN
  /\ Len(sess) <= MaxSessions
  /\ \A i \in DOMAIN sess : sess[i] \in Session
  /\ run \in [Workers -> Run \cup {None}]
  /\ sweep \subseteq DOMAIN sess
  /\ msgs \in 0..MaxMsgs /\ edits \in 0..MaxEdits

-----------------------------------------------------------------------------
NewSession == [status |-> "active", flow |-> None, step |-> "", retries |-> 0,
               done |-> FALSE, stale |-> FALSE]

\* a session the previous release left waiting for an answer
Parked ==
  LET saved(f) == IF InitialGraph[f] # None THEN Graphs[InitialGraph[f]] ELSE Migrated[f]
      waits(f) == {n \in DOMAIN saved(f).node :
                     saved(f).node[n].kind \in {"prompt", "buttons", "whatsapp_flow"}}
  IN UNION {{[NewSession EXCEPT !.flow = f, !.step = n] : n \in waits(f)}
              : f \in {g \in Flows : saved(g) # None}}

Init ==
  /\ booted = FALSE
  /\ flow = [f \in Flows |-> [on |-> InitialGraph[f] # None \/ LegacySteps[f] # <<>>, graph |-> InitialGraph[f]]]
  /\ rules = {"agent"}
  /\ settings = InitialSettings
  /\ open = TRUE
  /\ sess \in {<<>>} \cup {<<s>> : s \in Parked}
  /\ transfer = FALSE
  /\ run = [w \in Workers |-> None]
  /\ sweep = {}
  /\ published = [i \in 1..MaxSessions |-> 0]
  /\ raced = FALSE /\ msgs = 0 /\ edits = 0

\* BackfillChatbotFlowGraph, before the server takes requests
BackfillChatbotFlowGraph ==
  /\ ~booted
  /\ booted' = TRUE
  /\ flow' = [f \in Flows |-> IF flow[f].graph = None /\ Migrated[f] # None
                              THEN [flow[f] EXCEPT !.graph = f]
                              ELSE flow[f]]
  /\ UNCHANGED <<rules, settings, open, sess, transfer, run, sweep,
                 published, raced, msgs, edits>>

\* getChatbotEnabledFlows and getChatbotFlowByIDCached: only enabled flows are cached
EnabledFlows == [f \in {g \in Flows : flow[g].on} |-> flow[f]]
Runnable(f) == f \in DOMAIN EnabledFlows /\ EnabledFlows[f].graph # None

-----------------------------------------------------------------------------
(* The start of a message: processIncomingMessageFull up to the session *)

\* the transfers the bot creates are suppressed outside business hours
WithinHours == open \/ ~settings.hours

\* getOrCreateSession's candidates: active and not timed out
Loadable == {i \in DOMAIN sess : sess[i].status = "active" /\ ~sess[i].stale}

NewRun(i, row, input) ==
  [sid |-> i, row |-> row, input |-> input,
   flow |-> None, graph |-> None, iter |-> 0, phase |-> "dispatch"]

GetOrCreateSession(w, input) ==
  \/ \E i \in Loadable :        \* First without an order: any of them
       /\ run' = [run EXCEPT ![w] = NewRun(i, sess[i], input)]
       /\ UNCHANGED sess
  \/ /\ Loadable = {} /\ Len(sess) < MaxSessions
     /\ sess' = Append(sess, NewSession)
     /\ run' = [run EXCEPT ![w] = NewRun(Len(sess) + 1, NewSession, input)]

\* the early returns: a person has the contact, the bot is off, the office is
\* closed, or the message carries no text
Unanswered(input) ==
  \/ transfer /\ UNCHANGED transfer
  \/ ~transfer /\ ~settings.enabled /\ transfer' = WithinHours   \* createTransferToQueue
  \/ /\ ~transfer /\ settings.enabled
     /\ \/ ~WithinHours /\ ~settings.outside
        \/ input = "media"
     /\ UNCHANGED transfer

Inbound(w, input) ==
  /\ booted /\ msgs < MaxMsgs /\ run[w] = None
  /\ msgs' = msgs + 1
  /\ \/ /\ Unanswered(input)
        /\ UNCHANGED <<sess, run, raced>>
     \/ /\ ~transfer /\ settings.enabled /\ input # "media"
        /\ WithinHours \/ settings.outside
        /\ GetOrCreateSession(w, input)
        /\ raced' = (raced \/ ~Idle)
        /\ UNCHANGED transfer
  /\ UNCHANGED <<admin, sweep, published>>

-----------------------------------------------------------------------------
(* What the handler does with the message *)

Ends(w) == run' = [run EXCEPT ![w] = None]

\* matchKeywordRules: a rule with a reply changes no state, one that transfers does
MatchKeywordRules(input) == IF input \in rules THEN "transfer" ELSE "none"

\* saveAndFinalizeTransfer with endChatbotSession
CancelActive(ss) ==
  [i \in DOMAIN ss |-> IF ss[i].status = "active"
                       THEN [ss[i] EXCEPT !.status = "cancelled", !.done = TRUE] ELSE ss[i]]

CreatesTransfer == ~transfer /\ WithinHours

\* a transfer keyword comes before everything else
KeywordTransfer(w) ==
  /\ run[w] # None /\ run[w].phase = "dispatch"
  /\ MatchKeywordRules(run[w].input) = "transfer"
  /\ transfer' = (transfer \/ WithinHours)
  /\ sess' = IF CreatesTransfer THEN CancelActive(sess) ELSE sess
  /\ Ends(w)
  /\ UNCHANGED <<admin, sweep, published, raced, msgs>>

\* the columns a session loses when it ends outside a run's save
Ended(row, status) == [row EXCEPT !.step = "", !.retries = 0, !.status = status, !.done = TRUE]

\* exitFlow: the flow is gone, disabled or has no graph
ExitFlow(w) ==
  LET r == run[w] IN
  /\ sess' = [sess EXCEPT ![r.sid] = Ended(sess[r.sid], "completed")]
  /\ Ends(w)

\* cancelChatSession: the customer asked to stop
CancelChatSession(w) ==
  LET r == run[w] IN
  /\ sess' = [sess EXCEPT ![r.sid] = Ended(sess[r.sid], "cancelled")]
  /\ Ends(w)

\* runChatGraph's entry: an empty step starts at the entry node, and the
\* trigger that started the flow is nobody's answer
Entered(r, f, row) ==
  LET g == EnabledFlows[f].graph IN
  [r EXCEPT !.phase = "graph", !.flow = f, !.graph = g,
            !.row = IF row.step = "" THEN [row EXCEPT !.flow = f, !.step = Graph(g).entry]
                    ELSE [row EXCEPT !.flow = f],
            !.input = IF row.step = "" THEN "none" ELSE r.input]
EnterGraph(w, f, row) == run' = [run EXCEPT ![w] = Entered(run[w], f, row)]

\* the session is in a flow
ContinueFlow(w) ==
  LET r == run[w]
      f == r.row.flow
  IN
  /\ r # None /\ r.phase = "dispatch"
  /\ MatchKeywordRules(r.input) # "transfer" /\ f # None
  /\ \/ ~Runnable(f) /\ ExitFlow(w)
     \/ /\ Runnable(f)
        /\ \/ r.input = "cancel" /\ CancelChatSession(w)
           \/ r.input # "cancel" /\ EnterGraph(w, f, r.row) /\ UNCHANGED sess
  /\ UNCHANGED <<admin, transfer, sweep, published, raced, msgs>>

\* matchFlowTrigger, and the flow it finds has a graph to run
MatchFlowTrigger(input) == input = "trigger" /\ Runnable(Trigger)

\* a trigger keyword starts its flow with a clean session
TriggerFlow(w) ==
  LET r == run[w] IN
  /\ r # None /\ r.phase = "dispatch"
  /\ MatchKeywordRules(r.input) # "transfer" /\ r.row.flow = None
  /\ MatchFlowTrigger(r.input)
  /\ EnterGraph(w, Trigger, [r.row EXCEPT !.step = "", !.retries = 0])
  /\ UNCHANGED <<admin, sess, transfer, sweep, published, raced, msgs>>

\* no flow, or one without a graph: greeting, keyword reply, AI answer, fallback
\* or nothing; none of them changes the session
ReplyOutsideFlow(w) ==
  LET r == run[w] IN
  /\ r # None /\ r.phase = "dispatch"
  /\ MatchKeywordRules(r.input) # "transfer" /\ r.row.flow = None
  /\ ~MatchFlowTrigger(r.input)
  /\ Ends(w)
  /\ UNCHANGED <<admin, sess, transfer, sweep, published, raced, msgs>>

-----------------------------------------------------------------------------
(* The node executors: the set of results a node may have.  A result goes  *)
(* on with an outcome, stays to wait for the customer, or fails; it leaves *)
(* the copy of the session row.                                            *)

Result(r, does, outcome) ==
  [does |-> does, outcome |-> outcome, row |-> r.row, input |-> r.input,
   hands |-> "no"]

Goes(r, outcome) == Result(r, "goes", outcome)
Fails(r) == Result(r, "fails", "")
Asks(r) == {Result(r, "stays", ""), Fails(r)}
Answered(r, outcome) == {[Goes(r, outcome) EXCEPT !.input = "used"]}

ExecChatMessage(r) == {Goes(r, "default"), Fails(r)}

ExecChatButtons(r) ==
  IF r.input \in Buttons THEN Answered(r, r.input) ELSE Asks(r)

Retried(r, k) == [r.row EXCEPT !.retries = k]

\* handleChatPromptInvalid
HandleChatPromptInvalid(r) ==
  IF r.row.retries + 1 >= MaxRetries
  THEN {[Goes(r, "max_retries") EXCEPT !.row = Retried(r, 0), !.input = "used"]}
  ELSE {[Result(r, "stays", "") EXCEPT !.row = Retried(r, r.row.retries + 1), !.input = "used"],
        [Fails(r) EXCEPT !.row = Retried(r, r.row.retries + 1)]}

\* execChatPrompt: a run whose input was taken by an earlier node stays here
\* without sending the question
ExecChatPrompt(r) ==
  CASE r.input = "none" -> Asks(r)
    [] r.input = "used" -> {Result(r, "stays", "")}
    [] r.input = "bad" -> HandleChatPromptInvalid(r)
    [] OTHER -> {[a EXCEPT !.row = Retried(r, 0)] : a \in Answered(r, "default")}

ExecChatAPICall(r) == {Goes(r, "http:2xx"), Goes(r, "http:non2xx")}

ExecChatCondition(r) == {Goes(r, "true"), Goes(r, "false")}

ExecChatTiming(r) == {Goes(r, IF open THEN "in_hours" ELSE "out_of_hours")}

ExecChatSetVariable(r) == {Goes(r, "default")}

\* execChatAIResponse: no settings, no key, an error or an empty answer go on
ExecChatAIResponse(r) == {Goes(r, "default")} \cup IF settings.ai THEN {Fails(r)} ELSE {}

\* execChatTransfer: the session ends here, whether or not a transfer was made
ExecChatTransferKeepsSession(r) ==
  {[Result(r, "stays", "") EXCEPT !.hands = h] : h \in {"queue", "team"}}

ExecChatTransfer(r) ==
  {[Result(r, "stays", "") EXCEPT !.hands = h, !.row = [r.row EXCEPT !.status = "completed"]] : h \in {"queue", "team"}}

ExecChatWebhook(r) == {Goes(r, "default")}

\* execChatGotoFlow: an unusable target is no outcome at all
ExecChatGotoFlow(r, to) ==
  IF Runnable(to) THEN {[Goes(r, "goto") EXCEPT !.row = [r.row EXCEPT !.flow = to]]} ELSE {Goes(r, "")}

ExecChatWhatsAppFlow(r) ==
  IF r.input = "form" THEN Answered(r, "default") ELSE Asks(r)

ExecChatEnd(r) == {Goes(r, ""), Fails(r)}

ExecChatCRMAction(r) == {Goes(r, "default"), Goes(r, "error")}

ExecChatCRMCondition(r) == {Goes(r, "true"), Goes(r, "false")}

ExecuteChatNode(r, n) ==
  CASE n.kind = "start" -> {Goes(r, "default")}
    [] n.kind = "message" -> ExecChatMessage(r)
    [] n.kind = "buttons" -> ExecChatButtons(r)
    [] n.kind = "prompt" -> ExecChatPrompt(r)
    [] n.kind = "api_call" -> ExecChatAPICall(r)
    [] n.kind = "condition" -> ExecChatCondition(r)
    [] n.kind = "timing" -> ExecChatTiming(r)
    [] n.kind = "set_variable" -> ExecChatSetVariable(r)
    [] n.kind = "ai_response" -> ExecChatAIResponse(r)
    [] n.kind = "transfer" -> ExecChatTransfer(r)
    [] n.kind = "webhook" -> ExecChatWebhook(r)
    [] n.kind = "goto_flow" -> ExecChatGotoFlow(r, n.to)
    [] n.kind = "whatsapp_flow" -> ExecChatWhatsAppFlow(r)
    [] n.kind = "end" -> ExecChatEnd(r)
    [] n.kind = "crm_action" -> ExecChatCRMAction(r)
    [] n.kind = "crm_condition" -> ExecChatCRMCondition(r)
    [] OTHER -> {Fails(r)}

-----------------------------------------------------------------------------
(* runChatGraph *)

\* finishChatFlow's message and webhook change no session column
Finished(row) == [row EXCEPT !.status = "completed"]

\* where the run goes after a node: into the next node, into another flow, or
\* to the save that ends it
After(r, x) ==
  LET moved == [r EXCEPT !.row = x.row, !.input = x.input, !.iter = @ + 1]
      next == ResolveEdge(Graph(r.graph), r.row.step, x.outcome)
  IN IF x.does # "goes" THEN [moved EXCEPT !.phase = "save"]
     ELSE IF x.row.flow # r.flow
       THEN LET g == EnabledFlows[x.row.flow].graph IN
            [moved EXCEPT !.flow = x.row.flow, !.graph = g, !.row = [x.row EXCEPT !.step = Graph(g).entry]]
     ELSE IF next = "" THEN [moved EXCEPT !.phase = "save", !.row = Finished(x.row)]
     ELSE [moved EXCEPT !.row = [x.row EXCEPT !.step = next]]

\* the node's own handoff: a team's transfer cancels the active session rows
HandsOver(h) ==
  /\ transfer' = (transfer \/ (h # "no" /\ WithinHours))
  /\ sess' = IF h = "team" /\ CreatesTransfer THEN CancelActive(sess) ELSE sess

RunNodeForever(w) ==
  LET r == run[w] IN
  /\ r # None /\ r.phase = "graph" /\ r.row.step \in DOMAIN Graph(r.graph).node
  /\ \E x \in ExecuteChatNode(r, Graph(r.graph).node[r.row.step]) :
       /\ run' = [run EXCEPT ![w] = [After(r, x) EXCEPT !.iter = r.iter]]
       /\ HandsOver(x.hands)
  /\ UNCHANGED <<admin, sweep, published, raced, msgs>>

RunNode(w) ==
  LET r == run[w] IN
  /\ r # None /\ r.phase = "graph" /\ r.iter < MaxIter
  /\ r.row.step \in DOMAIN Graph(r.graph).node
  /\ \E x \in ExecuteChatNode(r, Graph(r.graph).node[r.row.step]) :
       /\ run' = [run EXCEPT ![w] = After(r, x)]
       /\ HandsOver(x.hands)
  /\ UNCHANGED <<admin, sweep, published, raced, msgs>>

\* a true skip_condition goes through the default edge without the node
SkipNode(w) ==
  LET r == run[w] IN
  /\ r # None /\ r.phase = "graph" /\ r.iter < MaxIter
  /\ r.row.step \in DOMAIN Graph(r.graph).node /\ Graph(r.graph).node[r.row.step].skip
  /\ run' = [run EXCEPT ![w] = After(r, Goes(r, "default"))]
  /\ UNCHANGED <<admin, sess, transfer, sweep, published, raced, msgs>>

\* the step names no node of the graph: an error, and nothing is saved
NodeNotFound(w) ==
  LET r == run[w] IN
  /\ r # None /\ r.phase = "graph" /\ r.iter < MaxIter
  /\ r.row.step \notin DOMAIN Graph(r.graph).node
  /\ Ends(w)
  /\ UNCHANGED <<admin, sess, transfer, sweep, published, raced, msgs>>

\* too many nodes for one message
Runaway(w) ==
  LET r == run[w] IN
  /\ r # None /\ r.phase = "graph" /\ r.iter = MaxIter
  /\ run' = [run EXCEPT ![w].phase = "save"]
  /\ UNCHANGED <<admin, sess, transfer, sweep, published, raced, msgs>>

JustCompleted(row) == row.status = "completed" /\ ~row.done

\* persistChatSession saves every column of the copy; publishFlowCompleted
PersistChatSession(w) ==
  LET r == run[w]
      just == JustCompleted(r.row)
  IN
  /\ r # None /\ r.phase = "save"
  /\ sess' = [sess EXCEPT ![r.sid] = [r.row EXCEPT !.stale = FALSE, !.done = @ \/ just]]
  /\ published' = IF just THEN [published EXCEPT ![r.sid] = @ + 1] ELSE published
  /\ Ends(w)
  /\ UNCHANGED <<admin, transfer, sweep, raced, msgs>>

-----------------------------------------------------------------------------
(* What else ends a session *)

\* endActiveSession, in the transaction that resolves the conversation
ResolveConversation ==
  /\ booted /\ edits < MaxEdits
  /\ \E i \in DOMAIN sess : sess[i].status = "active"
  /\ sess' = [i \in DOMAIN sess |-> IF sess[i].status = "active"
                THEN [sess[i] EXCEPT !.status = "completed", !.done = TRUE] ELSE sess[i]]
  /\ raced' = (raced \/ ~Idle)
  /\ edits' = edits + 1
  /\ UNCHANGED <<booted, flow, rules, settings, open, transfer, run, sweep,
                 published, msgs>>

\* an agent takes the contact over, and hands it back
AgentTakesOver ==
  /\ booted /\ ~transfer /\ edits < MaxEdits
  /\ transfer' = TRUE
  /\ sess' = CancelActive(sess)
  /\ raced' = (raced \/ ~Idle)
  /\ edits' = edits + 1
  /\ UNCHANGED <<booted, flow, rules, settings, open, run, sweep, published,
                 msgs>>

ResumeReopeningSession ==
  /\ transfer
  /\ transfer' = FALSE
  /\ sess' = [i \in DOMAIN sess |-> IF i = Len(sess) THEN [sess[i] EXCEPT !.status = "active"] ELSE sess[i]]
  /\ UNCHANGED <<admin, run, sweep, published, raced, msgs>>

ResumeFromTransfer ==
  /\ transfer
  /\ transfer' = FALSE
  /\ UNCHANGED <<admin, sess, run, sweep, published, raced, msgs>>

StaleSessions == {i \in DOMAIN sess : sess[i].status = "active" /\ sess[i].stale}

TimeoutStaleChatSessions ==
  /\ sweep = {} /\ StaleSessions # {}
  /\ sweep' = StaleSessions
  /\ UNCHANGED <<admin, sess, transfer, run, published, raced, msgs>>

\* timeoutChatSession: by primary key, whatever has happened since the read
TimeoutChatSession(i) ==
  /\ i \in sweep
  /\ sweep' = sweep \ {i}
  /\ sess' = [sess EXCEPT ![i] = Ended(sess[i], "timeout")]
  /\ raced' = (raced \/ ~Idle \/ ~sess[i].stale \/ sess[i].status # "active")
  /\ UNCHANGED <<admin, transfer, run, published, msgs>>

\* session_timeout_minutes pass without activity
SessionGoesStale ==
  /\ \E i \in DOMAIN sess :
       /\ sess[i].status = "active" /\ ~sess[i].stale
       /\ sess' = [sess EXCEPT ![i] = [sess[i] EXCEPT !.stale = TRUE]]
  /\ raced' = (raced \/ ~Idle)
  /\ UNCHANGED <<admin, transfer, run, sweep, published, msgs>>

-----------------------------------------------------------------------------
(* Authors and administrators *)

Edit == booted /\ edits < MaxEdits /\ edits' = edits + 1
botState == <<booted, open, sess, transfer, run, sweep, published, raced, msgs>>

CreateChatbotFlow(f) ==
  /\ Edit /\ ~flow[f].on
  /\ \E g \in DOMAIN Graphs : flow' = [flow EXCEPT ![f] = [on |-> TRUE, graph |-> g]]
  /\ UNCHANGED <<rules, settings, botState>>

UpdateChatbotFlow(f) ==
  /\ Edit /\ flow[f].on
  /\ \E on \in BOOLEAN, g \in DOMAIN Graphs : flow' = [flow EXCEPT ![f] = [on |-> on, graph |-> g]]
  /\ UNCHANGED <<rules, settings, botState>>

DeleteChatbotFlow(f) ==
  /\ Edit /\ flow[f].on
  /\ flow' = [flow EXCEPT ![f].on = FALSE]
  /\ UNCHANGED <<rules, settings, botState>>

CreateKeywordRule(k) ==
  /\ Edit /\ k \notin rules
  /\ rules' = rules \cup {k}
  /\ UNCHANGED <<flow, settings, botState>>

\* UpdateKeywordRule: only its enabled flag matters here
UpdateKeywordRule(k) ==
  /\ Edit
  /\ \E on \in BOOLEAN : rules' = IF on THEN rules \cup {k} ELSE rules \ {k}
  /\ UNCHANGED <<flow, settings, botState>>

DeleteKeywordRule(k) ==
  /\ Edit /\ k \in rules
  /\ rules' = rules \ {k}
  /\ UNCHANGED <<flow, settings, botState>>

UpdateChatbotSettings ==
  /\ Edit
  /\ settings' \in Settings
  /\ UNCHANGED <<flow, rules, botState>>

\* the office opens and closes
Clock ==
  /\ Edit
  /\ open' = ~open
  /\ UNCHANGED <<booted, flow, rules, settings, sess, transfer, run, sweep,
                 published, raced, msgs>>

-----------------------------------------------------------------------------
Worker(w) == \/ KeywordTransfer(w) \/ ContinueFlow(w) \/ TriggerFlow(w) \/ ReplyOutsideFlow(w)
             \/ RunNode(w) \/ SkipNode(w) \/ NodeNotFound(w) \/ Runaway(w) \/ PersistChatSession(w)

Authors ==
  \/ \E f \in Flows : CreateChatbotFlow(f) \/ UpdateChatbotFlow(f) \/ DeleteChatbotFlow(f)
  \/ \E k \in {"agent", "text"} : CreateKeywordRule(k) \/ UpdateKeywordRule(k) \/ DeleteKeywordRule(k)
  \/ UpdateChatbotSettings

Sweeper == TimeoutStaleChatSessions \/ \E i \in sweep : TimeoutChatSession(i)

Next ==
  \/ BackfillChatbotFlowGraph
  \/ \E w \in Workers : Worker(w) \/ \E input \in Inputs : Inbound(w, input)
  \/ ResolveConversation \/ AgentTakesOver \/ ResumeFromTransfer
  \/ Sweeper \/ SessionGoesStale \/ Authors \/ Clock

\* a goroutine runs to its end; the scheduler runs the sweep again and again
Spec == /\ Init /\ [][Next]_vars
        /\ \A w \in Workers : WF_vars(Worker(w))
        /\ WF_vars(Sweeper)

-----------------------------------------------------------------------------
(* Properties *)

\* Without a race a contact has one session at a time, and a person who takes
\* the contact over ends it: when the transfer is resumed the customer does not
\* fall back into a flow that was interrupted (getOrCreateSession,
\* execChatTransfer, saveAndFinalizeTransfer).  A contact taken because the bot
\* was switched off keeps the session it had.
OneSession ==
  ~raced => /\ Cardinality(Loadable) <= 1
            /\ (transfer /\ Idle /\ settings.enabled /\ edits = 0)
                 => \A i \in Loadable : sess[i].flow = None

\* chatbot.flow_completed is published only for a session that is completed, and
\* once: persistChatSession keys it off completed_at and is called after every
\* yield (chatbot_graph_runner.go:1013-1032).
CompletionIsFinal ==
  ~raced => \A i \in DOMAIN sess :
              /\ published[i] <= 1
              /\ published[i] = 1 => sess[i].done /\ sess[i].status # "active"

\* A session that has ended is active again only when a run that had loaded it
\* before saves its copy (persistChatSession's whole-row save).
EndedStaysEnded ==
  [][\A i \in DOMAIN sess :
       sess[i].status # "active" /\ sess'[i].status = "active" => raced]_vars

\* a graph whose entry and edges lead to its own nodes
WellDrawn(g) == g.entry \in DOMAIN g.node /\ \A e \in g.edges : e.to \in DOMAIN g.node

\* A run loses its way only in a flow somebody edited while a session was parked
\* in it, or in a graph drawn with a loose end, which no handler looks for: the
\* backfill and the graphs it makes never send a run to a step that is not a node
\* (stepsToGraph, buildEdges; runChatGraph's "node not found").
LostOnlyByEdits ==
  \A w \in Workers :
    (run[w] # None /\ run[w].phase = "graph" /\ run[w].row.step \notin DOMAIN Graph(run[w].graph).node)
      => edits > 0 \/ (run[w].graph \in DOMAIN Graphs /\ ~WellDrawn(Graphs[run[w].graph]))

\* The chatbot's work drains: every message is finished with, also in a flow whose
\* nodes form a cycle (maxChatGraphIterations), and a session the customer walked
\* away from ends, in a flow or not (TimeoutStaleChatSessions).
WorkDrains == []<>(Idle /\ \A i \in DOMAIN sess : ~(sess[i].status = "active" /\ sess[i].stale))

\* What a message leaves behind: one session at most to go on with, an outcome
\* published once, and a place in the flow that exists (chatbot_graph_runner.go).
ChatbotInv == TypeOK /\ OneSession /\ CompletionIsFinal /\ LostOnlyByEdits
=============================================================================
