---------------------------- MODULE ChatbotProofs ----------------------------
(* Proofs about Chatbot, for any workers, flows, graphs, sessions and bounds. *)
EXTENDS Chatbot, SequenceTheorems, FiniteSetTheorems, TLAPS

-----------------------------------------------------------------------------
(* The shape of the state                                                     *)

FlowRow == [on : BOOLEAN, graph : GraphNames \cup {None}]

AdminTypes ==
  /\ flow \in [Flows -> FlowRow] /\ rules \subseteq {"agent", "text"} /\ settings \in Settings
  /\ booted \in BOOLEAN /\ open \in BOOLEAN /\ edits \in 0..MaxEdits
SessionTypes ==
  /\ transfer \in BOOLEAN /\ raced \in BOOLEAN /\ msgs \in 0..MaxMsgs
  /\ sess \in Seq(Session) /\ Len(sess) <= MaxSessions /\ sweep \subseteq DOMAIN sess
  /\ published \in [1..MaxSessions -> Nat] /\ \A i \in 1..MaxSessions : i \notin DOMAIN sess => published[i] = 0
  /\ run \in [Workers -> Run \cup {None}]
  /\ \A w \in Workers : run[w] # None =>
       /\ run[w].sid \in DOMAIN sess
       /\ run[w].phase = "graph" =>
            run[w].flow \in Flows /\ run[w].graph \in GraphNames /\ run[w].row.flow = run[w].flow

(* Until somebody edits something, a flow has the graph it was installed with *)
(* or, once the server is up, the one of its steps; whoever is in the flow is  *)
(* at a node of that graph, unless it was drawn with a loose end.              *)
Installed(f) == IF InitialGraph[f] # None THEN InitialGraph[f] ELSE IF Migrated[f] # None THEN f ELSE None
AsInstalled ==
  /\ settings = InitialSettings
  /\ \A f \in Flows : flow[f].graph = IF booted THEN Installed(f) ELSE InitialGraph[f]
AtNode(f, step) ==
  /\ Installed(f) # None
  /\ WellDrawn(Graph(Installed(f))) => step \in DOMAIN Graph(Installed(f)).node
RowPlaced(row) == row.flow # None /\ row.step # "" => AtNode(row.flow, row.step)
RunPlaced(r) ==
  /\ RowPlaced(r.row)
  /\ r.phase = "graph" => r.graph = Installed(r.flow) /\ AtNode(r.flow, r.row.step)
Places ==
  /\ \A w \in Workers : run[w] # None => booted
  /\ edits = 0 =>
       /\ AsInstalled
       /\ \A i \in DOMAIN sess : RowPlaced(sess[i])
       /\ \A w \in Workers : run[w] # None => RunPlaced(run[w])

(* While nothing raced, one run at a time holds the one session to go on      *)
(* with, and what it holds has not ended in the table.                        *)
SessionKept(i) ==
  /\ sess[i].status = "active" => ~sess[i].done /\ published[i] = 0
  /\ published[i] <= 1 /\ (published[i] = 1 => sess[i].done)
Unanswerable == transfer /\ settings.enabled /\ edits = 0
RunKept(r) ==
  /\ ~r.row.done /\ published[r.sid] = 0
  /\ r.row.status \in {"active", "completed"} /\ (r.phase # "save" => r.row.status = "active")
  /\ r.row.status = "active" => sess[r.sid].status = "active"
  /\ Loadable \subseteq {r.sid}
  /\ Unanswerable => r.phase = "save" /\ r.row.status = "completed"
Orderly ==
  /\ \A u, w \in Workers : run[u] # None /\ run[w] # None => u = w
  /\ \A i, j \in Loadable : i = j
  /\ \A i \in DOMAIN sess : SessionKept(i)
  /\ \A w \in Workers : run[w] # None => RunKept(run[w])
  /\ Idle /\ Unanswerable => \A i \in Loadable : sess[i].flow = None

ChatbotIInv == AdminTypes /\ SessionTypes /\ Places /\ (~raced => Orderly)

-----------------------------------------------------------------------------
(* Graphs                                                                     *)

LEMMA MigratedIs ==
  ASSUME NEW f \in Flows, Migrated[f] # None
  PROVE  /\ Migrated[f].entry = "__start__" /\ "__start__" \in DOMAIN Migrated[f].node
         /\ WellDrawn(Migrated[f])
<1> DEFINE steps == LegacySteps[f]
           names == {steps[i].name : i \in DOMAIN steps}
           node == [n \in names \cup {"__start__"} |->
                   IF n = "__start__" THEN [kind |-> "start", to |-> None, skip |-> FALSE]
                   ELSE NodeOf(steps[CHOOSE i \in DOMAIN steps : steps[i].name = n])]
           edges == BuildEdges(steps, names) \cup {[from |-> "__start__", cond |-> "default", to |-> steps[1].name]}
<1>1. Migrated[f] = StepsToGraph(steps)
  BY DEF Migrated
<1>2. Migrated[f] = [entry |-> "__start__", node |-> node, edges |-> edges] /\ steps # <<>>
  BY <1>1 DEF StepsToGraph
<1>3. DOMAIN node = names \cup {"__start__"}
  OBVIOUS
<1>5. steps[1].name \in names
  <2>1. PICK S : steps \in Seq(S)
    BY ChatbotAssumption
  <2>2. 1 \in DOMAIN steps
    BY <1>2, <2>1
  <2> QED  BY <2>2
<1>6. ASSUME NEW e \in BuildEdges(steps, names)
      PROVE  e.to \in names
  <2> DEFINE next(i) == IF i < Len(steps) THEN steps[i + 1].name ELSE ""
             target(i) == IF steps[i].next # "" THEN steps[i].next ELSE next(i)
             part(i) == CASE steps[i].type = "buttons" -> ButtonsEdges(steps[i], next(i), names)
                          [] steps[i].type = "condition" -> BranchEdges(steps[i], {"true", "false"}, names)
                          [] steps[i].type = "timing" -> BranchEdges(steps[i], {"in_hours", "out_of_hours"}, names)
                          [] steps[i].type \in {"transfer", "end", "goto_flow"} -> {}
                          [] OTHER -> IF target(i) \in names
                             THEN {[from |-> steps[i].name, cond |-> "default", to |-> target(i)]} ELSE {}
  <2>1. PICK i \in DOMAIN steps : e \in part(i)
    BY <1>6 DEF BuildEdges
  <2> HIDE DEF names, steps, next, target
  <2>2. CASE steps[i].type = "buttons"
    <3>1. e \in ButtonsEdges(steps[i], next(i), names)
      BY <2>1, <2>2
    <3> QED  BY <3>1 DEF ButtonsEdges
  <2>3. CASE steps[i].type = "condition"
    <3>1. e \in BranchEdges(steps[i], {"true", "false"}, names)
      BY <2>1, <2>3
    <3> QED  BY <3>1 DEF BranchEdges
  <2>4. CASE steps[i].type = "timing"
    <3>1. e \in BranchEdges(steps[i], {"in_hours", "out_of_hours"}, names)
      BY <2>1, <2>4
    <3> QED  BY <3>1 DEF BranchEdges
  <2>5. CASE steps[i].type \in {"transfer", "end", "goto_flow"}
    BY <2>1, <2>5
  <2>6. CASE steps[i].type \notin {"buttons", "condition", "timing", "transfer", "end", "goto_flow"}
    <3>1. e \in IF target(i) \in names
                THEN {[from |-> steps[i].name, cond |-> "default", to |-> target(i)]} ELSE {}
      BY <2>1, <2>6
    <3> QED  BY <3>1
  <2> QED  BY <2>2, <2>3, <2>4, <2>5, <2>6
<1> HIDE DEF node, names, steps
<1>7. \A e \in edges : e.to \in names
  BY <1>5, <1>6
<1> HIDE DEF edges
<1>9. Migrated[f].entry = "__start__" /\ Migrated[f].node = node /\ Migrated[f].edges = edges
  BY <1>2
<1>10. WellDrawn(Migrated[f])
  BY <1>3, <1>7, <1>9 DEF WellDrawn
<1>11. "__start__" \in DOMAIN node
  BY <1>3
<1> QED  BY <1>9, <1>10, <1>11

LEMMA GraphIs ==
  ASSUME NEW g \in GraphNames
  PROVE  /\ g # None /\ Graph(g).entry \in Steps
         /\ \A e \in Graph(g).edges : e.to \in Steps
         /\ DOMAIN Graph(g).node \subseteq Steps
         /\ g \in Flows => WellDrawn(Graph(g))
         /\ g \notin Flows => g \in DOMAIN Graphs /\ Graph(g) = Graphs[g]
<1>1. CASE g \in Flows
  <2>1. Graph(g) = Migrated[g] /\ Migrated[g] # None /\ g # None
    BY <1>1, ChatbotAssumption DEF Graph, GraphNames
  <2>2. GraphSteps(Migrated[g]) \subseteq UNION {GraphSteps(Migrated[f]) : f \in {h \in Flows : Migrated[h] # None}}
    <3> HIDE DEF Migrated
    <3> QED  BY <1>1, <2>1
  <2>2a. GraphSteps(Migrated[g]) \subseteq Steps
    <3> DEFINE U == UNION {GraphSteps(Migrated[f]) : f \in {h \in Flows : Migrated[h] # None}}
               V == UNION {GraphSteps(Graphs[h]) : h \in DOMAIN Graphs}
    <3>1. Steps = {""} \cup V \cup U /\ GraphSteps(Migrated[g]) \subseteq U
      BY <2>2 DEF Steps
    <3> HIDE DEF U, V
    <3> QED  BY <3>1
  <2> QED  BY <1>1, <2>1, <2>2a, MigratedIs DEF GraphSteps
<1>2. CASE g \notin Flows
  <2>1. Graph(g) = Graphs[g] /\ g \in DOMAIN Graphs
    BY <1>2 DEF Graph, GraphNames
  <2>2. GraphSteps(Graphs[g]) \subseteq Steps
    BY <2>1 DEF Steps
  <2>3. g # None
    BY <2>1, ChatbotAssumption
  <2> QED  BY <1>2, <2>1, <2>2, <2>3 DEF GraphSteps
<1> QED  BY <1>1, <1>2

LEMMA EdgeIs ==
  ASSUME NEW g, NEW n, NEW outcome
  PROVE  ResolveEdge(g, n, outcome) = "" \/ \E e \in g.edges : ResolveEdge(g, n, outcome) = e.to
<1> DEFINE to(c) == {e \in g.edges : e.from = n /\ e.cond = c}
<1>1. CASE to(outcome) # {}
  <2>1. ResolveEdge(g, n, outcome) = (CHOOSE e \in to(outcome) : TRUE).to
    BY <1>1 DEF ResolveEdge
  <2>2. (CHOOSE e \in to(outcome) : TRUE) \in to(outcome)
    BY <1>1
  <2> QED  BY <2>1, <2>2
<1>2. CASE to(outcome) = {} /\ to("default") # {}
  <2>1. ResolveEdge(g, n, outcome) = (CHOOSE e \in to("default") : TRUE).to
    BY <1>2 DEF ResolveEdge
  <2>2. (CHOOSE e \in to("default") : TRUE) \in to("default")
    BY <1>2
  <2> QED  BY <2>1, <2>2
<1>3. CASE to(outcome) = {} /\ to("default") = {}
  BY <1>3 DEF ResolveEdge
<1> QED  BY <1>1, <1>2, <1>3

LEMMA RunnableIs ==
  ASSUME AdminTypes, NEW f, Runnable(f)
  PROVE  f \in Flows /\ f # None /\ EnabledFlows[f].graph = flow[f].graph /\ flow[f].graph \in GraphNames
<1>1. f \in Flows /\ EnabledFlows[f] = flow[f] /\ flow[f].graph # None
  BY DEF Runnable, EnabledFlows
<1>2. flow[f].graph \in GraphNames \cup {None}
  BY <1>1 DEF AdminTypes, FlowRow
<1> QED  BY <1>1, <1>2, ChatbotAssumption

-----------------------------------------------------------------------------
(* Nodes                                                                      *)

(* What every executor leaves of the copy of the session row.                 *)
ResultOK(r, x) ==
  /\ x.row \in Session /\ x.input \in Heard
  /\ x.row.step = r.row.step /\ (x.row.done <=> r.row.done)
  /\ x.row.flow = r.row.flow \/ (x.does = "goes" /\ Runnable(x.row.flow))
  /\ x.hands = "no" => x.row.status = r.row.status
  /\ x.hands # "no" => x.does = "stays" /\ x.row.status = "completed"

LEMMA PlainResult ==
  ASSUME NEW r \in Run, NEW does, NEW outcome, NEW input \in Heard
  PROVE  /\ ResultOK(r, Result(r, does, outcome))
         /\ ResultOK(r, [Result(r, does, outcome) EXCEPT !.input = input])
BY DEF ResultOK, Result, Run, Session

LEMMA RetriesResult ==
  ASSUME NEW r \in Run, NEW does, NEW outcome, NEW input \in Heard, NEW k \in 0..(MaxRetries - 1)
  PROVE  /\ ResultOK(r, [Result(r, does, outcome) EXCEPT !.row = Retried(r, k), !.input = input])
         /\ ResultOK(r, [Result(r, does, outcome) EXCEPT !.row = Retried(r, k)])
<1>1. Retried(r, k) \in Session
  BY DEF Run, Session, Retried
<1>2. /\ Retried(r, k).step = r.row.step /\ (Retried(r, k).done <=> r.row.done)
      /\ Retried(r, k).flow = r.row.flow /\ Retried(r, k).status = r.row.status
  BY DEF Run, Session, Retried
<1>3. r.input \in Heard
  BY DEF Run
<1> QED  BY <1>1, <1>2, <1>3 DEF ResultOK, Result

LEMMA HandsResult ==
  ASSUME NEW r \in Run, NEW h \in {"queue", "team"}
  PROVE  ResultOK(r, [Result(r, "stays", "") EXCEPT !.hands = h, !.row = [r.row EXCEPT !.status = "completed"]])
<1> DEFINE row == [r.row EXCEPT !.status = "completed"]
<1>1. row \in Session /\ row.status = "completed"
  BY DEF Run, Session
<1>2. row.step = r.row.step /\ (row.done <=> r.row.done) /\ row.flow = r.row.flow
  BY DEF Run, Session
<1>3. r.input \in Heard
  BY DEF Run
<1> DEFINE x == [Result(r, "stays", "") EXCEPT !.hands = h, !.row = row]
<1> HIDE DEF row
<1>4. x.row = row /\ x.does = "stays" /\ x.input = r.input /\ x.hands = h
  BY DEF Result
<1>5. ResultOK(r, x)
  BY <1>1, <1>2, <1>3, <1>4 DEF ResultOK
<1> QED  BY <1>5 DEF row

LEMMA GotoResult ==
  ASSUME AdminTypes, NEW r \in Run, NEW to, Runnable(to)
  PROVE  ResultOK(r, [Goes(r, "goto") EXCEPT !.row = [r.row EXCEPT !.flow = to]])
<1> DEFINE row == [r.row EXCEPT !.flow = to]
<1>0. to \in Flows
  BY RunnableIs
<1>1. row \in Session /\ row.flow = to
  BY <1>0 DEF Run, Session
<1>2. row.step = r.row.step /\ (row.done <=> r.row.done) /\ row.status = r.row.status
  BY DEF Run, Session
<1>3. r.input \in Heard
  BY DEF Run
<1>4. [Goes(r, "goto") EXCEPT !.row = [r.row EXCEPT !.flow = to]]
        = [does |-> "goes", outcome |-> "goto", row |-> row, input |-> r.input, hands |-> "no"]
  BY DEF Goes, Result
<1> HIDE DEF row
<1> QED  BY <1>1, <1>2, <1>3, <1>4 DEF ResultOK

LEMMA NodeResult ==
  ASSUME AdminTypes, NEW r \in Run, NEW n, NEW x \in ExecuteChatNode(r, n)
  PROVE  ResultOK(r, x)
<1> USE DEF Goes, Fails, Asks, Answered
<1>0. \A does, outcome : ResultOK(r, Result(r, does, outcome))
                         /\ ResultOK(r, [Result(r, does, outcome) EXCEPT !.input = "used"])
  BY PlainResult DEF Heard
<1>1. CASE n.kind = "buttons"
  <2>1. x \in ExecChatButtons(r)
    BY <1>1 DEF ExecuteChatNode
  <2>2. \/ x = Result(r, "stays", "") \/ x = Result(r, "fails", "")
        \/ x = [Result(r, "goes", r.input) EXCEPT !.input = "used"]
    BY <2>1 DEF ExecChatButtons
  <2>3. ResultOK(r, Result(r, "stays", "")) /\ ResultOK(r, Result(r, "fails", ""))
    BY <1>0
  <2>4. ResultOK(r, [Result(r, "goes", r.input) EXCEPT !.input = "used"])
    BY <1>0
  <2> QED  BY <2>2, <2>3, <2>4
<1>2. CASE n.kind = "prompt"
  <2>1. x \in ExecChatPrompt(r)
    BY <1>2 DEF ExecuteChatNode
  <2>2. 0 \in 0..(MaxRetries - 1)
    BY ChatbotAssumption
  <2>3. CASE r.input = "none"
    <3>1. x \in Asks(r)
      BY <2>1, <2>3 DEF ExecChatPrompt
    <3> QED  BY <1>0, <3>1
  <2>4. CASE r.input = "used"
    <3>1. x = Result(r, "stays", "")
      BY <2>1, <2>4 DEF ExecChatPrompt
    <3> QED  BY <1>0, <3>1
  <2>5. CASE r.input = "bad"
    <3>1. x \in HandleChatPromptInvalid(r)
      BY <2>1, <2>5 DEF ExecChatPrompt
    <3>2. CASE r.row.retries + 1 >= MaxRetries
      <4>1. x = [Result(r, "goes", "max_retries") EXCEPT !.row = Retried(r, 0), !.input = "used"]
        BY <3>1, <3>2 DEF HandleChatPromptInvalid
      <4> QED  BY <4>1, <2>2, RetriesResult DEF Heard
    <3>3. CASE ~(r.row.retries + 1 >= MaxRetries)
      <4>1. r.row.retries + 1 \in 0..(MaxRetries - 1)
        BY <3>3, ChatbotAssumption DEF Run, Session
      <4>2. PICK k \in 0..(MaxRetries - 1) : k = r.row.retries + 1
        BY <4>1
      <4>3. \/ x = [Result(r, "stays", "") EXCEPT !.row = Retried(r, k), !.input = "used"]
            \/ x = [Result(r, "fails", "") EXCEPT !.row = Retried(r, k)]
        BY <3>1, <3>3, <4>2 DEF HandleChatPromptInvalid, Result
      <4>4. "used" \in Heard
        BY DEF Heard
      <4>5. /\ ResultOK(r, [Result(r, "stays", "") EXCEPT !.row = Retried(r, k), !.input = "used"])
            /\ ResultOK(r, [Result(r, "fails", "") EXCEPT !.row = Retried(r, k)])
        BY <4>4, RetriesResult
      <4> QED  BY <4>3, <4>5
    <3> QED  BY <3>2, <3>3
  <2>6. CASE r.input \notin {"none", "used", "bad"}
    <3>1. x \in {[a EXCEPT !.row = Retried(r, 0)] : a \in Answered(r, "default")}
      BY <2>1, <2>6 DEF ExecChatPrompt
    <3>2. x = [Result(r, "goes", "default") EXCEPT !.row = Retried(r, 0), !.input = "used"]
      BY <3>1 DEF Result
    <3> QED  BY <3>2, <2>2, RetriesResult DEF Heard
  <2> QED  BY <2>3, <2>4, <2>5, <2>6
<1>3. CASE n.kind = "transfer"
  <2>1. x \in ExecChatTransfer(r)
    BY <1>3 DEF ExecuteChatNode
  <2> QED  BY <2>1, HandsResult DEF ExecChatTransfer
<1>4. CASE n.kind = "goto_flow"
  <2>1. x \in ExecChatGotoFlow(r, n.to)
    BY <1>4 DEF ExecuteChatNode
  <2>2. CASE Runnable(n.to)
    BY <2>1, <2>2, GotoResult DEF ExecChatGotoFlow
  <2>3. CASE ~Runnable(n.to)
    BY <2>1, <2>3, <1>0 DEF ExecChatGotoFlow
  <2> QED  BY <2>2, <2>3
<1>5. CASE n.kind = "whatsapp_flow"
  <2>1. x \in ExecChatWhatsAppFlow(r)
    BY <1>5 DEF ExecuteChatNode
  <2>2. \/ x = Result(r, "stays", "") \/ x = Result(r, "fails", "")
        \/ x = [Result(r, "goes", "default") EXCEPT !.input = "used"]
    BY <2>1 DEF ExecChatWhatsAppFlow
  <2>3. ResultOK(r, Result(r, "stays", "")) /\ ResultOK(r, Result(r, "fails", ""))
    BY <1>0
  <2>4. ResultOK(r, [Result(r, "goes", "default") EXCEPT !.input = "used"])
    BY <1>0
  <2> QED  BY <2>2, <2>3, <2>4
<1>6. CASE n.kind = "ai_response"
  <2>1. x \in ExecChatAIResponse(r)
    BY <1>6 DEF ExecuteChatNode
  <2> QED  BY <1>0, <2>1 DEF ExecChatAIResponse
<1>7. CASE n.kind \notin {"buttons", "prompt", "transfer", "goto_flow", "whatsapp_flow", "ai_response"}
  <2>1. \E does, outcome : x = Result(r, does, outcome)
    BY <1>7 DEF ExecuteChatNode, ExecChatMessage, ExecChatAPICall, ExecChatCondition, ExecChatTiming,
                ExecChatSetVariable, ExecChatWebhook, ExecChatEnd, ExecChatCRMAction, ExecChatCRMCondition
  <2> QED  BY <1>0, <2>1
<1> QED  BY <1>1, <1>2, <1>3, <1>4, <1>5, <1>6, <1>7

-----------------------------------------------------------------------------
(* From one node to the next                                                  *)

LEMMA InstalledIs ==
  ASSUME NEW f \in Flows, Installed(f) # None
  PROVE  Installed(f) \in GraphNames
BY ChatbotAssumption DEF Installed, GraphNames

(* The run in a graph, and the step from one node to the next.                *)
InGraph(r) ==
  /\ r \in Run /\ r.phase = "graph" /\ r.flow \in Flows
  /\ r.graph \in GraphNames /\ r.row.flow = r.flow

StepOK(r, x, a) ==
  /\ a \in Run /\ a.sid = r.sid
  /\ a.phase = "save" \/ InGraph(a)
  /\ a.row.done <=> r.row.done
  /\ a.row.status \in {r.row.status, "completed"}
  /\ a.phase = "graph" => a.row.status = r.row.status
  /\ x.hands # "no" => a.phase = "save" /\ a.row.status = "completed"
  /\ AsInstalled /\ booted /\ RunPlaced(r) => RunPlaced(a)

LEMMA StepIs ==
  ASSUME AdminTypes, NEW r, InGraph(r), r.iter < MaxIter, NEW x, ResultOK(r, x), NEW a, a = After(r, x)
  PROVE  StepOK(r, x, a)
<1> DEFINE next == ResolveEdge(Graph(r.graph), r.row.step, x.outcome)
<1>0. /\ r \in Run /\ r.sid \in 1..MaxSessions /\ r.iter + 1 \in 0..MaxIter /\ r.flow \in Flows
      /\ r.graph \in GraphNames /\ r.row.flow = r.flow /\ x.row \in Session /\ x.input \in Heard
      /\ r.row \in Session /\ r.phase = "graph" /\ r.flow # None
  BY ChatbotAssumption DEF InGraph, Run, ResultOK
<1> DEFINE g == EnabledFlows[x.row.flow].graph
<1>m. PICK m : m = [r EXCEPT !.row = x.row, !.input = x.input, !.iter = r.iter + 1]
  OBVIOUS
<1>n. m \in Run
  BY <1>0, <1>m DEF Run
<1>o. /\ m.sid = r.sid /\ m.row = x.row /\ m.input = x.input /\ m.flow = r.flow
      /\ m.graph = r.graph /\ m.phase = "graph"
  BY <1>0, <1>m DEF Run
<1>p. a = IF x.does # "goes" THEN [m EXCEPT !.phase = "save"]
          ELSE IF x.row.flow # r.flow
            THEN [m EXCEPT !.flow = x.row.flow, !.graph = g, !.row = [x.row EXCEPT !.step = Graph(g).entry]]
          ELSE IF next = "" THEN [m EXCEPT !.phase = "save", !.row = Finished(x.row)]
          ELSE [m EXCEPT !.row = [x.row EXCEPT !.step = next]]
  BY <1>m DEF After
<1>1. CASE x.does # "goes"
  <2>0. a = [m EXCEPT !.phase = "save"]
    BY <1>1, <1>p
  <2>1. a.sid = r.sid /\ a.row = x.row /\ a.phase = "save"
    BY <1>n, <1>o, <2>0 DEF Run
  <2>2. a \in Run
    BY <1>n, <2>0 DEF Run
  <2>3. x.row.flow = r.row.flow /\ x.row.step = r.row.step
    BY <1>1 DEF ResultOK
  <2>4. RunPlaced(r) => RunPlaced(a)
    BY <2>1, <2>3 DEF RunPlaced, RowPlaced
  <2>5. x.row.status \in {r.row.status, "completed"}
    BY DEF ResultOK
  <2> QED  BY <1>0, <2>1, <2>2, <2>4, <2>5 DEF StepOK, ResultOK
<1>2. CASE x.does = "goes" /\ x.row.flow # r.flow
  <2> DEFINE row == [x.row EXCEPT !.step = Graph(g).entry]
  <2>0. a = [m EXCEPT !.flow = x.row.flow, !.graph = g, !.row = row]
    BY <1>2, <1>p
  <2>2. Runnable(x.row.flow)
    BY <1>0, <1>2 DEF ResultOK
  <2>3. x.row.flow \in Flows /\ x.row.flow # None /\ g = flow[x.row.flow].graph /\ g \in GraphNames
    BY <2>2, RunnableIs
  <2>4. Graph(g).entry \in Steps /\ g # None
    BY <2>3, GraphIs
  <2>5. row \in Session /\ row.flow = x.row.flow /\ row.step = Graph(g).entry /\ row.status = x.row.status
    BY <1>0, <2>4 DEF Session
  <2>6. row.done <=> x.row.done
    BY <1>0 DEF Session
  <2> HIDE DEF row, g
  <2>1. a.sid = r.sid /\ a.row = row /\ a.flow = x.row.flow /\ a.graph = g /\ a.phase = "graph"
    BY <1>n, <1>o, <2>0 DEF Run
  <2>7. a \in Run
    BY <1>n, <2>0, <2>3, <2>5 DEF Run
  <2>8. InGraph(a)
    BY <2>1, <2>3, <2>5, <2>7 DEF InGraph
  <2>9. AsInstalled /\ booted => RunPlaced(a)
    <3>1. SUFFICES ASSUME AsInstalled, booted PROVE RunPlaced(a)
      OBVIOUS
    <3>2. g = Installed(x.row.flow)
      BY <2>3, <3>1 DEF AsInstalled
    <3>3. AtNode(x.row.flow, Graph(g).entry)
      BY <2>4, <3>2 DEF AtNode, WellDrawn
    <3> QED  BY <2>1, <2>5, <3>2, <3>3 DEF RunPlaced, RowPlaced
  <2>10. x.hands = "no" /\ x.row.status = r.row.status
    BY <1>2 DEF ResultOK
  <2>11. x.row.done <=> r.row.done
    BY DEF ResultOK
  <2> QED  BY <2>1, <2>5, <2>6, <2>7, <2>8, <2>9, <2>10, <2>11 DEF StepOK
<1>3. CASE x.does = "goes" /\ x.row.flow = r.flow /\ next = ""
  <2> DEFINE row == Finished(x.row)
  <2>0. a = [m EXCEPT !.phase = "save", !.row = row]
    BY <1>3, <1>p
  <2>2. row \in Session /\ row.flow = x.row.flow /\ row.step = x.row.step /\ row.status = "completed"
    BY <1>0 DEF Session, Finished
  <2>3. row.done <=> x.row.done
    BY <1>0 DEF Session, Finished
  <2> HIDE DEF row
  <2>1. a.sid = r.sid /\ a.row = row /\ a.phase = "save"
    BY <1>n, <1>o, <2>0 DEF Run
  <2>4. a \in Run
    BY <1>n, <2>0, <2>2 DEF Run
  <2>5. x.row.step = r.row.step /\ (x.row.done <=> r.row.done)
    BY DEF ResultOK
  <2>6. RunPlaced(r) => RunPlaced(a)
    BY <1>0, <1>3, <2>1, <2>2, <2>5 DEF RunPlaced, RowPlaced
  <2> QED  BY <2>1, <2>2, <2>3, <2>4, <2>5, <2>6 DEF StepOK
<1>4. CASE x.does = "goes" /\ x.row.flow = r.flow /\ next # ""
  <2> DEFINE row == [x.row EXCEPT !.step = next]
  <2>0. a = [m EXCEPT !.row = row]
    BY <1>4, <1>p
  <2>2. PICK e \in Graph(r.graph).edges : next = e.to
    <3>1. next = "" \/ \E d \in Graph(r.graph).edges : next = d.to
      BY EdgeIs
    <3> HIDE DEF next
    <3> QED  BY <1>4, <3>1
  <2>3. next \in Steps
    BY <1>0, <2>2, GraphIs
  <2> HIDE DEF next
  <2>4. row \in Session /\ row.flow = x.row.flow /\ row.step = next /\ row.status = x.row.status
    BY <1>0, <2>3 DEF Session
  <2>5. row.done <=> x.row.done
    BY <1>0 DEF Session
  <2> HIDE DEF row
  <2>1. a.sid = r.sid /\ a.row = row /\ a.flow = r.flow /\ a.graph = r.graph /\ a.phase = "graph"
    BY <1>n, <1>o, <2>0 DEF Run
  <2>6. a \in Run
    BY <1>n, <2>0, <2>4 DEF Run
  <2>7. InGraph(a)
    BY <1>0, <1>4, <2>1, <2>4, <2>6 DEF InGraph
  <2>8. RunPlaced(r) => RunPlaced(a)
    <3>1. SUFFICES ASSUME RunPlaced(r) PROVE RunPlaced(a)
      OBVIOUS
    <3>2. r.graph = Installed(r.flow) /\ Installed(r.flow) # None
      BY <1>0, <3>1 DEF RunPlaced, AtNode
    <3>3. AtNode(r.flow, next)
      BY <2>2, <3>2 DEF AtNode, WellDrawn
    <3> QED  BY <1>4, <2>1, <2>4, <3>2, <3>3 DEF RunPlaced, RowPlaced
  <2>9. x.hands = "no" /\ x.row.status = r.row.status /\ (x.row.done <=> r.row.done)
    BY <1>4 DEF ResultOK
  <2> QED  BY <2>1, <2>4, <2>5, <2>6, <2>7, <2>8, <2>9 DEF StepOK
<1> HIDE DEF next
<1> QED  BY <1>1, <1>2, <1>3, <1>4

-----------------------------------------------------------------------------
(* The table of sessions                                                      *)

LEMMA RowIs ==
  ASSUME NEW s \in Seq(Session), NEW i \in DOMAIN s
  PROVE  s[i] \in Session
OBVIOUS

LEMMA NoStep == "" \in Steps
<1> DEFINE U == UNION {GraphSteps(Migrated[f]) : f \in {h \in Flows : Migrated[h] # None}}
           V == UNION {GraphSteps(Graphs[h]) : h \in DOMAIN Graphs}
<1>1. Steps = {""} \cup V \cup U
  BY DEF Steps
<1> HIDE DEF U, V
<1> QED  BY <1>1

(* Rows change in place: the table keeps its length.                          *)
LEMMA RowsChanged ==
  ASSUME NEW s \in Seq(Session), NEW t, t = [i \in DOMAIN s |-> t[i]], \A i \in DOMAIN s : t[i] \in Session
  PROVE  t \in Seq(Session) /\ DOMAIN t = DOMAIN s /\ Len(t) = Len(s)
<1>1. Len(s) \in Nat /\ DOMAIN s = 1..Len(s)
  OBVIOUS
<1>2. t \in [1..Len(s) -> Session]
  BY <1>1
<1>3. t \in Seq(Session)
  BY <1>1, <1>2, SeqDef
<1> QED  BY <1>1, <1>2, <1>3

LEMMA RowChanged ==
  ASSUME NEW s \in Seq(Session), NEW k \in DOMAIN s, NEW row \in Session, NEW t, t = [s EXCEPT ![k] = row]
  PROVE  /\ t \in Seq(Session) /\ DOMAIN t = DOMAIN s /\ Len(t) = Len(s)
         /\ t[k] = row /\ \A i \in DOMAIN s : i # k => t[i] = s[i]
<1>1. t = [i \in DOMAIN s |-> t[i]] /\ \A i \in DOMAIN s : t[i] = IF i = k THEN row ELSE s[i]
  OBVIOUS
<1>2. \A i \in DOMAIN s : t[i] \in Session
  BY <1>1
<1> QED  BY <1>1, <1>2, RowsChanged

(* Every active row ends the same way: with a transfer, with a resolution.    *)
EndsActive(t, status) ==
  /\ t \in Seq(Session) /\ DOMAIN t = DOMAIN sess /\ Len(t) = Len(sess)
  /\ \A i \in DOMAIN sess :
       /\ sess[i].status # "active" => t[i] = sess[i]
       /\ sess[i].status = "active" =>
            t[i].status = status /\ t[i].done /\ t[i].flow = sess[i].flow /\ t[i].step = sess[i].step

LEMMA EndsActiveIs ==
  ASSUME sess \in Seq(Session), NEW status \in {"completed", "cancelled"}, NEW t,
         t = [i \in DOMAIN sess |-> t[i]],
         \A i \in DOMAIN sess : t[i] = IF sess[i].status = "active"
                THEN [sess[i] EXCEPT !.status = status, !.done = TRUE] ELSE sess[i]
  PROVE  EndsActive(t, status)
<1>1. ASSUME NEW i \in DOMAIN sess
      PROVE  /\ t[i] \in Session
             /\ sess[i].status # "active" => t[i] = sess[i]
             /\ sess[i].status = "active" =>
                  t[i].status = status /\ t[i].done /\ t[i].flow = sess[i].flow /\ t[i].step = sess[i].step
  <2>1. sess[i] \in Session
    BY RowIs
  <2>2. t[i] = IF sess[i].status = "active"
               THEN [sess[i] EXCEPT !.status = status, !.done = TRUE] ELSE sess[i]
    OBVIOUS
  <2>3. CASE sess[i].status = "active"
    <3>1. t[i] = [sess[i] EXCEPT !.status = status, !.done = TRUE]
      BY <2>2, <2>3
    <3>2. t[i] \in Session
      BY <2>1, <3>1 DEF Session
    <3>3. t[i].status = status /\ t[i].done /\ t[i].flow = sess[i].flow /\ t[i].step = sess[i].step
      BY <2>1, <3>1 DEF Session
    <3> QED  BY <2>3, <3>2, <3>3
  <2>4. CASE sess[i].status # "active"
    BY <2>1, <2>2, <2>4
  <2> QED  BY <2>3, <2>4
<1>2. \A i \in DOMAIN sess : t[i] \in Session
  BY <1>1
<1>3. t \in Seq(Session) /\ DOMAIN t = DOMAIN sess /\ Len(t) = Len(sess)
  BY <1>2, RowsChanged
<1> QED  BY <1>1, <1>3 DEF EndsActive

LEMMA CancelIs ==
  ASSUME sess \in Seq(Session)
  PROVE  EndsActive(CancelActive(sess), "cancelled")
<1>1. PICK t : t = CancelActive(sess)
  OBVIOUS
<1>2. t = [i \in DOMAIN sess |-> t[i]]
  BY <1>1 DEF CancelActive
<1>3. \A i \in DOMAIN sess : t[i] = IF sess[i].status = "active"
           THEN [sess[i] EXCEPT !.status = "cancelled", !.done = TRUE] ELSE sess[i]
  BY <1>1 DEF CancelActive
<1>4. EndsActive(t, "cancelled")
  BY <1>2, <1>3, EndsActiveIs
<1> QED  BY <1>1, <1>4

(* One row ends: exitFlow, cancelChatSession, timeoutChatSession.             *)
EndedAt(t, k, status) ==
  /\ t \in Seq(Session) /\ DOMAIN t = DOMAIN sess /\ Len(t) = Len(sess)
  /\ t[k].status = status /\ t[k].done /\ t[k].step = ""
  /\ \A i \in DOMAIN sess : i # k => t[i] = sess[i]

LEMMA EndsRowIs ==
  ASSUME sess \in Seq(Session), NEW k \in DOMAIN sess, NEW status \in {"completed", "cancelled", "timeout"}, NEW t,
         t = [sess EXCEPT ![k] = Ended(sess[k], status)]
  PROVE  EndedAt(t, k, status)
<1>1. sess[k] \in Session /\ "" \in Steps
  BY RowIs, NoStep
<1>2. 0 \in 0..(MaxRetries - 1)
  BY ChatbotAssumption
<1>3. PICK row : row = Ended(sess[k], status)
  OBVIOUS
<1>4. row \in Session
  BY <1>1, <1>2, <1>3 DEF Session, Ended
<1>5. row.status = status /\ row.done /\ row.step = ""
  BY <1>1, <1>3 DEF Session, Ended
<1>6. t = [sess EXCEPT ![k] = row]
  BY <1>3
<1>7. /\ t \in Seq(Session) /\ DOMAIN t = DOMAIN sess /\ Len(t) = Len(sess)
      /\ t[k] = row /\ \A i \in DOMAIN sess : i # k => t[i] = sess[i]
  BY <1>4, <1>6, RowChanged
<1> QED  BY <1>5, <1>7 DEF EndedAt

(* A row goes stale.                                                          *)
StaledAt(t, k) ==
  /\ t \in Seq(Session) /\ DOMAIN t = DOMAIN sess /\ Len(t) = Len(sess)
  /\ t[k].status = sess[k].status /\ (t[k].done <=> sess[k].done) /\ t[k].step = sess[k].step
  /\ t[k].flow = sess[k].flow /\ t[k].stale
  /\ \A i \in DOMAIN sess : i # k => t[i] = sess[i]

LEMMA StaleRowIs ==
  ASSUME sess \in Seq(Session), NEW k \in DOMAIN sess,
         NEW row, row = [sess[k] EXCEPT !.stale = TRUE], NEW t, t = [sess EXCEPT ![k] = row]
  PROVE  StaledAt(t, k)
<1>1. sess[k] \in Session
  BY RowIs
<1>3. row \in Session
  BY <1>1 DEF Session
<1>4. /\ row.status = sess[k].status /\ (row.done <=> sess[k].done) /\ row.step = sess[k].step
      /\ row.flow = sess[k].flow /\ row.stale
  BY <1>1 DEF Session
<1>6. /\ t \in Seq(Session) /\ DOMAIN t = DOMAIN sess /\ Len(t) = Len(sess)
      /\ t[k] = row /\ \A i \in DOMAIN sess : i # k => t[i] = sess[i]
  BY <1>3, RowChanged
<1> QED  BY <1>4, <1>6 DEF StaledAt

-----------------------------------------------------------------------------
(* What one message does                                                      *)

RunShaped(r) == r \in Run /\ r.sid \in DOMAIN sess /\ (r.phase = "graph" => InGraph(r))

LEMMA RunIs ==
  ASSUME SessionTypes, NEW w \in Workers, run[w] # None
  PROVE  RunShaped(run[w]) /\ run[w].row \in Session /\ run[w].sid \in 1..MaxSessions
BY DEF SessionTypes, RunShaped, InGraph, Run

LEMMA AdminSame ==
  ASSUME AdminTypes, UNCHANGED admin
  PROVE  AdminTypes'
BY DEF AdminTypes, admin, FlowRow

LEMMA PlacesKept ==
  ASSUME Places, UNCHANGED admin,
         \A v \in Workers : run'[v] # None => booted,
         edits = 0 => \A i \in DOMAIN sess' : RowPlaced(sess'[i]),
         edits = 0 => \A v \in Workers : run'[v] # None => RunPlaced(run'[v])
  PROVE  Places'
<1>1. AsInstalled => AsInstalled'
  BY DEF AsInstalled, admin
<1>2. edits' = edits /\ booted' = booted
  BY DEF admin
<1> QED  BY <1>1, <1>2 DEF Places

(* A run that ends leaves the sessions to nobody.                             *)
LEMMA WorkerEnds ==
  ASSUME ChatbotIInv, NEW w \in Workers, run[w] # None, Ends(w), UNCHANGED <<admin, sweep, raced, msgs>>,
         sess' \in Seq(Session), DOMAIN sess' = DOMAIN sess, Len(sess') = Len(sess), transfer' \in BOOLEAN,
         published' \in [1..MaxSessions -> Nat], \A i \in 1..MaxSessions : i \notin DOMAIN sess => published'[i] = 0,
         edits = 0 => \A i \in DOMAIN sess : RowPlaced(sess'[i]),
         ~raced => /\ \A i \in DOMAIN sess : SessionKept(i)'
                   /\ Loadable' \subseteq {run[w].sid}
                   /\ Unanswerable' => \A i \in Loadable' : sess'[i].flow = None
  PROVE  ChatbotIInv'
<1>0. AdminTypes /\ SessionTypes /\ Places /\ (~raced => Orderly)
  BY DEF ChatbotIInv
<1>1. run' \in [Workers -> Run \cup {None}] /\ run'[w] = None /\ \A v \in Workers : v # w => run'[v] = run[v]
  BY <1>0 DEF SessionTypes, Ends
<1>2. AdminTypes'
  BY <1>0, AdminSame
<1>3. SessionTypes'
  <2>1. \A v \in Workers : run'[v] # None => run'[v] = run[v] /\ run[v] # None
    BY <1>1
  <2> QED  BY <1>0, <1>1, <2>1 DEF SessionTypes
<1>4. Places'
  <2>1. \A v \in Workers : run'[v] # None => run'[v] = run[v] /\ run[v] # None
    BY <1>1
  <2>2. \A v \in Workers : run'[v] # None => booted
    BY <1>0, <2>1 DEF Places
  <2>3. edits = 0 => \A v \in Workers : run'[v] # None => RunPlaced(run'[v])
    BY <1>0, <2>1 DEF Places
  <2> QED  BY <1>0, <2>2, <2>3, PlacesKept
<1>5. ASSUME ~raced'
      PROVE  Orderly'
  <2>1. ~raced /\ Orderly
    BY <1>0, <1>5
  <2>2. \A v \in Workers : run'[v] = None
    BY <1>1, <2>1 DEF Orderly
  <2> QED  BY <2>1, <2>2 DEF Orderly
<1> QED  BY <1>2, <1>3, <1>4, <1>5 DEF ChatbotIInv

(* A run that goes on still holds the one session to go on with.              *)
LEMMA WorkerGoesOn ==
  ASSUME ChatbotIInv, NEW w \in Workers, run[w] # None, NEW a, RunShaped(a), run' = [run EXCEPT ![w] = a],
         UNCHANGED <<admin, sweep, published, raced, msgs>>,
         sess' \in Seq(Session), DOMAIN sess' = DOMAIN sess, Len(sess') = Len(sess), transfer' \in BOOLEAN,
         edits = 0 => RunPlaced(a) /\ \A i \in DOMAIN sess : RowPlaced(sess'[i]),
         ~raced => RunKept(a)' /\ \A i \in DOMAIN sess : SessionKept(i)'
  PROVE  ChatbotIInv'
<1>0. AdminTypes /\ SessionTypes /\ Places /\ (~raced => Orderly)
  BY DEF ChatbotIInv
<1>1. run' \in [Workers -> Run \cup {None}] /\ run'[w] = a /\ \A v \in Workers : v # w => run'[v] = run[v]
  BY <1>0 DEF SessionTypes, RunShaped
<1>2. a # None
  BY NoneAssumption DEF RunShaped
<1>3. AdminTypes'
  BY <1>0, AdminSame
<1>4. SessionTypes'
  <2>1. ASSUME NEW v \in Workers, run'[v] # None
        PROVE  /\ run'[v].sid \in DOMAIN sess
               /\ run'[v].phase = "graph" =>
                    run'[v].flow \in Flows /\ run'[v].graph \in GraphNames /\ run'[v].row.flow = run'[v].flow
    <3>1. CASE v = w
      BY <1>1, <3>1 DEF RunShaped, InGraph
    <3>2. CASE v # w
      BY <1>0, <1>1, <2>1, <3>2 DEF SessionTypes
    <3> QED  BY <3>1, <3>2
  <2> QED  BY <1>0, <1>1, <2>1 DEF SessionTypes
<1>5. Places'
  <2>2. \A v \in Workers : run'[v] # None => booted
    BY <1>0, <1>1 DEF Places
  <2>3. edits = 0 => \A v \in Workers : run'[v] # None => RunPlaced(run'[v])
    BY <1>0, <1>1 DEF Places
  <2> QED  BY <1>0, <2>2, <2>3, PlacesKept
<1>6. ASSUME ~raced'
      PROVE  Orderly'
  <2>1. ~raced /\ Orderly
    BY <1>0, <1>6
  <2>2. \A v \in Workers : v # w => run'[v] = None
    BY <1>1, <2>1 DEF Orderly
  <2>3. RunKept(a)' /\ \A i \in DOMAIN sess' : SessionKept(i)'
    BY <2>1
  <2>4. \A u, v \in Workers : run'[u] # None /\ run'[v] # None => u = v
    BY <2>2
  <2>5. \A i, j \in Loadable' : i = j
    BY <2>3 DEF RunKept
  <2>6. \A v \in Workers : run'[v] # None => RunKept(run[v])'
    BY <1>1, <2>2, <2>3
  <2>7. ~Idle'
    BY <1>1, <1>2 DEF Idle
  <2> QED  BY <2>3, <2>4, <2>5, <2>6, <2>7 DEF Orderly
<1> QED  BY <1>3, <1>4, <1>5, <1>6 DEF ChatbotIInv

(* What the ending of every active row keeps.                                 *)
LEMMA EndsActiveKept ==
  ASSUME SessionTypes, NEW status \in {"completed", "cancelled"}, EndsActive(sess', status),
         UNCHANGED published
  PROVE  /\ sess' \in Seq(Session) /\ DOMAIN sess' = DOMAIN sess /\ Len(sess') = Len(sess)
         /\ Loadable' = {}
         /\ \A i \in DOMAIN sess : SessionKept(i) => SessionKept(i)'
         /\ \A i \in DOMAIN sess : RowPlaced(sess[i]) => RowPlaced(sess'[i])
<1>1. sess' \in Seq(Session) /\ DOMAIN sess' = DOMAIN sess /\ Len(sess') = Len(sess)
  BY DEF EndsActive
<1>2. \A i \in DOMAIN sess : sess'[i].status # "active"
  BY DEF EndsActive
<1>3. Loadable' = {}
  BY <1>1, <1>2 DEF Loadable
<1>4. ASSUME NEW i \in DOMAIN sess, SessionKept(i)
      PROVE  SessionKept(i)'
  <2>1. sess[i].done => sess'[i].done
    BY DEF EndsActive
  <2> QED  BY <1>2, <1>4, <2>1 DEF SessionKept
<1>5. ASSUME NEW i \in DOMAIN sess, RowPlaced(sess[i])
      PROVE  RowPlaced(sess'[i])
  <2>1. sess'[i].flow = sess[i].flow /\ sess'[i].step = sess[i].step
    BY DEF EndsActive
  <2> QED  BY <1>5, <2>1 DEF RowPlaced
<1> QED  BY <1>1, <1>3, <1>4, <1>5

LEMMA KeywordTransferKeeps ==
  ASSUME ChatbotIInv, NEW w \in Workers, KeywordTransfer(w)
  PROVE  ChatbotIInv'
<1>0. AdminTypes /\ SessionTypes /\ Places /\ (~raced => Orderly)
  BY DEF ChatbotIInv
<1>1. /\ run[w] # None /\ run[w].phase = "dispatch" /\ Ends(w)
      /\ UNCHANGED <<admin, sweep, published, raced, msgs>>
      /\ transfer' = (transfer \/ WithinHours)
      /\ sess' = IF CreatesTransfer THEN CancelActive(sess) ELSE sess
  BY DEF KeywordTransfer
<1>2. /\ sess \in Seq(Session) /\ transfer \in BOOLEAN /\ published \in [1..MaxSessions -> Nat]
      /\ \A i \in 1..MaxSessions : i \notin DOMAIN sess => published[i] = 0
  BY <1>0 DEF SessionTypes
<1>3. transfer' \in BOOLEAN
  BY <1>1
<1>4. CASE CreatesTransfer
  <2>1. EndsActive(sess', "cancelled")
    BY <1>1, <1>2, <1>4, CancelIs
  <2>2. /\ sess' \in Seq(Session) /\ DOMAIN sess' = DOMAIN sess /\ Len(sess') = Len(sess) /\ Loadable' = {}
        /\ \A i \in DOMAIN sess : SessionKept(i) => SessionKept(i)'
        /\ \A i \in DOMAIN sess : RowPlaced(sess[i]) => RowPlaced(sess'[i])
    BY <1>0, <1>1, <2>1, EndsActiveKept
  <2>3. edits = 0 => \A i \in DOMAIN sess : RowPlaced(sess'[i])
    BY <1>0, <2>2 DEF Places
  <2>4. ~raced => \A i \in DOMAIN sess : SessionKept(i)'
    BY <1>0, <2>2 DEF Orderly
  <2> QED  BY <1>1, <1>2, <1>3, <2>2, <2>3, <2>4, WorkerEnds
<1>5. CASE ~CreatesTransfer
  <2>1. UNCHANGED <<sess, published>> /\ transfer' = transfer
    BY <1>1, <1>2, <1>5 DEF CreatesTransfer
  <2>2. edits = 0 => \A i \in DOMAIN sess : RowPlaced(sess'[i])
    BY <1>0, <2>1 DEF Places
  <2>3. ASSUME ~raced
        PROVE  /\ \A i \in DOMAIN sess : SessionKept(i)'
               /\ Loadable' \subseteq {run[w].sid} /\ ~Unanswerable'
    <3>1. Orderly /\ RunKept(run[w])
      BY <1>0, <1>1, <2>3 DEF Orderly
    <3>2. \A i \in DOMAIN sess : SessionKept(i)'
      BY <2>1, <3>1 DEF Orderly, SessionKept
    <3>3. Loadable' = Loadable
      BY <2>1 DEF Loadable
    <3>4. ~Unanswerable'
      BY <1>1, <2>1, <3>1 DEF RunKept, Unanswerable, admin
    <3> QED  BY <3>1, <3>2, <3>3, <3>4 DEF RunKept
  <2> QED  BY <1>1, <1>2, <1>3, <2>1, <2>2, <2>3, WorkerEnds
<1> QED  BY <1>4, <1>5

(* A run that ends without touching the table, before its save.               *)
LEMMA WorkerLeaves ==
  ASSUME ChatbotIInv, NEW w \in Workers, run[w] # None, run[w].phase # "save", Ends(w),
         UNCHANGED <<admin, sess, transfer, sweep, published, raced, msgs>>
  PROVE  ChatbotIInv'
<1>0. AdminTypes /\ SessionTypes /\ Places /\ (~raced => Orderly)
  BY DEF ChatbotIInv
<1>1. /\ sess \in Seq(Session) /\ transfer \in BOOLEAN /\ published \in [1..MaxSessions -> Nat]
      /\ \A i \in 1..MaxSessions : i \notin DOMAIN sess => published[i] = 0
  BY <1>0 DEF SessionTypes
<1>2. edits = 0 => \A i \in DOMAIN sess : RowPlaced(sess'[i])
  BY <1>0 DEF Places
<1>3. ASSUME ~raced
      PROVE  /\ \A i \in DOMAIN sess : SessionKept(i)'
             /\ Loadable' \subseteq {run[w].sid} /\ ~Unanswerable'
  <2>1. Orderly /\ RunKept(run[w])
    BY <1>0, <1>3 DEF Orderly
  <2>2. \A i \in DOMAIN sess : SessionKept(i)'
    BY <2>1 DEF Orderly, SessionKept
  <2>3. Loadable' = Loadable
    BY DEF Loadable
  <2>4. ~Unanswerable'
    BY <2>1 DEF RunKept, Unanswerable, admin
  <2> QED  BY <2>1, <2>2, <2>3, <2>4 DEF RunKept
<1> QED  BY <1>1, <1>2, <1>3, WorkerEnds

(* A run that ends the session it holds, before its save.                     *)
LEMMA WorkerEndsSession ==
  ASSUME ChatbotIInv, NEW w \in Workers, run[w] # None, Ends(w), NEW status \in {"completed", "cancelled"},
         UNCHANGED <<admin, transfer, sweep, published, raced, msgs>>,
         sess' = [sess EXCEPT ![run[w].sid] = Ended(sess[run[w].sid], status)]
  PROVE  ChatbotIInv'
<1>0. AdminTypes /\ SessionTypes /\ Places /\ (~raced => Orderly)
  BY DEF ChatbotIInv
<1>1. /\ sess \in Seq(Session) /\ transfer \in BOOLEAN /\ published \in [1..MaxSessions -> Nat]
      /\ \A i \in 1..MaxSessions : i \notin DOMAIN sess => published[i] = 0
  BY <1>0 DEF SessionTypes
<1>2. PICK k \in DOMAIN sess : k = run[w].sid
  BY <1>0, RunIs DEF RunShaped
<1>3. PICK t : t = sess'
  OBVIOUS
<1>4. /\ t \in Seq(Session) /\ DOMAIN t = DOMAIN sess /\ Len(t) = Len(sess)
      /\ t[k].status = status /\ t[k].done /\ t[k].step = ""
      /\ \A i \in DOMAIN sess : i # k => t[i] = sess[i]
  <2>1. t = [sess EXCEPT ![k] = Ended(sess[k], status)]
    BY <1>2, <1>3
  <2>2. status \in {"completed", "cancelled", "timeout"}
    OBVIOUS
  <2>3. EndedAt(t, k, status)
    BY <1>1, <2>1, <2>2, EndsRowIs
  <2> QED  BY <2>3 DEF EndedAt
<1>4a. /\ sess' \in Seq(Session) /\ DOMAIN sess' = DOMAIN sess /\ Len(sess') = Len(sess)
       /\ sess'[k].status = status /\ sess'[k].done /\ sess'[k].step = ""
       /\ \A i \in DOMAIN sess : i # k => sess'[i] = sess[i]
  BY <1>3, <1>4
<1>5. edits = 0 => \A i \in DOMAIN sess : RowPlaced(sess'[i])
  BY <1>0, <1>4a DEF Places, RowPlaced
<1>6. ASSUME ~raced
      PROVE  (\A i \in DOMAIN sess : SessionKept(i)') /\ Loadable' = {}
  <2>1. Orderly /\ RunKept(run[w])
    BY <1>0, <1>6 DEF Orderly
  <2>2. published[k] = 0 /\ Loadable \subseteq {k}
    BY <1>2, <2>1 DEF RunKept
  <2>3. ASSUME NEW i \in DOMAIN sess
        PROVE  SessionKept(i)'
    <3>1. CASE i = k
      <4>1. published'[i] = 0 /\ sess'[i].status # "active"
        BY <1>4a, <2>2, <3>1
      <4> QED  BY <4>1 DEF SessionKept
    <3>2. CASE i # k
      <4>1. sess'[i] = sess[i]
        BY <1>4a, <3>2
      <4> QED  BY <2>1, <4>1 DEF Orderly, SessionKept
    <3> QED  BY <3>1, <3>2
  <2>4. Loadable' = {}
    <3>1. \A i \in DOMAIN sess : i # k => i \notin Loadable'
      BY <1>4a, <2>2 DEF Loadable
    <3>2. k \notin Loadable'
      BY <1>4a DEF Loadable
    <3>3. Loadable' \subseteq DOMAIN sess
      BY <1>4a DEF Loadable
    <3> QED  BY <3>1, <3>2, <3>3
  <2> QED  BY <2>3, <2>4
<1>7. sess' \in Seq(Session) /\ DOMAIN sess' = DOMAIN sess /\ Len(sess') = Len(sess)
  BY <1>4a
<1> QED  BY <1>1, <1>5, <1>6, <1>7, WorkerEnds

EnteredOK(r, f, row, a) ==
  /\ InGraph(a) /\ a.sid = r.sid /\ a.row.status = row.status /\ (a.row.done <=> row.done)
  /\ AsInstalled /\ booted /\ (row.step # "" => row.flow = f /\ RowPlaced(row)) => RunPlaced(a)

LEMMA EnteredIs ==
  ASSUME AdminTypes, NEW r \in Run, NEW f, Runnable(f), NEW row \in Session, NEW a, a = Entered(r, f, row)
  PROVE  EnteredOK(r, f, row, a)
<1>1. f \in Flows /\ f # None /\ EnabledFlows[f].graph = flow[f].graph /\ flow[f].graph \in GraphNames
  BY RunnableIs
<1>2. PICK g \in GraphNames : g = EnabledFlows[f].graph
  BY <1>1
<1>3. Graph(g).entry \in Steps /\ g # None
  BY GraphIs
<1>4. PICK b : b = IF row.step = "" THEN [row EXCEPT !.flow = f, !.step = Graph(g).entry]
                   ELSE [row EXCEPT !.flow = f]
  OBVIOUS
<1>5. /\ b \in Session /\ b.flow = f /\ b.status = row.status /\ (b.done <=> row.done)
      /\ row.step = "" => b.step = Graph(g).entry
      /\ row.step # "" => b.step = row.step
  <2>1. CASE row.step = ""
    <3>1. b = [row EXCEPT !.flow = f, !.step = Graph(g).entry]
      BY <1>4, <2>1
    <3>2. b \in Session
      BY <1>1, <1>3, <3>1 DEF Session
    <3>3. b.flow = f /\ b.status = row.status /\ (b.done <=> row.done) /\ b.step = Graph(g).entry
      BY <3>1 DEF Session
    <3> QED  BY <2>1, <3>2, <3>3
  <2>2. CASE row.step # ""
    <3>1. b = [row EXCEPT !.flow = f]
      BY <1>4, <2>2
    <3>2. b \in Session
      BY <1>1, <3>1 DEF Session
    <3>3. b.flow = f /\ b.status = row.status /\ (b.done <=> row.done) /\ b.step = row.step
      BY <3>1 DEF Session
    <3> QED  BY <2>2, <3>2, <3>3
  <2> QED  BY <2>1, <2>2
<1>6. PICK input \in Heard : input = IF row.step = "" THEN "none" ELSE r.input
  BY DEF Heard, Run
<1>7. a = [r EXCEPT !.phase = "graph", !.flow = f, !.graph = g, !.row = b, !.input = input]
  BY <1>2, <1>4, <1>6 DEF Entered
<1>8. a \in Run
  BY <1>1, <1>5, <1>7 DEF Run
<1>9. a.sid = r.sid /\ a.phase = "graph" /\ a.flow = f /\ a.graph = g /\ a.row = b
  BY <1>7 DEF Run
<1>10. InGraph(a)
  BY <1>1, <1>5, <1>8, <1>9 DEF InGraph
<1>11. ASSUME AsInstalled, booted, row.step # "" => row.flow = f /\ RowPlaced(row)
       PROVE  RunPlaced(a)
  <2>1. g = Installed(f)
    BY <1>1, <1>2, <1>11 DEF AsInstalled
  <2>2. AtNode(f, b.step)
    <3>1. CASE row.step = ""
      BY <1>3, <1>5, <2>1, <3>1 DEF AtNode, WellDrawn
    <3>2. CASE row.step # ""
      <4>1. b.step = row.step /\ row.flow = f /\ RowPlaced(row)
        BY <1>5, <1>11, <3>2
      <4> QED  BY <1>1, <3>2, <4>1 DEF RowPlaced
    <3> QED  BY <3>1, <3>2
  <2> QED  BY <1>5, <1>9, <2>1, <2>2 DEF RunPlaced, RowPlaced
<1> QED  BY <1>5, <1>9, <1>10, <1>11 DEF EnteredOK

(* A run enters a graph: its copy of the row keeps its status.                *)
LEMMA EnterKeeps ==
  ASSUME ChatbotIInv, NEW w \in Workers, run[w] # None, run[w].phase = "dispatch", NEW f, Runnable(f),
         NEW row \in Session, row.status = run[w].row.status, row.done <=> run[w].row.done,
         row.step # "" => row.flow = f /\ (RowPlaced(run[w].row) => RowPlaced(row)),
         EnterGraph(w, f, row), UNCHANGED <<admin, sess, transfer, sweep, published, raced, msgs>>
  PROVE  ChatbotIInv'
<1>0. AdminTypes /\ SessionTypes /\ Places /\ (~raced => Orderly)
  BY DEF ChatbotIInv
<1>1. run[w] \in Run /\ run[w].sid \in DOMAIN sess
  BY <1>0, RunIs DEF RunShaped
<1>2. PICK a : a = Entered(run[w], f, row)
  OBVIOUS
<1>3. /\ InGraph(a) /\ a.sid = run[w].sid /\ a.row.status = row.status /\ (a.row.done <=> row.done)
      /\ AsInstalled /\ booted /\ (row.step # "" => row.flow = f /\ RowPlaced(row)) => RunPlaced(a)
  <2>1. EnteredOK(run[w], f, row, a)
    BY <1>0, <1>1, <1>2, EnteredIs
  <2> QED  BY <2>1 DEF EnteredOK
<1>4. RunShaped(a) /\ run' = [run EXCEPT ![w] = a]
  BY <1>1, <1>2, <1>3 DEF RunShaped, InGraph, EnterGraph
<1>5. edits = 0 => RunPlaced(a) /\ \A i \in DOMAIN sess : RowPlaced(sess'[i])
  BY <1>0, <1>3 DEF Places, RunPlaced
<1>6. ASSUME ~raced
      PROVE  RunKept(a)' /\ \A i \in DOMAIN sess : SessionKept(i)'
  <2>1. Orderly /\ RunKept(run[w])
    BY <1>0, <1>6 DEF Orderly
  <2>2. \A i \in DOMAIN sess : SessionKept(i)'
    BY <2>1 DEF Orderly, SessionKept
  <2>3. Loadable' = Loadable /\ (Unanswerable' <=> Unanswerable)
    BY DEF Loadable, Unanswerable, admin
  <2>4. RunKept(a)'
    BY <1>3, <2>1, <2>3 DEF RunKept, InGraph
  <2> QED  BY <2>2, <2>4
<1>7. sess \in Seq(Session) /\ transfer \in BOOLEAN
  BY <1>0 DEF SessionTypes
<1> QED  BY <1>4, <1>5, <1>6, <1>7, WorkerGoesOn

LEMMA ContinueFlowKeeps ==
  ASSUME ChatbotIInv, NEW w \in Workers, ContinueFlow(w)
  PROVE  ChatbotIInv'
<1>0. run[w] # None /\ run[w].phase = "dispatch" /\ UNCHANGED <<admin, transfer, sweep, published, raced, msgs>>
  BY DEF ContinueFlow
<1>1. CASE ExitFlow(w)
  BY <1>0, <1>1, WorkerEndsSession DEF ExitFlow
<1>2. CASE CancelChatSession(w)
  BY <1>0, <1>2, WorkerEndsSession DEF CancelChatSession
<1>3. CASE Runnable(run[w].row.flow) /\ EnterGraph(w, run[w].row.flow, run[w].row) /\ UNCHANGED sess
  <2>1. run[w].row \in Session
    BY <1>0, RunIs DEF ChatbotIInv
  <2> QED  BY <1>0, <1>3, <2>1, EnterKeeps
<1> QED  BY <1>1, <1>2, <1>3 DEF ContinueFlow

LEMMA TriggerFlowKeeps ==
  ASSUME ChatbotIInv, NEW w \in Workers, TriggerFlow(w)
  PROVE  ChatbotIInv'
<1>0. /\ run[w] # None /\ run[w].phase = "dispatch" /\ Runnable(Trigger)
      /\ UNCHANGED <<admin, sess, transfer, sweep, published, raced, msgs>>
      /\ EnterGraph(w, Trigger, [run[w].row EXCEPT !.step = "", !.retries = 0])
  BY DEF TriggerFlow, MatchFlowTrigger
<1>1. run[w].row \in Session
  BY <1>0, RunIs DEF ChatbotIInv
<1>2. PICK row : row = [run[w].row EXCEPT !.step = "", !.retries = 0]
  OBVIOUS
<1>3. row \in Session
  <2>1. 0 \in 0..(MaxRetries - 1)
    BY ChatbotAssumption
  <2> QED  BY <1>1, <1>2, <2>1, NoStep DEF Session
<1>4. row.status = run[w].row.status /\ (row.done <=> run[w].row.done) /\ row.step = ""
  BY <1>1, <1>2 DEF Session
<1>5. EnterGraph(w, Trigger, row)
  BY <1>0, <1>2
<1> QED  BY <1>0, <1>3, <1>4, <1>5, EnterKeeps

LEMMA ReplyKeeps ==
  ASSUME ChatbotIInv, NEW w \in Workers, ReplyOutsideFlow(w)
  PROVE  ChatbotIInv'
BY WorkerLeaves DEF ReplyOutsideFlow

LEMMA NodeNotFoundKeeps ==
  ASSUME ChatbotIInv, NEW w \in Workers, NodeNotFound(w)
  PROVE  ChatbotIInv'
BY WorkerLeaves DEF NodeNotFound

LEMMA SidIs ==
  ASSUME SessionTypes, NEW i \in DOMAIN sess
  PROVE  i \in 1..MaxSessions
<1>1. sess \in Seq(Session) /\ Len(sess) <= MaxSessions /\ MaxSessions \in Nat
  BY ChatbotAssumption DEF SessionTypes
<1>2. Len(sess) \in Nat /\ DOMAIN sess = 1..Len(sess)
  BY <1>1
<1> QED  BY <1>1, <1>2

(* One node of a graph, with the handover it makes.                           *)
LEMMA NodeStepKeeps ==
  ASSUME ChatbotIInv, NEW w \in Workers, run[w] # None, run[w].phase = "graph", run[w].iter < MaxIter,
         NEW x, ResultOK(run[w], x), run' = [run EXCEPT ![w] = After(run[w], x)], HandsOver(x.hands),
         UNCHANGED <<admin, sweep, published, raced, msgs>>
  PROVE  ChatbotIInv'
<1>0. AdminTypes /\ SessionTypes /\ Places /\ (~raced => Orderly)
  BY DEF ChatbotIInv
<1>1. InGraph(run[w]) /\ run[w].sid \in DOMAIN sess
  BY <1>0, RunIs DEF RunShaped
<1>2. PICK a : a = After(run[w], x)
  OBVIOUS
<1>3. StepOK(run[w], x, a)
  BY <1>0, <1>1, <1>2, StepIs
<1>4. RunShaped(a) /\ run' = [run EXCEPT ![w] = a]
  BY <1>1, <1>2, <1>3 DEF RunShaped, StepOK
<1>5. /\ transfer' = (transfer \/ (x.hands # "no" /\ WithinHours))
      /\ sess' = IF x.hands = "team" /\ CreatesTransfer THEN CancelActive(sess) ELSE sess
  BY DEF HandsOver
<1>6. sess \in Seq(Session) /\ transfer \in BOOLEAN /\ transfer' \in BOOLEAN
  BY <1>0, <1>5 DEF SessionTypes
<1>7. edits = 0 => RunPlaced(a)
  BY <1>0, <1>3 DEF Places, StepOK
<1>8. ASSUME ~raced
      PROVE  /\ ~a.row.done /\ published[a.sid] = 0 /\ a.row.status \in {"active", "completed"}
             /\ a.phase # "save" => a.row.status = "active"
             /\ sess[a.sid].status = "active" /\ Loadable \subseteq {a.sid} /\ ~Unanswerable
  <2>1. RunKept(run[w])
    BY <1>0, <1>8 DEF Orderly
  <2>2. run[w].row.status = "active"
    BY <2>1 DEF RunKept
  <2>3. a.sid = run[w].sid /\ (a.row.done <=> run[w].row.done) /\ a.row.status \in {"active", "completed"}
    BY <1>3, <2>2 DEF StepOK
  <2>4. a.phase # "save" => a.row.status = "active"
    BY <1>3, <2>2 DEF StepOK, InGraph
  <2> QED  BY <2>1, <2>2, <2>3, <2>4 DEF RunKept
<1>9. CASE x.hands = "team" /\ CreatesTransfer
  <2>1. EndsActive(sess', "cancelled")
    BY <1>5, <1>6, <1>9, CancelIs
  <2>2. /\ sess' \in Seq(Session) /\ DOMAIN sess' = DOMAIN sess /\ Len(sess') = Len(sess) /\ Loadable' = {}
        /\ \A i \in DOMAIN sess : SessionKept(i) => SessionKept(i)'
        /\ \A i \in DOMAIN sess : RowPlaced(sess[i]) => RowPlaced(sess'[i])
    BY <1>0, <2>1, EndsActiveKept
  <2>3. a.phase = "save" /\ a.row.status = "completed"
    BY <1>3, <1>9 DEF StepOK
  <2>4. ~raced => RunKept(a)' /\ \A i \in DOMAIN sess : SessionKept(i)'
    BY <1>0, <1>8, <2>2, <2>3 DEF RunKept, Orderly
  <2>5. edits = 0 => \A i \in DOMAIN sess : RowPlaced(sess'[i])
    BY <1>0, <2>2 DEF Places
  <2> QED  BY <1>4, <1>6, <1>7, <2>2, <2>4, <2>5, WorkerGoesOn
<1>10. CASE ~(x.hands = "team" /\ CreatesTransfer)
  <2>1. sess' = sess
    BY <1>5, <1>10
  <2>2. \A i \in DOMAIN sess : SessionKept(i) => SessionKept(i)'
    BY <2>1 DEF SessionKept
  <2>3. Loadable' = Loadable
    BY <2>1 DEF Loadable
  <2>4. ASSUME ~raced
        PROVE  RunKept(a)'
    <3>1. CASE x.hands = "no"
      <4>1. transfer' = transfer
        BY <1>5, <1>6, <3>1
      <4>2. ~Unanswerable'
        BY <1>8, <2>4, <4>1 DEF Unanswerable, admin
      <4> QED  BY <1>8, <2>1, <2>3, <2>4, <4>2 DEF RunKept
    <3>2. CASE x.hands # "no"
      <4>1. a.phase = "save" /\ a.row.status = "completed"
        BY <1>3, <3>2 DEF StepOK
      <4> QED  BY <1>8, <2>1, <2>3, <2>4, <4>1 DEF RunKept
    <3> QED  BY <3>1, <3>2
  <2>5. ~raced => RunKept(a)' /\ \A i \in DOMAIN sess : SessionKept(i)'
    BY <1>0, <2>2, <2>4 DEF Orderly
  <2>6. edits = 0 => \A i \in DOMAIN sess : RowPlaced(sess'[i])
    BY <1>0, <2>1 DEF Places
  <2> QED  BY <1>4, <1>6, <1>7, <2>1, <2>5, <2>6, WorkerGoesOn
<1> QED  BY <1>9, <1>10

LEMMA RunNodeKeeps ==
  ASSUME ChatbotIInv, NEW w \in Workers, RunNode(w)
  PROVE  ChatbotIInv'
<1>1. PICK x \in ExecuteChatNode(run[w], Graph(run[w].graph).node[run[w].row.step]) :
        run' = [run EXCEPT ![w] = After(run[w], x)] /\ HandsOver(x.hands)
  BY DEF RunNode
<1>2. /\ run[w] # None /\ run[w].phase = "graph" /\ run[w].iter < MaxIter
      /\ UNCHANGED <<admin, sweep, published, raced, msgs>>
  BY DEF RunNode
<1>3. AdminTypes /\ run[w] \in Run
  BY <1>2, RunIs DEF ChatbotIInv, RunShaped
<1>4. ResultOK(run[w], x)
  BY <1>3, NodeResult
<1> QED  BY <1>1, <1>2, <1>4, NodeStepKeeps

LEMMA SkipNodeKeeps ==
  ASSUME ChatbotIInv, NEW w \in Workers, SkipNode(w)
  PROVE  ChatbotIInv'
<1>1. PICK x : x = Goes(run[w], "default")
  OBVIOUS
<1>2. /\ run[w] # None /\ run[w].phase = "graph" /\ run[w].iter < MaxIter
      /\ UNCHANGED <<admin, sess, transfer, sweep, published, raced, msgs>>
      /\ run' = [run EXCEPT ![w] = After(run[w], x)]
  BY <1>1 DEF SkipNode
<1>3. run[w] \in Run /\ transfer \in BOOLEAN
  BY <1>2, RunIs DEF ChatbotIInv, RunShaped, SessionTypes
<1>4. ResultOK(run[w], x)
  BY <1>1, <1>3, PlainResult DEF Goes, Heard
<1>5. x.hands = "no"
  BY <1>1 DEF Goes, Result
<1>6. HandsOver(x.hands)
  BY <1>2, <1>3, <1>5 DEF HandsOver
<1> QED  BY <1>2, <1>4, <1>6, NodeStepKeeps

LEMMA RunawayKeeps ==
  ASSUME ChatbotIInv, NEW w \in Workers, Runaway(w)
  PROVE  ChatbotIInv'
<1>0. AdminTypes /\ SessionTypes /\ Places /\ (~raced => Orderly)
  BY DEF ChatbotIInv
<1>1. /\ run[w] # None /\ run[w].phase = "graph"
      /\ UNCHANGED <<admin, sess, transfer, sweep, published, raced, msgs>>
  BY DEF Runaway
<1>2. run[w] \in Run /\ run[w].sid \in DOMAIN sess
  BY <1>0, <1>1, RunIs DEF RunShaped
<1>3. PICK a : a = [run[w] EXCEPT !.phase = "save"]
  OBVIOUS
<1>4. a \in Run
  BY <1>2, <1>3 DEF Run
<1>5. a.sid = run[w].sid /\ a.row = run[w].row /\ a.phase = "save"
  BY <1>2, <1>3 DEF Run
<1>6. run' = [run EXCEPT ![w] = a] /\ RunShaped(a)
  BY <1>2, <1>3, <1>4, <1>5 DEF Runaway, RunShaped
<1>7. edits = 0 => RunPlaced(a) /\ \A i \in DOMAIN sess : RowPlaced(sess'[i])
  BY <1>0, <1>1, <1>5 DEF Places, RunPlaced
<1>8. ASSUME ~raced
      PROVE  RunKept(a)' /\ \A i \in DOMAIN sess : SessionKept(i)'
  <2>1. Orderly /\ RunKept(run[w])
    BY <1>0, <1>1, <1>8 DEF Orderly
  <2>2. \A i \in DOMAIN sess : SessionKept(i)'
    BY <1>1, <2>1 DEF Orderly, SessionKept
  <2>3. Loadable' = Loadable /\ (Unanswerable' <=> Unanswerable)
    BY <1>1 DEF Loadable, Unanswerable, admin
  <2>4. RunKept(a)'
    BY <1>1, <1>5, <2>1, <2>3 DEF RunKept
  <2> QED  BY <2>2, <2>4
<1>9. sess \in Seq(Session) /\ transfer \in BOOLEAN
  BY <1>0 DEF SessionTypes
<1> QED  BY <1>1, <1>6, <1>7, <1>8, <1>9, WorkerGoesOn

LEMMA PersistKeeps ==
  ASSUME ChatbotIInv, NEW w \in Workers, PersistChatSession(w)
  PROVE  ChatbotIInv'
<1>0. AdminTypes /\ SessionTypes /\ Places /\ (~raced => Orderly)
  BY DEF ChatbotIInv
<1>1. /\ run[w] # None /\ run[w].phase = "save" /\ Ends(w)
      /\ UNCHANGED <<admin, transfer, sweep, raced, msgs>>
  BY DEF PersistChatSession
<1>2. run[w].row \in Session /\ run[w].sid \in 1..MaxSessions
  BY <1>0, <1>1, RunIs
<1>3. /\ sess \in Seq(Session) /\ transfer \in BOOLEAN /\ published \in [1..MaxSessions -> Nat]
      /\ \A i \in 1..MaxSessions : i \notin DOMAIN sess => published[i] = 0
  BY <1>0 DEF SessionTypes
<1>4. PICK k \in DOMAIN sess : k = run[w].sid
  BY <1>0, <1>1, RunIs DEF RunShaped
<1>5. PICK row : row = [run[w].row EXCEPT !.stale = FALSE, !.done = run[w].row.done \/ JustCompleted(run[w].row)]
  OBVIOUS
<1>6. row \in Session
  BY <1>2, <1>5 DEF Session
<1>7. /\ row.status = run[w].row.status /\ row.flow = run[w].row.flow /\ row.step = run[w].row.step
      /\ row.done <=> run[w].row.done \/ JustCompleted(run[w].row)
  BY <1>2, <1>5 DEF Session
<1>8. sess' = [sess EXCEPT ![k] = row]
  BY <1>4, <1>5 DEF PersistChatSession
<1>9. /\ sess' \in Seq(Session) /\ DOMAIN sess' = DOMAIN sess /\ Len(sess') = Len(sess)
      /\ sess'[k] = row /\ \A i \in DOMAIN sess : i # k => sess'[i] = sess[i]
  BY <1>3, <1>6, <1>8, RowChanged
<1>10. published' = IF JustCompleted(run[w].row) THEN [published EXCEPT ![k] = published[k] + 1] ELSE published
  BY <1>4 DEF PersistChatSession
<1>11. /\ published' \in [1..MaxSessions -> Nat]
       /\ \A i \in 1..MaxSessions : i # k => published'[i] = published[i]
       /\ published'[k] = IF JustCompleted(run[w].row) THEN published[k] + 1 ELSE published[k]
  BY <1>2, <1>3, <1>4, <1>10
<1>12. \A i \in 1..MaxSessions : i \notin DOMAIN sess => published'[i] = 0
  BY <1>3, <1>11
<1>13. edits = 0 => \A i \in DOMAIN sess : RowPlaced(sess'[i])
  <2>1. edits = 0 => RowPlaced(row)
    BY <1>0, <1>1, <1>7 DEF Places, RunPlaced, RowPlaced
  <2> QED  BY <1>0, <1>9, <2>1 DEF Places
<1>14. ASSUME ~raced
       PROVE  /\ \A i \in DOMAIN sess : SessionKept(i)'
              /\ Loadable' \subseteq {run[w].sid}
              /\ Unanswerable' => Loadable' = {}
  <2>1. Orderly /\ RunKept(run[w])
    BY <1>0, <1>1, <1>14 DEF Orderly
  <2>2. /\ ~run[w].row.done /\ published[k] = 0 /\ row.status \in {"active", "completed"}
        /\ Loadable \subseteq {k} /\ (Unanswerable => row.status = "completed")
    BY <1>4, <1>7, <2>1 DEF RunKept
  <2>3. JustCompleted(run[w].row) <=> row.status = "completed"
    BY <1>7, <2>2 DEF JustCompleted
  <2>4. SessionKept(k)'
    BY <1>7, <1>9, <1>11, <2>2, <2>3 DEF SessionKept
  <2>5. ASSUME NEW i \in DOMAIN sess, i # k
        PROVE  SessionKept(i)'
    <3>1. i \in 1..MaxSessions
      BY <1>0, SidIs
    <3>2. sess'[i] = sess[i] /\ published'[i] = published[i]
      BY <1>9, <1>11, <2>5, <3>1
    <3> QED  BY <2>1, <3>2 DEF Orderly, SessionKept
  <2>6. Loadable' \subseteq {k}
    BY <1>9, <2>2 DEF Loadable
  <2>7. Unanswerable' <=> Unanswerable
    BY <1>1 DEF Unanswerable, admin
  <2>8. Unanswerable' => Loadable' = {}
    BY <1>9, <2>2, <2>6, <2>7 DEF Loadable
  <2> QED  BY <1>4, <2>4, <2>5, <2>6, <2>8
<1> QED  BY <1>1, <1>3, <1>9, <1>11, <1>12, <1>13, <1>14, WorkerEnds

-----------------------------------------------------------------------------
(* What else happens                                                          *)

(* Nothing happens to the sessions and to who holds them.                     *)
LEMMA TableSame ==
  ASSUME ChatbotIInv, UNCHANGED <<sess, run, published, raced>>, AdminTypes', Places',
         transfer' \in BOOLEAN, msgs' \in 0..MaxMsgs, sweep' \subseteq DOMAIN sess, Unanswerable' => Unanswerable
  PROVE  ChatbotIInv'
<1>0. AdminTypes /\ SessionTypes /\ Places /\ (~raced => Orderly)
  BY DEF ChatbotIInv
<1>1. SessionTypes'
  BY <1>0 DEF SessionTypes
<1>2. ASSUME ~raced'
      PROVE  Orderly'
  <2>1. Orderly
    BY <1>0, <1>2
  <2>2. Loadable' = Loadable /\ (Idle' <=> Idle)
    BY DEF Loadable, Idle
  <2>3. \A i \in DOMAIN sess : SessionKept(i)'
    BY <2>1 DEF Orderly, SessionKept
  <2>4. \A w \in Workers : run[w] # None => RunKept(run[w])'
    BY <2>1, <2>2 DEF Orderly, RunKept
  <2> QED  BY <2>1, <2>2, <2>3, <2>4 DEF Orderly
<1> QED  BY <1>1, <1>2 DEF ChatbotIInv

(* Something happens to the sessions while nobody holds one.                  *)
LEMMA IdleTable ==
  ASSUME ChatbotIInv, UNCHANGED <<run, published, msgs>>, AdminTypes', Places',
         sess' \in Seq(Session), DOMAIN sess' = DOMAIN sess, Len(sess') = Len(sess), sweep' \subseteq DOMAIN sess,
         transfer' \in BOOLEAN, raced' \in BOOLEAN, ~raced' => ~raced /\ Idle,
         ~raced' => /\ \A i \in DOMAIN sess : SessionKept(i)'
                    /\ Loadable' \subseteq Loadable
                    /\ Unanswerable' => \A i \in Loadable' : sess'[i].flow = None
  PROVE  ChatbotIInv'
<1>0. AdminTypes /\ SessionTypes /\ Places /\ (~raced => Orderly)
  BY DEF ChatbotIInv
<1>1. SessionTypes'
  BY <1>0 DEF SessionTypes, Idle
<1>2. ASSUME ~raced'
      PROVE  Orderly'
  <2>1. Orderly /\ Idle
    BY <1>0, <1>2
  <2>2. \A w \in Workers : run'[w] = None
    BY <2>1 DEF Idle
  <2> QED  BY <1>2, <2>1, <2>2 DEF Orderly
<1> QED  BY <1>1, <1>2 DEF ChatbotIInv

LEMMA BackfillKeeps ==
  ASSUME ChatbotIInv, BackfillChatbotFlowGraph
  PROVE  ChatbotIInv'
<1>0. AdminTypes /\ SessionTypes /\ Places
  BY DEF ChatbotIInv
<1>1. /\ ~booted /\ booted' = TRUE
      /\ UNCHANGED <<rules, settings, open, sess, transfer, run, sweep, published, raced, msgs, edits>>
      /\ flow' = [f \in Flows |-> IF flow[f].graph = None /\ Migrated[f] # None
                                  THEN [flow[f] EXCEPT !.graph = f] ELSE flow[f]]
  BY DEF BackfillChatbotFlowGraph
<1>2. ASSUME NEW f \in Flows
      PROVE  /\ flow'[f] \in FlowRow
             /\ flow'[f].graph = IF flow[f].graph = None /\ Migrated[f] # None THEN f ELSE flow[f].graph
  <2>1. flow[f] \in FlowRow
    BY <1>0 DEF AdminTypes
  <2>2. CASE flow[f].graph = None /\ Migrated[f] # None
    <3>1. flow'[f] = [flow[f] EXCEPT !.graph = f] /\ f \in GraphNames
      BY <1>1, <2>2 DEF GraphNames
    <3> QED  BY <2>1, <2>2, <3>1 DEF FlowRow
  <2>3. CASE ~(flow[f].graph = None /\ Migrated[f] # None)
    BY <1>1, <2>1, <2>3
  <2> QED  BY <2>2, <2>3
<1>3. AdminTypes'
  <2>1. flow' \in [Flows -> FlowRow]
    BY <1>1, <1>2
  <2> QED  BY <1>0, <1>1, <2>1 DEF AdminTypes
<1>4. Places'
  <2>1. \A w \in Workers : run'[w] = None
    BY <1>0, <1>1 DEF Places
  <2>2. ASSUME edits' = 0
        PROVE  AsInstalled'
    <3>1. AsInstalled
      BY <1>0, <1>1, <2>2 DEF Places
    <3>2. ASSUME NEW f \in Flows
          PROVE  flow'[f].graph = Installed(f)
      BY <1>1, <1>2, <3>1 DEF AsInstalled, Installed
    <3> QED  BY <1>1, <3>1, <3>2 DEF AsInstalled
  <2>3. edits' = 0 => \A i \in DOMAIN sess' : RowPlaced(sess'[i])
    BY <1>0, <1>1 DEF Places
  <2> QED  BY <2>1, <2>2, <2>3 DEF Places
<1>5. Unanswerable' => Unanswerable
  BY <1>1 DEF Unanswerable
<1>6. transfer' \in BOOLEAN /\ msgs' \in 0..MaxMsgs /\ sweep' \subseteq DOMAIN sess
  BY <1>0, <1>1 DEF SessionTypes
<1> QED  BY <1>1, <1>3, <1>4, <1>5, <1>6, TableSame

(* An edit: what people and the clock do while the server is up.              *)
LEMMA EditKeeps ==
  ASSUME ChatbotIInv, Edit, UNCHANGED <<booted, sess, transfer, run, sweep, published, raced, msgs>>,
         flow' \in [Flows -> FlowRow], rules' \subseteq {"agent", "text"}, settings' \in Settings, open' \in BOOLEAN
  PROVE  ChatbotIInv'
<1>0. AdminTypes /\ SessionTypes /\ Places
  BY DEF ChatbotIInv
<1>1. edits \in 0..MaxEdits /\ MaxEdits \in Nat /\ booted \in BOOLEAN
  BY <1>0, ChatbotAssumption DEF AdminTypes
<1>2. edits' \in 0..MaxEdits /\ edits' # 0
  BY <1>1 DEF Edit
<1>3. AdminTypes'
  BY <1>1, <1>2 DEF AdminTypes
<1>4. Places'
  BY <1>0, <1>2 DEF Places
<1>5. Unanswerable' => Unanswerable
  BY <1>2 DEF Unanswerable
<1>6. transfer' \in BOOLEAN /\ msgs' \in 0..MaxMsgs /\ sweep' \subseteq DOMAIN sess
  BY <1>0 DEF SessionTypes
<1> QED  BY <1>3, <1>4, <1>5, <1>6, TableSame

LEMMA FlowsKeep ==
  ASSUME ChatbotIInv, NEW f \in Flows, CreateChatbotFlow(f) \/ UpdateChatbotFlow(f) \/ DeleteChatbotFlow(f)
  PROVE  ChatbotIInv'
<1>0. AdminTypes
  BY DEF ChatbotIInv
<1>1. Edit /\ UNCHANGED <<rules, settings, botState>>
  BY DEF CreateChatbotFlow, UpdateChatbotFlow, DeleteChatbotFlow
<1>2. PICK row \in FlowRow : flow' = [flow EXCEPT ![f] = row]
  <2>1. ASSUME NEW g \in DOMAIN Graphs, NEW on \in BOOLEAN
        PROVE  [on |-> on, graph |-> g] \in FlowRow
    BY DEF FlowRow, GraphNames
  <2>2. CASE CreateChatbotFlow(f)
    BY <2>1, <2>2 DEF CreateChatbotFlow
  <2>3. CASE UpdateChatbotFlow(f)
    BY <2>1, <2>3 DEF UpdateChatbotFlow
  <2>4. CASE DeleteChatbotFlow(f)
    <3>1. flow[f] \in FlowRow
      BY <1>0 DEF AdminTypes
    <3>2. [flow[f] EXCEPT !.on = FALSE] \in FlowRow
      BY <3>1 DEF FlowRow
    <3> QED  BY <2>4, <3>2 DEF DeleteChatbotFlow
  <2> QED  BY <2>2, <2>3, <2>4
<1>3. flow' \in [Flows -> FlowRow]
  BY <1>0, <1>2 DEF AdminTypes
<1>4. rules' \subseteq {"agent", "text"} /\ settings' \in Settings /\ open' \in BOOLEAN
  BY <1>0, <1>1 DEF AdminTypes, botState
<1>5. UNCHANGED <<booted, sess, transfer, run, sweep, published, raced, msgs>>
  BY <1>1 DEF botState
<1> QED  BY <1>1, <1>3, <1>4, <1>5, EditKeeps

LEMMA RulesKeep ==
  ASSUME ChatbotIInv, NEW k \in {"agent", "text"},
         CreateKeywordRule(k) \/ UpdateKeywordRule(k) \/ DeleteKeywordRule(k)
  PROVE  ChatbotIInv'
<1>0. AdminTypes
  BY DEF ChatbotIInv
<1>1. Edit /\ UNCHANGED <<flow, settings, botState>>
  BY DEF CreateKeywordRule, UpdateKeywordRule, DeleteKeywordRule
<1>2. rules' = rules \cup {k} \/ rules' = rules \ {k}
  BY DEF CreateKeywordRule, UpdateKeywordRule, DeleteKeywordRule
<1>3. rules' \subseteq {"agent", "text"}
  BY <1>0, <1>2 DEF AdminTypes
<1>4. flow' \in [Flows -> FlowRow] /\ settings' \in Settings /\ open' \in BOOLEAN
  BY <1>0, <1>1 DEF AdminTypes, botState
<1>5. UNCHANGED <<booted, sess, transfer, run, sweep, published, raced, msgs>>
  BY <1>1 DEF botState
<1> QED  BY <1>1, <1>3, <1>4, <1>5, EditKeeps

LEMMA SettingsKeep ==
  ASSUME ChatbotIInv, UpdateChatbotSettings \/ Clock
  PROVE  ChatbotIInv'
<1>0. AdminTypes
  BY DEF ChatbotIInv
<1>1. Edit /\ UNCHANGED <<flow, rules, booted, sess, transfer, run, sweep, published, raced, msgs>>
  BY DEF UpdateChatbotSettings, Clock, botState
<1>2. settings' \in Settings /\ open' \in BOOLEAN
  BY <1>0 DEF UpdateChatbotSettings, Clock, botState, AdminTypes
<1>3. flow' \in [Flows -> FlowRow] /\ rules' \subseteq {"agent", "text"}
  BY <1>0, <1>1 DEF AdminTypes
<1> QED  BY <1>1, <1>2, <1>3, EditKeeps

(* The bot's part in the hands of people: resolved, taken over, handed back.  *)
LEMMA EndsActiveKeeps ==
  ASSUME ChatbotIInv, NEW status \in {"completed", "cancelled"}, EndsActive(sess', status), edits < MaxEdits,
         edits' = edits + 1, raced' = (raced \/ ~Idle), transfer' \in BOOLEAN,
         UNCHANGED <<booted, flow, rules, settings, open, run, sweep, published, msgs>>
  PROVE  ChatbotIInv'
<1>0. AdminTypes /\ SessionTypes /\ Places /\ (~raced => Orderly)
  BY DEF ChatbotIInv
<1>1. edits \in 0..MaxEdits /\ MaxEdits \in Nat
  BY <1>0, ChatbotAssumption DEF AdminTypes
<1>2. edits' \in 0..MaxEdits /\ edits' # 0
  BY <1>1
<1>3. AdminTypes'
  BY <1>0, <1>2 DEF AdminTypes
<1>4. Places'
  BY <1>0, <1>2 DEF Places
<1>5. /\ sess' \in Seq(Session) /\ DOMAIN sess' = DOMAIN sess /\ Len(sess') = Len(sess) /\ Loadable' = {}
      /\ \A i \in DOMAIN sess : SessionKept(i) => SessionKept(i)'
  BY <1>0, EndsActiveKept
<1>6. ~raced' => \A i \in DOMAIN sess : SessionKept(i)'
  BY <1>0, <1>5 DEF Orderly
<1>7. sweep' \subseteq DOMAIN sess /\ raced' \in BOOLEAN
  BY <1>0 DEF SessionTypes
<1> QED  BY <1>3, <1>4, <1>5, <1>6, <1>7, IdleTable

LEMMA ResolveKeeps ==
  ASSUME ChatbotIInv, ResolveConversation
  PROVE  ChatbotIInv'
<1>1. sess \in Seq(Session) /\ transfer \in BOOLEAN
  BY DEF ChatbotIInv, SessionTypes
<1>2. PICK t : t = sess'
  OBVIOUS
<1>3. t = [i \in DOMAIN sess |-> t[i]]
  BY <1>2 DEF ResolveConversation
<1>4. \A i \in DOMAIN sess : t[i] = IF sess[i].status = "active"
           THEN [sess[i] EXCEPT !.status = "completed", !.done = TRUE] ELSE sess[i]
  BY <1>2 DEF ResolveConversation
<1>5. EndsActive(t, "completed")
  BY <1>1, <1>3, <1>4, EndsActiveIs
<1>6. /\ edits < MaxEdits /\ edits' = edits + 1 /\ raced' = (raced \/ ~Idle)
      /\ UNCHANGED <<booted, flow, rules, settings, open, transfer, run, sweep, published, msgs>>
  BY DEF ResolveConversation
<1>7. EndsActive(sess', "completed")
  BY <1>2, <1>5
<1> QED  BY <1>1, <1>6, <1>7, EndsActiveKeeps

LEMMA AgentTakesOverKeeps ==
  ASSUME ChatbotIInv, AgentTakesOver
  PROVE  ChatbotIInv'
<1>1. sess \in Seq(Session)
  BY DEF ChatbotIInv, SessionTypes
<1>2. EndsActive(sess', "cancelled")
  BY <1>1, CancelIs DEF AgentTakesOver
<1>3. /\ edits < MaxEdits /\ edits' = edits + 1 /\ raced' = (raced \/ ~Idle) /\ transfer' \in BOOLEAN
      /\ UNCHANGED <<booted, flow, rules, settings, open, run, sweep, published, msgs>>
  BY DEF AgentTakesOver
<1> QED  BY <1>2, <1>3, EndsActiveKeeps

LEMMA ResumeKeeps ==
  ASSUME ChatbotIInv, ResumeFromTransfer
  PROVE  ChatbotIInv'
<1>0. AdminTypes /\ SessionTypes /\ Places
  BY DEF ChatbotIInv
<1>1. transfer' = FALSE /\ UNCHANGED <<admin, sess, run, sweep, published, raced, msgs>>
  BY DEF ResumeFromTransfer
<1>2. AdminTypes'
  BY <1>0, <1>1, AdminSame
<1>3. Places'
  BY <1>0, <1>1, PlacesKept DEF Places
<1>4. ~Unanswerable'
  BY <1>1 DEF Unanswerable
<1>5. msgs' \in 0..MaxMsgs /\ sweep' \subseteq DOMAIN sess
  BY <1>0, <1>1 DEF SessionTypes
<1> QED  BY <1>1, <1>2, <1>3, <1>4, <1>5, TableSame

LEMMA SweepKeeps ==
  ASSUME ChatbotIInv, TimeoutStaleChatSessions
  PROVE  ChatbotIInv'
<1>0. AdminTypes /\ SessionTypes /\ Places
  BY DEF ChatbotIInv
<1>1. sweep' = StaleSessions /\ UNCHANGED <<admin, sess, transfer, run, published, raced, msgs>>
  BY DEF TimeoutStaleChatSessions
<1>2. AdminTypes'
  BY <1>0, <1>1, AdminSame
<1>3. Places'
  BY <1>0, <1>1, PlacesKept DEF Places
<1>4. Unanswerable' => Unanswerable
  BY <1>1 DEF Unanswerable, admin
<1>5. transfer' \in BOOLEAN /\ msgs' \in 0..MaxMsgs /\ sweep' \subseteq DOMAIN sess
  BY <1>0, <1>1 DEF SessionTypes, StaleSessions
<1> QED  BY <1>1, <1>2, <1>3, <1>4, <1>5, TableSame

LEMMA TimeoutKeeps ==
  ASSUME ChatbotIInv, NEW k \in sweep, TimeoutChatSession(k)
  PROVE  ChatbotIInv'
<1>0. AdminTypes /\ SessionTypes /\ Places /\ (~raced => Orderly)
  BY DEF ChatbotIInv
<1>1. /\ sweep' = sweep \ {k} /\ UNCHANGED <<admin, transfer, run, published, msgs>>
      /\ raced' = (raced \/ ~Idle \/ ~sess[k].stale \/ sess[k].status # "active")
      /\ sess' = [sess EXCEPT ![k] = Ended(sess[k], "timeout")]
  BY DEF TimeoutChatSession
<1>2. sess \in Seq(Session) /\ k \in DOMAIN sess
  BY <1>0 DEF SessionTypes
<1>3. EndedAt(sess', k, "timeout")
  BY <1>1, <1>2, EndsRowIs
<1>4. /\ sess' \in Seq(Session) /\ DOMAIN sess' = DOMAIN sess /\ Len(sess') = Len(sess)
      /\ sess'[k].status = "timeout" /\ sess'[k].done /\ sess'[k].step = ""
      /\ \A i \in DOMAIN sess : i # k => sess'[i] = sess[i]
  BY <1>3 DEF EndedAt
<1>5. AdminTypes'
  BY <1>0, <1>1, AdminSame
<1>6. Places'
  <2>1. edits = 0 => \A i \in DOMAIN sess' : RowPlaced(sess'[i])
    BY <1>0, <1>4 DEF Places, RowPlaced
  <2> QED  BY <1>0, <1>1, <2>1, PlacesKept DEF Places
<1>7. raced' \in BOOLEAN /\ (~raced' => ~raced /\ Idle /\ sess[k].status = "active")
  BY <1>1
<1>8. ASSUME ~raced'
      PROVE  /\ \A i \in DOMAIN sess : SessionKept(i)'
             /\ Loadable' \subseteq Loadable
             /\ Unanswerable' => \A i \in Loadable' : sess'[i].flow = None
  <2>1. Orderly /\ Idle /\ published[k] = 0
    BY <1>0, <1>2, <1>7, <1>8 DEF Orderly, SessionKept
  <2>2. ASSUME NEW i \in DOMAIN sess
        PROVE  SessionKept(i)'
    <3>1. CASE i = k
      <4>1. published'[i] = 0 /\ sess'[i].status # "active"
        BY <1>1, <1>4, <2>1, <3>1
      <4> QED  BY <4>1 DEF SessionKept
    <3>2. CASE i # k
      <4>1. sess'[i] = sess[i]
        BY <1>4, <3>2
      <4> QED  BY <1>1, <2>1, <4>1 DEF Orderly, SessionKept
    <3> QED  BY <3>1, <3>2
  <2>3. ASSUME NEW i \in Loadable'
        PROVE  i \in Loadable /\ sess'[i] = sess[i]
    <3>1. i \in DOMAIN sess /\ i # k
      BY <1>4 DEF Loadable
    <3> QED  BY <1>4, <3>1 DEF Loadable
  <2>4. Unanswerable' <=> Unanswerable
    BY <1>1 DEF Unanswerable, admin
  <2> QED  BY <2>1, <2>2, <2>3, <2>4 DEF Orderly
<1>9. sweep' \subseteq DOMAIN sess /\ transfer' \in BOOLEAN
  BY <1>0, <1>1 DEF SessionTypes
<1> QED  BY <1>1, <1>4, <1>5, <1>6, <1>7, <1>8, <1>9, IdleTable

LEMMA GoesStaleKeeps ==
  ASSUME ChatbotIInv, SessionGoesStale
  PROVE  ChatbotIInv'
<1>0. AdminTypes /\ SessionTypes /\ Places /\ (~raced => Orderly)
  BY DEF ChatbotIInv
<1>1. PICK k \in DOMAIN sess : /\ sess[k].status = "active" /\ ~sess[k].stale
                               /\ sess' = [sess EXCEPT ![k] = [sess[k] EXCEPT !.stale = TRUE]]
  BY DEF SessionGoesStale
<1>2. raced' = (raced \/ ~Idle) /\ UNCHANGED <<admin, transfer, run, sweep, published, msgs>>
  BY DEF SessionGoesStale
<1>3. PICK row : row = [sess[k] EXCEPT !.stale = TRUE]
  OBVIOUS
<1>4. sess' = [sess EXCEPT ![k] = row] /\ sess \in Seq(Session)
  BY <1>0, <1>1, <1>3 DEF SessionTypes
<1>5. /\ sess' \in Seq(Session) /\ DOMAIN sess' = DOMAIN sess /\ Len(sess') = Len(sess)
      /\ sess'[k].status = sess[k].status /\ (sess'[k].done <=> sess[k].done) /\ sess'[k].step = sess[k].step
      /\ sess'[k].flow = sess[k].flow /\ sess'[k].stale
      /\ \A i \in DOMAIN sess : i # k => sess'[i] = sess[i]
  <2>1. PICK t : t = sess'
    OBVIOUS
  <2>2. StaledAt(t, k)
    BY <1>3, <1>4, <2>1, StaleRowIs
  <2> QED  BY <2>1, <2>2 DEF StaledAt
<1>6. AdminTypes'
  BY <1>0, <1>2, AdminSame
<1>7. Places'
  <2>1. edits = 0 => \A i \in DOMAIN sess' : RowPlaced(sess'[i])
    BY <1>0, <1>5 DEF Places, RowPlaced
  <2> QED  BY <1>0, <1>2, <2>1, PlacesKept DEF Places
<1>8. raced' \in BOOLEAN /\ (~raced' => ~raced /\ Idle)
  BY <1>2
<1>9. ASSUME ~raced'
      PROVE  /\ \A i \in DOMAIN sess : SessionKept(i)'
             /\ Loadable' \subseteq Loadable
             /\ Unanswerable' => \A i \in Loadable' : sess'[i].flow = None
  <2>1. Orderly /\ Idle
    BY <1>0, <1>8, <1>9
  <2>2. ASSUME NEW i \in DOMAIN sess
        PROVE  SessionKept(i)'
    BY <1>2, <1>5, <2>1 DEF Orderly, SessionKept
  <2>3. ASSUME NEW i \in Loadable'
        PROVE  i \in Loadable /\ sess'[i] = sess[i]
    <3>1. i \in DOMAIN sess /\ i # k
      BY <1>5 DEF Loadable
    <3> QED  BY <1>5, <3>1 DEF Loadable
  <2>4. Unanswerable' <=> Unanswerable
    BY <1>2 DEF Unanswerable, admin
  <2> QED  BY <2>1, <2>2, <2>3, <2>4 DEF Orderly
<1>10. sweep' \subseteq DOMAIN sess /\ transfer' \in BOOLEAN
  BY <1>0, <1>2 DEF SessionTypes
<1> QED  BY <1>2, <1>5, <1>6, <1>7, <1>8, <1>9, <1>10, IdleTable

-----------------------------------------------------------------------------
(* A message arrives                                                          *)

LEMMA NewSessionIs ==
  /\ NewSession \in Session /\ NewSession.status = "active" /\ ~NewSession.done /\ ~NewSession.stale
  /\ NewSession.flow = None /\ NewSession.step = "" /\ RowPlaced(NewSession)
<1>1. 0 \in 0..(MaxRetries - 1)
  BY ChatbotAssumption
<1>2. NewSession \in Session
  BY <1>1, NoStep DEF NewSession, Session
<1> QED  BY <1>2 DEF NewSession, RowPlaced

LEMMA NewRunIs ==
  ASSUME NEW i \in 1..MaxSessions, NEW row \in Session, NEW input \in Inputs, NEW a, a = NewRun(i, row, input)
  PROVE  a \in Run /\ a.sid = i /\ a.row = row /\ a.phase = "dispatch"
<1>1. input \in Heard /\ 0 \in 0..MaxIter
  BY ChatbotAssumption DEF Heard
<1> QED  BY <1>1 DEF NewRun, Run

(* The message takes a session that is in the table, or a new one.            *)
LEMMA LoadKeeps ==
  ASSUME ChatbotIInv, booted, NEW w \in Workers, run[w] = None, ~transfer, NEW k, NEW row \in Session, NEW a,
         a \in Run, a.sid = k, a.row = row, a.phase = "dispatch", run' = [run EXCEPT ![w] = a],
         UNCHANGED <<admin, sweep, published, transfer>>, msgs' \in 0..MaxMsgs, raced' = (raced \/ ~Idle),
         sess' \in Seq(Session), Len(sess') <= MaxSessions, k \in DOMAIN sess', DOMAIN sess' = DOMAIN sess \cup {k},
         sess'[k] = row, row.status = "active", \A i \in DOMAIN sess : sess'[i] = sess[i],
         k \notin DOMAIN sess => ~row.done /\ RowPlaced(row) /\ Loadable = {},
         k \in DOMAIN sess => k \in Loadable
  PROVE  ChatbotIInv'
<1>0. AdminTypes /\ SessionTypes /\ Places /\ (~raced => Orderly)
  BY DEF ChatbotIInv
<1>1. run' \in [Workers -> Run \cup {None}] /\ run'[w] = a /\ \A v \in Workers : v # w => run'[v] = run[v]
  BY <1>0 DEF SessionTypes
<1>2. AdminTypes'
  BY <1>0, AdminSame
<1>3. k \in 1..MaxSessions
  BY DEF Run
<1>4. SessionTypes'
  <2>1. ASSUME NEW v \in Workers, run'[v] # None
        PROVE  /\ run'[v].sid \in DOMAIN sess'
               /\ run'[v].phase = "graph" =>
                    run'[v].flow \in Flows /\ run'[v].graph \in GraphNames /\ run'[v].row.flow = run'[v].flow
    <3>1. CASE v = w
      BY <1>1, <3>1
    <3>2. CASE v # w
      BY <1>0, <1>1, <2>1, <3>2 DEF SessionTypes
    <3> QED  BY <3>1, <3>2
  <2>2. sweep' \subseteq DOMAIN sess' /\ raced' \in BOOLEAN
    BY <1>0 DEF SessionTypes
  <2> QED  BY <1>0, <1>1, <2>1, <2>2 DEF SessionTypes
<1>5. Places'
  <2>1. edits = 0 => \A i \in DOMAIN sess' : RowPlaced(sess'[i])
    BY <1>0 DEF Places
  <2>2. edits = 0 => \A v \in Workers : run'[v] # None => RunPlaced(run'[v])
    BY <1>0, <1>1, <2>1 DEF Places, RunPlaced
  <2> QED  BY <1>0, <2>1, <2>2, PlacesKept
<1>6. ASSUME ~raced'
      PROVE  Orderly'
  <2>1. Orderly /\ Idle
    BY <1>0, <1>6
  <2>2. \A v \in Workers : v # w => run'[v] = None
    BY <1>1, <2>1 DEF Idle
  <2>3. ~row.done /\ published[k] = 0
    <3>1. CASE k \in DOMAIN sess
      BY <2>1, <3>1 DEF Orderly, SessionKept
    <3>2. CASE k \notin DOMAIN sess
      BY <1>0, <1>3, <3>2 DEF SessionTypes
    <3> QED  BY <3>1, <3>2
  <2>4. \A i \in DOMAIN sess' : SessionKept(i)'
    <3>1. SessionKept(k)'
      BY <2>3 DEF SessionKept
    <3>2. ASSUME NEW i \in DOMAIN sess
          PROVE  SessionKept(i)'
      BY <2>1 DEF Orderly, SessionKept
    <3> QED  BY <3>1, <3>2
  <2>5. Loadable' \subseteq {k}
    <3>1. ASSUME NEW i \in Loadable', i # k
          PROVE  FALSE
      <4>1. i \in DOMAIN sess /\ sess'[i] = sess[i]
        BY <3>1 DEF Loadable
      <4>2. i \in Loadable
        BY <3>1, <4>1 DEF Loadable
      <4> QED  BY <2>1, <3>1, <4>2 DEF Orderly
    <3> QED  BY <3>1
  <2>6. ~Unanswerable'
    BY DEF Unanswerable
  <2>7. RunKept(a)'
    BY <2>3, <2>5, <2>6 DEF RunKept
  <2>8. \A v \in Workers : run'[v] # None => RunKept(run[v])'
    BY <1>1, <2>2, <2>7
  <2>9. \A u, v \in Workers : run'[u] # None /\ run'[v] # None => u = v
    BY <2>2
  <2>10. \A i, j \in Loadable' : i = j
    BY <2>5
  <2> QED  BY <2>4, <2>6, <2>8, <2>9, <2>10 DEF Orderly
<1> QED  BY <1>2, <1>4, <1>5, <1>6 DEF ChatbotIInv

LEMMA InboundKeeps ==
  ASSUME ChatbotIInv, NEW w \in Workers, NEW input \in Inputs, Inbound(w, input)
  PROVE  ChatbotIInv'
<1>0. AdminTypes /\ SessionTypes /\ Places
  BY DEF ChatbotIInv
<1>1. /\ booted /\ msgs < MaxMsgs /\ run[w] = None /\ msgs' = msgs + 1
      /\ UNCHANGED <<admin, sweep, published>>
  BY DEF Inbound
<1>2. msgs' \in 0..MaxMsgs
  BY <1>0, <1>1, ChatbotAssumption DEF SessionTypes
<1>3. sess \in Seq(Session) /\ Len(sess) <= MaxSessions /\ transfer \in BOOLEAN /\ MaxSessions \in Nat
  BY <1>0, ChatbotAssumption DEF SessionTypes
<1>4. Len(sess) \in Nat /\ DOMAIN sess = 1..Len(sess)
  BY <1>3
<1>5. CASE Unanswered(input) /\ UNCHANGED <<sess, run, raced>>
  <2>1. AdminTypes'
    BY <1>0, <1>1, AdminSame
  <2>2. Places'
    BY <1>0, <1>1, <1>5, PlacesKept DEF Places
  <2>3. transfer' \in BOOLEAN
    BY <1>3, <1>5 DEF Unanswered, WithinHours
  <2>4. Unanswerable' => Unanswerable
    <3>1. settings' = settings /\ edits' = edits
      BY <1>1 DEF admin
    <3> QED  BY <1>5, <3>1 DEF Unanswered, Unanswerable
  <2>5. sweep' \subseteq DOMAIN sess
    BY <1>0, <1>1 DEF SessionTypes
  <2> QED  BY <1>1, <1>2, <1>5, <2>1, <2>2, <2>3, <2>4, <2>5, TableSame
<1>6. CASE ~transfer /\ GetOrCreateSession(w, input) /\ raced' = (raced \/ ~Idle) /\ UNCHANGED transfer
  <2>1. CASE \E i \in Loadable : run' = [run EXCEPT ![w] = NewRun(i, sess[i], input)] /\ UNCHANGED sess
    <3>1. PICK k \in Loadable : run' = [run EXCEPT ![w] = NewRun(k, sess[k], input)] /\ UNCHANGED sess
      BY <2>1
    <3>2. k \in DOMAIN sess /\ sess[k].status = "active"
      BY DEF Loadable
    <3>3. PICK row \in Session : row = sess[k]
      BY <1>3, <3>2, RowIs
    <3>4. k \in 1..MaxSessions
      BY <1>0, <3>2, SidIs
    <3>5. PICK a : a = NewRun(k, row, input)
      OBVIOUS
    <3>6. a \in Run /\ a.sid = k /\ a.row = row /\ a.phase = "dispatch"
      BY <3>4, <3>5, NewRunIs
    <3>7. run' = [run EXCEPT ![w] = a] /\ sess' = sess /\ DOMAIN sess = DOMAIN sess \cup {k}
      BY <3>1, <3>2, <3>3, <3>5
    <3> QED  BY <1>1, <1>2, <1>3, <1>6, <3>2, <3>3, <3>6, <3>7, LoadKeeps
  <2>2. CASE /\ Loadable = {} /\ Len(sess) < MaxSessions /\ sess' = Append(sess, NewSession)
             /\ run' = [run EXCEPT ![w] = NewRun(Len(sess) + 1, NewSession, input)]
    <3>1. PICK k \in 1..MaxSessions : k = Len(sess) + 1
      BY <1>3, <1>4, <2>2
    <3>2. PICK row \in Session : row = NewSession
      BY NewSessionIs
    <3>3. PICK a : a = NewRun(k, row, input)
      OBVIOUS
    <3>4. a \in Run /\ a.sid = k /\ a.row = row /\ a.phase = "dispatch"
      BY <3>3, NewRunIs
    <3>5. sess' = Append(sess, row) /\ run' = [run EXCEPT ![w] = a]
      BY <2>2, <3>1, <3>2, <3>3
    <3>6. /\ sess' \in Seq(Session) /\ Len(sess') = Len(sess) + 1
          /\ sess'[k] = row /\ \A i \in DOMAIN sess : sess'[i] = sess[i]
      BY <1>3, <1>4, <3>1, <3>5
    <3>7. /\ DOMAIN sess' = DOMAIN sess \cup {k} /\ k \in DOMAIN sess' /\ k \notin DOMAIN sess
          /\ Len(sess') <= MaxSessions
      BY <1>3, <1>4, <2>2, <3>1, <3>6
    <3>8. row.status = "active" /\ ~row.done /\ RowPlaced(row)
      BY <3>2, NewSessionIs
    <3>9. Loadable = {} /\ run' = [run EXCEPT ![w] = a]
      BY <2>2, <3>5
    <3> HIDE DEF Loadable
    <3> QED  BY <1>1, <1>2, <1>6, <3>4, <3>6, <3>7, <3>8, <3>9, LoadKeeps
  <2> QED  BY <1>6, <2>1, <2>2 DEF GetOrCreateSession
<1> QED  BY <1>5, <1>6 DEF Inbound

-----------------------------------------------------------------------------
(* The invariant                                                              *)

(* A session the previous release left is at a node of its flow's graph.      *)
LEMMA ParkedIs ==
  ASSUME NEW s \in Parked
  PROVE  /\ s \in Session /\ s.status = "active" /\ ~s.done /\ RowPlaced(s)
<1> DEFINE saved(f) == IF InitialGraph[f] # None THEN Graphs[InitialGraph[f]] ELSE Migrated[f]
           waits(f) == {n \in DOMAIN saved(f).node :
                          saved(f).node[n].kind \in {"prompt", "buttons", "whatsapp_flow"}}
<1>1. PICK f \in {g \in Flows : saved(g) # None} : s \in {[NewSession EXCEPT !.flow = f, !.step = n] : n \in waits(f)}
  BY DEF Parked
<1>2. PICK n \in DOMAIN saved(f).node : s = [NewSession EXCEPT !.flow = f, !.step = n]
  BY <1>1
<1>3. f \in Flows /\ Installed(f) # None /\ Graph(Installed(f)) = saved(f)
  <2>1. CASE InitialGraph[f] # None
    <3>1. InitialGraph[f] \in DOMAIN Graphs /\ InitialGraph[f] \notin Flows
      BY <1>1, <2>1, ChatbotAssumption
    <3> QED  BY <1>1, <2>1, <3>1 DEF Installed, Graph
  <2>2. CASE InitialGraph[f] = None
    BY <1>1, <2>2, ChatbotAssumption DEF Installed, Graph
  <2> QED  BY <2>1, <2>2
<1>4. Installed(f) \in GraphNames /\ n \in DOMAIN Graph(Installed(f)).node
  BY <1>2, <1>3, InstalledIs
<1>5. n \in Steps
  BY <1>4, GraphIs
<1> HIDE DEF saved, waits
<1>6. s \in Session
  BY <1>2, <1>3, <1>5, NewSessionIs DEF Session
<1>7. s.flow = f /\ s.step = n /\ s.status = "active" /\ ~s.done
  BY <1>2, NewSessionIs DEF Session
<1>8. RowPlaced(s)
  BY <1>3, <1>4, <1>7 DEF RowPlaced, AtNode
<1> QED  BY <1>6, <1>7, <1>8

LEMMA ChatbotInit ==
  ASSUME Init
  PROVE  ChatbotIInv
<1>0. MaxMsgs \in Nat /\ MaxEdits \in Nat /\ MaxSessions \in Nat /\ MaxSessions >= 1
  BY ChatbotAssumption
<1>1. /\ sess \in Seq(Session) /\ Len(sess) <= MaxSessions /\ DOMAIN sess \subseteq {1}
      /\ \A i \in DOMAIN sess : sess[i].status = "active" /\ ~sess[i].done /\ RowPlaced(sess[i])
  <2>1. CASE sess = <<>>
    BY <1>0, <2>1
  <2>2. CASE \E s \in Parked : sess = <<s>>
    <3>1. PICK s \in Parked : sess = <<s>>
      BY <2>2
    <3>2. s \in Session /\ s.status = "active" /\ ~s.done /\ RowPlaced(s)
      BY ParkedIs
    <3>3. sess \in Seq(Session) /\ Len(sess) = 1 /\ DOMAIN sess = {1} /\ sess[1] = s
      BY <3>1, <3>2
    <3> QED  BY <1>0, <3>2, <3>3
  <2> QED  BY <2>1, <2>2 DEF Init
<1>2. AdminTypes
  <2>1. ASSUME NEW f \in Flows
        PROVE  [on |-> InitialGraph[f] # None \/ LegacySteps[f] # <<>>, graph |-> InitialGraph[f]] \in FlowRow
    <3>1. InitialGraph[f] \in GraphNames \cup {None}
      BY ChatbotAssumption DEF GraphNames
    <3> QED  BY <3>1 DEF FlowRow
  <2>2. flow \in [Flows -> FlowRow]
    BY <2>1 DEF Init
  <2>3. settings \in Settings
    BY ChatbotAssumption DEF Init
  <2>4. rules \subseteq {"agent", "text"} /\ edits \in 0..MaxEdits
    BY <1>0 DEF Init
  <2>5. booted \in BOOLEAN /\ open \in BOOLEAN
    BY Zenon DEF Init
  <2> QED  BY <2>2, <2>3, <2>4, <2>5 DEF AdminTypes
<1>3. SessionTypes
  <2>1. \A w \in Workers : run[w] = None
    BY DEF Init
  <2>2. run \in [Workers -> Run \cup {None}]
    BY DEF Init
  <2>3. published \in [1..MaxSessions -> Nat] /\ \A i \in 1..MaxSessions : published[i] = 0
    BY DEF Init
  <2>4. msgs \in 0..MaxMsgs /\ sweep \subseteq DOMAIN sess
    BY <1>0 DEF Init
  <2>5. transfer \in BOOLEAN /\ raced \in BOOLEAN
    BY Zenon DEF Init
  <2> QED  BY <1>1, <2>1, <2>2, <2>3, <2>4, <2>5 DEF SessionTypes
<1>4. Places
  <2>1. \A w \in Workers : run[w] = None
    BY DEF Init
  <2>2. AsInstalled
    BY DEF Init, AsInstalled
  <2> QED  BY <1>1, <2>1, <2>2 DEF Places
<1>5. Orderly
  <2>1. (\A w \in Workers : run[w] = None) /\ ~transfer
    BY DEF Init
  <2>2. \A i, j \in Loadable : i = j
    BY <1>1 DEF Loadable
  <2>3. ASSUME NEW i \in DOMAIN sess
        PROVE  SessionKept(i)
    <3>1. i \in 1..MaxSessions
      BY <1>3, SidIs
    <3>2. published[i] = 0
      BY <3>1 DEF Init
    <3> QED  BY <1>1, <3>2 DEF SessionKept
  <2> QED  BY <2>1, <2>2, <2>3 DEF Orderly, Unanswerable
<1> QED  BY <1>2, <1>3, <1>4, <1>5 DEF ChatbotIInv

LEMMA ChatbotNext ==
  ASSUME ChatbotIInv, [Next]_vars
  PROVE  ChatbotIInv'
<1>1. CASE BackfillChatbotFlowGraph
  BY <1>1, BackfillKeeps
<1>2. ASSUME NEW w \in Workers, Worker(w)
      PROVE  ChatbotIInv'
  BY <1>2, KeywordTransferKeeps, ContinueFlowKeeps, TriggerFlowKeeps, ReplyKeeps, RunNodeKeeps, SkipNodeKeeps,
     NodeNotFoundKeeps, RunawayKeeps, PersistKeeps DEF Worker
<1>3. ASSUME NEW w \in Workers, NEW input \in Inputs, Inbound(w, input)
      PROVE  ChatbotIInv'
  BY <1>3, InboundKeeps
<1>4. CASE ResolveConversation \/ AgentTakesOver \/ ResumeFromTransfer
  BY <1>4, ResolveKeeps, AgentTakesOverKeeps, ResumeKeeps
<1>5. CASE Sweeper
  BY <1>5, SweepKeeps, TimeoutKeeps DEF Sweeper
<1>6. CASE SessionGoesStale
  BY <1>6, GoesStaleKeeps
<1>7. CASE Authors
  BY <1>7, FlowsKeep, RulesKeep, SettingsKeep DEF Authors
<1>8. CASE Clock
  BY <1>8, SettingsKeep
<1>9. CASE UNCHANGED vars
  <2>1. /\ UNCHANGED admin /\ UNCHANGED <<sess, run, published, raced>>
        /\ transfer' = transfer /\ msgs' = msgs /\ sweep' = sweep
    BY <1>9 DEF vars, admin
  <2>2. AdminTypes /\ SessionTypes /\ Places
    BY DEF ChatbotIInv
  <2>3. AdminTypes'
    BY <2>1, <2>2, AdminSame
  <2>4. Places'
    BY <2>1, <2>2, PlacesKept DEF Places
  <2>5. Unanswerable' => Unanswerable
    BY <2>1 DEF Unanswerable, admin
  <2>6. transfer' \in BOOLEAN /\ msgs' \in 0..MaxMsgs /\ sweep' \subseteq DOMAIN sess
    BY <2>1, <2>2 DEF SessionTypes
  <2> QED  BY <2>1, <2>3, <2>4, <2>5, <2>6, TableSame
<1> QED  BY <1>1, <1>2, <1>3, <1>4, <1>5, <1>6, <1>7, <1>8, <1>9 DEF Next

(* Types, places and, until something races, one holder of one session:       *)
(* preserved by every message, edit, timeout and handover of the chatbot.     *)
THEOREM ChatbotInvariant == Spec => []ChatbotIInv
<1>1. Init => ChatbotIInv
  BY ChatbotInit
<1>2. ChatbotIInv /\ [Next]_vars => ChatbotIInv'
  BY ChatbotNext
<1> QED  BY <1>1, <1>2, PTL DEF Spec

LEMMA ChatbotIInvIsEnough ==
  ASSUME ChatbotIInv
  PROVE  ChatbotInv
<1>0. AdminTypes /\ SessionTypes /\ Places /\ (~raced => Orderly)
  BY DEF ChatbotIInv
<1>1. TypeOK
  <2>1. \A f \in Flows : flow[f].graph \in GraphNames \cup {None}
    BY <1>0 DEF AdminTypes, FlowRow
  <2>2. \A i \in DOMAIN sess : sess[i] \in Session
    BY <1>0, RowIs DEF SessionTypes
  <2> QED  BY <1>0, <2>1, <2>2 DEF TypeOK, AdminTypes, SessionTypes
<1>2. OneSession
  <2>1. SUFFICES ASSUME ~raced
                 PROVE  /\ Cardinality(Loadable) <= 1
                        /\ (transfer /\ Idle /\ settings.enabled /\ edits = 0)
                             => \A i \in Loadable : sess[i].flow = None
    BY DEF OneSession
  <2>2. Orderly
    BY <1>0, <2>1
  <2>3. CASE Loadable = {}
    <3>1. Cardinality(Loadable) = 0
      BY <2>3, FS_EmptySet
    <3> QED  BY <2>3, <3>1
  <2>4. CASE Loadable # {}
    <3>1. PICK k : k \in Loadable
      BY <2>4
    <3>2. Loadable = {k}
      BY <2>2, <3>1 DEF Orderly
    <3>3. Cardinality(Loadable) = 1
      BY <3>2, FS_Singleton
    <3> QED  BY <2>2, <3>3 DEF Orderly, Unanswerable
  <2> QED  BY <2>3, <2>4
<1>3. CompletionIsFinal
  BY <1>0 DEF CompletionIsFinal, Orderly, SessionKept
<1>4. LostOnlyByEdits
  <2>1. SUFFICES ASSUME NEW w \in Workers, run[w] # None, run[w].phase = "graph", ~(edits > 0),
                        run[w].row.step \notin DOMAIN Graph(run[w].graph).node
                 PROVE  run[w].graph \in DOMAIN Graphs /\ ~WellDrawn(Graphs[run[w].graph])
    BY DEF LostOnlyByEdits
  <2>2. edits = 0
    BY <1>0, <2>1, ChatbotAssumption DEF AdminTypes
  <2>3. PICK g \in GraphNames : g = run[w].graph
    BY <1>0, <2>1 DEF SessionTypes
  <2>4. RunPlaced(run[w])
    BY <1>0, <2>1, <2>2 DEF Places
  <2>5. ~WellDrawn(Graph(g))
    BY <2>1, <2>3, <2>4 DEF RunPlaced, AtNode
  <2>6. g \in DOMAIN Graphs /\ Graph(g) = Graphs[g]
    BY <2>5, GraphIs
  <2> QED  BY <2>3, <2>5, <2>6
<1> QED  BY <1>1, <1>2, <1>3, <1>4 DEF ChatbotInv

(* What a message leaves behind, for every flow and any number of workers:    *)
(* one session to go on with, an outcome published once, and a place that     *)
(* exists (chatbot_graph_runner.go, persistChatSession, stepsToGraph).        *)
THEOREM SessionsAreOrderly == Spec => []ChatbotInv
<1>1. ChatbotIInv => ChatbotInv
  BY ChatbotIInvIsEnough
<1> QED  BY <1>1, ChatbotInvariant, PTL

-----------------------------------------------------------------------------
(* Ended sessions                                                             *)

(* No row that had ended is active after the step.                            *)
NoneRevived == \A i \in DOMAIN sess : sess[i].status # "active" => sess'[i].status # "active"

LEMMA WorkersRevive ==
  ASSUME ChatbotIInv, ~raced, NEW w \in Workers, Worker(w)
  PROVE  NoneRevived
<1>0. SessionTypes /\ Orderly /\ sess \in Seq(Session)
  BY DEF ChatbotIInv, SessionTypes
<1>1. EndsActive(CancelActive(sess), "cancelled")
  BY <1>0, CancelIs
<1>2. ASSUME sess' = sess \/ sess' = CancelActive(sess)
      PROVE  NoneRevived
  BY <1>1, <1>2 DEF NoneRevived, EndsActive
<1>3. ASSUME NEW status \in {"completed", "cancelled"}, run[w] # None,
             sess' = [sess EXCEPT ![run[w].sid] = Ended(sess[run[w].sid], status)]
      PROVE  NoneRevived
  <2>1. PICK k \in DOMAIN sess : k = run[w].sid
    BY <1>0, <1>3, RunIs DEF RunShaped
  <2>2. PICK t : t = sess'
    OBVIOUS
  <2>3. t = [sess EXCEPT ![k] = Ended(sess[k], status)] /\ status \in {"completed", "cancelled", "timeout"}
    BY <1>3, <2>1, <2>2
  <2>4. EndedAt(t, k, status)
    BY <1>0, <2>3, EndsRowIs
  <2>5. \A i \in DOMAIN sess : sess[i].status # "active" => t[i].status # "active"
    BY <2>3, <2>4 DEF EndedAt
  <2> QED  BY <2>2, <2>5 DEF NoneRevived
<1>4. CASE KeywordTransfer(w)
  BY <1>2, <1>4 DEF KeywordTransfer
<1>5. CASE ContinueFlow(w)
  <2>1. run[w] # None
    BY <1>5 DEF ContinueFlow
  <2>2. CASE ExitFlow(w)
    BY <1>3, <2>1, <2>2 DEF ExitFlow
  <2>3. CASE CancelChatSession(w)
    BY <1>3, <2>1, <2>3 DEF CancelChatSession
  <2>4. CASE UNCHANGED sess
    BY <1>2, <2>4
  <2> QED  BY <1>5, <2>2, <2>3, <2>4 DEF ContinueFlow
<1>6. CASE RunNode(w)
  BY <1>2, <1>6 DEF RunNode, HandsOver
<1>7. CASE TriggerFlow(w) \/ ReplyOutsideFlow(w) \/ SkipNode(w) \/ NodeNotFound(w) \/ Runaway(w)
  BY <1>2, <1>7 DEF TriggerFlow, ReplyOutsideFlow, SkipNode, NodeNotFound, Runaway
<1>8. CASE PersistChatSession(w)
  <2>1. run[w] # None /\ RunKept(run[w])
    BY <1>0, <1>8 DEF PersistChatSession, Orderly
  <2>2. PICK k \in DOMAIN sess : k = run[w].sid
    BY <1>0, <2>1, RunIs DEF RunShaped
  <2>3. run[w].row \in Session
    BY <1>0, <2>1, RunIs
  <2>4. PICK row : row = [run[w].row EXCEPT !.stale = FALSE, !.done = run[w].row.done \/ JustCompleted(run[w].row)]
    OBVIOUS
  <2>5. row \in Session /\ row.status = run[w].row.status
    BY <2>3, <2>4 DEF Session
  <2>6. sess' = [sess EXCEPT ![k] = row]
    BY <1>8, <2>2, <2>4 DEF PersistChatSession
  <2>7. sess'[k] = row /\ \A i \in DOMAIN sess : i # k => sess'[i] = sess[i]
    BY <1>0, <2>5, <2>6, RowChanged
  <2>8. row.status = "active" => sess[k].status = "active"
    BY <2>1, <2>2, <2>5 DEF RunKept
  <2> QED  BY <2>7, <2>8 DEF NoneRevived
<1> QED  BY <1>4, <1>5, <1>6, <1>7, <1>8 DEF Worker

LEMMA OthersRevive ==
  ASSUME ChatbotIInv, Next, \A w \in Workers : ~Worker(w)
  PROVE  NoneRevived
<1>0. SessionTypes /\ sess \in Seq(Session)
  BY DEF ChatbotIInv, SessionTypes
<1>1. ASSUME sess' = sess
      PROVE  NoneRevived
  BY <1>1 DEF NoneRevived
<1>2. CASE BackfillChatbotFlowGraph \/ ResumeFromTransfer \/ TimeoutStaleChatSessions \/ Clock
  BY <1>1, <1>2 DEF BackfillChatbotFlowGraph, ResumeFromTransfer, TimeoutStaleChatSessions, Clock
<1>3. CASE Authors
  BY <1>1, <1>3 DEF Authors, CreateChatbotFlow, UpdateChatbotFlow, DeleteChatbotFlow, CreateKeywordRule,
                    UpdateKeywordRule, DeleteKeywordRule, UpdateChatbotSettings, botState
<1>4. ASSUME NEW w \in Workers, NEW input \in Inputs, Inbound(w, input)
      PROVE  NoneRevived
  <2>1. sess' = sess \/ sess' = Append(sess, NewSession)
    BY <1>4 DEF Inbound, GetOrCreateSession
  <2>2. \A i \in DOMAIN sess : Append(sess, NewSession)[i] = sess[i]
    <3>1. PICK row \in Session : row = NewSession
      BY NewSessionIs
    <3>2. DOMAIN sess = 1..Len(sess) /\ Len(sess) \in Nat
      BY <1>0
    <3>3. \A i \in 1..Len(sess) : Append(sess, row)[i] = sess[i]
      BY <1>0
    <3> QED  BY <3>1, <3>2, <3>3
  <2> QED  BY <2>1, <2>2 DEF NoneRevived
<1>5. CASE ResolveConversation
  BY <1>5 DEF ResolveConversation, NoneRevived
<1>6. CASE AgentTakesOver
  <2>1. EndsActive(sess', "cancelled")
    BY <1>0, <1>6, CancelIs DEF AgentTakesOver
  <2> QED  BY <2>1 DEF NoneRevived, EndsActive
<1>7. ASSUME NEW k \in sweep, TimeoutChatSession(k)
      PROVE  NoneRevived
  <2>1. k \in DOMAIN sess /\ sess' = [sess EXCEPT ![k] = Ended(sess[k], "timeout")]
    BY <1>0, <1>7 DEF SessionTypes, TimeoutChatSession
  <2>2. EndedAt(sess', k, "timeout")
    BY <1>0, <2>1, EndsRowIs
  <2> QED  BY <2>1, <2>2 DEF NoneRevived, EndedAt
<1>8. CASE SessionGoesStale
  <2>1. PICK k \in DOMAIN sess : /\ sess[k].status = "active"
                                 /\ sess' = [sess EXCEPT ![k] = [sess[k] EXCEPT !.stale = TRUE]]
    BY <1>8 DEF SessionGoesStale
  <2>2. \A i \in DOMAIN sess : i # k => sess'[i] = sess[i]
    BY <1>0, <2>1
  <2> QED  BY <2>1, <2>2 DEF NoneRevived
<1> QED  BY <1>2, <1>3, <1>4, <1>5, <1>6, <1>7, <1>8 DEF Next, Sweeper

(* A session that has ended becomes active again only by the save of a run    *)
(* that something raced (persistChatSession's whole-row save).                *)
THEOREM EndedSessionsStayEnded == Spec => EndedStaysEnded
<1>1. ASSUME ChatbotIInv, [Next]_vars
      PROVE  [\A i \in DOMAIN sess : sess[i].status # "active" /\ sess'[i].status = "active" => raced]_vars
  <2>1. CASE UNCHANGED vars
    BY <2>1
  <2>2. CASE Next /\ ~raced
    <3>1. NoneRevived
      BY <1>1, <2>2, WorkersRevive, OthersRevive
    <3> QED  BY <3>1 DEF NoneRevived
  <2>3. CASE raced
    BY <2>3
  <2> QED  BY <1>1, <2>1, <2>2, <2>3
<1> QED  BY <1>1, ChatbotInvariant, PTL DEF Spec, EndedStaysEnded
=============================================================================
