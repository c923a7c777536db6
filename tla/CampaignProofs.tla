--------------------------- MODULE CampaignProofs ---------------------------
(* Proofs about Campaign, for any recipients, workers, requests and bounds,   *)
(* and about Access, who may do what, for any users, organizations, requests  *)
(* and cache entries.  The two share no state.                                *)
EXTENDS Campaign, Access, FiniteSetTheorems, TLAPS

(* The audience a start may still write has been written. *)
Materialised == Audience = <<>> \/ written >= 1

(* A start or a tick between loading the recipients and enqueueing them. *)
Starting(q) == req[q].op \in {"start", "tick"} /\ req[q].pc \in {"loaded", "marked"}

(* What the place of a request says of its operation and of the audience. *)
RequestsOK ==
  \A q \in Requests :
    /\ req[q].op = "none" <=> req[q].pc = "new"
    /\ req[q].seen => written >= 1
    /\ req[q].pc = "marked" => req[q].op \in {"start", "tick", "retry"}
    /\ req[q].op \in {"start", "tick"} /\ req[q].pc \in {"audience", "loaded", "marked"}
         => Materialised

(* A job is somewhere: on the stream, unacknowledged or with a worker. *)
Busy == \/ \E r \in Rows : stream[r] + pel[r] + stale[r] > 0
        \/ \E w \in Workers : wpc[w] # "idle"

(* Nothing is sent before the audience is written, so that the set of         *)
(* pending rows only shrinks from the first start on. *)
AudienceFirst == Busy \/ status \in {"processing", "completed"} => Materialised

(* What a start loaded still covers every pending row. *)
StartsCover == \A q \in Requests : Starting(q) => Pending \subseteq req[q].rows

(* The worker's own row is settled when it looks for others, and there are    *)
(* none when it goes on to complete the campaign.                             *)
CountsHold == \A w \in Workers :
                /\ wpc[w] \in {"count", "reload", "complete"} => rec[job[w]] # "pending"
                /\ wpc[w] \in {"reload", "complete"} => Pending = {}

FlowOK == Undisturbed => /\ AudienceFirst /\ StartsCover /\ CountsHold
                         /\ status = "processing" => \A r \in Pending : HasJob(r)
                         /\ status = "completed" => Pending = {}

(* With ticks only, one of them claims the campaign and enqueues its rows.    *)
OnlyTicks == \A q \in Requests : req[q].op \in {"none", "tick"}

TicksOK ==
  faults = 0 /\ OnlyTicks =>
    /\ \A q \in Requests : req[q].pc = "marked" =>
         /\ status # "scheduled"
         /\ \A r \in Rows : enq[r] = 0
         /\ \A p \in Requests : req[p].pc = "marked" => p = q
    /\ \A r \in Rows : enq[r] =< 1
    /\ status = "scheduled" => \A r \in Rows : enq[r] = 0

CampaignInv == TypeOK /\ RequestsOK /\ SendsNeedJobs /\ FlowOK /\ TicksOK

-----------------------------------------------------------------------------
(* The workers that may still send to a row can be counted. *)
LEMMA DueFinite == \A r : IsFiniteSet(Due(r)) /\ Cardinality(Due(r)) \in Nat
<1> SUFFICES ASSUME NEW r  PROVE IsFiniteSet(Due(r)) /\ Cardinality(Due(r)) \in Nat
  OBVIOUS
<1>1. Due(r) \in SUBSET Workers /\ IsFiniteSet(Workers)
  BY CampaignAssumption DEF Due
<1>2. IsFiniteSet(Due(r))
  BY <1>1, FS_Subset
<1> QED  BY <1>2, FS_CardinalityType

(* A worker's step changes no count but that of its own row. *)
LEMMA DueGrows ==
  ASSUME NEW w \in Workers, NEW r, Due(r)' = Due(r) \cup {w}, w \notin Due(r)
  PROVE  Cardinality(Due(r)') = Cardinality(Due(r)) + 1
  BY DueFinite, FS_AddElement

LEMMA DueShrinks ==
  ASSUME NEW w \in Workers, NEW r, Due(r)' = Due(r) \ {w}
  PROVE  Cardinality(Due(r)') = IF w \in Due(r) THEN Cardinality(Due(r)) - 1
                                                ELSE Cardinality(Due(r))
  BY DueFinite, FS_RemoveElement

-----------------------------------------------------------------------------
LEMMA InitInv == Init => CampaignInv
<1> SUFFICES ASSUME Init  PROVE CampaignInv
  OBVIOUS
<1>1. TypeOK
  BY CampaignAssumption DEF Init, TypeOK, DbTypes, RequestTypes, QueueTypes, WorkerTypes,
     Statuses, Idle, RequestPcs, WorkerPcs
<1>2. RequestsOK
  BY DEF Init, RequestsOK, Idle
<1>3. SendsNeedJobs
  <2>1. \A r \in Rows : Due(r) = {}
    BY DEF Init, Due, Unsent
  <2> QED  BY <2>1, FS_EmptySet DEF Init, SendsNeedJobs
<1>4. FlowOK
  BY CampaignAssumption DEF Init, FlowOK, AudienceFirst, Busy, StartsCover, Starting, CountsHold, Idle
<1>5. TicksOK
  BY DEF Init, TicksOK, Idle
<1> QED  BY <1>1, <1>2, <1>3, <1>4, <1>5 DEF CampaignInv

(* A behaviour that is undisturbed now always was. *)
LEMMA Calm ==
  ASSUME TypeOK, faults' \in {faults, faults + 1}, written' \in {written, written + 1},
         \A q \in Requests : req'[q].op = req[q].op \/ req[q].op = "none",
         Undisturbed'
  PROVE  Undisturbed
  BY CampaignAssumption DEF TypeOK, DbTypes, Undisturbed

(* The counts of jobs and sends do not depend on the database or the requests. *)
LEMMA SendsFrame ==
  ASSUME TypeOK, SendsNeedJobs, UNCHANGED <<stream, pel, stale, enq, sends, wpc, job>>,
         faults' \in {faults, faults + 1}
  PROVE  SendsNeedJobs'
<1>1. \A r \in Rows : Due(r)' = Due(r)
  BY DEF Due, Unsent
<1>2. \A r \in Rows : Cardinality(Due(r)) \in Nat
  BY DueFinite
<1> QED  BY <1>1, <1>2, CampaignAssumption DEF SendsNeedJobs, TypeOK, QueueTypes

-----------------------------------------------------------------------------
(* Requests.                                                                  *)

RequestStates == [op : Ops \cup {"none"}, pc : RequestPcs, seen : BOOLEAN, rows : SUBSET Rows]

(* The request goes to l with the rows R, and the others stay where they are. *)
Moves(q, l, R) ==
  /\ req' \in [Requests -> RequestStates]
  /\ \A p \in Requests : p # q => req'[p] = req[p]
  /\ req'[q].op = req[q].op /\ req'[q].seen = req[q].seen
  /\ req'[q].pc = l /\ req'[q].rows = R

LEMMA GotoMoves ==
  ASSUME RequestTypes, NEW q \in Requests, NEW l \in RequestPcs, Goto(q, l)
  PROVE  Moves(q, l, req[q].rows)
  BY DEF RequestTypes, RequestStates, Moves, Goto

LEMMA LoadMoves ==
  ASSUME RequestTypes, NEW q \in Requests, NEW R \in SUBSET Rows,
         req' = [req EXCEPT ![q].pc = "loaded", ![q].rows = R]
  PROVE  Moves(q, "loaded", R)
  BY DEF RequestTypes, RequestStates, Moves, RequestPcs

LEMMA MovesOK ==
  ASSUME TypeOK, RequestsOK, NEW q \in Requests, NEW l, NEW R, Moves(q, l, R),
         written' \in {written, written + 1}, req[q].pc # "new", l # "new",
         l = "marked" => req[q].op \in {"start", "tick", "retry"},
         req[q].op \in {"start", "tick"} /\ l \in {"audience", "loaded", "marked"} => Materialised'
  PROVE  RequestsOK' /\ RequestTypes'
<1>1. written \in Nat
  BY DEF TypeOK, DbTypes
<1>2. Materialised => Materialised'
  BY <1>1 DEF Materialised
<1>3. RequestsOK'
  BY <1>1, <1>2 DEF RequestsOK, Moves
<1> QED  BY <1>3 DEF RequestTypes, RequestStates, Moves

(* A request step that neither starts the campaign nor touches the queue.     *)
LEMMA QuietRequest ==
  ASSUME CampaignInv, NEW q \in Requests, NEW l, NEW R, Moves(q, l, R),
         UNCHANGED <<queueVars, workerVars, sends, faults>>, DbTypes',
         written' \in {written, written + 1},
         req[q].pc \notin {"new", "marked"}, l \notin {"new", "marked"},
         status' \in {"processing", "scheduled"} => status' = status,
         status' = "completed" => status = "completed" \/ (Materialised /\ Pending' = {}),
         req[q].op \in {"start", "tick"} /\ l \in {"audience", "loaded"} => Materialised',
         req[q].op \in {"start", "tick"} /\ l = "loaded" => Pending' \subseteq R,
         Undisturbed' => \/ Pending' \subseteq Pending
                         \/ ~ Materialised /\ Materialised'
  PROVE  CampaignInv'
<1> USE DEF CampaignInv
<1>1. RequestsOK' /\ RequestTypes'
  BY MovesOK
<1>2. TypeOK'
  BY <1>1 DEF TypeOK, QueueTypes, WorkerTypes, queueVars, workerVars
<1>3. SendsNeedJobs'
  BY SendsFrame, CampaignAssumption DEF queueVars, workerVars
<1>4. FlowOK'
  <2> SUFFICES ASSUME Undisturbed'
               PROVE  /\ AudienceFirst' /\ StartsCover' /\ CountsHold'
                      /\ status' = "processing" => \A r \in Pending' : HasJob(r)'
                      /\ status' = "completed" => Pending' = {}
    BY DEF FlowOK
  <2>1. Undisturbed
    BY Calm DEF Moves
  <2>2. Busy' = Busy
    BY DEF Busy, queueVars, workerVars
  <2>3. Materialised => Materialised'
    BY DEF Materialised, TypeOK, DbTypes
  <2>4. AudienceFirst'
    BY <2>1, <2>2, <2>3 DEF FlowOK, AudienceFirst
  <2>5. \A p \in Requests : p # q => Starting(p)' = Starting(p) /\ req'[p] = req[p]
    BY DEF Starting, Moves
  <2>6. CASE Pending' \subseteq Pending
    <3>1. StartsCover'
      <4>1. Starting(q)' => l = "loaded" /\ req[q].op \in {"start", "tick"} /\ req'[q].rows = R
        BY DEF Starting, Moves
      <4> QED  BY <2>1, <2>5, <2>6, <4>1 DEF FlowOK, StartsCover
    <3>2. CountsHold'
      BY <2>1, <2>6 DEF FlowOK, CountsHold, workerVars, Pending, TypeOK, WorkerTypes
    <3>3. \A r \in Rows : HasJob(r) => HasJob(r)'
      BY DEF HasJob, Moves, queueVars, workerVars
    <3> QED  BY <2>1, <2>4, <2>6, <3>1, <3>2, <3>3 DEF FlowOK, Pending
  <2>7. CASE ~ Materialised /\ Materialised'
    <3>1. ~ Busy /\ status \notin {"processing", "completed"}
      BY <2>1, <2>7 DEF FlowOK, AudienceFirst
    <3>2. status' \notin {"processing", "completed"}
      BY <2>7, <3>1
    <3>3. CountsHold'
      BY <3>1 DEF CountsHold, Busy, workerVars
    <3>4. \A p \in Requests : ~ Starting(p)
      BY <2>7 DEF RequestsOK, Starting
    <3>5. Starting(q)' => Pending' \subseteq R /\ req'[q].rows = R
      BY DEF Starting, Moves
    <3>6. StartsCover'
      BY <2>5, <3>4, <3>5 DEF StartsCover
    <3> QED  BY <2>4, <3>2, <3>3, <3>6
  <2> QED  BY <2>6, <2>7
<1>5. TicksOK'
  <2>1. OnlyTicks' => OnlyTicks
    BY DEF OnlyTicks, Moves
  <2>2. \A p \in Requests : req'[p].pc = "marked" => req[p].pc = "marked"
    BY DEF Moves
  <2> QED  BY <2>1, <2>2 DEF TicksOK, queueVars
<1> QED  BY <1>1, <1>2, <1>3, <1>4, <1>5

(* SetStatus and SetRec are well typed and never bring a row back. *)
LEMMA SetStatusType ==
  ASSUME status \in Statuses, NEW s \in Statuses, SetStatus(s)
  PROVE  status' \in Statuses /\ status' \in {s, "deleted"}
  BY DEF SetStatus, Statuses

(* Loading the campaign records whether its audience is there. *)
LEMMA CheckInv ==
  ASSUME CampaignInv, NEW q \in Requests, NEW op \in Ops, Check(q, op)
  PROVE  CampaignInv'
<1> USE DEF CampaignInv
<1>1. /\ req' = [req EXCEPT ![q] = [op |-> op, pc |-> "checked", seen |-> written > 0, rows |-> {}]]
      /\ req[q].pc = "new"
      /\ UNCHANGED <<dbVars, queueVars, workerVars, sends, faults>>
  BY DEF Check
<1>2. op # "none"
  BY CampaignAssumption DEF Accepts
<1>3. RequestTypes' /\ written \in Nat
  BY <1>1 DEF TypeOK, DbTypes, RequestTypes, RequestPcs
<1>4. /\ \A p \in Requests : p # q => req'[p] = req[p]
      /\ req'[q] = [op |-> op, pc |-> "checked", seen |-> written > 0, rows |-> {}]
  BY <1>1 DEF TypeOK, RequestTypes
<1>5. TypeOK'
  BY <1>1, <1>3 DEF TypeOK, DbTypes, QueueTypes, WorkerTypes, dbVars, queueVars, workerVars
<1>6. RequestsOK'
  <2>1. /\ req'[q].op # "none" /\ req'[q].pc = "checked"
        /\ req'[q].seen = (written > 0) /\ written' = written
    BY <1>1, <1>2, <1>4 DEF dbVars
  <2>4. written > 0 => written' >= 1
    BY <1>3, <2>1
  <2>2. req'[q].seen => written' >= 1
    BY <2>1, <2>4, Zenon
  <2>3. Materialised' = Materialised
    BY <2>1 DEF Materialised
  <2> QED  BY <1>4, <2>1, <2>2, <2>3 DEF RequestsOK
<1>7. SendsNeedJobs'
  BY <1>1, SendsFrame DEF queueVars, workerVars
<1>8. FlowOK'
  <2> SUFFICES ASSUME Undisturbed'  PROVE FlowOK'
    BY DEF FlowOK
  <2>1. Undisturbed
    BY <1>1, <1>4, Calm DEF RequestsOK, dbVars
  <2>2. \A p \in Requests : Starting(p)' => Starting(p) /\ p # q
    BY <1>4 DEF Starting
  <2>3. /\ Pending' = Pending /\ Busy' = Busy /\ Materialised' = Materialised /\ status' = status
        /\ \A r \in Rows : HasJob(r) => HasJob(r)'
    BY <1>1, <1>4 DEF Pending, Busy, Materialised, HasJob, dbVars, queueVars, workerVars
  <2>6. CountsHold'
    BY <1>1, <2>1, <2>3 DEF FlowOK, CountsHold, dbVars, workerVars
  <2>4. AudienceFirst'
    BY <2>1, <2>3 DEF FlowOK, AudienceFirst
  <2>5. StartsCover'
    BY <1>4, <2>1, <2>2, <2>3 DEF FlowOK, StartsCover
  <2> QED  BY <2>1, <2>3, <2>4, <2>5, <2>6 DEF FlowOK, Pending
<1>9. TicksOK'
  <2>1. OnlyTicks' => OnlyTicks
    BY <1>1, <1>4 DEF OnlyTicks, RequestsOK
  <2>2. \A p \in Requests : req'[p].pc = "marked" => req[p].pc = "marked"
    BY <1>4
  <2> QED  BY <1>1, <2>1, <2>2 DEF TicksOK, dbVars, queueVars
<1> QED  BY <1>5, <1>6, <1>7, <1>8, <1>9

(* The first materialisation is the only one an undisturbed campaign sees. *)
LEMMA MaterializeInv ==
  ASSUME CampaignInv, NEW q \in Requests, Materialize(q)
  PROVE  CampaignInv'
<1> USE DEF CampaignInv
<1>1. /\ req[q].op \in {"start", "tick"} /\ req[q].pc = "checked"
      /\ UNCHANGED <<status, template, queueVars, workerVars, sends, faults>>
  BY DEF Materialize
<1>2. Moves(q, "audience", req[q].rows)
  BY GotoMoves DEF Materialize, TypeOK, RequestPcs
<1>3. CASE Audience = <<>> \/ req[q].seen
  <2>1. UNCHANGED <<rec, written>>
    BY <1>3 DEF Materialize
  <2>2. Materialised'
    BY <1>3, <2>1 DEF Materialised, RequestsOK
  <2>3. DbTypes' /\ Pending' = Pending
    BY <1>1, <2>1 DEF TypeOK, DbTypes, Pending
  <2> QED  BY <1>1, <1>2, <2>1, <2>2, <2>3, QuietRequest
<1>4. CASE ~ (Audience = <<>> \/ req[q].seen)
  <2>1. /\ written < Len(Audience) /\ written' = written + 1
        /\ rec' = [r \in Rows |-> IF r \in Audience[written + 1] THEN "pending" ELSE rec[r]]
    BY <1>4 DEF Materialize
  <2>2. Len(Audience) \in Nat /\ written \in Nat
    BY CampaignAssumption DEF TypeOK, DbTypes
  <2>3. DbTypes' /\ Materialised'
    BY <1>1, <2>1, <2>2 DEF TypeOK, DbTypes, Materialised
  <2>4. Undisturbed' => ~ Materialised
    BY <1>4, <2>1, <2>2 DEF Undisturbed, Materialised
  <2> QED  BY <1>1, <1>2, <2>1, <2>3, <2>4, QuietRequest
<1> QED  BY <1>3, <1>4

(* Loading the recipients, for a start or for a retry. *)
LEMMA LoadInv ==
  ASSUME CampaignInv, NEW q \in Requests, LoadPending(q) \/ RetryLoad(q)
  PROVE  CampaignInv'
<1> USE DEF CampaignInv
<1>1. /\ req[q].pc \in {"audience", "checked"}
      /\ UNCHANGED <<dbVars, queueVars, workerVars, sends, faults>>
  BY DEF LoadPending, RetryLoad, At
<1>2. DbTypes' /\ UNCHANGED <<status, written>> /\ Pending' = Pending /\ Materialised' = Materialised
  BY <1>1 DEF TypeOK, DbTypes, Pending, Materialised, dbVars
<1>3. CASE LoadPending(q)
  <2>1. Moves(q, "loaded", Pending)
    BY <1>3, LoadMoves DEF LoadPending, TypeOK, Pending
  <2>2. Materialised
    BY <1>3 DEF LoadPending, RequestsOK
  <2> QED  BY <1>1, <1>2, <2>1, <2>2, QuietRequest
<1>4. CASE RetryLoad(q)
  <2>1. req[q].op = "retry"
    BY <1>4 DEF RetryLoad, At
  <2>2. Moves(q, "done", req[q].rows) \/ Moves(q, "loaded", Failed)
    BY <1>4, LoadMoves, GotoMoves DEF RetryLoad, TypeOK, Failed, RequestPcs
  <2> QED  BY <1>1, <1>2, <2>1, <2>2, QuietRequest
<1> QED  BY <1>3, <1>4

(* A request that ends, with the status it leaves behind. *)
LEMMA EndInv ==
  ASSUME CampaignInv, NEW q \in Requests,
         \/ LoadNothing(q) \/ TemplateMissing(q) \/ PauseCampaign(q) \/ CancelCampaign(q)
         \/ DeleteCampaign(q)
  PROVE  CampaignInv'
<1> USE DEF CampaignInv
<1>1. /\ req[q].pc \in {"audience", "loaded", "checked", "emptied"}
      /\ UNCHANGED <<template, written, rec, queueVars, workerVars, sends, faults>>
  BY DEF LoadNothing, TemplateMissing, PauseCampaign, CancelCampaign, DeleteCampaign, At
<1>2. Moves(q, "done", req[q].rows)
  BY GotoMoves DEF LoadNothing, TemplateMissing, PauseCampaign, CancelCampaign, DeleteCampaign,
     TypeOK, RequestPcs
<1>3. Pending' = Pending
  BY <1>1 DEF Pending
<1>4. /\ status' \in Statuses
      /\ status' \in {"processing", "scheduled"} => status' = status
      /\ status' = "completed" => status = "completed" \/ (Materialised /\ Pending' = {})
  <2>1. CASE LoadNothing(q)
    BY <1>3, <2>1, SetStatusType DEF LoadNothing, TypeOK, DbTypes, Statuses, RequestsOK
  <2>2. CASE TemplateMissing(q)
    BY <2>2, SetStatusType DEF TemplateMissing, TypeOK, DbTypes, Statuses
  <2>3. CASE PauseCampaign(q) \/ CancelCampaign(q)
    BY <2>3, SetStatusType DEF PauseCampaign, CancelCampaign, TypeOK, DbTypes, Statuses
  <2>4. CASE DeleteCampaign(q)
    BY <2>4 DEF DeleteCampaign, Statuses
  <2> QED  BY <2>1, <2>2, <2>3, <2>4
<1>5. DbTypes'
  BY <1>1, <1>4 DEF TypeOK, DbTypes
<1> QED  BY <1>1, <1>2, <1>3, <1>4, <1>5, QuietRequest

(* Recipients are deleted, imported or reset. *)
LEMMA RowsInv ==
  ASSUME CampaignInv, NEW q \in Requests,
         DeleteRecipients(q) \/ ImportRecipients(q) \/ RetryReset(q)
  PROVE  CampaignInv'
<1> USE DEF CampaignInv
<1>1. /\ req[q].pc \in {"checked", "loaded"} /\ req[q].op \in {"delete", "import", "retry"}
      /\ UNCHANGED <<status, template, written, queueVars, workerVars, sends, faults>>
  BY DEF DeleteRecipients, ImportRecipients, RetryReset, At
<1>2. \E l \in {"emptied", "done", "reset"} : Moves(q, l, req[q].rows)
  BY GotoMoves DEF DeleteRecipients, ImportRecipients, RetryReset, TypeOK, RequestPcs
<1>3. DbTypes'
  BY <1>1 DEF DeleteRecipients, ImportRecipients, RetryReset, TypeOK, DbTypes
<1>4. Undisturbed' => Pending' \subseteq Pending
  <2>1. CASE DeleteRecipients(q)
    BY <2>1 DEF DeleteRecipients, Pending
  <2>2. CASE ImportRecipients(q) \/ RetryReset(q)
    BY <1>2, <2>2 DEF ImportRecipients, RetryReset, At, Moves, Undisturbed
  <2> QED  BY <2>1, <2>2
<1>5. status' = "completed" => status = "completed"
  BY <1>1
<1> QED  BY <1>1, <1>2, <1>3, <1>4, <1>5, QuietRequest

(* A start takes the campaign, with every pending row in hand. *)
LEMMA MarkInv ==
  ASSUME CampaignInv, NEW q \in Requests, StartMark(q) \/ TickClaim(q) \/ RetryMark(q)
  PROVE  CampaignInv'
<1> USE DEF CampaignInv
<1>1. UNCHANGED <<template, written, rec, queueVars, workerVars, sends, faults>>
  BY DEF StartMark, TickClaim, RetryMark
<1>2. Pending' = Pending /\ Materialised' = Materialised
  BY <1>1 DEF Pending, Materialised
<1>3. CASE TickClaim(q) /\ status # "scheduled"
  <2>1. req[q].pc = "loaded" /\ UNCHANGED status /\ Moves(q, "done", req[q].rows)
    BY <1>3, GotoMoves DEF TickClaim, At, TypeOK, RequestPcs
  <2>2. DbTypes'
    BY <1>1, <2>1 DEF TypeOK, DbTypes
  <2> QED  BY <1>1, <1>2, <2>1, <2>2, QuietRequest
<1>4. CASE ~ (TickClaim(q) /\ status # "scheduled")
  <2>1. /\ Moves(q, "marked", req[q].rows)
        /\ \/ req[q].op \in {"start", "tick"} /\ req[q].pc = "loaded"
           \/ req[q].op = "retry" /\ req[q].pc = "reset"
    BY <1>4, GotoMoves DEF StartMark, TickClaim, RetryMark, At, TypeOK, RequestPcs
  <2>2. status' \in {"processing", "deleted"} /\ status' \in Statuses
    BY <1>4, SetStatusType DEF StartMark, TickClaim, RetryMark, TypeOK, DbTypes, Statuses
  <2>3. req[q].op \in {"start", "tick"} => Starting(q) /\ Materialised
    BY <2>1 DEF Starting, RequestsOK
  <2>4. RequestsOK' /\ RequestTypes'
    BY <1>1, <1>2, <2>1, <2>3, MovesOK
  <2>5. TypeOK'
    BY <1>1, <2>2, <2>4 DEF TypeOK, DbTypes, QueueTypes, WorkerTypes, queueVars, workerVars
  <2>6. SendsNeedJobs'
    BY <1>1, SendsFrame DEF queueVars, workerVars
  <2>7. FlowOK'
    <3> SUFFICES ASSUME Undisturbed'  PROVE FlowOK'
      BY DEF FlowOK
    <3>1. Undisturbed
      BY <1>1, <2>1, Calm DEF Moves
    <3>2. req[q].op \in {"start", "tick"}
      BY <2>1, <3>1 DEF Undisturbed
    <3>3. /\ \A p \in Requests : p # q => req'[p] = req[p] /\ Starting(p)' = Starting(p)
          /\ req'[q].rows = req[q].rows /\ req'[q].pc = "marked"
      BY <2>1 DEF Moves, Starting
    <3>4. StartsCover'
      BY <1>2, <2>3, <3>1, <3>2, <3>3 DEF FlowOK, StartsCover
    <3>5. \A r \in Pending : HasJob(r)'
      BY <2>3, <3>1, <3>2, <3>3 DEF FlowOK, StartsCover, HasJob
    <3>6. CountsHold'
      BY <1>1, <1>2, <3>1 DEF FlowOK, CountsHold, workerVars
    <3>7. AudienceFirst'
      BY <1>2, <2>3, <3>2 DEF AudienceFirst
    <3> QED  BY <1>2, <2>2, <3>4, <3>5, <3>6, <3>7 DEF FlowOK
  <2>8. TicksOK'
    <3> SUFFICES ASSUME faults' = 0, OnlyTicks'  PROVE TicksOK'
      BY DEF TicksOK
    <3>1. OnlyTicks /\ req[q].op = "tick" /\ faults = 0
      BY <1>1, <2>1 DEF OnlyTicks, Moves
    <3>2. status = "scheduled"
      BY <1>4, <3>1 DEF StartMark, RetryMark, TickClaim, At
    <3>3. \A r \in Rows : enq[r] = 0
      BY <3>1, <3>2 DEF TicksOK
    <3>4. \A p \in Requests : req'[p].pc = "marked" => p = q
      BY <2>1, <3>1, <3>2 DEF TicksOK, Moves
    <3> QED  BY <1>1, <2>2, <3>3, <3>4 DEF TicksOK, queueVars
  <2> QED  BY <2>4, <2>5, <2>6, <2>7, <2>8
<1> QED  BY <1>3, <1>4

(* One job per row in S. *)
LEMMA AddJobsOK ==
  ASSUME TypeOK, SendsNeedJobs, NEW S \in SUBSET Rows, AddJobs(S),
         UNCHANGED <<workerVars, sends>>, faults' \in {faults, faults + 1}
  PROVE  /\ QueueTypes' /\ SendsNeedJobs' /\ UNCHANGED <<pel, stale>>
         /\ \A r \in Rows : /\ stream'[r] = IF r \in S THEN stream[r] + 1 ELSE stream[r]
                            /\ enq'[r] = IF r \in S THEN enq[r] + 1 ELSE enq[r]
<1>1. \A r \in Rows : stream[r] \in Nat /\ enq[r] \in Nat /\ pel[r] \in Nat /\ stale[r] \in Nat
                      /\ sends[r] \in Nat /\ faults \in Nat
  BY CampaignAssumption DEF TypeOK, QueueTypes
<1>2. \A r \in Rows : /\ stream'[r] = IF r \in S THEN stream[r] + 1 ELSE stream[r]
                      /\ enq'[r] = IF r \in S THEN enq[r] + 1 ELSE enq[r]
  BY DEF AddJobs
<1>3. QueueTypes'
  BY <1>1 DEF TypeOK, QueueTypes, AddJobs
<1>4. \A r \in Rows : Due(r)' = Due(r) /\ Cardinality(Due(r)) \in Nat
  BY DueFinite DEF Due, Unsent, workerVars
<1>5. SendsNeedJobs'
  BY <1>1, <1>2, <1>4 DEF SendsNeedJobs, AddJobs
<1> QED  BY <1>2, <1>3, <1>5 DEF AddJobs

(* The jobs go out: what was in the request's hand is now on the stream. *)
LEMMA EnqueueInv ==
  ASSUME CampaignInv, NEW q \in Requests, Enqueue(q)
  PROVE  CampaignInv'
<1> USE DEF CampaignInv
<1>1. req[q].pc = "marked" /\ AddJobs(req[q].rows) /\ UNCHANGED <<dbVars, workerVars, sends, faults>>
  BY DEF Enqueue
<1>2. Moves(q, "done", req[q].rows) /\ req[q].rows \in SUBSET Rows
  BY GotoMoves DEF Enqueue, TypeOK, RequestTypes, RequestPcs
<1>3. /\ QueueTypes' /\ SendsNeedJobs' /\ UNCHANGED <<pel, stale>>
      /\ \A r \in Rows : /\ stream'[r] = IF r \in req[q].rows THEN stream[r] + 1 ELSE stream[r]
                         /\ enq'[r] = IF r \in req[q].rows THEN enq[r] + 1 ELSE enq[r]
  BY <1>1, <1>2, AddJobsOK
<1>4. RequestsOK' /\ RequestTypes'
  BY <1>1, <1>2, MovesOK DEF dbVars
<1>5. TypeOK'
  BY <1>1, <1>3, <1>4 DEF TypeOK, DbTypes, WorkerTypes, dbVars, workerVars
<1>6. \A r \in Rows : stream[r] \in Nat /\ pel[r] \in Nat /\ stale[r] \in Nat /\ enq[r] \in Nat
  BY DEF TypeOK, QueueTypes
<1>7. FlowOK'
  <2> SUFFICES ASSUME Undisturbed'  PROVE FlowOK'
    BY DEF FlowOK
  <2>1. Undisturbed
    BY <1>1, <1>2, Calm DEF Moves, dbVars
  <2>2. Pending' = Pending /\ Materialised' = Materialised /\ status' = status
    BY <1>1 DEF Pending, Materialised, dbVars
  <2>3. Materialised
    BY <1>1, <2>1 DEF RequestsOK, Undisturbed
  <2>4. StartsCover'
    BY <1>2, <2>1, <2>2 DEF FlowOK, StartsCover, Starting, Moves
  <2>5. CountsHold'
    BY <1>1, <2>1, <2>2 DEF FlowOK, CountsHold, dbVars, workerVars
  <2>6. \A r \in Rows : HasJob(r) => HasJob(r)'
    <3> SUFFICES ASSUME NEW r \in Rows, HasJob(r)  PROVE HasJob(r)'
      OBVIOUS
    <3>1. CASE stream[r] + pel[r] + stale[r] > 0
      BY <1>3, <1>6, <3>1 DEF HasJob
    <3>2. CASE \E w \in Workers : job[w] = r /\ wpc[w] # "ack"
      BY <1>1, <3>2 DEF HasJob, workerVars
    <3>3. ASSUME NEW p \in Requests, req[p].pc = "marked", r \in req[p].rows  PROVE HasJob(r)'
      <4>1. CASE p = q
        BY <1>3, <1>6, <3>3, <4>1 DEF HasJob
      <4>2. CASE p # q
        BY <1>2, <3>3, <4>2 DEF HasJob, Moves
      <4> QED  BY <4>1, <4>2
    <3> QED  BY <3>1, <3>2, <3>3 DEF HasJob
  <2> QED  BY <2>1, <2>2, <2>3, <2>4, <2>5, <2>6 DEF FlowOK, AudienceFirst, Pending
<1>8. TicksOK'
  <2> SUFFICES ASSUME faults' = 0, OnlyTicks'  PROVE TicksOK'
    BY DEF TicksOK
  <2>1. OnlyTicks /\ faults = 0
    BY <1>1, <1>2 DEF OnlyTicks, Moves
  <2>2. status' # "scheduled" /\ \A r \in Rows : enq[r] = 0
    BY <1>1, <2>1 DEF TicksOK, dbVars
  <2>3. \A p \in Requests : req'[p].pc # "marked"
    BY <1>1, <1>2, <2>1 DEF TicksOK, Moves
  <2> QED  BY <1>3, <2>2, <2>3 DEF TicksOK
<1> QED  BY <1>3, <1>4, <1>5, <1>7, <1>8

(* A failed enqueue is a fault: only the counts still say something. *)
LEMMA EnqueueFailsInv ==
  ASSUME CampaignInv, NEW q \in Requests, EnqueueFails(q)
  PROVE  CampaignInv'
<1> USE DEF CampaignInv
<1>1. /\ req[q].pc = "marked" /\ faults' = faults + 1 /\ faults < MaxFaults
      /\ UNCHANGED <<template, written, rec, workerVars, sends>>
  BY DEF EnqueueFails, Fault
<1>2. Moves(q, "done", req[q].rows) /\ req[q].rows \in SUBSET Rows
  BY GotoMoves DEF EnqueueFails, TypeOK, RequestTypes, RequestPcs
<1>3. PICK S \in SUBSET req[q].rows : AddJobs(S)
  BY DEF EnqueueFails
<1>4. QueueTypes' /\ SendsNeedJobs'
  BY <1>1, <1>2, <1>3, AddJobsOK
<1>5. RequestsOK' /\ RequestTypes'
  BY <1>1, <1>2, MovesOK
<1>6. status' \in Statuses
  <2>1. req[q].op \in {"start", "tick", "retry"}
    BY <1>1 DEF RequestsOK
  <2>2. CASE req[q].op = "start"
    BY <2>2, SetStatusType DEF EnqueueFails, TypeOK, DbTypes, Statuses
  <2>3. CASE req[q].op = "tick"
    BY <2>3, SetStatusType DEF EnqueueFails, TypeOK, DbTypes, Statuses
  <2>4. CASE req[q].op = "retry"
    BY <2>4 DEF EnqueueFails, TypeOK, DbTypes
  <2> QED  BY <2>1, <2>2, <2>3, <2>4
<1>7. faults' \in 0..MaxFaults /\ faults' # 0
  BY <1>1, CampaignAssumption DEF TypeOK
<1>8. TypeOK'
  BY <1>1, <1>4, <1>5, <1>6, <1>7 DEF TypeOK, DbTypes, WorkerTypes, workerVars
<1>9. FlowOK' /\ TicksOK'
  BY <1>7 DEF FlowOK, TicksOK, Undisturbed
<1> QED  BY <1>4, <1>5, <1>8, <1>9

(* Deleting the template pauses the campaign or leaves its status alone. *)
LEMMA DeleteTemplateInv ==
  ASSUME CampaignInv, DeleteTemplate
  PROVE  CampaignInv'
<1> USE DEF CampaignInv
<1>1. /\ status' \in {status, "paused"} /\ template' = FALSE
      /\ UNCHANGED <<written, rec, req, queueVars, workerVars, sends, faults>>
  BY DEF DeleteTemplate
<1>2. TypeOK'
  BY <1>1 DEF TypeOK, DbTypes, RequestTypes, QueueTypes, WorkerTypes, Statuses, queueVars, workerVars
<1>3. RequestsOK' /\ SendsNeedJobs'
  BY <1>1, SendsFrame DEF RequestsOK, Materialised, queueVars, workerVars
<1>4. FlowOK'
  <2>1. /\ Pending' = Pending /\ Undisturbed' = Undisturbed /\ Busy' = Busy
        /\ Materialised' = Materialised /\ \A q \in Requests : Starting(q)' = Starting(q)
        /\ \A r \in Rows : HasJob(r)' = HasJob(r)
    BY <1>1 DEF Pending, Undisturbed, Busy, Materialised, Starting, HasJob, queueVars, workerVars
  <2>2. Undisturbed => AudienceFirst' /\ StartsCover' /\ CountsHold'
    BY <1>1, <2>1 DEF FlowOK, AudienceFirst, StartsCover, CountsHold, workerVars
  <2> QED  BY <1>1, <2>1, <2>2 DEF FlowOK, Pending
<1>5. TicksOK'
  BY <1>1 DEF TicksOK, OnlyTicks, queueVars
<1> QED  BY <1>2, <1>3, <1>4, <1>5

-----------------------------------------------------------------------------
(* Workers.                                                                   *)

(* Ticks are judged by the database, the requests and the enqueues alone. *)
LEMMA TicksFrame ==
  ASSUME TypeOK, TicksOK, UNCHANGED <<req, enq>>, faults' \in {faults, faults + 1},
         status' = "scheduled" => status = "scheduled"
  PROVE  TicksOK'
  BY CampaignAssumption DEF TicksOK, OnlyTicks, TypeOK

(* The worker w goes to l with the job j; nobody else moves. *)
WorkerMoves(w, l, j) ==
  /\ wpc' = [wpc EXCEPT ![w] = l] /\ job' = [job EXCEPT ![w] = j]

LEMMA WorkerMovesOK ==
  ASSUME WorkerTypes, NEW w \in Workers, NEW l \in WorkerPcs, NEW j \in Rows \cup {None},
         WorkerMoves(w, l, j), j = None <=> l = "idle", boot' \in SUBSET Workers
  PROVE  /\ WorkerTypes' /\ wpc'[w] = l /\ job'[w] = j
         /\ \A v \in Workers : v # w => wpc'[v] = wpc[v] /\ job'[v] = job[v]
  BY DEF WorkerTypes, WorkerMoves

(* A worker goes on with its job: it may settle its row or complete the       *)
(* campaign, and it leaves the queue alone.                                   *)
LEMMA StepInv ==
  ASSUME CampaignInv, NEW w \in Workers, NEW l \in WorkerPcs \ {"idle"},
         Step(w, l), UNCHANGED <<req, queueVars, job, boot, sends, template, written>>,
         wpc[w] # "idle", DbTypes', faults' \in 0..MaxFaults, faults' \in {faults, faults + 1},
         l \in {"load", "reject", "untemplated", "send"} => wpc[w] = "load",
         status' \in {"processing", "scheduled"} => status' = status,
         Undisturbed' =>
           /\ Pending' \subseteq Pending
           /\ l \in {"count", "reload", "complete"} => rec'[job[w]] # "pending"
           /\ l \in {"reload", "complete"} => Pending' = {}
           /\ l = "ack" => status' # "processing" \/ job[w] \notin Pending'
           /\ status' = "completed" => status = "completed" \/ Pending' = {}
  PROVE  CampaignInv'
<1> USE DEF CampaignInv
<1>1. job[w] \in Rows
  BY DEF TypeOK, WorkerTypes
<1>2. WorkerMoves(w, l, job[w])
  BY <1>1 DEF Step, WorkerMoves, TypeOK, WorkerTypes
<1>3. /\ WorkerTypes' /\ wpc'[w] = l /\ job'[w] = job[w]
      /\ \A v \in Workers : v # w => wpc'[v] = wpc[v] /\ job'[v] = job[v]
  BY <1>1, <1>2, CampaignAssumption, WorkerMovesOK DEF TypeOK, WorkerTypes
<1>4. TypeOK'
  BY <1>3 DEF TypeOK, RequestTypes, QueueTypes, queueVars
<1>5. RequestsOK'
  BY DEF RequestsOK, Materialised
<1>6. SendsNeedJobs'
  <2> SUFFICES ASSUME NEW r \in Rows
               PROVE  sends'[r] + stream'[r] + pel'[r] + stale'[r] + Cardinality(Due(r)')
                        =< enq'[r] + faults'
    BY DEF SendsNeedJobs
  <2>1. Due(r)' \in SUBSET Due(r)
    BY <1>3 DEF Due, Unsent
  <2>2. Cardinality(Due(r)') =< Cardinality(Due(r)) /\ Cardinality(Due(r)) \in Nat
        /\ Cardinality(Due(r)') \in Nat
    BY <2>1, DueFinite, FS_Subset, FS_CardinalityType
  <2>3. /\ sends[r] \in Nat /\ stream[r] \in Nat /\ pel[r] \in Nat /\ stale[r] \in Nat /\ enq[r] \in Nat
        /\ faults \in Nat /\ faults' \in Nat /\ faults' >= faults
    BY CampaignAssumption DEF TypeOK, QueueTypes
  <2>4. /\ sends'[r] = sends[r] /\ stream'[r] = stream[r] /\ pel'[r] = pel[r] /\ stale'[r] = stale[r]
        /\ enq'[r] = enq[r]
    BY DEF queueVars
  <2>5. sends[r] + stream[r] + pel[r] + stale[r] + Cardinality(Due(r)) =< enq[r] + faults
    BY DEF SendsNeedJobs
  <2> HIDE DEF CampaignInv
  <2> QED  BY <2>2, <2>3, <2>4, <2>5
<1>7. FlowOK'
  <2> SUFFICES ASSUME Undisturbed'  PROVE FlowOK'
    BY DEF FlowOK
  <2>1. Undisturbed
    BY Calm
  <2>2. Materialised /\ Materialised'
    BY <2>1 DEF FlowOK, AudienceFirst, Busy, Materialised
  <2>3. StartsCover'
    BY <2>1 DEF FlowOK, StartsCover, Starting
  <2>4. CountsHold'
    <3> SUFFICES ASSUME NEW v \in Workers
                 PROVE  /\ wpc'[v] \in {"count", "reload", "complete"} => rec'[job'[v]] # "pending"
                        /\ wpc'[v] \in {"reload", "complete"} => Pending' = {}
      BY DEF CountsHold
    <3>1. CASE v = w
      BY <1>3, <3>1
    <3>2. CASE v # w
      BY <1>3, <2>1, <3>2 DEF FlowOK, CountsHold, Pending, TypeOK, WorkerTypes
    <3> QED  BY <3>1, <3>2
  <2>5. ASSUME status' = "processing", NEW r \in Pending'  PROVE HasJob(r)'
    <3>1. r \in Pending /\ HasJob(r)
      BY <2>1, <2>5 DEF FlowOK, Pending
    <3>2. CASE job[w] = r /\ wpc[w] # "ack"
      BY <1>3, <2>5, <3>2 DEF HasJob
    <3>3. CASE \E v \in Workers : v # w /\ job[v] = r /\ wpc[v] # "ack"
      BY <1>3, <3>3 DEF HasJob
    <3> QED  BY <3>1, <3>2, <3>3 DEF HasJob, queueVars
  <2>6. status' = "completed" => Pending' = {}
    BY <2>1 DEF FlowOK, Pending
  <2> QED  BY <2>2, <2>3, <2>4, <2>5, <2>6 DEF FlowOK, AudienceFirst
<1>8. TicksOK'
  BY TicksFrame DEF queueVars
<1> QED  BY <1>4, <1>5, <1>6, <1>7, <1>8

(* SetRec takes a row out of the pending ones. *)
LEMMA SetRecType ==
  ASSUME DbTypes, NEW r \in Rows, NEW s \in {"sent", "failed"}, SetRec(r, s)
  PROVE  /\ rec' \in [Rows -> {"none", "pending", "sent", "failed"}]
         /\ Pending' \subseteq Pending /\ rec'[r] # "pending"
  BY DEF DbTypes, SetRec, Pending

(* HandleRecipientJob up to the send: the campaign's status is read once. *)
LEMMA LoadStepInv ==
  ASSUME CampaignInv, NEW w \in Workers, Load(w) \/ SendRefused(w)
  PROVE  CampaignInv'
<1>1. PICK l \in {"ack", "reject", "untemplated", "send", "refused"} :
        /\ Step(w, l) /\ (l = "ack" => status \in {"paused", "cancelled"})
        /\ l \in {"reject", "untemplated", "send"} => wpc[w] = "load"
  <2>1. CASE Load(w)
    BY <2>1 DEF Load
  <2>2. CASE SendRefused(w)
    BY <2>2 DEF SendRefused
  <2> QED  BY <2>1, <2>2
<1>2. wpc[w] # "idle" /\ UNCHANGED <<dbVars, req, queueVars, job, boot, sends, faults>>
  BY DEF Load, SendRefused
<1>3. DbTypes' /\ Pending' = Pending /\ faults' \in 0..MaxFaults
  BY <1>2 DEF CampaignInv, TypeOK, DbTypes, Pending, dbVars
<1> QED  BY <1>1, <1>2, <1>3, StepInv DEF WorkerPcs, dbVars

(* The recipient's outcome is written, or the write fails unnoticed. *)
LEMMA OutcomeInv ==
  ASSUME CampaignInv, NEW w \in Workers, Reject(w) \/ FailWithoutTemplate(w) \/ RecordOutcome(w)
  PROVE  CampaignInv'
<1>1. /\ wpc[w] \in {"reject", "untemplated", "sent", "refused"}
      /\ UNCHANGED <<status, template, written, req, queueVars, job, boot, sends>>
  BY DEF Reject, FailWithoutTemplate, RecordOutcome
<1>2. job[w] \in Rows
  BY <1>1 DEF CampaignInv, TypeOK, WorkerTypes
<1>3. PICK l \in {"ack", "count"} : Step(w, l)
  BY DEF Reject, FailWithoutTemplate, RecordOutcome
<1>4. CASE \E s \in {"sent", "failed"} : SetRec(job[w], s) /\ faults' = faults
  <2>1. /\ rec' \in [Rows -> {"none", "pending", "sent", "failed"}]
        /\ Pending' \subseteq Pending /\ rec'[job[w]] # "pending"
    BY <1>2, <1>4, SetRecType DEF CampaignInv, TypeOK
  <2>2. DbTypes' /\ faults' \in 0..MaxFaults /\ job[w] \notin Pending'
    BY <1>1, <1>4, <2>1 DEF CampaignInv, TypeOK, DbTypes, Pending
  <2> QED  BY <1>1, <1>3, <1>4, <2>1, <2>2, StepInv DEF WorkerPcs
<1>5. CASE UNCHANGED rec /\ Fault
  <2>1. DbTypes' /\ faults' = faults + 1 /\ faults' \in 0..MaxFaults /\ ~ Undisturbed'
    BY <1>1, <1>5, CampaignAssumption DEF CampaignInv, TypeOK, DbTypes, Fault, Undisturbed
  <2> QED  BY <1>1, <1>3, <2>1, StepInv DEF WorkerPcs
<1> QED  BY <1>4, <1>5 DEF Reject, FailWithoutTemplate, RecordOutcome

(* checkCampaignCompletion: an empty count is still empty at the write. *)
LEMMA CompletionInv ==
  ASSUME CampaignInv, NEW w \in Workers, CountPending(w) \/ ReloadStatus(w) \/ Complete(w)
  PROVE  CampaignInv'
<1>1. /\ wpc[w] \in {"count", "reload", "complete"}
      /\ UNCHANGED <<template, written, rec, req, queueVars, job, boot, sends>>
  BY DEF CountPending, ReloadStatus, Complete, dbVars
<1>2. /\ Pending' = Pending /\ DbTypes'
      /\ status' \in {"processing", "scheduled"} => status' = status
      /\ status' = "completed" => status = "completed" \/ wpc[w] = "complete"
  <2>1. CASE CountPending(w) \/ ReloadStatus(w)
    BY <2>1 DEF CountPending, ReloadStatus, CampaignInv, TypeOK, DbTypes, Pending, dbVars
  <2>2. CASE Complete(w)
    <3>1. status' \in Statuses /\ status' \in {"completed", "deleted"}
      BY <2>2, SetStatusType DEF Complete, CampaignInv, TypeOK, DbTypes, Statuses
    <3> QED  BY <2>2, <3>1 DEF Complete, CampaignInv, TypeOK, DbTypes, Pending
  <2> QED  BY <2>1, <2>2
<1>3. CASE faults' = faults
  <2>1. PICK l \in {"reload", "complete", "ack"} :
          /\ Step(w, l)
          /\ l = "reload" => Pending = {}
          /\ l = "complete" => wpc[w] = "reload"
    <3>1. CASE CountPending(w)
      <4>1. Step(w, IF Pending = {} THEN "reload" ELSE "ack")
        BY <1>3, <3>1, CampaignAssumption DEF CountPending, Fault, CampaignInv, TypeOK
      <4> QED  BY <4>1
    <3>2. CASE ReloadStatus(w) \/ Complete(w)
      BY <3>2 DEF ReloadStatus, Complete
    <3> QED  BY <3>1, <3>2
  <2>2. Undisturbed' => Undisturbed
    BY <1>1, <1>3 DEF Undisturbed
  <2>3. job[w] \in Rows
    BY <1>1 DEF CampaignInv, TypeOK, WorkerTypes
  <2>4. Undisturbed' => /\ rec'[job[w]] # "pending" /\ job[w] \notin Pending'
                        /\ wpc[w] \in {"reload", "complete"} => Pending' = {}
    BY <1>1, <1>2, <2>2, <2>3 DEF CampaignInv, FlowOK, CountsHold, Pending
  <2>5. faults' \in 0..MaxFaults
    BY <1>3 DEF CampaignInv, TypeOK
  <2> QED  BY <1>1, <1>2, <1>3, <2>1, <2>4, <2>5, StepInv DEF WorkerPcs
<1>4. CASE Fault
  <2>1. faults' = faults + 1 /\ faults' \in 0..MaxFaults /\ ~ Undisturbed'
    BY <1>4, CampaignAssumption DEF CampaignInv, TypeOK, Fault, Undisturbed
  <2>2. \E l \in {"reload", "complete", "ack"} : Step(w, l)
    BY DEF CountPending, ReloadStatus, Complete
  <2> QED  BY <1>1, <1>2, <2>1, <2>2, StepInv DEF WorkerPcs
<1> QED  BY <1>3, <1>4 DEF CountPending, ReloadStatus, Complete

(* WhatsApp accepts the message: a job that was due has been spent. *)
LEMMA SendInv ==
  ASSUME CampaignInv, NEW w \in Workers, Send(w)
  PROVE  CampaignInv'
<1> USE DEF CampaignInv
<1>1. /\ wpc[w] = "send" /\ sends' = [sends EXCEPT ![job[w]] = @ + 1] /\ Step(w, "sent")
      /\ UNCHANGED <<dbVars, req, queueVars, job, boot, faults>>
  BY DEF Send
<1>2. job[w] \in Rows /\ WorkerMoves(w, "sent", job[w])
  BY <1>1 DEF Step, WorkerMoves, TypeOK, WorkerTypes
<1>3. /\ WorkerTypes' /\ wpc'[w] = "sent" /\ job'[w] = job[w]
      /\ \A v \in Workers : v # w => wpc'[v] = wpc[v] /\ job'[v] = job[v]
  BY <1>1, <1>2, CampaignAssumption, WorkerMovesOK DEF TypeOK, WorkerTypes, WorkerPcs
<1>4. /\ sends' \in [Rows -> Nat] /\ sends'[job[w]] = sends[job[w]] + 1
      /\ \A r \in Rows : r # job[w] => sends'[r] = sends[r]
  BY <1>1, <1>2 DEF TypeOK, QueueTypes
<1>5. TypeOK'
  BY <1>1, <1>3, <1>4 DEF TypeOK, DbTypes, RequestTypes, QueueTypes, dbVars, queueVars
<1>6. RequestsOK' /\ TicksOK'
  BY <1>1, TicksFrame DEF RequestsOK, Materialised, dbVars, queueVars
<1>7. SendsNeedJobs'
  <2> SUFFICES ASSUME NEW r \in Rows
               PROVE  sends'[r] + stream'[r] + pel'[r] + stale'[r] + Cardinality(Due(r)')
                        =< enq'[r] + faults'
    BY DEF SendsNeedJobs
  <2>1. Due(r)' = Due(r) \ {w} /\ (w \in Due(r) <=> r = job[w])
    BY <1>1, <1>3 DEF Due, Unsent
  <2>2. Cardinality(Due(r)') = IF w \in Due(r) THEN Cardinality(Due(r)) - 1
                                              ELSE Cardinality(Due(r))
    BY <2>1, DueShrinks
  <2>3. Cardinality(Due(r)) \in Nat
    BY DueFinite
  <2>4. /\ stream[r] \in Nat /\ pel[r] \in Nat /\ stale[r] \in Nat /\ sends[r] \in Nat
        /\ enq[r] \in Nat /\ faults \in Nat
    BY CampaignAssumption DEF TypeOK, QueueTypes
  <2>5. sends[r] + stream[r] + pel[r] + stale[r] + Cardinality(Due(r)) =< enq[r] + faults
    BY DEF SendsNeedJobs
  <2> QED  BY <1>1, <1>4, <2>1, <2>2, <2>3, <2>4, <2>5 DEF queueVars
<1>8. FlowOK'
  <2>1. /\ Undisturbed' = Undisturbed /\ Pending' = Pending /\ Materialised' = Materialised
        /\ Busy /\ status' = status
    BY <1>1 DEF Undisturbed, Pending, Materialised, Busy, dbVars
  <2>2. Undisturbed => AudienceFirst' /\ StartsCover'
    BY <1>1, <2>1 DEF FlowOK, AudienceFirst, StartsCover, Starting
  <2>3. Undisturbed => CountsHold'
    BY <1>1, <1>3, <2>1 DEF FlowOK, CountsHold, dbVars
  <2>4. \A r \in Rows : HasJob(r) => HasJob(r)'
    BY <1>1, <1>3 DEF HasJob, queueVars
  <2> QED  BY <2>1, <2>2, <2>3, <2>4 DEF FlowOK, Pending
<1> QED  BY <1>5, <1>6, <1>7, <1>8

(* A job changes hands: from the queue to an idle worker. *)
LEMMA TakeInv ==
  ASSUME CampaignInv, NEW w \in Workers, Reclaim(w) \/ Read(w)
  PROVE  CampaignInv'
<1> USE DEF CampaignInv
<1>1. wpc[w] = "idle" /\ UNCHANGED <<dbVars, req, pel, enq, boot, sends, faults>>
  BY DEF Reclaim, Read
<1>2. PICK j \in Rows :
        /\ Take(w, j)
        /\ \/ stream[j] > 0 /\ stream' = [stream EXCEPT ![j] = @ - 1] /\ stale' = stale
           \/ stale[j] > 0 /\ stale' = [stale EXCEPT ![j] = @ - 1] /\ stream' = stream
  BY DEF Reclaim, Read
<1>3. WorkerMoves(w, "load", j) /\ j # None
  BY <1>2, CampaignAssumption DEF Take, WorkerMoves
<1>4. /\ WorkerTypes' /\ wpc'[w] = "load" /\ job'[w] = j
      /\ \A v \in Workers : v # w => wpc'[v] = wpc[v] /\ job'[v] = job[v]
  BY <1>1, <1>3, WorkerMovesOK DEF TypeOK, WorkerTypes, WorkerPcs
<1>5. \A r \in Rows : /\ stream[r] \in Nat /\ pel[r] \in Nat /\ stale[r] \in Nat
                      /\ sends[r] \in Nat /\ enq[r] \in Nat /\ faults \in Nat
  BY CampaignAssumption DEF TypeOK, QueueTypes
<1>6. /\ stream'[j] + stale'[j] = stream[j] + stale[j] - 1
      /\ \A r \in Rows : r # j => stream'[r] = stream[r] /\ stale'[r] = stale[r]
      /\ stream' \in [Rows -> Nat] /\ stale' \in [Rows -> Nat]
  <2>1. CASE stream[j] > 0 /\ stream' = [stream EXCEPT ![j] = @ - 1] /\ stale' = stale
    BY <1>5, <2>1 DEF TypeOK, QueueTypes
  <2>2. CASE stale[j] > 0 /\ stale' = [stale EXCEPT ![j] = @ - 1] /\ stream' = stream
    BY <1>5, <2>2 DEF TypeOK, QueueTypes
  <2> QED  BY <1>2, <2>1, <2>2
<1>7. TypeOK'
  BY <1>1, <1>4, <1>6 DEF TypeOK, DbTypes, RequestTypes, QueueTypes, dbVars
<1>8. RequestsOK' /\ TicksOK'
  BY <1>1, TicksFrame DEF RequestsOK, Materialised, dbVars
<1>9. SendsNeedJobs'
  <2> SUFFICES ASSUME NEW r \in Rows
               PROVE  sends'[r] + stream'[r] + pel'[r] + stale'[r] + Cardinality(Due(r)')
                        =< enq'[r] + faults'
    BY DEF SendsNeedJobs
  <2>1. /\ sends[r] + stream[r] + pel[r] + stale[r] + Cardinality(Due(r)) =< enq[r] + faults
        /\ Cardinality(Due(r)) \in Nat
    BY DueFinite DEF SendsNeedJobs
  <2>2. CASE r = j
    <3>1. Due(r)' = Due(r) \cup {w} /\ w \notin Due(r)
      BY <1>1, <1>4, <2>2 DEF Due, Unsent
    <3>2. Cardinality(Due(r)') = Cardinality(Due(r)) + 1
      BY <3>1, DueGrows
    <3>3. stream'[r] \in Nat /\ stale'[r] \in Nat
      BY <1>6
    <3> QED  BY <1>1, <1>5, <1>6, <2>1, <2>2, <3>2, <3>3
  <2>3. CASE r # j
    <3>1. Due(r)' = Due(r)
      BY <1>1, <1>4, <2>3 DEF Due, Unsent
    <3> QED  BY <1>1, <1>6, <2>1, <2>3, <3>1
  <2> QED  BY <2>2, <2>3
<1>10. FlowOK'
  <2>1. /\ Undisturbed' = Undisturbed /\ Pending' = Pending /\ Materialised' = Materialised
        /\ status' = status
    BY <1>1 DEF Undisturbed, Pending, Materialised, dbVars
  <2>2. Busy
    BY <1>2, <1>5 DEF Busy
  <2>3. Undisturbed => AudienceFirst' /\ StartsCover'
    BY <1>1, <2>1, <2>2 DEF FlowOK, AudienceFirst, StartsCover, Starting
  <2>4. Undisturbed => CountsHold'
    BY <1>1, <1>4, <2>1 DEF FlowOK, CountsHold, dbVars
  <2>5. \A r \in Rows : HasJob(r) => HasJob(r)'
    <3> SUFFICES ASSUME NEW r \in Rows, HasJob(r)  PROVE HasJob(r)'
      OBVIOUS
    <3>1. CASE r = j
      BY <1>4, <3>1 DEF HasJob
    <3>2. CASE r # j
      <4>1. job[w] # r
        BY <1>1 , CampaignAssumption DEF TypeOK, WorkerTypes
      <4> QED  BY <1>1, <1>4, <1>6, <3>2, <4>1 DEF HasJob
    <3> QED  BY <3>1, <3>2
  <2> QED  BY <2>1, <2>3, <2>4, <2>5 DEF FlowOK, Pending
<1> QED  BY <1>7, <1>8, <1>9, <1>10

(* The worker lets go of its job: acknowledged, or left to be reclaimed. *)
LEMMA DropInv ==
  ASSUME CampaignInv, NEW w \in Workers, Ack(w) \/ LoadFails(w) \/ Crash(w)
  PROVE  CampaignInv'
<1> USE DEF CampaignInv
<1>1. /\ wpc[w] # "idle" /\ WorkerMoves(w, "idle", None) /\ boot' \in {boot, boot \cup {w}}
      /\ UNCHANGED <<dbVars, req, stream, stale, enq, sends>>
  BY DEF Ack, LoadFails, Crash, Drop, Step, WorkerMoves, queueVars
<1>2. job[w] \in Rows /\ boot' \in SUBSET Workers
  BY <1>1 DEF TypeOK, WorkerTypes
<1>3. /\ WorkerTypes' /\ wpc'[w] = "idle" /\ job'[w] = None
      /\ \A v \in Workers : v # w => wpc'[v] = wpc[v] /\ job'[v] = job[v]
  BY <1>1, <1>2, WorkerMovesOK DEF TypeOK, WorkerPcs
<1>4. \A r \in Rows : /\ stream[r] \in Nat /\ pel[r] \in Nat /\ stale[r] \in Nat
                      /\ sends[r] \in Nat /\ enq[r] \in Nat /\ faults \in Nat
  BY CampaignAssumption DEF TypeOK, QueueTypes
<1>5. /\ faults' \in 0..MaxFaults /\ faults' \in {faults, faults + 1}
      /\ \/ wpc[w] = "ack" /\ pel' = pel
         \/ /\ pel' = [pel EXCEPT ![job[w]] = @ + 1]
            /\ wpc[w] = "load" \/ faults' = faults + 1
  BY CampaignAssumption DEF Ack, LoadFails, Crash, Fault, TypeOK, queueVars
<1>6. /\ pel' \in [Rows -> Nat]
      /\ \A r \in Rows : r # job[w] => pel'[r] = pel[r]
      /\ \/ wpc[w] = "ack" /\ pel'[job[w]] = pel[job[w]]
         \/ /\ pel'[job[w]] = pel[job[w]] + 1
            /\ wpc[w] = "load" \/ faults' = faults + 1
  BY <1>2, <1>5 DEF TypeOK, QueueTypes
<1>7. TypeOK'
  BY <1>1, <1>3, <1>5, <1>6 DEF TypeOK, DbTypes, RequestTypes, QueueTypes, dbVars
<1>8. RequestsOK' /\ TicksOK'
  BY <1>1, <1>5, TicksFrame DEF RequestsOK, Materialised, dbVars
<1>9. SendsNeedJobs'
  <2> SUFFICES ASSUME NEW r \in Rows
               PROVE  sends'[r] + stream'[r] + pel'[r] + stale'[r] + Cardinality(Due(r)')
                        =< enq'[r] + faults'
    BY DEF SendsNeedJobs
  <2>1. /\ sends[r] + stream[r] + pel[r] + stale[r] + Cardinality(Due(r)) =< enq[r] + faults
        /\ Cardinality(Due(r)) \in Nat
    BY DueFinite DEF SendsNeedJobs
  <2>2. Due(r)' = Due(r) \ {w}
    BY <1>2, <1>3, CampaignAssumption DEF Due, Unsent
  <2>3. Cardinality(Due(r)') = IF w \in Due(r) THEN Cardinality(Due(r)) - 1
                                              ELSE Cardinality(Due(r))
    BY <2>2, DueShrinks
  <2>4. r = job[w] /\ wpc[w] = "load" => w \in Due(r)
    BY DEF Due, Unsent
  <2>5. pel'[r] \in Nat
    BY <1>6
  <2> QED  BY <1>1, <1>4, <1>5, <1>6, <2>1, <2>3, <2>4, <2>5
<1>10. FlowOK'
  <2> SUFFICES ASSUME Undisturbed'  PROVE FlowOK'
    BY DEF FlowOK
  <2>1. Undisturbed /\ Pending' = Pending /\ Materialised' = Materialised /\ status' = status
    BY <1>1, <1>5, Calm DEF Pending, Materialised, dbVars
  <2>2. Materialised
    BY <1>1, <2>1 DEF FlowOK, AudienceFirst, Busy
  <2>3. StartsCover'
    BY <1>1, <2>1 DEF FlowOK, StartsCover, Starting
  <2>4. CountsHold'
    BY <1>1, <1>3, <2>1 DEF FlowOK, CountsHold, dbVars
  <2>5. \A r \in Rows : HasJob(r) => HasJob(r)'
    <3> SUFFICES ASSUME NEW r \in Rows, HasJob(r)  PROVE HasJob(r)'
      OBVIOUS
    <3>1. pel'[r] \in Nat /\ pel'[r] >= pel[r]
      BY <1>4, <1>6
    <3>2. CASE stream[r] + pel[r] + stale[r] > 0
      BY <1>1, <1>4, <3>1, <3>2 DEF HasJob
    <3>3. CASE job[w] = r /\ wpc[w] # "ack"
      BY <1>1, <1>4, <1>6, <3>3 DEF HasJob
    <3>4. CASE \E v \in Workers : v # w /\ job[v] = r /\ wpc[v] # "ack"
      BY <1>3, <3>4 DEF HasJob
    <3> QED  BY <1>1, <3>2, <3>3, <3>4 DEF HasJob
  <2> QED  BY <2>1, <2>2, <2>3, <2>4, <2>5 DEF FlowOK, AudienceFirst, Pending
<1> QED  BY <1>7, <1>8, <1>9, <1>10

(* A job ages, or a worker starts: nothing changes hands. *)
LEMMA AgeInv ==
  ASSUME CampaignInv, NEW j \in Rows, Age(j)
  PROVE  CampaignInv'
<1> USE DEF CampaignInv
<1>1. /\ pel[j] > 0 /\ pel' = [pel EXCEPT ![j] = @ - 1] /\ stale' = [stale EXCEPT ![j] = @ + 1]
      /\ UNCHANGED <<dbVars, req, stream, enq, workerVars, sends, faults>>
  BY DEF Age
<1>2. \A r \in Rows : /\ stream[r] \in Nat /\ pel[r] \in Nat /\ stale[r] \in Nat
                      /\ sends[r] \in Nat /\ enq[r] \in Nat /\ faults \in Nat
  BY CampaignAssumption DEF TypeOK, QueueTypes
<1>3. /\ pel' \in [Rows -> Nat] /\ stale' \in [Rows -> Nat]
      /\ \A r \in Rows : pel'[r] + stale'[r] = pel[r] + stale[r]
  <2>1. pel \in [Rows -> Nat] /\ stale \in [Rows -> Nat]
    BY DEF TypeOK, QueueTypes
  <2> HIDE DEF CampaignInv
  <2>2. pel[j] - 1 \in Nat /\ stale[j] + 1 \in Nat
    BY <1>1, <1>2
  <2>3. /\ pel' \in [Rows -> Nat] /\ pel'[j] = pel[j] - 1 /\ \A r \in Rows : r # j => pel'[r] = pel[r]
    BY <1>1, <2>1, <2>2
  <2>4. /\ stale' \in [Rows -> Nat] /\ stale'[j] = stale[j] + 1 /\ \A r \in Rows : r # j => stale'[r] = stale[r]
    BY <1>1, <2>1, <2>2
  <2> QED  BY <1>2, <2>3, <2>4
<1>4. TypeOK'
  <2>1. TypeOK
    OBVIOUS
  <2> HIDE DEF CampaignInv
  <2>2. UNCHANGED <<status, template, written, rec, req, stream, enq, wpc, job, boot, sends, faults>>
    BY <1>1 DEF dbVars, workerVars
  <2>3. DbTypes' /\ RequestTypes' /\ WorkerTypes'
    BY <2>1, <2>2 DEF TypeOK, DbTypes, RequestTypes, WorkerTypes
  <2>4. QueueTypes'
    BY <1>3, <2>1, <2>2 DEF TypeOK, QueueTypes
  <2> QED  BY <2>1, <2>2, <2>3, <2>4 DEF TypeOK
<1>5. RequestsOK' /\ TicksOK'
  BY <1>1, TicksFrame DEF RequestsOK, Materialised, dbVars
<1>6. SendsNeedJobs'
  <2>1. \A r \in Rows : Due(r)' = Due(r) /\ Cardinality(Due(r)) \in Nat
    BY <1>1, DueFinite DEF Due, Unsent, workerVars
  <2>2. \A r \in Rows : pel'[r] \in Nat /\ stale'[r] \in Nat
    BY <1>3
  <2> QED  BY <1>1, <1>2, <1>3, <2>1, <2>2 DEF SendsNeedJobs
<1>7. FlowOK'
  <2>1. /\ Undisturbed' = Undisturbed /\ Pending' = Pending /\ Materialised' = Materialised
        /\ status' = status
    BY <1>1 DEF Undisturbed, Pending, Materialised, dbVars
  <2>2. Busy
    BY <1>1, <1>2 DEF Busy
  <2>3. Undisturbed => AudienceFirst' /\ StartsCover' /\ CountsHold'
    BY <1>1, <2>1, <2>2 DEF FlowOK, AudienceFirst, StartsCover, Starting, CountsHold, dbVars, workerVars
  <2>4. \A r \in Rows : pel'[r] \in Nat /\ stale'[r] \in Nat
    BY <1>3
  <2>5. \A r \in Rows : HasJob(r) => HasJob(r)'
    BY <1>1, <1>2, <1>3, <2>4 DEF HasJob, workerVars
  <2> QED  BY <2>1, <2>3, <2>5 DEF FlowOK, Pending
<1> QED  BY <1>4, <1>5, <1>6, <1>7

LEMMA BootInv ==
  ASSUME CampaignInv, NEW w \in Workers, EndReclaim(w) \/ Restart(w)
  PROVE  CampaignInv'
<1> USE DEF CampaignInv
<1>1. /\ boot' \in SUBSET Workers /\ faults' \in 0..MaxFaults /\ faults' \in {faults, faults + 1}
      /\ UNCHANGED <<dbVars, req, queueVars, wpc, job, sends>>
  BY CampaignAssumption DEF EndReclaim, Restart, Fault, TypeOK, WorkerTypes
<1>2. TypeOK'
  BY <1>1 DEF TypeOK, DbTypes, RequestTypes, QueueTypes, WorkerTypes, dbVars, queueVars
<1>3. RequestsOK' /\ TicksOK' /\ SendsNeedJobs'
  BY <1>1, TicksFrame, SendsFrame DEF RequestsOK, Materialised, dbVars, queueVars
<1>4. FlowOK'
  <2> SUFFICES ASSUME Undisturbed'  PROVE FlowOK'
    BY DEF FlowOK
  <2>1. Undisturbed
    BY <1>1, Calm DEF dbVars
  <2> QED  BY <1>1, <2>1 DEF FlowOK, AudienceFirst, Busy, Materialised, StartsCover, Starting,
           CountsHold, HasJob, Pending, dbVars, queueVars
<1> QED  BY <1>2, <1>3, <1>4

-----------------------------------------------------------------------------
(* One step per action. *)
LEMMA NextInv == CampaignInv /\ [Next]_vars => CampaignInv'
<1> SUFFICES ASSUME CampaignInv, [Next]_vars  PROVE CampaignInv'
  OBVIOUS
<1>1. ASSUME NEW q \in Requests, NEW op \in Ops, Check(q, op)  PROVE CampaignInv'
  BY <1>1, CheckInv
<1>2. ASSUME NEW q \in Requests, RequestStep(q) \/ EnqueueFails(q)  PROVE CampaignInv'
  BY <1>2, MaterializeInv, LoadInv, EndInv, RowsInv, MarkInv, EnqueueInv, EnqueueFailsInv
  DEF RequestStep
<1>3. CASE DeleteTemplate
  BY <1>3, DeleteTemplateInv
<1>4. ASSUME NEW w \in Workers, WorkerStep(w) \/ Crash(w) \/ Restart(w)  PROVE CampaignInv'
  BY <1>4, TakeInv, BootInv, LoadStepInv, OutcomeInv, CompletionInv, SendInv, DropInv
  DEF WorkerStep
<1>5. ASSUME NEW r \in Rows, Age(r)  PROVE CampaignInv'
  BY <1>5, AgeInv
<1>6. CASE UNCHANGED vars
  <2>1. UNCHANGED <<status, template, written, rec, req, stream, pel, stale, enq, wpc, job, boot,
                    sends, faults>>
    BY <1>6 DEF vars, dbVars, queueVars, workerVars
  <2>2. TypeOK'
    BY <2>1 DEF CampaignInv, TypeOK, DbTypes, RequestTypes, QueueTypes, WorkerTypes
  <2>3. RequestsOK' /\ TicksOK'
    BY <2>1 DEF CampaignInv, RequestsOK, Materialised, TicksOK, OnlyTicks
  <2>4. SendsNeedJobs'
    BY <2>1 DEF CampaignInv, SendsNeedJobs, Due, Unsent
  <2>5. FlowOK'
    BY <2>1 DEF CampaignInv, FlowOK, Undisturbed, AudienceFirst, Materialised, Busy, StartsCover, Starting,
                CountsHold, HasJob, Pending, OnlyTicks
  <2> QED  BY <2>2, <2>3, <2>4, <2>5 DEF CampaignInv
<1> QED  BY <1>1, <1>2, <1>3, <1>4, <1>5, <1>6 DEF Next

(* The invariant holds however requests, ticks, workers and crashes overlap.  *)
THEOREM CampaignInvariant == Spec => []CampaignInv
<1> QED  BY InitInv, NextInv, PTL DEF Spec

(* The rows, queues and workers of a campaign keep their types.               *)
THEOREM TypeCorrect == Spec => []TypeOK
<1>1. CampaignInv => TypeOK
  BY DEF CampaignInv
<1> QED  BY <1>1, CampaignInvariant, PTL

(* worker.HandleRecipientJob: no message leaves without a job, and every      *)
(* extra send is paid for by a fault.                                         *)
THEOREM NoSendWithoutJob == Spec => []SendsNeedJobs
<1>1. CampaignInv => SendsNeedJobs
  BY DEF CampaignInv
<1> QED  BY <1>1, CampaignInvariant, PTL

(* StartCampaign, startDueCampaigns: a running campaign leaves no pending     *)
(* recipient without a job.                                                   *)
THEOREM NobodyIsStranded == Spec => []NoRecipientStranded
<1>1. CampaignInv => NoRecipientStranded
  BY DEF CampaignInv, FlowOK, NoRecipientStranded
<1> QED  BY <1>1, CampaignInvariant, PTL

(* worker.checkCampaignCompletion: counting, reading and writing in three     *)
(* statements still never completes a campaign with pending recipients.       *)
THEOREM CompletionIsSound == Spec => []CompletedMeansProcessed
<1>1. CampaignInv => CompletedMeansProcessed
  BY DEF CampaignInv, FlowOK, CompletedMeansProcessed
<1> QED  BY <1>1, CampaignInvariant, PTL

(* The guarded claim of startDueCampaigns: ticks that overlap on any number   *)
(* of replicas send each recipient one message at most.                       *)
THEOREM TicksSendOnce == Spec => []ScheduledStartSendsOnce
<1>1. CampaignInv => ScheduledStartSendsOnce
  <2> SUFFICES ASSUME CampaignInv, Undisturbed, OnlyTicks, NEW r \in Rows
               PROVE  sends[r] =< 1
    BY DEF ScheduledStartSendsOnce, OnlyTicks
  <2>1. faults = 0 /\ enq[r] =< 1
    BY DEF CampaignInv, TicksOK, Undisturbed
  <2>2. Cardinality(Due(r)) \in Nat
    BY DueFinite
  <2>3. sends[r] + stream[r] + pel[r] + stale[r] + Cardinality(Due(r)) =< enq[r] + faults
    BY DEF CampaignInv, SendsNeedJobs
  <2>4. sends[r] \in Nat /\ stream[r] \in Nat /\ pel[r] \in Nat /\ stale[r] \in Nat /\ enq[r] \in Nat
    BY DEF CampaignInv, TypeOK, QueueTypes
  <2> QED  BY <2>1, <2>2, <2>3, <2>4
<1> QED  BY <1>1, CampaignInvariant, PTL

-----------------------------------------------------------------------------
(* Who may do what: what holds besides                                        *)

MemberRow == [st: {"none", "live", "gone"}, role: Roles]
RoleRow == [st: {"none", "live", "gone"}, perms: SUBSET Perms, dflt: BOOLEAN]
FillRow == [k: {"fill"}, u: Users, key: Keys, entry: Entry, raced: BOOLEAN]
UserDraft == [k: {"user"}, u: Users, o: Orgs, row: UserRow, change: Changes, raced: BOOLEAN]
RoleDraft == [k: {"role"}, r: Roles, row: RoleRow, perms: SUBSET Perms, dflt: BOOLEAN, raced: BOOLEAN]
SessionRow == [live: Nat, rotating: Nat, issued: Nat]
Excuses == [cache: SUBSET (Users \X Keys), work: SUBSET Slots, admin: SUBSET Orgs,
            dflt: SUBSET Orgs, role: SUBSET Roles]

AccessTypeOK ==
  /\ org \subseteq Orgs /\ user \in [Users -> UserRow] /\ member \in [Slots -> MemberRow]
  /\ role \in [Roles -> RoleRow] /\ revoked \in [Roles -> SUBSET Perms] /\ upgraded \in BOOLEAN
  /\ cached \in [Users \X Keys -> Entry \cup {Miss}] /\ fill \in FillRow \cup {Nothing}
  /\ draft \in [1..2 -> UserDraft \cup RoleDraft \cup {Nothing}]
  /\ held \subseteq Slots /\ key \in [Slots -> {"none", "on", "off"}]
  /\ session \in [Users -> SessionRow] /\ spent \in Nat /\ excused \in Excuses

\* A miss in flight that nothing overtook has read what is there.
FillFresh ==
  \A u \in Users, k \in Keys :
    fill # Nothing /\ ~fill.raced /\ fill.u = u /\ fill.key = k => fill.entry = DBPerms(u, k)

\* A membership's role is one of its organization, and was there at some time.
MembersFit ==
  \A x \in Slots :
    /\ OrgOf(member[x].role) = x[2]
    /\ member[x].st = "live" => role[member[x].role].st # "none" \/ member[x].role \in excused.role

\* Who is deleted is a member of nothing, and who never was has nothing.
GoneBelongNowhere ==
  \A x \in Slots :
    /\ user[x[1]].st # "live" => member[x].st # "live"
    /\ user[x[1]].st = "none" => member[x].st = "none" /\ key[x] = "none" /\ x \notin held

\* An organization has its system roles; a role there never was has lost nothing.
RolesStand ==
  \A r \in Roles : /\ OrgOf(r) \in org /\ IsSystem(r) => role[r].st = "live"
                   /\ role[r].st = "none" => revoked[r] = {}

\* Two roles of an organization are not both the default.
DefaultsDiffer ==
  \A r, s \in Roles : /\ OrgOf(r) = OrgOf(s) /\ OrgOf(r) \notin excused.dflt
                      /\ role[r].st = "live" /\ role[s].st = "live" /\ role[r].dflt /\ role[s].dflt
                      => r = s

\* What a request in flight has read was so, and is so unless another overtook it.
DraftFits(d) ==
  /\ d.k = "user" =>
       /\ d.row.st = "live" /\ d.o = d.row.home /\ OrgOf(d.row.role) = d.row.home
       /\ d.change.f = "active" => d.change.v # d.row.active
       /\ ~d.raced => user[d.u] = d.row
  /\ d.k = "role" /\ ~d.raced /\ OrgOf(d.r) \in org =>
       role[d.r].st = "live" /\ role[d.r].dflt = d.row.dflt

DraftsFit == \A i \in 1..2 : DraftFits(draft[i])

AccessIInv ==
  /\ AccessTypeOK /\ CacheCoherent /\ FillFresh /\ HomeRoleStands /\ AdminRemains
  /\ ReleasedHoldsNothing /\ DefaultsDiffer /\ RevocationStands /\ PurgeLeavesNothing
  /\ RefreshOnce /\ MembersFit /\ GoneBelongNowhere /\ RolesStand /\ DraftsFit

-----------------------------------------------------------------------------
(* Who may do what: rows and permissions                                      *)

LEMMA AccessRows ==
  /\ \A r \in Roles : r[1] \in Orgs /\ r[2] \in RoleNames /\ r = <<r[1], r[2]>>
  /\ \A o \in Orgs, n \in RoleNames : <<o, n>> \in Roles
  /\ \A x \in Slots : x[1] \in Users /\ x[2] \in Orgs /\ x = <<x[1], x[2]>>
  /\ \A u \in Users, o \in Orgs : <<u, o>> \in Slots
  /\ \A e \in Users \X Keys : e[1] \in Users /\ e[2] \in Keys /\ e = <<e[1], e[2]>>
  /\ \A u \in Users, k \in Keys : <<u, k>> \in Users \X Keys
  /\ Orgs \subseteq Keys /\ "base" \in Keys /\ "base" \notin Orgs
BY AccessAssumption DEF Roles, Slots, Keys

LEMMA AccessKinds ==
  /\ Miss \notin Entry /\ Denied \notin Entry /\ Miss # Denied
  /\ Nothing \notin FillRow /\ Nothing \notin UserDraft /\ Nothing \notin RoleDraft
  /\ Nothing.k = "none"
  /\ \A d \in UserDraft : d.k = "user"
  /\ \A d \in RoleDraft : d.k = "role"
<1>1. /\ Miss.k = "miss" /\ Denied.k = "denied" /\ Nothing.k = "none"
  BY DEF Miss, Denied, Nothing
<1>2. \A e \in Entry : e.k = "hit"
  BY DEF Entry
<1>3. \A f \in FillRow : f.k = "fill"
  BY DEF FillRow
<1>4. \A d \in UserDraft : d.k = "user"
  BY DEF UserDraft
<1>5. \A d \in RoleDraft : d.k = "role"
  BY DEF RoleDraft
<1> QED  BY <1>1, <1>2, <1>3, <1>4, <1>5

\* what a row of a role grants, and what the rows say a user may do
Grants(super, row) ==
  IF row.st # "live" THEN Denied ELSE [k |-> "hit", super |-> super, perms |-> row.perms]
PermsIn(us, ms, rs, u, k) ==
  IF us[u].st # "live" THEN Denied
  ELSE IF k # "base" /\ ms[<<u, k>>].st = "live" THEN Grants(us[u].super, rs[ms[<<u, k>>].role])
  ELSE IF k \in {"base", us[u].home} THEN Grants(us[u].super, rs[us[u].role])
  ELSE IF us[u].super THEN [k |-> "hit", super |-> TRUE, perms |-> {}] ELSE Denied

LEMMA TheOne == ASSUME NEW a PROVE (CHOOSE x \in {a} : TRUE) = a
OBVIOUS

LEMMA DBPermsIs ==
  ASSUME NEW u, NEW k
  PROVE  DBPerms(u, k) = PermsIn(user, member, role, u, k) /\ DBPerms(u, k)' = PermsIn(user', member', role', u, k)
<1>1. DBPerms(u, k) = PermsIn(user, member, role, u, k)
  <2>1. CASE k # "base" /\ member[<<u, k>>].st = "live"
    <3>1. RoleIn(u, k) = {member[<<u, k>>].role}
      BY <2>1 DEF RoleIn
    <3>2. PICK r : r = member[<<u, k>>].role
      OBVIOUS
    <3>3. (CHOOSE x \in RoleIn(u, k) : TRUE) = r
      BY <3>1, <3>2, TheOne
    <3> QED  BY <2>1, <3>1, <3>2, <3>3 DEF DBPerms, PermsIn, Grants
  <2>2. CASE ~(k # "base" /\ member[<<u, k>>].st = "live") /\ k \in {"base", user[u].home}
    <3>1. RoleIn(u, k) = {user[u].role}
      BY <2>2 DEF RoleIn
    <3>2. PICK r : r = user[u].role
      OBVIOUS
    <3>3. (CHOOSE x \in RoleIn(u, k) : TRUE) = r
      BY <3>1, <3>2, TheOne
    <3> QED  BY <2>2, <3>1, <3>2, <3>3 DEF DBPerms, PermsIn, Grants
  <2>3. CASE ~(k # "base" /\ member[<<u, k>>].st = "live") /\ k \notin {"base", user[u].home}
    <3>1. RoleIn(u, k) = {}
      BY <2>3 DEF RoleIn
    <3> QED  BY <2>3, <3>1 DEF DBPerms, PermsIn
  <2> QED  BY <2>1, <2>2, <2>3
<1>2. DBPerms(u, k)' = PermsIn(user', member', role', u, k)
  <2>1. CASE k # "base" /\ member'[<<u, k>>].st = "live"
    <3>1. RoleIn(u, k)' = {member'[<<u, k>>].role}
      BY <2>1 DEF RoleIn
    <3>2. PICK r : r = member'[<<u, k>>].role
      OBVIOUS
    <3>3. (CHOOSE x \in RoleIn(u, k)' : TRUE) = r
      BY <3>1, <3>2, TheOne
    <3> QED  BY <2>1, <3>1, <3>2, <3>3 DEF DBPerms, PermsIn, Grants
  <2>2. CASE ~(k # "base" /\ member'[<<u, k>>].st = "live") /\ k \in {"base", user'[u].home}
    <3>1. RoleIn(u, k)' = {user'[u].role}
      BY <2>2 DEF RoleIn
    <3>2. PICK r : r = user'[u].role
      OBVIOUS
    <3>3. (CHOOSE x \in RoleIn(u, k)' : TRUE) = r
      BY <3>1, <3>2, TheOne
    <3> QED  BY <2>2, <3>1, <3>2, <3>3 DEF DBPerms, PermsIn, Grants
  <2>3. CASE ~(k # "base" /\ member'[<<u, k>>].st = "live") /\ k \notin {"base", user'[u].home}
    <3>1. RoleIn(u, k)' = {}
      BY <2>3 DEF RoleIn
    <3> QED  BY <2>3, <3>1 DEF DBPerms, PermsIn
  <2> QED  BY <2>1, <2>2, <2>3
<1> QED  BY <1>1, <1>2

LEMMA DBPermsType ==
  ASSUME AccessTypeOK, NEW u \in Users, NEW k \in Keys
  PROVE  DBPerms(u, k) \in Entry \cup {Denied}
<1>1. /\ user[u].super \in BOOLEAN /\ user[u].role \in Roles
      /\ \A r \in Roles : role[r].perms \in SUBSET Perms
      /\ k # "base" => member[<<u, k>>].role \in Roles
  BY AccessRows DEF AccessTypeOK, UserRow, RoleRow, MemberRow, Keys
<1>2. \A b \in BOOLEAN, r \in Roles : Grants(b, role[r]) \in Entry \cup {Denied}
  BY <1>1 DEF Grants, Entry
<1>3. [k |-> "hit", super |-> TRUE, perms |-> {}] \in Entry
  BY DEF Entry
<1>4. PICK e : e = PermsIn(user, member, role, u, k)
  OBVIOUS
<1>5. e \in Entry \cup {Denied}
  <2>1. CASE user[u].st # "live"
    BY <1>4, <2>1 DEF PermsIn
  <2>2. CASE k # "base" /\ member[<<u, k>>].st = "live" /\ user[u].st = "live"
    BY <1>1, <1>2, <1>4, <2>2 DEF PermsIn
  <2>3. CASE ~(k # "base" /\ member[<<u, k>>].st = "live") /\ k \in {"base", user[u].home} /\ user[u].st = "live"
    BY <1>1, <1>2, <1>4, <2>3 DEF PermsIn
  <2>4. CASE ~(k # "base" /\ member[<<u, k>>].st = "live") /\ k \notin {"base", user[u].home} /\ user[u].st = "live"
    BY <1>3, <1>4, <2>4 DEF PermsIn
  <2> QED  BY <2>1, <2>2, <2>3, <2>4
<1> QED  BY <1>4, <1>5, DBPermsIs

-----------------------------------------------------------------------------
(* Who may do what: the cache                                                 *)

\* the permissions of everyone outside stand, where there are any
PermsStand(us) ==
  \A u \in Users \ us, k \in Keys :
    PermsIn(user, member, role, u, k) # Denied =>
      PermsIn(user', member', role', u, k) = PermsIn(user, member, role, u, k)

LEMMA CacheUntold ==
  ASSUME AccessTypeOK, CacheCoherent, FillFresh, NEW us \in SUBSET Users,
         PermsStand(us), Untold(us), excused'.cache = excused.cache \cup Left(us)
  PROVE  CacheCoherent' /\ FillFresh'
<1>1. CacheCoherent'
  <2> SUFFICES ASSUME NEW u \in Users, NEW k \in Keys, cached'[<<u, k>>] # Miss, <<u, k>> \notin excused'.cache
               PROVE  cached'[<<u, k>>] = DBPerms(u, k)'
    BY DEF CacheCoherent
  <2>1. cached[<<u, k>>] # Miss /\ <<u, k>> \notin excused.cache /\ u \notin us
    BY AccessRows DEF Untold, Left
  <2>2. cached[<<u, k>>] = DBPerms(u, k) /\ cached[<<u, k>>] \in Entry
    BY <2>1, AccessRows DEF CacheCoherent, AccessTypeOK
  <2> QED  BY <2>1, <2>2, DBPermsIs, AccessKinds DEF PermsStand, Untold
<1>2. FillFresh'
  <2> SUFFICES ASSUME NEW u \in Users, NEW k \in Keys,
                      fill' # Nothing, ~fill'.raced, fill'.u = u, fill'.key = k
               PROVE  fill'.entry = DBPerms(u, k)'
    BY DEF FillFresh
  <2>1. fill' = fill /\ fill \in FillRow /\ fill.u \notin us
    BY DEF Untold, Overtaken, AccessTypeOK, FillRow
  <2>2. /\ fill.entry \in Entry /\ fill.entry = DBPerms(u, k)
    BY <2>1 DEF FillRow, FillFresh
  <2> QED  BY <2>1, <2>2, DBPermsIs, AccessKinds DEF PermsStand
<1> QED  BY <1>1, <1>2

LEMMA CacheEmptied ==
  ASSUME AccessTypeOK, CacheCoherent, FillFresh, NEW us \in SUBSET Users,
         PermsStand(us), InvalidateUser(us), excused'.cache = excused.cache \ (us \X Keys)
  PROVE  CacheCoherent' /\ FillFresh'
<1>1. CacheCoherent'
  <2> SUFFICES ASSUME NEW u \in Users, NEW k \in Keys, cached'[<<u, k>>] # Miss, <<u, k>> \notin excused'.cache
               PROVE  cached'[<<u, k>>] = DBPerms(u, k)'
    BY DEF CacheCoherent
  <2>1. cached'[<<u, k>>] = cached[<<u, k>>] /\ u \notin us
    BY AccessRows DEF InvalidateUser, Emptied
  <2>2. cached[<<u, k>>] = DBPerms(u, k) /\ cached[<<u, k>>] \in Entry
    BY <2>1, AccessRows DEF CacheCoherent, AccessTypeOK
  <2> QED  BY <2>1, <2>2, DBPermsIs, AccessKinds DEF PermsStand
<1>2. FillFresh'
  <2> SUFFICES ASSUME NEW u \in Users, NEW k \in Keys,
                      fill' # Nothing, ~fill'.raced, fill'.u = u, fill'.key = k
               PROVE  fill'.entry = DBPerms(u, k)'
    BY DEF FillFresh
  <2>1. fill' = fill /\ fill \in FillRow /\ fill.u \notin us
    BY DEF InvalidateUser, Overtaken, AccessTypeOK, FillRow
  <2>2. /\ fill.entry \in Entry /\ fill.entry = DBPerms(u, k)
    BY <2>1 DEF FillRow, FillFresh
  <2> QED  BY <2>1, <2>2, DBPermsIs, AccessKinds DEF PermsStand
<1> QED  BY <1>1, <1>2

LEMMA CacheTypes ==
  ASSUME AccessTypeOK, NEW us \in SUBSET Users, Untold(us) \/ InvalidateUser(us)
  PROVE  /\ cached' \in [Users \X Keys -> Entry \cup {Miss}] /\ fill' \in FillRow \cup {Nothing}
         /\ Left(us) \in SUBSET (Users \X Keys)
<1>1. cached' \in [Users \X Keys -> Entry \cup {Miss}]
  BY DEF Untold, InvalidateUser, Emptied, AccessTypeOK
<1>2. fill' \in FillRow \cup {Nothing}
  BY DEF Untold, InvalidateUser, Overtaken, AccessTypeOK, FillRow
<1>3. Left(us) \in SUBSET (Users \X Keys)
  BY DEF Left
<1> QED  BY <1>1, <1>2, <1>3

LEMMA RowsStand ==
  ASSUME AccessTypeOK, MembersFit, NEW us \in SUBSET Users,
         \A u \in Users \ us : user'[u] = user[u] /\ \A o \in Orgs : member'[<<u, o>>] = member[<<u, o>>],
         \A u \in Users \ us, r \in Roles :
           u \in Holders(r) /\ role[r].st = "live" => role'[r].st = "live" /\ role'[r].perms = role[r].perms
  PROVE  PermsStand(us)
<1> SUFFICES ASSUME NEW u \in Users \ us, NEW k \in Keys, PermsIn(user, member, role, u, k) # Denied
             PROVE  PermsIn(user', member', role', u, k) = PermsIn(user, member, role, u, k)
  BY DEF PermsStand
<1>1. user'[u] = user[u] /\ user[u].st = "live" /\ user[u].role \in Roles
  BY DEF PermsIn, AccessTypeOK, UserRow
<1>2. CASE k # "base" /\ member[<<u, k>>].st = "live"
  <2>1. PICK r \in Roles : r = member[<<u, k>>].role /\ OrgOf(r) = k
    BY <1>2, AccessRows DEF AccessTypeOK, MemberRow, MembersFit, Keys, OrgOf
  <2>2. u \in Holders(r) /\ member'[<<u, k>>] = member[<<u, k>>]
    BY <1>2, <2>1 DEF Holders, Keys
  <2>3. role[r].st = "live"
    BY <1>1, <1>2, <2>1 DEF PermsIn, Grants
  <2> QED  BY <1>1, <1>2, <2>1, <2>2, <2>3 DEF PermsIn, Grants
<1>3. CASE ~(k # "base" /\ member[<<u, k>>].st = "live")
  <2>1. ~(k # "base" /\ member'[<<u, k>>].st = "live")
    BY <1>3 DEF Keys
  <2>2. PICK r \in Roles : r = user[u].role
    BY <1>1
  <2>3. u \in Holders(r)
    BY <1>1, <2>2 DEF Holders
  <2>4. CASE k \in {"base", user[u].home}
    <3>1. role[r].st = "live"
      BY <1>1, <1>3, <2>2, <2>4 DEF PermsIn, Grants
    <3> QED  BY <1>1, <1>3, <2>1, <2>2, <2>3, <2>4, <3>1 DEF PermsIn, Grants
  <2>5. CASE k \notin {"base", user[u].home}
    BY <1>1, <1>3, <2>1, <2>5 DEF PermsIn
  <2> QED  BY <2>4, <2>5
<1> QED  BY <1>2, <1>3

\* the rows of people and roles as they were
RowsUnchanged == UNCHANGED <<org, user, member, role, revoked>>

LEMMA SamePerms ==
  ASSUME UNCHANGED <<user, member, role>>, NEW us
  PROVE  PermsStand(us)
BY DEF PermsStand

LEMMA PeopleSame ==
  ASSUME AccessIInv, RowsUnchanged, excused'.admin = excused.admin, excused'.dflt = excused.dflt,
         excused'.role = excused.role
  PROVE  HomeRoleStands' /\ AdminRemains' /\ DefaultsDiffer' /\ RevocationStands' /\ MembersFit' /\ RolesStand'
<1>1. HomeRoleStands'
  BY DEF AccessIInv, RowsUnchanged, HomeRoleStands
<1>2. AdminRemains'
  BY DEF AccessIInv, RowsUnchanged, AdminRemains, Admins
<1>3. DefaultsDiffer'
  BY DEF AccessIInv, RowsUnchanged, DefaultsDiffer
<1>4. RevocationStands'
  BY DEF AccessIInv, RowsUnchanged, RevocationStands
<1>5. MembersFit'
  BY DEF AccessIInv, RowsUnchanged, MembersFit
<1>6. RolesStand'
  BY DEF AccessIInv, RowsUnchanged, RolesStand
<1> QED  BY <1>1, <1>2, <1>3, <1>4, <1>5, <1>6

LEMMA SameWork ==
  ASSUME AccessIInv, RowsUnchanged, UNCHANGED <<held, key>>, excused'.work = excused.work
  PROVE  ReleasedHoldsNothing' /\ PurgeLeavesNothing' /\ GoneBelongNowhere'
<1>1. ReleasedHoldsNothing'
  BY DEF AccessIInv, RowsUnchanged, ReleasedHoldsNothing, InUse, Entitled
<1>2. PurgeLeavesNothing'
  BY DEF AccessIInv, RowsUnchanged, PurgeLeavesNothing, InUse
<1>3. GoneBelongNowhere'
  BY DEF AccessIInv, RowsUnchanged, GoneBelongNowhere
<1> QED  BY <1>1, <1>2, <1>3

-----------------------------------------------------------------------------
(* Who may do what: requests in flight                                        *)

\* a request in flight goes on, knows that it was overtaken, or is over
Proceeds(old, new) ==
  new = Nothing \/ new = old \/ (old # Nothing /\ new = [old EXCEPT !.raced = TRUE])

LEMMA DraftsGo ==
  ASSUME AccessTypeOK, DraftsFit,
         draft' = [i \in 1..2 |-> draft'[i]], \A i \in 1..2 : Proceeds(draft[i], draft'[i]),
         \A i \in 1..2 : draft'[i] = draft[i] /\ draft[i].k = "user" /\ ~draft[i].raced =>
                           user'[draft[i].u] = user[draft[i].u],
         \A i \in 1..2 : draft'[i] = draft[i] /\ draft[i].k = "role" /\ ~draft[i].raced
                           /\ OrgOf(draft[i].r) \in org' =>
                           /\ OrgOf(draft[i].r) \in org
                           /\ role'[draft[i].r].st = role[draft[i].r].st
                           /\ role'[draft[i].r].dflt = role[draft[i].r].dflt
  PROVE  DraftsFit' /\ draft' \in [1..2 -> UserDraft \cup RoleDraft \cup {Nothing}]
<1> SUFFICES ASSUME NEW i \in 1..2
             PROVE  DraftFits(draft[i])' /\ draft'[i] \in UserDraft \cup RoleDraft \cup {Nothing}
  BY DEF DraftsFit
<1>1. DraftFits(draft[i]) /\ draft[i] \in UserDraft \cup RoleDraft \cup {Nothing}
  BY DEF DraftsFit, AccessTypeOK
<1>2. CASE draft'[i] = Nothing
  BY <1>2, AccessKinds DEF DraftFits
<1>3. CASE draft'[i] = draft[i]
  BY <1>1, <1>3 DEF DraftFits
<1>4. CASE draft[i] # Nothing /\ draft'[i] = [draft[i] EXCEPT !.raced = TRUE]
  <2>1. CASE draft[i] \in UserDraft
    <3>1. /\ draft'[i] \in UserDraft /\ draft'[i].k = "user" /\ draft'[i].raced = TRUE
          /\ draft'[i].row = draft[i].row /\ draft'[i].o = draft[i].o /\ draft'[i].change = draft[i].change
      BY <1>4, <2>1 DEF UserDraft
    <3> QED  BY <1>1, <2>1, <3>1, AccessKinds DEF DraftFits
  <2>2. CASE draft[i] \in RoleDraft
    <3>1. /\ draft'[i] \in RoleDraft /\ draft'[i].k = "role" /\ draft'[i].raced = TRUE
      BY <1>4, <2>2 DEF RoleDraft
    <3> QED  BY <3>1, AccessKinds DEF DraftFits
  <2> QED  BY <1>1, <1>4, <2>1, <2>2
<1> QED  BY <1>2, <1>3, <1>4 DEF Proceeds

\* the three ways in which a step leaves the requests in flight behind
LEMMA TouchGoes ==
  ASSUME AccessTypeOK, NEW us, Touch(us)
  PROVE  /\ draft' = [i \in 1..2 |-> draft'[i]] /\ \A i \in 1..2 : Proceeds(draft[i], draft'[i])
         /\ \A i \in 1..2 : draft'[i] = draft[i] /\ draft[i].k = "user" /\ ~draft[i].raced => draft[i].u \notin us
<1>1. \A i \in 1..2 : draft'[i] = Raced(draft[i], us) /\ draft[i] \in UserDraft \cup RoleDraft \cup {Nothing}
  BY DEF Touch, AccessTypeOK
<1>2. draft' = [i \in 1..2 |-> draft'[i]]
  BY DEF Touch
<1>3. ASSUME NEW i \in 1..2
      PROVE  /\ Proceeds(draft[i], draft'[i])
             /\ draft'[i] = draft[i] /\ draft[i].k = "user" /\ ~draft[i].raced => draft[i].u \notin us
  <2>1. CASE draft[i].k = "user" /\ draft[i].u \in us
    <3>1. draft'[i] = [draft[i] EXCEPT !.raced = TRUE] /\ draft[i] \in UserDraft /\ draft[i] # Nothing
      BY <1>1, <2>1, AccessKinds DEF Raced
    <3>2. draft'[i].raced = TRUE
      BY <3>1 DEF UserDraft
    <3> QED  BY <3>1, <3>2 DEF Proceeds
  <2>2. CASE ~(draft[i].k = "user" /\ draft[i].u \in us)
    BY <1>1, <2>2 DEF Raced, Proceeds
  <2> QED  BY <2>1, <2>2
<1> QED  BY <1>2, <1>3

LEMMA TouchRolesGoes ==
  ASSUME AccessTypeOK, NEW o, TouchRoles(o)
  PROVE  /\ draft' = [i \in 1..2 |-> draft'[i]] /\ \A i \in 1..2 : Proceeds(draft[i], draft'[i])
         /\ \A i \in 1..2 : draft'[i] = draft[i] /\ draft[i].k = "role" /\ ~draft[i].raced => OrgOf(draft[i].r) # o
<1>1. \A i \in 1..2 : draft'[i] = RacedRole(draft[i], o) /\ draft[i] \in UserDraft \cup RoleDraft \cup {Nothing}
  BY DEF TouchRoles, AccessTypeOK
<1>2. draft' = [i \in 1..2 |-> draft'[i]]
  BY DEF TouchRoles
<1>3. ASSUME NEW i \in 1..2
      PROVE  /\ Proceeds(draft[i], draft'[i])
             /\ draft'[i] = draft[i] /\ draft[i].k = "role" /\ ~draft[i].raced => OrgOf(draft[i].r) # o
  <2>1. CASE draft[i].k = "role" /\ OrgOf(draft[i].r) = o
    <3>1. draft'[i] = [draft[i] EXCEPT !.raced = TRUE] /\ draft[i] \in RoleDraft /\ draft[i] # Nothing
      BY <1>1, <2>1, AccessKinds DEF RacedRole
    <3>2. draft'[i].raced = TRUE
      BY <3>1 DEF RoleDraft
    <3> QED  BY <3>1, <3>2 DEF Proceeds
  <2>2. CASE ~(draft[i].k = "role" /\ OrgOf(draft[i].r) = o)
    BY <1>1, <2>2 DEF RacedRole, Proceeds
  <2> QED  BY <2>1, <2>2
<1> QED  BY <1>2, <1>3

LEMMA SameDrafts ==
  ASSUME AccessIInv, UNCHANGED draft, UNCHANGED <<user, org>>,
         \A r \in Roles : OrgOf(r) \in org => role'[r].st = role[r].st /\ role'[r].dflt = role[r].dflt
  PROVE  DraftsFit' /\ draft' \in [1..2 -> UserDraft \cup RoleDraft \cup {Nothing}]
<1>1. AccessTypeOK /\ DraftsFit
  BY DEF AccessIInv
<1>2. draft' = [i \in 1..2 |-> draft'[i]]
  BY <1>1 DEF AccessTypeOK
<1>3. \A i \in 1..2 : Proceeds(draft[i], draft'[i])
  BY DEF Proceeds
<1>4. \A i \in 1..2 : draft[i].k = "role" => draft[i].r \in Roles
  BY <1>1, AccessKinds DEF AccessTypeOK, RoleDraft
<1> QED  BY <1>1, <1>2, <1>3, <1>4, DraftsGo

-----------------------------------------------------------------------------
(* Who may do what: steps that leave people and roles alone                   *)

LEMMA LoadPermissionsKeeps ==
  ASSUME AccessIInv, NEW u \in Users, NEW k \in Keys, LoadPermissions(u, k)
  PROVE  AccessIInv'
<1> USE DEF LoadPermissions
<1>1. AccessTypeOK /\ RowsUnchanged
  BY DEF AccessIInv, RowsUnchanged
<1>2. DBPerms(u, k) \in Entry
  BY <1>1, DBPermsType
<1>3. AccessTypeOK'
  BY <1>1, <1>2 DEF AccessTypeOK, FillRow
<1>4. CacheCoherent'
  BY <1>1, DBPermsIs DEF AccessIInv, CacheCoherent, RowsUnchanged
<1>5. FillFresh'
  BY <1>1, DBPermsIs DEF FillFresh, RowsUnchanged
<1>6. RefreshOnce'
  BY DEF AccessIInv, RefreshOnce
<1> QED  BY <1>1, <1>3, <1>4, <1>5, <1>6, PeopleSame, SameWork, SameDrafts DEF AccessIInv, RowsUnchanged

LEMMA StoreKeeps ==
  ASSUME AccessIInv, StorePermissions
  PROVE  AccessIInv'
<1> USE DEF StorePermissions
<1>1. AccessTypeOK /\ RowsUnchanged /\ fill \in FillRow
  BY DEF AccessIInv, RowsUnchanged, AccessTypeOK
<1>2. PICK e : e = <<fill.u, fill.key>> /\ e \in Users \X Keys /\ fill.entry \in Entry
  BY <1>1 DEF FillRow
<1>3. /\ excused' \in Excuses /\ excused'.work = excused.work /\ excused'.admin = excused.admin
      /\ excused'.dflt = excused.dflt /\ excused'.role = excused.role
      /\ excused'.cache = IF fill.raced THEN excused.cache \cup {e} ELSE excused.cache
  BY <1>1, <1>2 DEF AccessTypeOK, Excuses
<1>4. cached' = [cached EXCEPT ![e] = fill.entry]
  BY <1>2
<1>5. AccessTypeOK'
  BY <1>1, <1>2, <1>3, <1>4 DEF AccessTypeOK
<1>6. CacheCoherent'
  <2> SUFFICES ASSUME NEW u \in Users, NEW k \in Keys, cached'[<<u, k>>] # Miss, <<u, k>> \notin excused'.cache
               PROVE  cached'[<<u, k>>] = DBPerms(u, k)'
    BY DEF CacheCoherent
  <2>1. DBPerms(u, k)' = DBPerms(u, k)
    BY <1>1, DBPermsIs DEF RowsUnchanged
  <2>2. CASE <<u, k>> = e
    <3>1. fill.u = u /\ fill.key = k /\ ~fill.raced /\ cached'[<<u, k>>] = fill.entry
      BY <1>1, <1>2, <1>3, <1>4, <2>2 DEF AccessTypeOK
    <3> QED  BY <2>1, <3>1 DEF AccessIInv, FillFresh
  <2>3. CASE <<u, k>> # e
    <3>1. PICK x \in Users \X Keys : x = <<u, k>>
      BY AccessRows
    <3>2. cached'[x] = cached[x]
      BY <1>1, <1>4, <2>3, <3>1 DEF AccessTypeOK
    <3>3. <<u, k>> \notin excused.cache
      BY <1>3
    <3> QED  BY <2>1, <3>1, <3>2, <3>3 DEF AccessIInv, CacheCoherent
  <2> QED  BY <2>2, <2>3
<1>7. FillFresh'
  BY DEF FillFresh
<1>8. RefreshOnce'
  BY DEF AccessIInv, RefreshOnce
<1> QED  BY <1>1, <1>3, <1>5, <1>6, <1>7, <1>8, PeopleSame, SameWork, SameDrafts DEF AccessIInv, RowsUnchanged

LEMMA ExpiryKeeps ==
  ASSUME AccessIInv, NEW u \in Users, NEW k \in Keys, EntryExpires(u, k)
  PROVE  AccessIInv'
<1> USE DEF EntryExpires
<1>1. AccessTypeOK /\ RowsUnchanged
  BY DEF AccessIInv, RowsUnchanged, AccessTypeOK
<1>2. /\ excused' \in Excuses /\ excused'.work = excused.work /\ excused'.admin = excused.admin
      /\ excused'.dflt = excused.dflt /\ excused'.role = excused.role
      /\ excused'.cache = excused.cache \ {<<u, k>>}
  BY <1>1 DEF AccessTypeOK, Excuses
<1>3. AccessTypeOK'
  BY <1>1, <1>2 DEF AccessTypeOK
<1>4. CacheCoherent'
  <2> SUFFICES ASSUME NEW v \in Users, NEW j \in Keys, cached'[<<v, j>>] # Miss, <<v, j>> \notin excused'.cache
               PROVE  cached'[<<v, j>>] = DBPerms(v, j)'
    BY DEF CacheCoherent
  <2>1. DBPerms(v, j)' = DBPerms(v, j)
    BY <1>1, DBPermsIs DEF RowsUnchanged
  <2>2. cached'[<<v, j>>] = cached[<<v, j>>] /\ <<v, j>> \notin excused.cache
    BY <1>1, <1>2, AccessRows DEF AccessTypeOK
  <2> QED  BY <2>1, <2>2 DEF AccessIInv, CacheCoherent
<1>5. FillFresh'
  BY <1>1, DBPermsIs DEF FillFresh, AccessIInv, RowsUnchanged
<1>6. RefreshOnce'
  BY DEF AccessIInv, RefreshOnce
<1> QED  BY <1>1, <1>2, <1>3, <1>4, <1>5, <1>6, PeopleSame, SameWork, SameDrafts DEF AccessIInv, RowsUnchanged

LEMMA SameCache ==
  ASSUME AccessIInv, UNCHANGED <<user, member, role, cached, fill>>, excused'.cache = excused.cache
  PROVE  CacheCoherent' /\ FillFresh'
<1>1. CacheCoherent'
  BY DBPermsIs DEF AccessIInv, CacheCoherent
<1>2. FillFresh'
  BY DBPermsIs DEF AccessIInv, FillFresh
<1> QED  BY <1>1, <1>2

LEMMA SessionKeeps ==
  ASSUME AccessIInv, NEW u \in Users, NEW s \in SessionRow, s.live + s.rotating <= s.issued,
         session' = [session EXCEPT ![u] = s], spent' \in Nat,
         UNCHANGED <<org, user, member, role, revoked, upgraded, cached, fill, draft, held, key, excused>>
  PROVE  AccessIInv'
<1>1. AccessTypeOK /\ RowsUnchanged
  BY DEF AccessIInv, RowsUnchanged
<1>2. AccessTypeOK'
  BY <1>1 DEF AccessTypeOK
<1>3. RefreshOnce'
  BY <1>1 DEF AccessIInv, RefreshOnce, AccessTypeOK
<1> QED  BY <1>1, <1>2, <1>3, PeopleSame, SameWork, SameDrafts, SameCache DEF AccessIInv, RowsUnchanged

LEMMA SessionStepsKeep ==
  ASSUME AccessIInv, NEW u \in Users,
         Login(u) \/ (\E o \in org : SwitchOrg(u, o)) \/ RefreshToken(u) \/ Rotated(u) \/ Logout(u)
  PROVE  AccessIInv'
<1>1. /\ session \in [Users -> SessionRow] /\ session[u] \in SessionRow /\ spent \in Nat
      /\ session[u].live \in Nat /\ session[u].rotating \in Nat /\ session[u].issued \in Nat
      /\ session[u].live + session[u].rotating <= session[u].issued
  BY DEF AccessIInv, AccessTypeOK, RefreshOnce, SessionRow
<1> DEFINE S(l, r, n) == [live |-> l, rotating |-> r, issued |-> n]
<1>2. \A l, r, n \in Nat : S(l, r, n) \in SessionRow
  BY DEF SessionRow
<1>3. \A l, r, n \in Nat : S(l, r, n).live = l /\ S(l, r, n).rotating = r /\ S(l, r, n).issued = n
  OBVIOUS
<1>4. session[u] = S(session[u].live, session[u].rotating, session[u].issued)
  BY <1>1 DEF SessionRow
<1>5. CASE Login(u) \/ \E o \in org : SwitchOrg(u, o)
  <2>1. PICK s : s = S(session[u].live + 1, session[u].rotating, session[u].issued + 1)
    OBVIOUS
  <2>2. s \in SessionRow /\ s.live + s.rotating <= s.issued
    BY <1>1, <1>2, <1>3, <2>1
  <2>3. session' = [session EXCEPT ![u] = s]
    BY <1>1, <1>4, <1>5, <2>1 DEF Login, SwitchOrg
  <2>4. /\ spent' \in Nat
        /\ UNCHANGED <<org, user, member, role, revoked, upgraded, cached, fill, draft, held, key, excused>>
    <3>1. CASE Login(u)
      BY <1>1, <3>1 DEF Login, Spend
    <3>2. CASE \E o \in org : SwitchOrg(u, o)
      BY <1>1, <3>2 DEF SwitchOrg, Spend
    <3> QED  BY <1>5, <3>1, <3>2
  <2> QED  BY <2>2, <2>3, <2>4, SessionKeeps
<1>6. CASE RefreshToken(u)
  <2>1. PICK s : s = S(session[u].live - 1, session[u].rotating + 1, session[u].issued)
    OBVIOUS
  <2>2. s \in SessionRow /\ s.live + s.rotating <= s.issued
    BY <1>1, <1>2, <1>3, <1>6, <2>1 DEF RefreshToken
  <2>3. session' = [session EXCEPT ![u] = s]
    BY <1>1, <1>4, <1>6, <2>1 DEF RefreshToken
  <2> QED  BY <1>1, <1>6, <2>2, <2>3, SessionKeeps DEF RefreshToken
<1>7. CASE Rotated(u)
  <2>1. PICK l, m : /\ l = IF user[u].st = "live" /\ user[u].active THEN session[u].live + 1 ELSE session[u].live
                    /\ m = session[u].rotating - 1
    OBVIOUS
  <2>2. l \in Nat /\ l <= session[u].live + 1 /\ m \in Nat /\ m + 1 = session[u].rotating
    BY <1>1, <1>7, <2>1 DEF Rotated
  <2>3. PICK s : s = [session[u] EXCEPT !.rotating = m, !.live = l]
    OBVIOUS
  <2>4. s \in SessionRow /\ s.live = l /\ s.rotating = m /\ s.issued = session[u].issued
    BY <1>1, <2>2, <2>3 DEF SessionRow
  <2>5. session' = [session EXCEPT ![u].rotating = m, ![u].live = l]
    BY <1>7, <2>1 DEF Rotated
  <2>6. session' = [session EXCEPT ![u] = s]
    BY <1>1, <2>3, <2>5
  <2>7. s.live + s.rotating <= s.issued
    BY <1>1, <2>2, <2>4
  <2> QED  BY <1>1, <1>7, <2>4, <2>6, <2>7, SessionKeeps DEF Rotated
<1>8. CASE Logout(u)
  <2>1. PICK s : s = S(session[u].live - 1, session[u].rotating, session[u].issued - 1)
    OBVIOUS
  <2>2. s \in SessionRow /\ s.live + s.rotating <= s.issued
    BY <1>1, <1>2, <1>3, <1>8, <2>1 DEF Logout
  <2>3. session' = [session EXCEPT ![u] = s]
    BY <1>1, <1>4, <1>8, <2>1 DEF Logout
  <2> QED  BY <1>1, <1>8, <2>2, <2>3, SessionKeeps DEF Logout
<1> QED  BY <1>5, <1>6, <1>7, <1>8

LEMMA KeysKeep ==
  ASSUME AccessIInv, NEW u \in Users, NEW o \in org,
         CreateAPIKey(u, o) \/ UpdateAPIKey(u, o) \/ DeleteAPIKey(u, o)
  PROVE  AccessIInv'
<1>1. /\ AccessTypeOK /\ RowsUnchanged /\ <<u, o>> \in Slots /\ o \in Orgs
      /\ UNCHANGED <<upgraded, cached, fill, draft, held, session>> /\ spent' \in Nat
  BY AccessRows DEF AccessIInv, AccessTypeOK, RowsUnchanged, CreateAPIKey, UpdateAPIKey, DeleteAPIKey, Spend
<1>2. PICK v \in {"none", "on", "off"} : key' = [key EXCEPT ![<<u, o>>] = v]
  <2>1. CASE CreateAPIKey(u, o)
    BY <2>1 DEF CreateAPIKey
  <2>2. CASE UpdateAPIKey(u, o)
    <3>1. CASE key[<<u, o>>] = "on"
      BY <1>1, <2>2, <3>1 DEF UpdateAPIKey
    <3>2. CASE key[<<u, o>>] # "on"
      BY <1>1, <2>2, <3>2 DEF UpdateAPIKey
    <3> QED  BY <3>1, <3>2
  <2>3. CASE DeleteAPIKey(u, o)
    BY <2>3 DEF DeleteAPIKey
  <2> QED  BY <2>1, <2>2, <2>3
<1>3. /\ excused' \in Excuses /\ excused'.cache = excused.cache /\ excused'.admin = excused.admin
      /\ excused'.dflt = excused.dflt /\ excused'.role = excused.role
      /\ excused.work \subseteq excused'.work
      /\ v # "none" => Entitled(u, o) \/ <<u, o>> \in excused'.work
  <2>1. CASE CreateAPIKey(u, o) \/ UpdateAPIKey(u, o)
    <3>1. PICK w : w = IF Entitled(u, o) THEN excused.work ELSE excused.work \cup {<<u, o>>}
      OBVIOUS
    <3>2. excused' = [excused EXCEPT !.work = w]
      BY <2>1, <3>1 DEF CreateAPIKey, UpdateAPIKey
    <3>3. w \in SUBSET Slots /\ excused.work \subseteq w
      BY <1>1, <3>1 DEF AccessTypeOK, Excuses
    <3>4. Entitled(u, o) \/ <<u, o>> \in w
      BY <3>1
    <3> QED  BY <1>1, <3>2, <3>3, <3>4 DEF AccessTypeOK, Excuses
  <2>2. CASE DeleteAPIKey(u, o)
    <3>1. v = "none"
      BY <1>1, <1>2, <2>2 DEF DeleteAPIKey, AccessTypeOK
    <3> QED  BY <1>1, <2>2, <3>1 DEF DeleteAPIKey, AccessTypeOK
  <2> QED  BY <2>1, <2>2
<1>4. AccessTypeOK'
  BY <1>1, <1>2, <1>3 DEF AccessTypeOK, RowsUnchanged
<1>5. /\ \A x \in Slots : x # <<u, o>> => key'[x] = key[x]
      /\ key'[<<u, o>>] = v
  BY <1>1, <1>2 DEF AccessTypeOK
<1>6. user[u].st # "none"
  <2>1. CASE CreateAPIKey(u, o)
    BY <2>1 DEF CreateAPIKey
  <2>2. CASE UpdateAPIKey(u, o) \/ DeleteAPIKey(u, o)
    <3>1. key[<<u, o>>] # "none"
      BY <2>2 DEF UpdateAPIKey, DeleteAPIKey
    <3> QED  BY <1>1, <3>1 DEF AccessIInv, GoneBelongNowhere
  <2> QED  BY <2>1, <2>2
<1>7. ReleasedHoldsNothing'
  <2> SUFFICES ASSUME NEW x \in Slots, x \in held' \/ key'[x] = "on", x \notin excused'.work
               PROVE  Entitled(x[1], x[2])'
    BY DEF ReleasedHoldsNothing, InUse
  <2>1. Entitled(x[1], x[2])
    <3>1. CASE x = <<u, o>> /\ key'[x] = "on"
      BY <1>3, <1>5, <3>1
    <3>2. CASE x \in held \/ key[x] = "on"
      BY <1>3, <3>2 DEF AccessIInv, ReleasedHoldsNothing, InUse
    <3> QED  BY <1>1, <1>5, <3>1, <3>2
  <2> QED  BY <1>1, <2>1 DEF Entitled, RowsUnchanged
<1>8. PurgeLeavesNothing'
  <2>1. \A p \in Orgs \ org : \A w \in Users : <<w, p>> \notin InUse'
    <3> SUFFICES ASSUME NEW p \in Orgs \ org, NEW w \in Users PROVE <<w, p>> \notin InUse'
      OBVIOUS
    <3>1. <<w, p>> # <<u, o>> /\ <<w, p>> \in Slots /\ <<w, p>> \notin InUse
      BY AccessRows DEF AccessIInv, PurgeLeavesNothing
    <3> QED  BY <1>1, <1>5, <3>1 DEF InUse
  <2> QED  BY <1>1, <2>1 DEF AccessIInv, PurgeLeavesNothing, RowsUnchanged
<1>9. GoneBelongNowhere'
  <2> SUFFICES ASSUME NEW x \in Slots
               PROVE  /\ user[x[1]].st # "live" => member[x].st # "live"
                      /\ user[x[1]].st = "none" => member[x].st = "none" /\ key'[x] = "none" /\ x \notin held
    BY <1>1 DEF GoneBelongNowhere, RowsUnchanged
  <2>1. x = <<u, o>> => x[1] = u
    OBVIOUS
  <2> QED  BY <1>5, <1>6, <2>1 DEF AccessIInv, GoneBelongNowhere
<1>10. RefreshOnce'
  BY <1>1 DEF AccessIInv, RefreshOnce
<1> QED  BY <1>1, <1>3, <1>4, <1>7, <1>8, <1>9, <1>10, PeopleSame, SameDrafts, SameCache DEF AccessIInv, RowsUnchanged

LEMMA AssignKeeps ==
  ASSUME AccessIInv, NEW u \in Users, NEW o \in org, AssignWork(u, o)
  PROVE  AccessIInv'
<1> USE DEF AssignWork
<1>1. /\ AccessTypeOK /\ RowsUnchanged /\ <<u, o>> \in Slots /\ o \in Orgs
      /\ spent' \in Nat
  BY AccessRows DEF AccessIInv, AccessTypeOK, RowsUnchanged, Spend
<1>2. AccessTypeOK'
  BY <1>1 DEF AccessTypeOK
<1>3. ReleasedHoldsNothing'
  <2> SUFFICES ASSUME NEW x \in Slots, x \in held' \/ key'[x] = "on", x \notin excused'.work
               PROVE  Entitled(x[1], x[2])'
    BY DEF ReleasedHoldsNothing, InUse
  <2>1. Entitled(x[1], x[2])
    <3>1. CASE x = <<u, o>>
      BY <3>1 DEF Entitled
    <3>2. CASE x \in held \/ key[x] = "on"
      BY <3>2 DEF AccessIInv, ReleasedHoldsNothing, InUse
    <3> QED  BY <3>1, <3>2
  <2> QED  BY <1>1, <2>1 DEF Entitled, RowsUnchanged
<1>4. PurgeLeavesNothing'
  <2>1. \A p \in Orgs \ org : \A w \in Users : <<w, p>> \notin InUse'
    <3> SUFFICES ASSUME NEW p \in Orgs \ org, NEW w \in Users PROVE <<w, p>> \notin InUse'
      OBVIOUS
    <3>1. <<w, p>> # <<u, o>> /\ <<w, p>> \in Slots /\ <<w, p>> \notin InUse
      BY AccessRows DEF AccessIInv, PurgeLeavesNothing
    <3> QED  BY <1>1, <3>1 DEF InUse
  <2> QED  BY <1>1, <2>1 DEF AccessIInv, PurgeLeavesNothing, RowsUnchanged
<1>5. GoneBelongNowhere'
  <2> SUFFICES ASSUME NEW x \in Slots
               PROVE  /\ user[x[1]].st # "live" => member[x].st # "live"
                      /\ user[x[1]].st = "none" => member[x].st = "none" /\ key[x] = "none" /\ x \notin held'
    BY <1>1 DEF GoneBelongNowhere, RowsUnchanged
  <2>1. x = <<u, o>> => x[1] = u
    OBVIOUS
  <2> QED  BY <2>1 DEF AccessIInv, GoneBelongNowhere
<1>6. RefreshOnce'
  BY <1>1 DEF AccessIInv, RefreshOnce
<1> QED  BY <1>1, <1>2, <1>3, <1>4, <1>5, <1>6, PeopleSame, SameDrafts, SameCache DEF AccessIInv, RowsUnchanged

LEMMA NewDraft ==
  ASSUME AccessIInv, NEW i \in 1..2, NEW d \in UserDraft \cup RoleDraft, DraftFits(d),
         draft' = [draft EXCEPT ![i] = d], spent' \in Nat,
         UNCHANGED <<org, user, member, role, revoked, upgraded, cached, fill, held, key, session, excused>>
  PROVE  AccessIInv'
<1>1. AccessTypeOK /\ RowsUnchanged /\ DraftsFit
  BY DEF AccessIInv, RowsUnchanged
<1>2. AccessTypeOK'
  BY <1>1 DEF AccessTypeOK
<1>3. \A j \in 1..2 : DraftFits(draft'[j])
  BY <1>1 DEF AccessTypeOK, DraftsFit
<1>4. DraftsFit'
  BY <1>3 DEF DraftsFit, DraftFits
<1>5. RefreshOnce'
  BY DEF AccessIInv, RefreshOnce
<1> QED  BY <1>1, <1>2, <1>4, <1>5, PeopleSame, SameWork, SameCache DEF AccessIInv, RowsUnchanged

LEMMA ReadRowKeeps ==
  ASSUME AccessIInv, NEW u \in Users, NEW c \in Changes, Spend, user[u].st = "live",
         c.f = "active" => c.v # user[u].active, ReadRow(u, user[u].home, c)
  PROVE  AccessIInv'
<1>1. PICK i \in 1..2 : draft' = [draft EXCEPT ![i] = [k |-> "user", u |-> u, o |-> user[u].home,
                                     row |-> user[u], change |-> c, raced |-> FALSE]]
  BY DEF ReadRow
<1>2. PICK d : d = [k |-> "user", u |-> u, o |-> user[u].home, row |-> user[u], change |-> c, raced |-> FALSE]
  OBVIOUS
<1>3. user[u] \in UserRow /\ user[u].home \in Orgs /\ OrgOf(user[u].role) = user[u].home /\ spent' \in Nat
  BY DEF AccessIInv, AccessTypeOK, UserRow, HomeRoleStands, Spend
<1>4. d \in UserDraft
  BY <1>2, <1>3 DEF UserDraft
<1>5. DraftFits(d)
  BY <1>2, <1>3 DEF DraftFits
<1> QED  BY <1>1, <1>2, <1>3, <1>4, <1>5, NewDraft DEF ReadRow

LEMMA ReadsKeep ==
  ASSUME AccessIInv, NEW u \in Users,
         \/ \E o \in org, c \in Changes : c.f # "none" /\ UpdateUser(u, o, c)
         \/ UpdateAvailability(u) \/ UpdateCurrentUserSettings(u) \/ ChangePassword(u)
  PROVE  AccessIInv'
<1>1. CASE \E o \in org, c \in Changes : c.f # "none" /\ UpdateUser(u, o, c)
  <2>1. PICK o \in org, c \in Changes : UpdateUser(u, o, c)
    BY <1>1
  <2>2. /\ Spend /\ user[u].st = "live" /\ user[u].home = o /\ ReadRow(u, o, c)
        /\ c.f = "active" => c.v # user[u].active
    BY <2>1 DEF UpdateUser, WorksIn
  <2> QED  BY <2>2, ReadRowKeeps
<1>2. CASE UpdateAvailability(u) \/ UpdateCurrentUserSettings(u) \/ ChangePassword(u)
  <2>1. PICK c : c = [f |-> "none", v |-> FALSE]
    OBVIOUS
  <2>2. c \in Changes /\ c.f = "none"
    BY <2>1 DEF Changes
  <2>3. Spend /\ user[u].st = "live" /\ ReadRow(u, user[u].home, c)
    BY <1>2, <2>1 DEF UpdateAvailability, UpdateCurrentUserSettings, ChangePassword
  <2> QED  BY <2>2, <2>3, ReadRowKeeps
<1> QED  BY <1>1, <1>2

LEMMA UpdateRoleKeeps ==
  ASSUME AccessIInv, NEW r \in Roles, NEW ps \in Asked, NEW b \in BOOLEAN, UpdateRole(r, ps, b)
  PROVE  AccessIInv'
<1>1. PICK i \in 1..2 : draft' = [draft EXCEPT ![i] = [k |-> "role", r |-> r, row |-> role[r], perms |-> ps,
                                                      dflt |-> b, raced |-> FALSE]]
  BY DEF UpdateRole
<1>2. PICK d : d = [k |-> "role", r |-> r, row |-> role[r], perms |-> ps, dflt |-> b, raced |-> FALSE]
  OBVIOUS
<1>3. role[r] \in RoleRow /\ role[r].st = "live" /\ spent' \in Nat /\ ps \in SUBSET Perms
  BY DEF AccessIInv, AccessTypeOK, UpdateRole, Spend, Asked, Perms
<1>4. d \in RoleDraft
  BY <1>2, <1>3 DEF RoleDraft
<1>5. DraftFits(d)
  BY <1>2, <1>3 DEF DraftFits
<1> QED  BY <1>1, <1>2, <1>3, <1>4, <1>5, NewDraft DEF UpdateRole

LEMMA FailuresKeep ==
  ASSUME AccessIInv, NEW i \in 1..2, SaveFails(i) \/ SaveRoleFails(i)
  PROVE  AccessIInv'
<1>1. /\ AccessTypeOK /\ RowsUnchanged /\ DraftsFit /\ Done(i, {})
      /\ UNCHANGED <<org, user, member, role, revoked, upgraded, cached, fill, held, key, session, spent, excused>>
  BY DEF AccessIInv, RowsUnchanged, SaveFails, SaveRoleFails
<1>2. draft' = [j \in 1..2 |-> draft'[j]] /\ \A j \in 1..2 : draft'[j] = Nothing \/ draft'[j] = draft[j]
  BY <1>1 DEF Done, Raced
<1>3. DraftsFit' /\ draft' \in [1..2 -> UserDraft \cup RoleDraft \cup {Nothing}]
  BY <1>1, <1>2, DraftsGo DEF Proceeds
<1>4. AccessTypeOK'
  BY <1>1, <1>3 DEF AccessTypeOK
<1>5. RefreshOnce'
  BY <1>1 DEF AccessIInv, RefreshOnce
<1> QED  BY <1>1, <1>3, <1>4, <1>5, PeopleSame, SameWork, SameCache DEF AccessIInv, RowsUnchanged

-----------------------------------------------------------------------------
(* Who may do what: members                                                   *)

\* what is in every step's bearing on people, roles and work
PeopleInv ==
  /\ HomeRoleStands /\ AdminRemains /\ ReleasedHoldsNothing /\ DefaultsDiffer /\ RevocationStands
  /\ PurgeLeavesNothing /\ MembersFit /\ GoneBelongNowhere /\ RolesStand

\* somebody becomes a member, as who they are or as a new user
LEMMA Joins ==
  ASSUME AccessIInv, NEW u \in Users, NEW o \in org, NEW r \in Roles, OrgOf(r) = o, role[r].st = "live",
         NEW w \in UserRow, w.st = "live", user' = [user EXCEPT ![u] = w],
         w = user[u] \/ (user[u].st # "live" /\ w.home = o /\ w.role = r),
         member[<<u, o>>].st # "live", member' = [member EXCEPT ![<<u, o>>] = LiveMember(r)],
         UNCHANGED <<org, role, revoked, held, key>>,
         excused'.work = excused.work, excused'.admin = excused.admin,
         excused'.dflt = excused.dflt, excused'.role = excused.role
  PROVE  /\ PeopleInv' /\ PermsStand({u})
         /\ user' \in [Users -> UserRow] /\ member' \in [Slots -> MemberRow]
<1>1. PICK z \in Slots : z = <<u, o>> /\ z[1] = u /\ z[2] = o
  BY AccessRows DEF AccessIInv, AccessTypeOK
<1>2. PICK m \in MemberRow : m = LiveMember(r) /\ m.st = "live" /\ m.role = r
  BY DEF LiveMember, MemberRow
<1>3. /\ member' \in [Slots -> MemberRow] /\ member'[z] = m /\ \A x \in Slots : x # z => member'[x] = member[x]
      /\ user' \in [Users -> UserRow] /\ user'[u] = w /\ \A v \in Users : v # u => user'[v] = user[v]
      /\ member[z].st # "live"
  BY <1>1, <1>2 DEF AccessIInv, AccessTypeOK
<1>4. HomeRoleStands'
  <2> SUFFICES ASSUME NEW v \in Users, user'[v].st = "live"
               PROVE  /\ OrgOf(user'[v].role) = user'[v].home
                      /\ role[user'[v].role].st = "live" \/ user'[v].role \in excused.role
    BY DEF HomeRoleStands, OrgOf
  <2> QED  BY <1>3 DEF AccessIInv, HomeRoleStands
<1>5. AdminRemains'
  <2> SUFFICES ASSUME NEW p \in org, p \notin excused.admin PROVE Admins(p)' # {}
    BY DEF AdminRemains
  <2>1. PICK v \in Users : member[<<v, p>>].st = "live" /\ member[<<v, p>>].role = <<p, "admin">>
    BY DEF AccessIInv, AdminRemains, Admins
  <2>2. <<v, p>> \in Slots /\ <<v, p>> # z
    BY <1>3, <2>1, AccessRows DEF AccessIInv, AccessTypeOK
  <2>3. v \in Admins(p)'
    BY <1>3, <2>1, <2>2 DEF Admins
  <2> QED  BY <2>3
<1>6. \A x \in Slots : /\ Entitled(x[1], x[2]) => Entitled(x[1], x[2])'
                       /\ user'[x[1]].st # "live" => member'[x].st # "live"
                       /\ user'[x[1]].st = "none" => member'[x].st = "none" /\ key[x] = "none" /\ x \notin held
  <2> SUFFICES ASSUME NEW x \in Slots
               PROVE  /\ Entitled(x[1], x[2]) => Entitled(x[1], x[2])'
                      /\ user'[x[1]].st # "live" => member'[x].st # "live"
                      /\ user'[x[1]].st = "none" => member'[x].st = "none" /\ key[x] = "none" /\ x \notin held
    OBVIOUS
  <2>1. x[1] \in Users /\ x = <<x[1], x[2]>> /\ (x[1] # u => x # z)
    BY <1>1, AccessRows
  <2>2. CASE x[1] = u
    <3>1. Entitled(x[1], x[2]) => user'[u] = user[u]
      BY <1>3, <2>2 DEF Entitled
    <3>2. member[x].st = "live" => member'[x] = member[x]
      BY <1>3
    <3> QED  BY <1>3, <2>1, <2>2, <3>1, <3>2 DEF Entitled
  <2>3. CASE x[1] # u
    BY <1>3, <2>1, <2>3 DEF Entitled, AccessIInv, GoneBelongNowhere
  <2> QED  BY <2>2, <2>3
<1>7. ReleasedHoldsNothing'
  <2> SUFFICES ASSUME NEW x \in InUse, x \notin excused.work PROVE Entitled(x[1], x[2])'
    BY DEF ReleasedHoldsNothing, InUse
  <2> QED  BY <1>6 DEF AccessIInv, ReleasedHoldsNothing, InUse
<1>8. GoneBelongNowhere'
  BY <1>6 DEF GoneBelongNowhere
<1>9. PurgeLeavesNothing'
  <2> SUFFICES ASSUME NEW p \in Orgs \ org
               PROVE  /\ \A v \in Users : /\ user'[v].st # "none" => user'[v].home # p
                                          /\ member'[<<v, p>>].st = "none" /\ <<v, p>> \notin InUse
                      /\ \A s \in RolesOf(p) : role[s].st = "none"
    BY DEF PurgeLeavesNothing, InUse, RolesOf
  <2>1. \A v \in Users : <<v, p>> \in Slots /\ <<v, p>> # z
    BY <1>1, AccessRows
  <2>2. user[u].st # "none" => user[u].home # p
    BY DEF AccessIInv, PurgeLeavesNothing
  <2>3. w.home # p
    BY <2>2
  <2> QED  BY <1>3, <2>1, <2>3 DEF AccessIInv, PurgeLeavesNothing
<1>10. MembersFit'
  <2> SUFFICES ASSUME NEW x \in Slots
               PROVE  /\ OrgOf(member'[x].role) = x[2]
                      /\ member'[x].st = "live" => role[member'[x].role].st # "none" \/ member'[x].role \in excused.role
    BY DEF MembersFit, OrgOf
  <2> QED  BY <1>1, <1>2, <1>3 DEF AccessIInv, MembersFit
<1>11. PermsStand({u})
  <2>1. \A v \in Users \ {u} : user'[v] = user[v] /\ \A p \in Orgs : member'[<<v, p>>] = member[<<v, p>>]
    BY <1>1, <1>3, AccessRows
  <2> QED  BY <2>1, RowsStand DEF AccessIInv
<1>12. DefaultsDiffer' /\ RevocationStands' /\ RolesStand'
  BY DEF AccessIInv, DefaultsDiffer, RevocationStands, RolesStand
<1> QED  BY <1>3, <1>4, <1>5, <1>7, <1>8, <1>9, <1>10, <1>11, <1>12 DEF PeopleInv

LEMMA AddKeeps ==
  ASSUME AccessIInv, NEW u \in Users, NEW o \in org, NEW r \in Roles, AddOrganizationMember(o, u, r)
  PROVE  AccessIInv'
<1> USE DEF AddOrganizationMember
<1>1. AccessTypeOK /\ user[u] \in UserRow /\ user' = [user EXCEPT ![u] = user[u]] /\ spent' \in Nat
  BY DEF AccessIInv, AccessTypeOK, Spend
<1>2. OrgOf(r) = o /\ role[r].st = "live"
  BY DEF LiveRoles, RolesOf
<1>3. /\ excused' \in Excuses /\ excused'.cache = excused.cache \ ({u} \X Keys) /\ excused'.work = excused.work
      /\ excused'.admin = excused.admin /\ excused'.dflt = excused.dflt /\ excused'.role = excused.role
  BY <1>1 DEF AccessTypeOK, Excuses
<1>4. /\ PeopleInv' /\ PermsStand({u}) /\ member' \in [Slots -> MemberRow]
  BY <1>1, <1>2, <1>3, Joins
<1>5. CacheCoherent' /\ FillFresh'
  BY <1>3, <1>4, CacheEmptied DEF AccessIInv
<1>6. AccessTypeOK'
  BY <1>1, <1>3, <1>4, CacheTypes DEF AccessTypeOK
<1>7. DraftsFit'
  BY SameDrafts DEF AccessIInv
<1>8. RefreshOnce'
  BY DEF AccessIInv, RefreshOnce
<1> QED  BY <1>4, <1>5, <1>6, <1>7, <1>8 DEF AccessIInv, PeopleInv

LEMMA NewUserIs ==
  ASSUME NEW o \in Orgs, NEW r \in Roles, NEW s \in BOOLEAN
  PROVE  /\ NewUser(o, r, s) \in UserRow /\ NewUser(o, r, s).st = "live" /\ NewUser(o, r, s).home = o
         /\ NewUser(o, r, s).role = r /\ NewUser(o, r, s).active = TRUE
<1>1. PICK w : w = NewUser(o, r, s)
  OBVIOUS
<1>2. w = [st |-> "live", home |-> o, role |-> r, active |-> TRUE, super |-> s]
  BY <1>1 DEF NewUser
<1>3. w \in UserRow
  BY <1>2 DEF UserRow
<1>4. w.st = "live" /\ w.home = o /\ w.role = r /\ w.active = TRUE /\ w.super = s
  BY <1>2
<1> QED  BY <1>1, <1>3, <1>4

LEMMA ExcuseUntold ==
  ASSUME AccessTypeOK, NEW us \in SUBSET Users, excused' = [excused EXCEPT !.cache = @ \cup Left(us)]
  PROVE  /\ excused' \in Excuses /\ excused'.cache = excused.cache \cup Left(us) /\ excused'.work = excused.work
         /\ excused'.admin = excused.admin /\ excused'.dflt = excused.dflt /\ excused'.role = excused.role
<1>1. PICK l : l = Left(us)
  OBVIOUS
<1>2. l \in SUBSET (Users \X Keys)
  BY <1>1 DEF Left
<1> QED  BY <1>1, <1>2 DEF AccessTypeOK, Excuses

LEMMA CreateUserKeeps ==
  ASSUME AccessIInv, NEW u \in Users, NEW o \in org, NEW r \in Roles, NEW s \in BOOLEAN, CreateUser(o, u, r, s)
  PROVE  AccessIInv'
<1> USE DEF CreateUser
<1>1. AccessTypeOK /\ spent' \in Nat /\ o \in Orgs
  BY DEF AccessIInv, AccessTypeOK, Spend
<1>2. OrgOf(r) = o /\ role[r].st = "live"
  BY DEF LiveRoles, RolesOf
<1>3. PICK w \in UserRow : w = NewUser(o, r, s) /\ w.st = "live" /\ w.home = o /\ w.role = r
  <2> HIDE DEF CreateUser
  <2>1. NewUser(o, r, s) \in UserRow
    BY <1>1, NewUserIs
  <2>2. NewUser(o, r, s).st = "live" /\ NewUser(o, r, s).home = o /\ NewUser(o, r, s).role = r
    BY <1>1, NewUserIs
  <2> QED  BY <2>1, <2>2
<1>4. /\ excused' \in Excuses /\ excused'.cache = excused.cache \cup Left({u}) /\ excused'.work = excused.work
      /\ excused'.admin = excused.admin /\ excused'.dflt = excused.dflt /\ excused'.role = excused.role
  BY <1>1, ExcuseUntold
<1>5. member[<<u, o>>].st # "live"
  BY <1>1, AccessRows DEF AccessIInv, GoneBelongNowhere
<1>6. /\ PeopleInv' /\ PermsStand({u}) /\ member' \in [Slots -> MemberRow] /\ user' \in [Users -> UserRow]
  BY <1>1, <1>2, <1>3, <1>4, <1>5, Joins
<1>7. CacheCoherent' /\ FillFresh'
  BY <1>4, <1>6, CacheUntold DEF AccessIInv
<1>8. DraftsFit' /\ draft' \in [1..2 -> UserDraft \cup RoleDraft \cup {Nothing}]
  BY <1>1, <1>3, TouchGoes, DraftsGo DEF AccessIInv, AccessTypeOK
<1>9. AccessTypeOK'
  BY <1>1, <1>4, <1>6, <1>8, CacheTypes DEF AccessTypeOK
<1>10. RefreshOnce'
  BY DEF AccessIInv, RefreshOnce
<1> QED  BY <1>6, <1>7, <1>8, <1>9, <1>10 DEF AccessIInv, PeopleInv

LEMMA IssueTypes ==
  ASSUME AccessTypeOK, RefreshOnce, NEW u \in Users,
         session' = [session EXCEPT ![u].live = @ + 1, ![u].issued = @ + 1]
  PROVE  session' \in [Users -> SessionRow] /\ RefreshOnce'
<1>1. /\ session \in [Users -> SessionRow]
      /\ \A v \in Users : /\ session[v].live \in Nat /\ session[v].rotating \in Nat /\ session[v].issued \in Nat
                          /\ session[v].live + session[v].rotating <= session[v].issued
  BY DEF AccessTypeOK, RefreshOnce, SessionRow
<1>2. PICK s : s = [session[u] EXCEPT !.live = session[u].live + 1, !.issued = session[u].issued + 1]
  OBVIOUS
<1>3. /\ s \in SessionRow /\ s.live = session[u].live + 1 /\ s.rotating = session[u].rotating
      /\ s.issued = session[u].issued + 1
  BY <1>1, <1>2 DEF SessionRow
<1>4. session' = [session EXCEPT ![u] = s]
  BY <1>1, <1>2
<1>5. session' \in [Users -> SessionRow]
  BY <1>1, <1>3, <1>4
<1>6. RefreshOnce'
  BY <1>1, <1>3, <1>4 DEF RefreshOnce
<1> QED  BY <1>5, <1>6

LEMMA RegisterKeeps ==
  ASSUME AccessIInv, NEW u \in Users, NEW o \in org, Register(u, o)
  PROVE  AccessIInv'
<1> USE DEF Register
<1>1. AccessTypeOK /\ spent' \in Nat /\ o \in Orgs /\ Untold({u}) /\ Touch({u}) /\ <<u, o>> \in Slots
      /\ excused' = [excused EXCEPT !.cache = @ \cup Left({u})]
      /\ UNCHANGED <<org, role, revoked, upgraded, held, key>>
  BY AccessRows DEF AccessIInv, AccessTypeOK, Spend
<1>2. PICK r \in Roles :
        /\ OrgOf(r) = o /\ role[r].st = "live"
        /\ \/ user[u].st = "none" /\ user' = [user EXCEPT ![u] = NewUser(o, r, FALSE)]
           \/ user[u].st = "live" /\ user[u].active /\ member[<<u, o>>].st = "none" /\ UNCHANGED user
        /\ member' = [member EXCEPT ![<<u, o>>] = LiveMember(r)]
        /\ session' = [session EXCEPT ![u].live = @ + 1, ![u].issued = @ + 1]
  <2>1. <<o, "agent">> \in Roles /\ OrgOf(<<o, "agent">>) = o /\ role[<<o, "agent">>].st = "live"
    <3>1. <<o, "agent">> \in Roles
      BY <1>1, AccessRows DEF RoleNames
    <3>2. OrgOf(<<o, "agent">>) = o /\ IsSystem(<<o, "agent">>)
      BY DEF OrgOf, IsSystem
    <3> QED  BY <3>1, <3>2 DEF AccessIInv, RolesStand
  <2>2. \A r \in DefaultRoles(o) : r \in Roles /\ OrgOf(r) = o /\ role[r].st = "live"
    BY DEF DefaultRoles, LiveRoles, RolesOf
  <2> DEFINE rs == IF DefaultRoles(o) # {} THEN DefaultRoles(o) ELSE {<<o, "agent">>}
  <2>3. \A r \in rs : r \in Roles /\ OrgOf(r) = o /\ role[r].st = "live"
    BY <2>1, <2>2
  <2>4. PICK r \in rs :
        /\ \/ user[u].st = "none" /\ user' = [user EXCEPT ![u] = NewUser(o, r, FALSE)]
           \/ user[u].st = "live" /\ user[u].active /\ member[<<u, o>>].st = "none" /\ UNCHANGED user
        /\ member' = [member EXCEPT ![<<u, o>>] = LiveMember(r)]
        /\ session' = [session EXCEPT ![u].live = @ + 1, ![u].issued = @ + 1]
    OBVIOUS
  <2> HIDE DEF rs
  <2> QED  BY <2>3, <2>4
<1> HIDE DEF Register
<1>3. /\ excused' \in Excuses /\ excused'.cache = excused.cache \cup Left({u}) /\ excused'.work = excused.work
      /\ excused'.admin = excused.admin /\ excused'.dflt = excused.dflt /\ excused'.role = excused.role
  BY <1>1, ExcuseUntold
<1>4. member[<<u, o>>].st # "live"
  BY <1>1, <1>2 DEF AccessIInv, GoneBelongNowhere
<1>5. PICK w \in UserRow : /\ w.st = "live" /\ user' = [user EXCEPT ![u] = w]
                           /\ w = user[u] \/ (user[u].st # "live" /\ w.home = o /\ w.role = r)
  <2>1. CASE user[u].st = "none" /\ user' = [user EXCEPT ![u] = NewUser(o, r, FALSE)]
    <3>1. PICK w : w = NewUser(o, r, FALSE)
      OBVIOUS
    <3>2. w \in UserRow /\ w.st = "live" /\ w.home = o /\ w.role = r
      BY <1>1, <3>1, NewUserIs
    <3> QED  BY <2>1, <3>1, <3>2
  <2>2. CASE user[u].st = "live" /\ UNCHANGED user
    BY <1>1, <2>2 DEF AccessTypeOK
  <2> QED  BY <1>2, <2>1, <2>2
<1>6. /\ PeopleInv' /\ PermsStand({u}) /\ member' \in [Slots -> MemberRow] /\ user' \in [Users -> UserRow]
  BY <1>1, <1>2, <1>3, <1>4, <1>5, Joins
<1>7. CacheCoherent' /\ FillFresh'
  BY <1>1, <1>3, <1>6, CacheUntold DEF AccessIInv
<1>8. DraftsFit' /\ draft' \in [1..2 -> UserDraft \cup RoleDraft \cup {Nothing}]
  BY <1>1, <1>5, TouchGoes, DraftsGo DEF AccessIInv, AccessTypeOK
<1>9. session' \in [Users -> SessionRow] /\ RefreshOnce'
  BY <1>1, <1>2, IssueTypes DEF AccessIInv
<1>10. AccessTypeOK'
  BY <1>1, <1>3, <1>6, <1>8, <1>9, CacheTypes DEF AccessTypeOK
<1> QED  BY <1>6, <1>7, <1>8, <1>9, <1>10 DEF AccessIInv, PeopleInv

LEMMA CallbackKeeps ==
  ASSUME AccessIInv, NEW u \in Users, NEW o \in org, CallbackSSO(u, o)
  PROVE  AccessIInv'
<1>1. AccessTypeOK /\ spent' \in Nat /\ o \in Orgs /\ Untold({u}) /\ Touch({u}) /\ <<u, o>> \in Slots
      /\ excused' = [excused EXCEPT !.cache = @ \cup Left({u})]
      /\ UNCHANGED <<org, role, revoked, upgraded, held, key>>
      /\ session' = [session EXCEPT ![u].live = @ + 1, ![u].issued = @ + 1]
  BY AccessRows DEF AccessIInv, AccessTypeOK, Spend, CallbackSSO
<1>2. /\ excused' \in Excuses /\ excused'.cache = excused.cache \cup Left({u}) /\ excused'.work = excused.work
      /\ excused'.admin = excused.admin /\ excused'.dflt = excused.dflt /\ excused'.role = excused.role
  BY <1>1, ExcuseUntold
<1>3. /\ PeopleInv' /\ PermsStand({u}) /\ member' \in [Slots -> MemberRow] /\ user' \in [Users -> UserRow]
      /\ \A v \in Users \ {u} : user'[v] = user[v]
  <2>1. CASE user[u].st = "none"
    <3>1. PICK r \in Roles : r = <<o, "agent">> /\ OrgOf(r) = o
      BY <1>1, AccessRows DEF RoleNames, OrgOf
    <3>2. /\ role[r].st = "live" /\ user' = [user EXCEPT ![u] = NewUser(o, r, FALSE)]
          /\ member' = [member EXCEPT ![<<u, o>>] = LiveMember(r)]
      BY <2>1, <3>1 DEF CallbackSSO
    <3>3. member[<<u, o>>].st # "live"
      BY <1>1, <2>1 DEF AccessIInv, GoneBelongNowhere
    <3>4. PICK w \in UserRow : w = NewUser(o, r, FALSE) /\ w.st = "live" /\ w.home = o /\ w.role = r
      BY <1>1, NewUserIs
    <3>5. \A v \in Users \ {u} : user'[v] = user[v]
      BY <1>1, <3>2 DEF AccessTypeOK
    <3> QED  BY <1>1, <1>2, <2>1, <3>1, <3>2, <3>3, <3>4, <3>5, Joins
  <2>2. CASE user[u].st # "none"
    <3>1. RowsUnchanged
      BY <1>1, <2>2 DEF CallbackSSO, RowsUnchanged
    <3> QED  BY <1>1, <1>2, <3>1, PeopleSame, SameWork, SamePerms DEF RowsUnchanged, PeopleInv, AccessTypeOK
  <2> QED  BY <2>1, <2>2
<1>4. CacheCoherent' /\ FillFresh'
  BY <1>1, <1>2, <1>3, CacheUntold DEF AccessIInv
<1>5. \A i \in 1..2 : draft[i].k = "user" => draft[i].u \in Users
  BY <1>1, AccessKinds DEF AccessTypeOK, UserDraft
<1>6. DraftsFit' /\ draft' \in [1..2 -> UserDraft \cup RoleDraft \cup {Nothing}]
  BY <1>1, <1>3, <1>5, TouchGoes, DraftsGo DEF AccessIInv
<1>7. session' \in [Users -> SessionRow] /\ RefreshOnce'
  BY <1>1, IssueTypes DEF AccessIInv
<1>8. AccessTypeOK'
  BY <1>1, <1>2, <1>3, <1>6, <1>7, CacheTypes DEF AccessTypeOK
<1> QED  BY <1>3, <1>4, <1>6, <1>7, <1>8 DEF AccessIInv, PeopleInv

\* a member's role changes, or the membership ends
LEMMA MemberKeeps ==
  ASSUME AccessIInv, NEW u \in Users, NEW o \in org, NEW m \in MemberRow,
         member[<<u, o>>].st = "live", member' = [member EXCEPT ![<<u, o>>] = m],
         \/ m.st = "gone" /\ m.role = member[<<u, o>>].role
         \/ m.st = "live" /\ OrgOf(m.role) = o /\ role[m.role].st = "live",
         UNCHANGED <<org, user, role, revoked, upgraded, draft, session>>, spent' \in Nat,
         held' \subseteq held, key' \in [Slots -> {"none", "on", "off"}],
         \A x \in Slots : (key'[x] = "on" => key[x] = "on") /\ (key[x] = "none" => key'[x] = "none"),
         InvalidateUser({u}), excused' \in Excuses, excused'.cache = excused.cache \ ({u} \X Keys),
         excused'.dflt = excused.dflt, excused'.role = excused.role,
         excused'.admin = excused.admin \cup Unguarded(LAMBDA x : x # <<u, o>>),
         \A x \in Slots : (x \in held' \/ key'[x] = "on") /\ (x \in excused.work \/ (x = <<u, o>> /\ m.st = "gone"))
                            => x \in excused'.work
  PROVE  AccessIInv'
<1>1. PICK z \in Slots : z = <<u, o>> /\ z[1] = u /\ z[2] = o
  BY AccessRows DEF AccessIInv, AccessTypeOK
<1>2. AccessTypeOK /\ member' \in [Slots -> MemberRow] /\ member'[z] = m
      /\ \A x \in Slots : x # z => member'[x] = member[x]
  BY <1>1 DEF AccessIInv, AccessTypeOK
<1>3. AccessTypeOK'
  BY <1>2, CacheTypes DEF AccessTypeOK
<1>4. HomeRoleStands'
  BY DEF AccessIInv, HomeRoleStands
<1>5. AdminRemains'
  <2> SUFFICES ASSUME NEW p \in org, p \notin excused'.admin PROVE Admins(p)' # {}
    BY DEF AdminRemains
  <2>1. p \notin excused.admin /\ ~(Admins(p) # {} /\ \A v \in Admins(p) : ~(<<v, p>> # <<u, o>>))
    BY DEF Unguarded
  <2>2. PICK v \in Admins(p) : <<v, p>> # z
    BY <1>1, <2>1 DEF AccessIInv, AdminRemains
  <2>3. <<v, p>> \in Slots /\ v \in Users
    BY <1>2, AccessRows DEF AccessTypeOK, Admins
  <2>4. v \in Admins(p)'
    BY <1>2, <2>2, <2>3 DEF Admins
  <2> QED  BY <2>4
<1>6. ReleasedHoldsNothing'
  <2> SUFFICES ASSUME NEW x \in Slots, x \in held' \/ key'[x] = "on", x \notin excused'.work
               PROVE  Entitled(x[1], x[2])'
    BY DEF ReleasedHoldsNothing, InUse
  <2>1. Entitled(x[1], x[2])
    BY DEF AccessIInv, ReleasedHoldsNothing, InUse
  <2>2. member'[x].st = "live"
    <3>1. x = <<x[1], x[2]>>
      BY AccessRows
    <3>2. CASE x = z
      BY <1>1, <1>2, <3>2
    <3>3. CASE x # z
      BY <1>2, <2>1, <3>1, <3>3 DEF Entitled
    <3> QED  BY <3>2, <3>3
  <2>3. x = <<x[1], x[2]>>
    BY AccessRows
  <2> QED  BY <2>1, <2>2, <2>3 DEF Entitled
<1>7. DefaultsDiffer' /\ RevocationStands' /\ RolesStand' /\ RefreshOnce'
  BY DEF AccessIInv, DefaultsDiffer, RevocationStands, RolesStand, RefreshOnce
<1>8. PurgeLeavesNothing'
  <2> SUFFICES ASSUME NEW p \in Orgs \ org
               PROVE  /\ \A v \in Users : /\ user[v].st # "none" => user[v].home # p
                                          /\ member'[<<v, p>>].st = "none" /\ <<v, p>> \notin InUse'
                      /\ \A s \in RolesOf(p) : role[s].st = "none"
    BY DEF PurgeLeavesNothing, RolesOf
  <2>1. \A v \in Users : <<v, p>> \in Slots /\ <<v, p>> # z
    BY <1>1, AccessRows
  <2>2. \A v \in Users : <<v, p>> \notin InUse' \/ <<v, p>> \in InUse
    BY <2>1 DEF InUse
  <2> QED  BY <1>2, <2>1, <2>2 DEF AccessIInv, PurgeLeavesNothing
<1>9. MembersFit'
  <2> SUFFICES ASSUME NEW x \in Slots
               PROVE  /\ OrgOf(member'[x].role) = x[2]
                      /\ member'[x].st = "live" => role[member'[x].role].st # "none" \/ member'[x].role \in excused.role
    BY DEF MembersFit, OrgOf
  <2> QED  BY <1>1, <1>2 DEF AccessIInv, MembersFit
<1>10. GoneBelongNowhere'
  <2> SUFFICES ASSUME NEW x \in Slots
               PROVE  /\ user[x[1]].st # "live" => member'[x].st # "live"
                      /\ user[x[1]].st = "none" => member'[x].st = "none" /\ key'[x] = "none" /\ x \notin held'
    BY DEF GoneBelongNowhere
  <2>1. user[u].st = "live"
    BY <1>1 DEF AccessIInv, GoneBelongNowhere
  <2> QED  BY <1>1, <1>2, <2>1 DEF AccessIInv, GoneBelongNowhere
<1>11. PermsStand({u})
  <2>1. \A v \in Users \ {u} : user'[v] = user[v] /\ \A p \in Orgs : member'[<<v, p>>] = member[<<v, p>>]
    BY <1>1, <1>2, AccessRows
  <2> QED  BY <2>1, RowsStand DEF AccessIInv
<1>12. CacheCoherent' /\ FillFresh'
  BY <1>11, CacheEmptied DEF AccessIInv
<1>13. DraftsFit'
  BY SameDrafts DEF AccessIInv
<1> QED  BY <1>3, <1>4, <1>5, <1>6, <1>7, <1>8, <1>9, <1>10, <1>12, <1>13 DEF AccessIInv

LEMMA RemoveOrganizationMemberKeeps ==
  ASSUME AccessIInv, NEW u \in Users, NEW o \in org, RemoveOrganizationMember(o, u)
  PROVE  AccessIInv'
<1> USE DEF RemoveOrganizationMember
<1>1. AccessTypeOK /\ <<u, o>> \in Slots /\ spent' \in Nat
  BY AccessRows DEF AccessIInv, AccessTypeOK, Spend
<1>2. PICK m : m = [member[<<u, o>>] EXCEPT !.st = "gone"]
  OBVIOUS
<1>3. m \in MemberRow /\ m.st = "gone" /\ m.role = member[<<u, o>>].role
  BY <1>1, <1>2 DEF AccessTypeOK, MemberRow
<1>4. member' = [member EXCEPT ![<<u, o>>] = m]
  BY <1>1, <1>2 DEF AccessTypeOK
<1>5. PICK s, a : s = Stranded({u}, {o}) /\ a = Unguarded(LAMBDA x : x # <<u, o>>)
  OBVIOUS
<1>6. s \in SUBSET Slots /\ a \in SUBSET Orgs
  BY <1>1, <1>5 DEF Stranded, InUse, Unguarded, AccessTypeOK
<1>7. excused' = [excused EXCEPT !.cache = @ \ ({u} \X Keys), !.work = @ \cup s, !.admin = @ \cup a]
  BY <1>5
<1>8. key' \in [Slots -> {"none", "on", "off"}] /\ held' = held /\ key' = key
  BY <1>1 DEF AccessTypeOK
<1>9. /\ member[<<u, o>>].st = "live" /\ InvalidateUser({u})
       /\ UNCHANGED <<org, user, role, revoked, upgraded, draft, session>>
  OBVIOUS
<1> HIDE DEF RemoveOrganizationMember
<1>10. /\ excused' \in Excuses /\ excused'.cache = excused.cache \ ({u} \X Keys) /\ excused'.work = excused.work \cup s
      /\ excused'.admin = excused.admin \cup a /\ excused'.dflt = excused.dflt /\ excused'.role = excused.role
  BY <1>1, <1>6, <1>7 DEF AccessTypeOK, Excuses
<1>11. \A x \in Slots : (x \in held' \/ key'[x] = "on") /\ (x \in excused.work \/ (x = <<u, o>> /\ m.st = "gone"))
                            => x \in excused'.work
  BY <1>1, <1>5, <1>10, <1>8 DEF Stranded, InUse
<1> QED  BY <1>1, <1>3, <1>4, <1>5, <1>10, <1>11, <1>8, <1>9, MemberKeeps

LEMMA MemberRoleKeeps ==
  ASSUME AccessIInv, NEW u \in Users, NEW o \in org, NEW r \in Roles,
         UpdateOrganizationMemberRole(o, u, r) \/ UpdateMember(u, o, r)
  PROVE  AccessIInv'
<1>1. /\ Spend /\ r \in LiveRoles(o) /\ member[<<u, o>>].st = "live"
      /\ member' = [member EXCEPT ![<<u, o>>].role = r] /\ InvalidateUser({u})
      /\ excused' = [excused EXCEPT !.cache = @ \ ({u} \X Keys),
                                    !.admin = @ \cup Unguarded(LAMBDA x : x # <<u, o>>)]
      /\ UNCHANGED <<org, user, role, revoked, upgraded, draft, held, key, session>>
  BY DEF UpdateOrganizationMemberRole, UpdateMember, WorksIn
<1>2. AccessTypeOK /\ <<u, o>> \in Slots /\ spent' \in Nat
  BY <1>1, AccessRows DEF AccessIInv, AccessTypeOK, Spend
<1>3. PICK m : m = [member[<<u, o>>] EXCEPT !.role = r]
  OBVIOUS
<1>4. m \in MemberRow /\ m.st = "live" /\ m.role = r
  BY <1>1, <1>2, <1>3 DEF AccessTypeOK, MemberRow
<1>5. member' = [member EXCEPT ![<<u, o>>] = m] /\ OrgOf(r) = o /\ role[r].st = "live"
  BY <1>1, <1>2, <1>3 DEF AccessTypeOK, LiveRoles, RolesOf
<1>6. PICK a : a = Unguarded(LAMBDA x : x # <<u, o>>)
  OBVIOUS
<1>7. a \in SUBSET Orgs
  BY <1>2, <1>6 DEF Unguarded, AccessTypeOK
<1>8. excused' = [excused EXCEPT !.cache = @ \ ({u} \X Keys), !.admin = @ \cup a]
  BY <1>1, <1>6
<1>9. /\ excused' \in Excuses /\ excused'.cache = excused.cache \ ({u} \X Keys) /\ excused'.work = excused.work
      /\ excused'.admin = excused.admin \cup a /\ excused'.dflt = excused.dflt /\ excused'.role = excused.role
  BY <1>2, <1>7, <1>8 DEF AccessTypeOK, Excuses
<1>10. key' \in [Slots -> {"none", "on", "off"}] /\ held' = held /\ key' = key
  BY <1>1, <1>2 DEF AccessTypeOK
<1>11. \A x \in Slots : (x \in held' \/ key'[x] = "on") /\ (x \in excused.work \/ (x = <<u, o>> /\ m.st = "gone"))
                            => x \in excused'.work
  BY <1>4, <1>9
<1>12. \A x \in Slots : (key'[x] = "on" => key[x] = "on") /\ (key[x] = "none" => key'[x] = "none")
  BY <1>10
<1>13. /\ member[<<u, o>>].st = "live" /\ InvalidateUser({u}) /\ OrgOf(m.role) = o /\ role[m.role].st = "live"
       /\ UNCHANGED <<org, user, role, revoked, upgraded, draft, session>>
  BY <1>1, <1>4, <1>5
<1> QED  BY <1>2, <1>4, <1>5, <1>6, <1>9, <1>10, <1>11, <1>12, <1>13, MemberKeeps

\* what ReleaseUser leaves
LEMMA ReleaseIs ==
  ASSUME AccessTypeOK, NEW u, NEW o, <<u, o>> \in Slots, ReleaseUser(u, o)
  PROVE  /\ held' = held \ {<<u, o>>} /\ key' \in [Slots -> {"none", "on", "off"}]
         /\ \A x \in Slots : (key'[x] = "on" => key[x] = "on") /\ (key[x] = "none" => key'[x] = "none")
         /\ key'[<<u, o>>] # "on"
         /\ \A x \in Slots : x # <<u, o>> => key'[x] = key[x]
<1>1. PICK z \in Slots : z = <<u, o>>
  OBVIOUS
<1>2. PICK v : v = IF key[z] = "on" THEN "off" ELSE key[z]
  OBVIOUS
<1>3. v \in {"none", "on", "off"} /\ v # "on" /\ (key[z] = "none" => v = "none")
  BY <1>2 DEF AccessTypeOK
<1>4. key' = [key EXCEPT ![z] = v]
  BY <1>1, <1>2 DEF ReleaseUser
<1> QED  BY <1>1, <1>3, <1>4 DEF AccessTypeOK, ReleaseUser

LEMMA RemoveMemberKeeps ==
  ASSUME AccessIInv, NEW u \in Users, NEW o \in org, RemoveMember(o, u)
  PROVE  AccessIInv'
<1> USE DEF RemoveMember
<1>1. AccessTypeOK /\ <<u, o>> \in Slots /\ spent' \in Nat
  BY AccessRows DEF AccessIInv, AccessTypeOK, Spend
<1>2. PICK m : m = [member[<<u, o>>] EXCEPT !.st = "gone"]
  OBVIOUS
<1>3. m \in MemberRow /\ m.st = "gone" /\ m.role = member[<<u, o>>].role
  BY <1>1, <1>2 DEF AccessTypeOK, MemberRow
<1>4. member' = [member EXCEPT ![<<u, o>>] = m]
  BY <1>1, <1>2 DEF AccessTypeOK
<1>5. PICK a : a = Unguarded(LAMBDA x : x # <<u, o>>)
  OBVIOUS
<1>6. a \in SUBSET Orgs
  BY <1>1, <1>5 DEF Unguarded, AccessTypeOK
<1>7. excused' = [excused EXCEPT !.cache = @ \ ({u} \X Keys), !.work = @ \ {<<u, o>>}, !.admin = @ \cup a]
  BY <1>5
<1>8. /\ member[<<u, o>>].st = "live" /\ InvalidateUser({u}) /\ ReleaseUser(u, o)
      /\ UNCHANGED <<org, user, role, revoked, upgraded, draft, session>>
  OBVIOUS
<1> HIDE DEF RemoveMember
<1>9. /\ excused' \in Excuses /\ excused'.cache = excused.cache \ ({u} \X Keys)
      /\ excused'.work = excused.work \ {<<u, o>>}
      /\ excused'.admin = excused.admin \cup a /\ excused'.dflt = excused.dflt /\ excused'.role = excused.role
  BY <1>1, <1>6, <1>7 DEF AccessTypeOK, Excuses
<1>10. /\ held' \subseteq held /\ key' \in [Slots -> {"none", "on", "off"}]
       /\ \A x \in Slots : (key'[x] = "on" => key[x] = "on") /\ (key[x] = "none" => key'[x] = "none")
       /\ <<u, o>> \notin held' /\ key'[<<u, o>>] # "on"
  BY <1>1, <1>8, ReleaseIs
<1>11. \A x \in Slots : (x \in held' \/ key'[x] = "on") /\ (x \in excused.work \/ (x = <<u, o>> /\ m.st = "gone"))
                            => x \in excused'.work
  BY <1>9, <1>10
<1> QED  BY <1>1, <1>3, <1>4, <1>5, <1>8, <1>9, <1>10, <1>11, MemberKeeps

LEMMA DoneGoes ==
  ASSUME AccessTypeOK, NEW i \in 1..2, NEW us, Done(i, us)
  PROVE  /\ draft' = [j \in 1..2 |-> draft'[j]] /\ (\A j \in 1..2 : Proceeds(draft[j], draft'[j])) /\ draft'[i] = Nothing
         /\ \A j \in 1..2 : draft'[j] = draft[j] /\ draft[j].k = "user" /\ ~draft[j].raced => draft[j].u \notin us
<1>1. /\ draft' = [j \in 1..2 |-> draft'[j]] /\ draft'[i] = Nothing
      /\ \A j \in 1..2 : j # i => draft'[j] = Raced(draft[j], us)
      /\ \A j \in 1..2 : draft[j] \in UserDraft \cup RoleDraft \cup {Nothing}
  BY DEF Done, AccessTypeOK
<1>2. ASSUME NEW j \in 1..2
      PROVE  /\ Proceeds(draft[j], draft'[j])
             /\ draft'[j] = draft[j] /\ draft[j].k = "user" /\ ~draft[j].raced => draft[j].u \notin us
  <2>1. CASE j # i /\ draft[j].k = "user" /\ draft[j].u \in us
    <3>1. draft'[j] = [draft[j] EXCEPT !.raced = TRUE] /\ draft[j] \in UserDraft /\ draft[j] # Nothing
      BY <1>1, <2>1, AccessKinds DEF Raced
    <3>2. draft'[j].raced = TRUE
      BY <3>1 DEF UserDraft
    <3> QED  BY <3>1, <3>2 DEF Proceeds
  <2>2. CASE j # i /\ ~(draft[j].k = "user" /\ draft[j].u \in us)
    BY <1>1, <2>2 DEF Raced, Proceeds
  <2>3. CASE j = i
    BY <1>1, <2>3, AccessKinds DEF Proceeds
  <2> QED  BY <2>1, <2>2, <2>3
<1> QED  BY <1>1, <1>2

LEMMA DraftUsers ==
  ASSUME AccessTypeOK
  PROVE  /\ \A i \in 1..2 : draft[i].k = "user" => draft[i] \in UserDraft /\ draft[i].u \in Users
         /\ \A i \in 1..2 : draft[i].k = "role" => draft[i] \in RoleDraft /\ draft[i].r \in Roles
<1>1. \A i \in 1..2 : draft[i] \in UserDraft \cup RoleDraft \cup {Nothing}
  BY DEF AccessTypeOK
<1>2. \A d \in UserDraft : d.u \in Users
  BY DEF UserDraft
<1>3. \A d \in RoleDraft : d.r \in Roles
  BY DEF RoleDraft
<1> QED  BY <1>1, <1>2, <1>3, AccessKinds

LEMMA DeleteUserKeeps ==
  ASSUME AccessIInv, NEW u \in Users, NEW o \in org, DeleteUser(o, u)
  PROVE  AccessIInv'
<1> USE DEF DeleteUser
<1>1. /\ AccessTypeOK /\ <<u, o>> \in Slots /\ o \in Orgs /\ spent' \in Nat
      /\ Untold({u}) /\ ReleaseUser(u, o) /\ Touch({u}) /\ ~LastAdmin(o, u)
      /\ UNCHANGED <<org, role, revoked, upgraded, session>>
  BY AccessRows DEF AccessIInv, AccessTypeOK, Spend
<1>2. PICK w : w = [user[u] EXCEPT !.st = "gone"]
  OBVIOUS
<1>3. w \in UserRow /\ w.st = "gone" /\ w.home = user[u].home
  BY <1>1, <1>2 DEF AccessTypeOK, UserRow
<1>4. user' \in [Users -> UserRow] /\ user'[u] = w /\ \A v \in Users : v # u => user'[v] = user[v]
  <2>1. user' = [user EXCEPT ![u] = w]
    BY <1>1, <1>2 DEF AccessTypeOK
  <2> QED  BY <1>1, <1>3, <2>1 DEF AccessTypeOK
<1>5. /\ \A x \in Slots : IF x[1] = u /\ member[x].st = "live"
                          THEN member'[x] = [member[x] EXCEPT !.st = "gone"] ELSE member'[x] = member[x]
      /\ member' = [x \in Slots |-> member'[x]]
  OBVIOUS
<1>6. PICK s, a : s = Stranded({u}, Orgs \ {o}) /\ a = Unguarded(LAMBDA x : x[1] # u) \ {o}
  OBVIOUS
<1>7. excused' = [excused EXCEPT !.cache = @ \cup Left({u}), !.work = (@ \ {<<u, o>>}) \cup s, !.admin = @ \cup a]
  BY <1>6
<1> HIDE DEF DeleteUser
<1>8. PICK l : l = Left({u})
  OBVIOUS
<1>9. s \in SUBSET Slots /\ a \in SUBSET Orgs /\ l \in SUBSET (Users \X Keys)
  BY <1>1, <1>6, <1>8 DEF Stranded, InUse, Unguarded, AccessTypeOK, Left
<1>10. /\ excused' \in Excuses /\ excused'.cache = excused.cache \cup l
       /\ excused'.work = (excused.work \ {<<u, o>>}) \cup s
       /\ excused'.admin = excused.admin \cup a /\ excused'.dflt = excused.dflt /\ excused'.role = excused.role
  BY <1>1, <1>7, <1>8, <1>9 DEF AccessTypeOK, Excuses
<1>11. /\ member' \in [Slots -> MemberRow]
       /\ \A x \in Slots : /\ member'[x].role = member[x].role
                           /\ x[1] = u => member'[x].st # "live"
                           /\ x[1] # u => member'[x] = member[x]
                           /\ member[x].st = "none" => member'[x].st = "none"
                           /\ member'[x].st = "live" => member[x].st = "live"
  <2> SUFFICES ASSUME NEW x \in Slots
               PROVE  /\ member'[x] \in MemberRow
                      /\ member'[x].role = member[x].role
                      /\ x[1] = u => member'[x].st # "live"
                      /\ x[1] # u => member'[x] = member[x]
                      /\ member[x].st = "none" => member'[x].st = "none"
                      /\ member'[x].st = "live" => member[x].st = "live"
    BY <1>5
  <2>1. member[x] \in MemberRow
    BY <1>1 DEF AccessTypeOK
  <2>2. CASE x[1] = u /\ member[x].st = "live"
    <3>1. member'[x] = [member[x] EXCEPT !.st = "gone"]
      BY <1>5, <2>2
    <3>2. member'[x] \in MemberRow /\ member'[x].st = "gone" /\ member'[x].role = member[x].role
      BY <2>1, <3>1 DEF MemberRow
    <3> QED  BY <2>2, <3>2
  <2>3. CASE ~(x[1] = u /\ member[x].st = "live")
    <3>1. member'[x] = member[x]
      BY <1>5, <2>3
    <3> QED  BY <2>1, <2>3, <3>1
  <2> QED  BY <2>2, <2>3
<1>12. /\ held' = held \ {<<u, o>>} /\ key' \in [Slots -> {"none", "on", "off"}]
       /\ \A x \in Slots : (key'[x] = "on" => key[x] = "on") /\ (key[x] = "none" => key'[x] = "none")
       /\ key'[<<u, o>>] # "on"
  BY <1>1, ReleaseIs
<1>13. DraftsFit' /\ draft' \in [1..2 -> UserDraft \cup RoleDraft \cup {Nothing}]
  BY <1>1, <1>4, TouchGoes, DraftsGo, DraftUsers DEF AccessIInv
<1>14. AccessTypeOK'
  BY <1>1, <1>4, <1>10, <1>11, <1>12, <1>13, CacheTypes DEF AccessTypeOK
<1>15. HomeRoleStands'
  <2> SUFFICES ASSUME NEW v \in Users, user'[v].st = "live"
               PROVE  /\ OrgOf(user'[v].role) = user'[v].home
                      /\ role[user'[v].role].st = "live" \/ user'[v].role \in excused.role
    BY <1>1, <1>10 DEF HomeRoleStands, OrgOf
  <2> QED  BY <1>3, <1>4 DEF AccessIInv, HomeRoleStands
<1>16. AdminRemains'
  <2> SUFFICES ASSUME NEW p \in org, p \notin excused'.admin PROVE Admins(p)' # {}
    BY <1>1 DEF AdminRemains
  <2>1. p \notin excused.admin /\ p \notin a /\ Admins(p) # {}
    BY <1>10 DEF AccessIInv, AdminRemains
  <2>2. \E v \in Admins(p) : v # u
    <3>1. CASE p = o
      <4>1. CASE Admins(o) = {u}
        <5>1. Cardinality(Admins(o)) = 1
          BY <4>1, FS_Singleton
        <5> QED  BY <1>1, <4>1, <5>1 DEF LastAdmin
      <4> QED  BY <2>1, <3>1, <4>1
    <3>2. CASE p # o
      <4>1. p \notin Unguarded(LAMBDA x : x[1] # u)
        BY <1>6, <2>1, <3>2
      <4>2. \E v \in Admins(p) : <<v, p>>[1] # u
        BY <2>1, <4>1 DEF Unguarded
      <4> QED  BY <4>2
    <3> QED  BY <3>1, <3>2
  <2>3. PICK v \in Admins(p) : v # u
    BY <2>2
  <2>4. <<v, p>> \in Slots /\ v \in Users /\ <<v, p>>[1] # u
    BY <1>1, <2>3, AccessRows DEF AccessTypeOK, Admins
  <2>5. v \in Admins(p)'
    BY <1>11, <2>4 DEF Admins
  <2> QED  BY <2>5
<1>17. ReleasedHoldsNothing'
  <2> SUFFICES ASSUME NEW x \in Slots, x \in held' \/ key'[x] = "on", x \notin excused'.work
               PROVE  Entitled(x[1], x[2])'
    BY DEF ReleasedHoldsNothing, InUse
  <2>1. x[1] \in Users /\ x[2] \in Orgs /\ x = <<x[1], x[2]>> /\ x \in InUse
    BY <1>12, AccessRows DEF InUse
  <2>2. x # <<u, o>>
    BY <1>12
  <2>3. x[1] # u
    <3> SUFFICES ASSUME x[1] = u PROVE FALSE
      OBVIOUS
    <3>1. x \in {u} \X (Orgs \ {o})
      BY <2>1, <2>2
    <3> QED  BY <1>6, <1>10, <2>1, <3>1 DEF Stranded
  <2>4. Entitled(x[1], x[2])
    BY <1>10, <2>1, <2>2 DEF AccessIInv, ReleasedHoldsNothing
  <2> QED  BY <1>4, <1>11, <2>1, <2>3, <2>4 DEF Entitled
<1>18. DefaultsDiffer' /\ RevocationStands' /\ RolesStand' /\ RefreshOnce'
  BY <1>1, <1>10 DEF AccessIInv, DefaultsDiffer, RevocationStands, RolesStand, RefreshOnce
<1>19. PurgeLeavesNothing'
  <2> SUFFICES ASSUME NEW p \in Orgs \ org
               PROVE  /\ \A v \in Users : /\ user'[v].st # "none" => user'[v].home # p
                                          /\ member'[<<v, p>>].st = "none" /\ <<v, p>> \notin InUse'
                      /\ \A s1 \in RolesOf(p) : role[s1].st = "none"
    BY <1>1 DEF PurgeLeavesNothing, RolesOf
  <2>1. \A v \in Users : <<v, p>> \in Slots
    BY AccessRows
  <2>2. \A v \in Users : <<v, p>> \notin InUse' \/ <<v, p>> \in InUse
    BY <1>12, <2>1 DEF InUse
  <2>3. user[u].st # "none" => user[u].home # p
    BY DEF AccessIInv, PurgeLeavesNothing
  <2>4. user[u].home # p
    BY <2>3 DEF DeleteUser
  <2> QED  BY <1>3, <1>4, <1>11, <2>1, <2>2, <2>4 DEF AccessIInv, PurgeLeavesNothing
<1>20. MembersFit'
  <2> SUFFICES ASSUME NEW x \in Slots
               PROVE  /\ OrgOf(member'[x].role) = x[2]
                      /\ member'[x].st = "live" => role[member'[x].role].st # "none" \/ member'[x].role \in excused.role
    BY <1>1, <1>10 DEF MembersFit, OrgOf
  <2> QED  BY <1>11 DEF AccessIInv, MembersFit
<1>21. GoneBelongNowhere'
  <2> SUFFICES ASSUME NEW x \in Slots
               PROVE  /\ user'[x[1]].st # "live" => member'[x].st # "live"
                      /\ user'[x[1]].st = "none" => member'[x].st = "none" /\ key'[x] = "none" /\ x \notin held'
    BY DEF GoneBelongNowhere
  <2>1. x[1] \in Users
    BY AccessRows
  <2> QED  BY <1>3, <1>4, <1>11, <1>12, <2>1 DEF AccessIInv, GoneBelongNowhere
<1>22. PermsStand({u})
  <2>1. \A v \in Users \ {u} : user'[v] = user[v] /\ \A p \in Orgs : member'[<<v, p>>] = member[<<v, p>>]
    BY <1>4, <1>11, AccessRows
  <2> QED  BY <1>1, <2>1, RowsStand DEF AccessIInv
<1>23. CacheCoherent' /\ FillFresh'
  BY <1>1, <1>8, <1>10, <1>22, CacheUntold DEF AccessIInv
<1> QED  BY <1>13, <1>14, <1>15, <1>16, <1>17, <1>18, <1>19, <1>20, <1>21, <1>23 DEF AccessIInv

\* the row a request saves
LEMMA WrittenIs ==
  ASSUME NEW d \in UserDraft, DraftFits(d), d.k = "user"
  PROVE  /\ Written(d) \in UserRow /\ Written(d).st = "live" /\ Written(d).home = d.o
         /\ OrgOf(Written(d).role) = d.o
         /\ d.change.f # "active" => Written(d).active = d.row.active
         /\ d.change.f = "active" => Written(d).active = d.change.v
         /\ d.change.f = "role" => Written(d).role = <<d.o, d.change.v>>
<1>1. d.row \in UserRow /\ d.o \in Orgs /\ d.change \in Changes
  BY DEF UserDraft
<1>2. d.row.st = "live" /\ d.o = d.row.home /\ OrgOf(d.row.role) = d.row.home
  BY DEF DraftFits
<1>3. PICK c \in Changes : c = d.change
  BY <1>1
<1>4. /\ c.f \in {"none", "role", "active", "super"}
      /\ c.f = "role" => c.v \in RoleNames
      /\ c.f \in {"active", "super"} => c.v \in BOOLEAN
  BY DEF Changes
<1>5. PICK q \in UserRow : q = d.row
  BY <1>1
<1>6. CASE c.f = "role"
  <2>1. PICK r \in Roles : r = <<d.o, c.v>> /\ OrgOf(r) = d.o
    BY <1>1, <1>4, <1>6, AccessRows DEF OrgOf
  <2>2. Written(d) = [q EXCEPT !.role = r]
    BY <1>3, <1>5, <1>6, <2>1 DEF Written
  <2>3. [q EXCEPT !.role = r] \in UserRow /\ [q EXCEPT !.role = r].st = q.st /\ [q EXCEPT !.role = r].home = q.home
        /\ [q EXCEPT !.role = r].role = r /\ [q EXCEPT !.role = r].active = q.active
    BY DEF UserRow
  <2> QED  BY <1>2, <1>3, <1>5, <1>6, <2>1, <2>2, <2>3
<1>7. CASE c.f = "active"
  <2>1. PICK b \in BOOLEAN : b = c.v
    BY <1>4, <1>7
  <2>2. Written(d) = [q EXCEPT !.active = b]
    BY <1>3, <1>5, <1>7, <2>1 DEF Written
  <2>3. [q EXCEPT !.active = b] \in UserRow /\ [q EXCEPT !.active = b].st = q.st /\ [q EXCEPT !.active = b].home = q.home
        /\ [q EXCEPT !.active = b].role = q.role /\ [q EXCEPT !.active = b].active = b
    BY DEF UserRow
  <2> QED  BY <1>2, <1>3, <1>5, <1>7, <2>1, <2>2, <2>3
<1>8. CASE c.f = "super"
  <2>1. PICK b \in BOOLEAN : b = c.v
    BY <1>4, <1>8
  <2>2. Written(d) = [q EXCEPT !.super = b]
    BY <1>3, <1>5, <1>8, <2>1 DEF Written
  <2>3. [q EXCEPT !.super = b] \in UserRow /\ [q EXCEPT !.super = b].st = q.st /\ [q EXCEPT !.super = b].home = q.home
        /\ [q EXCEPT !.super = b].role = q.role /\ [q EXCEPT !.super = b].active = q.active
    BY DEF UserRow
  <2> QED  BY <1>2, <1>3, <1>5, <1>8, <2>2, <2>3
<1>9. CASE c.f = "none"
  <2>1. Written(d) = q
    BY <1>3, <1>5, <1>9 DEF Written
  <2> QED  BY <1>2, <1>3, <1>5, <1>9, <2>1
<1> QED  BY <1>4, <1>6, <1>7, <1>8, <1>9

LEMMA SaveRowKeeps ==
  ASSUME AccessIInv, NEW i \in 1..2, SaveRow(i)
  PROVE  AccessIInv'
<1>1. AccessTypeOK /\ DraftsFit
  BY DEF AccessIInv
<1>2. PICK d \in UserDraft : d = draft[i] /\ d.k = "user" /\ DraftFits(d)
  BY <1>1, DraftUsers DEF SaveRow, DraftsFit
<1>3. PICK u \in Users, o \in Orgs, c \in Changes : u = d.u /\ o = d.o /\ c = d.change
  BY <1>2 DEF UserDraft
<1>4. PICK w \in UserRow :
        /\ w = Written(d) /\ w.st = "live" /\ w.home = o /\ OrgOf(w.role) = o
        /\ c.f # "active" => w.active = d.row.active
        /\ c.f = "active" => w.active = c.v
        /\ c.f = "role" => w.role = <<o, c.v>>
  BY <1>2, <1>3, WrittenIs
<1>5. /\ user[u].st # "none" /\ o \in org
      /\ user' = [user EXCEPT ![u] = w]
      /\ IF c.f = "role"
         THEN /\ member' = IF member[<<u, o>>].st = "live" THEN [member EXCEPT ![<<u, o>>].role = w.role] ELSE member
              /\ InvalidateUser({u})
         ELSE UNCHANGED member /\ Untold({u})
      /\ IF c.f = "active" /\ ~c.v /\ d.row.active THEN ReleaseUser(u, o) ELSE KeepWork
      /\ Done(i, {u})
      /\ UNCHANGED <<org, role, revoked, upgraded, session, spent>>
  BY <1>2, <1>3, <1>4 DEF SaveRow, DraftFits
<1>6. PICK ca, wo, ad, ro :
        /\ ca = IF c.f = "role" THEN excused.cache \ ({u} \X Keys) ELSE excused.cache \cup Left({u})
        /\ wo = IF c.f = "active" /\ ~c.v THEN (excused.work \ {<<u, o>>}) \cup Stranded({u}, Orgs \ {o})
                ELSE IF d.raced THEN excused.work \cup Stranded({u}, Orgs) ELSE excused.work
        /\ ro = IF role[w.role].st = "live" THEN excused.role ELSE excused.role \cup {w.role}
        /\ ad = IF c.f = "role" THEN excused.admin \cup Unguarded(LAMBDA x : x # <<u, o>> \/ c.v = "admin")
                ELSE excused.admin
  OBVIOUS
<1>7. excused' = [excused EXCEPT !.cache = ca, !.work = wo, !.role = ro, !.admin = ad]
  BY <1>2, <1>3, <1>4, <1>6 DEF SaveRow
<1>8. /\ excused.cache \in SUBSET (Users \X Keys) /\ excused.work \in SUBSET Slots
      /\ excused.role \in SUBSET Roles /\ excused.admin \in SUBSET Orgs /\ w.role \in Roles
  BY <1>1 DEF AccessTypeOK, Excuses, UserRow
<1>9. /\ ca \in SUBSET (Users \X Keys) /\ wo \in SUBSET Slots /\ ro \in SUBSET Roles /\ ad \in SUBSET Orgs
      /\ excused.role \subseteq ro /\ excused.admin \subseteq ad /\ (role[w.role].st = "live" \/ w.role \in ro)
  <2>1. ca \in SUBSET (Users \X Keys)
    BY <1>6, <1>8 DEF Left
  <2>2. wo \in SUBSET Slots
    BY <1>6, <1>8 DEF Stranded, InUse
  <2>3. ad \in SUBSET Orgs /\ excused.admin \subseteq ad
    BY <1>1, <1>6, <1>8 DEF Unguarded, AccessTypeOK
  <2> QED  BY <1>6, <1>8, <2>1, <2>2, <2>3
<1>10. /\ excused' \in Excuses /\ excused'.cache = ca /\ excused'.work = wo
       /\ excused'.admin = ad /\ excused'.dflt = excused.dflt /\ excused'.role = ro
  BY <1>1, <1>7, <1>9 DEF AccessTypeOK, Excuses
<1>11. PICK z \in Slots : z = <<u, o>> /\ z[1] = u /\ z[2] = o
  BY AccessRows
<1>12. user' \in [Users -> UserRow] /\ user'[u] = w /\ \A v \in Users : v # u => user'[v] = user[v]
  BY <1>1, <1>5 DEF AccessTypeOK
<1>13. /\ member' \in [Slots -> MemberRow]
       /\ \A x \in Slots : /\ member'[x].st = member[x].st
                           /\ x # z => member'[x] = member[x]
                           /\ member'[x] = member[x] \/ (x = z /\ c.f = "role" /\ member'[x].role = w.role)
  <2>1. CASE c.f = "role" /\ member[z].st = "live"
    <3>1. PICK m : m = [member[z] EXCEPT !.role = w.role]
      OBVIOUS
    <3>2. m \in MemberRow /\ m.st = member[z].st /\ m.role = w.role
      BY <1>1, <1>8, <3>1 DEF AccessTypeOK, MemberRow
    <3>3. member' = [member EXCEPT ![z] = m]
      BY <1>1, <1>5, <1>11, <2>1, <3>1 DEF AccessTypeOK
    <3> QED  BY <1>1, <2>1, <3>2, <3>3 DEF AccessTypeOK
  <2>2. CASE ~(c.f = "role" /\ member[z].st = "live")
    <3>1. member' = member
      BY <1>5, <1>11, <2>2
    <3> QED  BY <1>1, <3>1 DEF AccessTypeOK
  <2> QED  BY <2>1, <2>2
<1>14. /\ held' \subseteq held /\ key' \in [Slots -> {"none", "on", "off"}]
       /\ \A x \in Slots : (key'[x] = "on" => key[x] = "on") /\ (key[x] = "none" => key'[x] = "none")
       /\ c.f = "active" /\ ~c.v => z \notin held' /\ key'[z] # "on"
  <2>1. c.f = "active" /\ ~c.v => d.row.active
    <3>1. d.row.active \in BOOLEAN /\ (c.f = "active" => c.v \in BOOLEAN)
      BY <1>2 DEF UserDraft, UserRow, Changes
    <3> QED  BY <1>2, <1>3, <3>1 DEF DraftFits
  <2>2. CASE c.f = "active" /\ ~c.v
    BY <1>1, <1>5, <1>11, <2>1, <2>2, ReleaseIs
  <2>3. CASE ~(c.f = "active" /\ ~c.v)
    <3>1. held' = held /\ key' = key
      BY <1>5, <2>3 DEF KeepWork
    <3> QED  BY <1>1, <2>3, <3>1 DEF AccessTypeOK
  <2> QED  BY <2>2, <2>3
<1>15. DraftsFit' /\ draft' \in [1..2 -> UserDraft \cup RoleDraft \cup {Nothing}]
  BY <1>1, <1>5, <1>12, DoneGoes, DraftsGo, DraftUsers
<1>16. /\ cached' \in [Users \X Keys -> Entry \cup {Miss}] /\ fill' \in FillRow \cup {Nothing}
  <2>1. (Untold({u}) \/ InvalidateUser({u})) /\ {u} \in SUBSET Users
    BY <1>5
  <2> QED  BY <1>1, <2>1, CacheTypes
<1>17. AccessTypeOK'
  BY <1>1, <1>5, <1>10, <1>12, <1>13, <1>14, <1>15, <1>16 DEF AccessTypeOK
<1>18. HomeRoleStands'
  <2> SUFFICES ASSUME NEW v \in Users, user'[v].st = "live"
               PROVE  /\ OrgOf(user'[v].role) = user'[v].home
                      /\ role[user'[v].role].st = "live" \/ user'[v].role \in ro
    BY <1>5, <1>10 DEF HomeRoleStands, OrgOf
  <2> QED  BY <1>4, <1>9, <1>12 DEF AccessIInv, HomeRoleStands
<1>19. AdminRemains'
  <2> SUFFICES ASSUME NEW p \in org, p \notin ad PROVE Admins(p)' # {}
    BY <1>5, <1>10 DEF AdminRemains
  <2>1. p \notin excused.admin /\ Admins(p) # {}
    BY <1>9 DEF AccessIInv, AdminRemains
  <2>2. PICK v \in Admins(p) : c.f = "role" => <<v, p>> # <<u, o>> \/ c.v = "admin"
    BY <1>6, <2>1 DEF Unguarded
  <2>3. PICK x \in Slots : x = <<v, p>> /\ v \in Users
    BY <1>1, <2>2, AccessRows DEF AccessTypeOK, Admins
  <2>4. member[x].st = "live" /\ member[x].role = <<p, "admin">>
    BY <2>2, <2>3 DEF Admins
  <2>5. member'[x].st = "live" /\ member'[x].role = <<p, "admin">>
    <3>1. CASE member'[x] = member[x]
      BY <2>4, <3>1
    <3>2. CASE x = z /\ c.f = "role" /\ member'[x].role = w.role
      <4>1. p = o /\ c.v = "admin"
        BY <1>11, <2>2, <2>3, <3>2
      <4> QED  BY <1>4, <1>13, <2>4, <3>2, <4>1
    <3> QED  BY <1>13, <3>1, <3>2
  <2>6. v \in Admins(p)'
    BY <2>3, <2>5 DEF Admins
  <2> QED  BY <2>6
<1>20. ReleasedHoldsNothing'
  <2> SUFFICES ASSUME NEW x \in Slots, x \in held' \/ key'[x] = "on", x \notin wo
               PROVE  Entitled(x[1], x[2])'
    BY <1>10 DEF ReleasedHoldsNothing, InUse
  <2>1. x[1] \in Users /\ x[2] \in Orgs /\ x = <<x[1], x[2]>> /\ x \in InUse
    BY <1>14, AccessRows DEF InUse
  <2>2. CASE c.f = "active" /\ ~c.v /\ x[1] = u
    <3>1. x # z
      BY <1>14, <2>2
    <3>2. x \in {u} \X (Orgs \ {o})
      BY <1>11, <2>1, <2>2, <3>1
    <3> QED  BY <1>6, <2>1, <2>2, <3>2 DEF Stranded
  <2>3. CASE ~(c.f = "active" /\ ~c.v) /\ x[1] = u
    <3>1. x \in {u} \X Orgs
      BY <2>1, <2>3
    <3>2. ~d.raced
      BY <1>6, <2>1, <2>3, <3>1 DEF Stranded
    <3>3. user[u] = d.row
      BY <1>2, <1>3, <3>2 DEF DraftFits
    <3>4. x \notin excused.work
      BY <1>6, <2>3, <3>2
    <3>5. Entitled(x[1], x[2])
      BY <2>1, <3>4 DEF AccessIInv, ReleasedHoldsNothing
    <3>6. w.active
      BY <1>4, <2>3, <3>3, <3>5 DEF Entitled
    <3>7. member'[x].st = "live"
      BY <1>13, <2>1, <3>5 DEF Entitled
    <3> QED  BY <1>4, <1>12, <2>1, <2>3, <3>6, <3>7 DEF Entitled
  <2>4. CASE x[1] # u
    <3>1. x # z /\ x \notin excused.work
      BY <1>6, <1>11, <2>4
    <3>2. Entitled(x[1], x[2])
      BY <2>1, <3>1 DEF AccessIInv, ReleasedHoldsNothing
    <3> QED  BY <1>12, <1>13, <2>1, <2>4, <3>1, <3>2 DEF Entitled
  <2> QED  BY <2>2, <2>3, <2>4
<1>21. DefaultsDiffer' /\ RevocationStands' /\ RolesStand' /\ RefreshOnce'
  BY <1>5, <1>10 DEF AccessIInv, DefaultsDiffer, RevocationStands, RolesStand, RefreshOnce
<1>22. PurgeLeavesNothing'
  <2> SUFFICES ASSUME NEW p \in Orgs \ org
               PROVE  /\ \A v \in Users : /\ user'[v].st # "none" => user'[v].home # p
                                          /\ member'[<<v, p>>].st = "none" /\ <<v, p>> \notin InUse'
                      /\ \A s \in RolesOf(p) : role[s].st = "none"
    BY <1>5 DEF PurgeLeavesNothing, RolesOf
  <2>1. \A v \in Users : <<v, p>> \in Slots
    BY AccessRows
  <2>2. \A v \in Users : <<v, p>> \notin InUse' \/ <<v, p>> \in InUse
    BY <1>14, <2>1 DEF InUse
  <2>3. w.home # p
    BY <1>4, <1>5
  <2> QED  BY <1>12, <1>13, <2>1, <2>2, <2>3 DEF AccessIInv, PurgeLeavesNothing
<1>23. MembersFit'
  <2> SUFFICES ASSUME NEW x \in Slots
               PROVE  /\ OrgOf(member'[x].role) = x[2]
                      /\ member'[x].st = "live" => role[member'[x].role].st # "none" \/ member'[x].role \in ro
    BY <1>5, <1>10 DEF MembersFit, OrgOf
  <2>1. CASE member'[x] = member[x]
    BY <1>9, <2>1 DEF AccessIInv, MembersFit
  <2>2. CASE x = z /\ member'[x].role = w.role
    BY <1>4, <1>9, <1>11, <2>2
  <2> QED  BY <1>13, <2>1, <2>2
<1>24. GoneBelongNowhere'
  <2> SUFFICES ASSUME NEW x \in Slots
               PROVE  /\ user'[x[1]].st # "live" => member'[x].st # "live"
                      /\ user'[x[1]].st = "none" => member'[x].st = "none" /\ key'[x] = "none" /\ x \notin held'
    BY DEF GoneBelongNowhere
  <2>1. x[1] \in Users
    BY AccessRows
  <2> QED  BY <1>4, <1>12, <1>13, <1>14, <2>1 DEF AccessIInv, GoneBelongNowhere
<1>25. PermsStand({u})
  <2>1. \A v \in Users \ {u} : user'[v] = user[v] /\ \A p \in Orgs : member'[<<v, p>>] = member[<<v, p>>]
    BY <1>11, <1>12, <1>13, AccessRows
  <2> QED  BY <1>5, <2>1, RowsStand DEF AccessIInv
<1>26. CacheCoherent' /\ FillFresh'
  <2>1. CASE c.f = "role"
    BY <1>5, <1>6, <1>10, <1>25, <2>1, CacheEmptied DEF AccessIInv
  <2>2. CASE c.f # "role"
    BY <1>5, <1>6, <1>10, <1>25, <2>2, CacheUntold DEF AccessIInv
  <2> QED  BY <2>1, <2>2
<1> QED  BY <1>15, <1>17, <1>18, <1>19, <1>20, <1>21, <1>22, <1>23, <1>24, <1>26 DEF AccessIInv

-----------------------------------------------------------------------------
(* Who may do what: roles                                                     *)

LEMMA CacheStill ==
  ASSUME AccessIInv, PermsStand({}), UNCHANGED <<cached, fill>>, excused'.cache = excused.cache
  PROVE  CacheCoherent' /\ FillFresh'
<1>1. Untold({}) /\ Left({}) = {}
  BY DEF Untold, Overtaken, Left
<1>2. excused'.cache = excused.cache \cup Left({})
  BY <1>1
<1> QED  BY <1>1, <1>2, CacheUntold DEF AccessIInv

\* the roles of one organization change, and none that is in use goes
LEMMA RolesChange ==
  ASSUME AccessIInv, NEW o \in org, UNCHANGED <<org, user, member, held, key>>,
         \A r \in Roles : OrgOf(r) # o => role'[r] = role[r],
         \A r \in Roles : role[r].st # "none" => role'[r].st # "none",
         \A r \in Roles : role[r].st = "live" /\ role'[r].st # "live" => ~IsSystem(r) /\ HomeHolders(r) = {},
         \A r \in Roles : revoked'[r] # revoked[r] => role'[r].st = "live",
         excused'.work = excused.work, excused'.admin = excused.admin, excused'.role = excused.role
  PROVE  /\ HomeRoleStands' /\ AdminRemains' /\ ReleasedHoldsNothing' /\ PurgeLeavesNothing'
         /\ MembersFit' /\ GoneBelongNowhere' /\ RolesStand'
<1>1. HomeRoleStands'
  <2> SUFFICES ASSUME NEW v \in Users, user[v].st = "live"
               PROVE  /\ OrgOf(user[v].role) = user[v].home
                      /\ role'[user[v].role].st = "live" \/ user[v].role \in excused.role
    BY DEF HomeRoleStands, OrgOf
  <2>1. user[v].role \in Roles
    BY DEF AccessIInv, AccessTypeOK, UserRow
  <2>2. v \in HomeHolders(user[v].role)
    BY DEF HomeHolders
  <2> QED  BY <2>1, <2>2 DEF AccessIInv, HomeRoleStands
<1>2. AdminRemains'
  BY DEF AccessIInv, AdminRemains, Admins
<1>3. ReleasedHoldsNothing'
  BY DEF AccessIInv, ReleasedHoldsNothing, InUse, Entitled
<1>4. PurgeLeavesNothing'
  <2>1. \A p \in Orgs \ org : \A r \in RolesOf(p) : role'[r].st = "none"
    BY DEF AccessIInv, PurgeLeavesNothing, RolesOf
  <2> QED  BY <2>1 DEF AccessIInv, PurgeLeavesNothing, InUse, RolesOf
<1>5. MembersFit'
  <2> SUFFICES ASSUME NEW x \in Slots
               PROVE  /\ OrgOf(member[x].role) = x[2]
                      /\ member[x].st = "live" => role'[member[x].role].st # "none" \/ member[x].role \in excused.role
    BY DEF MembersFit, OrgOf
  <2>1. member[x].role \in Roles
    BY DEF AccessIInv, AccessTypeOK, MemberRow
  <2> QED  BY <2>1 DEF AccessIInv, MembersFit
<1>6. GoneBelongNowhere'
  BY DEF AccessIInv, GoneBelongNowhere
<1>7. RolesStand'
  <2> SUFFICES ASSUME NEW r \in Roles
               PROVE  /\ OrgOf(r) \in org /\ IsSystem(r) => role'[r].st = "live"
                      /\ role'[r].st = "none" => revoked'[r] = {}
    BY DEF RolesStand, OrgOf, IsSystem
  <2> QED  BY DEF AccessIInv, RolesStand
<1> QED  BY <1>1, <1>2, <1>3, <1>4, <1>5, <1>6, <1>7

LEMMA CreateRoleKeeps ==
  ASSUME AccessIInv, NEW o \in org, NEW ps \in Asked, NEW b \in BOOLEAN, CreateRole(o, ps, b)
  PROVE  AccessIInv'
<1> USE DEF CreateRole
<1>1. /\ AccessTypeOK /\ o \in Orgs /\ spent' \in Nat /\ TouchRoles(o) /\ ps \in SUBSET Perms
      /\ UNCHANGED <<org, user, member, revoked, upgraded, cached, fill, held, key, session, excused>>
  BY DEF AccessIInv, AccessTypeOK, Spend, Asked, Perms
<1>2. PICK c \in Roles : c = <<o, "custom">> /\ OrgOf(c) = o /\ ~IsSystem(c)
  BY <1>1, AccessRows DEF RoleNames, OrgOf, IsSystem
<1>3. PICK n \in RoleRow : /\ n = [st |-> "live", perms |-> ps, dflt |-> b] /\ n.st = "live" /\ n.perms = ps
                           /\ n.dflt = b
  <2>1. PICK n : n = [st |-> "live", perms |-> ps, dflt |-> b]
    OBVIOUS
  <2>2. n \in RoleRow
    BY <1>1, <2>1 DEF RoleRow
  <2> QED  BY <2>1, <2>2
<1>4. /\ role' = [r \in Roles |-> role'[r]] /\ role[c].st = "none" /\ role'[c] = n
      /\ \A r \in Roles : r # c => role'[r] = IF b /\ r \in DefaultRoles(o) THEN [role[r] EXCEPT !.dflt = FALSE]
                                              ELSE role[r]
  BY <1>2, <1>3
<1> HIDE DEF CreateRole
<1>5. /\ role' \in [Roles -> RoleRow]
      /\ \A r \in Roles : r # c => /\ role'[r].st = role[r].st /\ role'[r].perms = role[r].perms
                                   /\ OrgOf(r) # o => role'[r] = role[r]
                                   /\ ~b => role'[r] = role[r]
                                   /\ role'[r].dflt => role[r].dflt
                                   /\ b /\ OrgOf(r) = o /\ role'[r].st = "live" => role'[r].dflt = FALSE
  <2>1. ASSUME NEW r \in Roles, r # c
        PROVE  /\ role'[r] \in RoleRow
               /\ role'[r].st = role[r].st /\ role'[r].perms = role[r].perms
               /\ OrgOf(r) # o => role'[r] = role[r]
               /\ ~b => role'[r] = role[r]
               /\ role'[r].dflt => role[r].dflt
               /\ b /\ OrgOf(r) = o /\ role'[r].st = "live" => role'[r].dflt = FALSE
    <3>1. role[r] \in RoleRow /\ role[r].dflt \in BOOLEAN
      BY <1>1 DEF AccessTypeOK, RoleRow
    <3>2. CASE b /\ r \in DefaultRoles(o)
      <4>1. role'[r] = [role[r] EXCEPT !.dflt = FALSE]
        BY <1>4, <2>1, <3>2
      <4>2. /\ role'[r] \in RoleRow /\ role'[r].st = role[r].st /\ role'[r].perms = role[r].perms
            /\ role'[r].dflt = FALSE
        BY <3>1, <4>1 DEF RoleRow
      <4>3. OrgOf(r) = o
        BY <3>2 DEF DefaultRoles, LiveRoles, RolesOf
      <4> QED  BY <3>2, <4>2, <4>3
    <3>3. CASE ~(b /\ r \in DefaultRoles(o))
      <4>1. role'[r] = role[r]
        BY <1>4, <2>1, <3>3
      <4>2. b /\ OrgOf(r) = o /\ role[r].st = "live" => role[r].dflt = FALSE
        BY <3>1, <3>3 DEF DefaultRoles, LiveRoles, RolesOf
      <4> QED  BY <3>1, <4>1, <4>2
    <3> QED  BY <3>2, <3>3
  <2> QED  BY <1>4, <2>1
<1>6. /\ HomeRoleStands' /\ AdminRemains' /\ ReleasedHoldsNothing' /\ PurgeLeavesNothing'
      /\ MembersFit' /\ GoneBelongNowhere' /\ RolesStand'
  <2>1. \A r \in Roles : OrgOf(r) # o => role'[r] = role[r]
    BY <1>2, <1>5
  <2>2. \A r \in Roles : role[r].st # "none" => role'[r].st # "none"
    BY <1>4, <1>5
  <2>3. \A r \in Roles : role[r].st = "live" /\ role'[r].st # "live" => ~IsSystem(r) /\ HomeHolders(r) = {}
    BY <1>4, <1>5
  <2> QED  BY <1>1, <2>1, <2>2, <2>3, RolesChange
<1>7. DefaultsDiffer'
  <2> SUFFICES ASSUME NEW r \in Roles, NEW s \in Roles, OrgOf(r) = OrgOf(s), OrgOf(r) \notin excused.dflt,
                      role'[r].st = "live", role'[s].st = "live", role'[r].dflt, role'[s].dflt
               PROVE  r = s
    BY <1>1 DEF DefaultsDiffer, OrgOf
  <2>1. CASE r # c /\ s # c
    BY <1>5, <2>1 DEF AccessIInv, DefaultsDiffer
  <2>2. CASE r = c \/ s = c
    <3>1. OrgOf(r) = o /\ OrgOf(s) = o /\ b
      BY <1>2, <1>3, <1>4, <2>2
    <3> QED  BY <1>5, <2>2, <3>1
  <2> QED  BY <2>1, <2>2
<1>8. RevocationStands'
  <2> SUFFICES ASSUME NEW r \in Roles, ~IsSystem(r) PROVE role'[r].perms \cap revoked[r] = {}
    BY <1>1 DEF RevocationStands, IsSystem
  <2>1. revoked[c] = {}
    BY <1>4 DEF AccessIInv, RolesStand
  <2> QED  BY <1>5, <2>1 DEF AccessIInv, RevocationStands
<1>9. DraftsFit' /\ draft' \in [1..2 -> UserDraft \cup RoleDraft \cup {Nothing}]
  <2>1. \A i \in 1..2 : draft'[i] = draft[i] /\ draft[i].k = "role" /\ ~draft[i].raced =>
                          role'[draft[i].r] = role[draft[i].r]
    BY <1>1, <1>2, <1>5, TouchRolesGoes, DraftUsers
  <2> QED  BY <1>1, <2>1, TouchRolesGoes, DraftsGo DEF AccessIInv
<1>10. AccessTypeOK'
  BY <1>1, <1>5, <1>9 DEF AccessTypeOK
<1>11. PermsStand({})
  <2>1. \A v \in Users \ {}, r \in Roles :
          v \in Holders(r) /\ role[r].st = "live" => role'[r].st = "live" /\ role'[r].perms = role[r].perms
    BY <1>4, <1>5
  <2> QED  BY <1>1, <2>1, RowsStand DEF AccessIInv
<1>12. CacheCoherent' /\ FillFresh' /\ RefreshOnce'
  BY <1>1, <1>11, CacheStill DEF AccessIInv, RefreshOnce
<1> QED  BY <1>6, <1>7, <1>8, <1>9, <1>10, <1>12 DEF AccessIInv

LEMMA DeleteRoleKeeps ==
  ASSUME AccessIInv, NEW c \in Roles, DeleteRole(c)
  PROVE  AccessIInv'
<1> USE DEF DeleteRole
<1>1. /\ AccessTypeOK /\ spent' \in Nat /\ TouchRoles(OrgOf(c)) /\ Untold(Holders(c))
      /\ role[c].st = "live" /\ ~IsSystem(c) /\ HomeHolders(c) = {}
      /\ excused' = [excused EXCEPT !.cache = @ \cup Left(Holders(c))]
      /\ UNCHANGED <<org, user, member, revoked, upgraded, held, key, session>>
  BY DEF AccessIInv, AccessTypeOK, Spend
<1>2. PICK n : n = [role[c] EXCEPT !.st = "gone"]
  OBVIOUS
<1>3. n \in RoleRow /\ n.st = "gone" /\ n.perms = role[c].perms
  BY <1>1, <1>2 DEF AccessTypeOK, RoleRow
<1>4. role' = [role EXCEPT ![c] = n]
  BY <1>1, <1>2 DEF AccessTypeOK
<1> HIDE DEF DeleteRole
<1>5. role' \in [Roles -> RoleRow] /\ role'[c] = n /\ \A r \in Roles : r # c => role'[r] = role[r]
  BY <1>1, <1>3, <1>4 DEF AccessTypeOK
<1>6. PICK o \in org : o = OrgOf(c)
  <2>1. OrgOf(c) \in Orgs /\ c \in RolesOf(OrgOf(c))
    BY AccessRows DEF OrgOf, RolesOf
  <2> QED  BY <1>1, <2>1 DEF AccessIInv, PurgeLeavesNothing
<1>7. Holders(c) \in SUBSET Users
  BY DEF Holders
<1>8. /\ excused' \in Excuses /\ excused'.cache = excused.cache \cup Left(Holders(c)) /\ excused'.work = excused.work
      /\ excused'.admin = excused.admin /\ excused'.dflt = excused.dflt /\ excused'.role = excused.role
  BY <1>1, <1>7, ExcuseUntold
<1>9. /\ HomeRoleStands' /\ AdminRemains' /\ ReleasedHoldsNothing' /\ PurgeLeavesNothing'
      /\ MembersFit' /\ GoneBelongNowhere' /\ RolesStand'
  <2>1. \A r \in Roles : OrgOf(r) # o => role'[r] = role[r]
    BY <1>5, <1>6
  <2>2. \A r \in Roles : role[r].st # "none" => role'[r].st # "none"
    BY <1>3, <1>5
  <2>3. \A r \in Roles : role[r].st = "live" /\ role'[r].st # "live" => ~IsSystem(r) /\ HomeHolders(r) = {}
    BY <1>1, <1>5
  <2> QED  BY <1>1, <1>8, <2>1, <2>2, <2>3, RolesChange
<1>10. DefaultsDiffer'
  <2> SUFFICES ASSUME NEW r \in Roles, NEW s \in Roles, OrgOf(r) = OrgOf(s), OrgOf(r) \notin excused.dflt,
                      role'[r].st = "live", role'[s].st = "live", role'[r].dflt, role'[s].dflt
               PROVE  r = s
    BY <1>8 DEF DefaultsDiffer, OrgOf
  <2> QED  BY <1>3, <1>5 DEF AccessIInv, DefaultsDiffer
<1>11. RevocationStands'
  <2> SUFFICES ASSUME NEW r \in Roles, ~IsSystem(r) PROVE role'[r].perms \cap revoked[r] = {}
    BY <1>1 DEF RevocationStands, IsSystem
  <2> QED  BY <1>3, <1>5 DEF AccessIInv, RevocationStands
<1>12. DraftsFit' /\ draft' \in [1..2 -> UserDraft \cup RoleDraft \cup {Nothing}]
  <2>1. \A i \in 1..2 : draft'[i] = draft[i] /\ draft[i].k = "role" /\ ~draft[i].raced =>
                          role'[draft[i].r] = role[draft[i].r]
    BY <1>1, <1>5, TouchRolesGoes, DraftUsers
  <2> QED  BY <1>1, <2>1, TouchRolesGoes, DraftsGo DEF AccessIInv
<1>13. AccessTypeOK'
  BY <1>1, <1>5, <1>7, <1>8, <1>12, CacheTypes DEF AccessTypeOK
<1>14. PermsStand(Holders(c))
  <2>1. \A v \in Users \ Holders(c), r \in Roles :
          v \in Holders(r) /\ role[r].st = "live" => role'[r].st = "live" /\ role'[r].perms = role[r].perms
    BY <1>5
  <2> QED  BY <1>1, <1>7, <2>1, RowsStand DEF AccessIInv
<1>15. CacheCoherent' /\ FillFresh'
  BY <1>1, <1>7, <1>8, <1>14, CacheUntold DEF AccessIInv
<1>16. RefreshOnce'
  BY <1>1 DEF AccessIInv, RefreshOnce
<1> QED  BY <1>9, <1>10, <1>11, <1>12, <1>13, <1>15, <1>16 DEF AccessIInv

LEMMA SaveRoleKeeps ==
  ASSUME AccessIInv, NEW i \in 1..2, SaveRole(i)
  PROVE  AccessIInv'
<1>1. /\ AccessTypeOK /\ DraftsFit
      /\ UNCHANGED <<org, user, member, upgraded, held, key, session, spent>>
  BY DEF AccessIInv, SaveRole
<1>2. PICK d \in RoleDraft : d = draft[i] /\ d.k = "role" /\ DraftFits(d)
  BY <1>1, DraftUsers DEF SaveRole, DraftsFit
<1>3. PICK c \in Roles, o \in org : c = d.r /\ o = OrgOf(c)
  BY <1>2 DEF SaveRole, RoleDraft
<1>4. PICK ps \in SUBSET Perms, b \in BOOLEAN : ps = d.perms /\ b = d.dflt
  BY <1>2 DEF RoleDraft
<1>5. PICK n : n = [st |-> "live", perms |-> ps, dflt |-> b]
  OBVIOUS
<1>6. n \in RoleRow /\ n.st = "live" /\ n.perms = ps /\ n.dflt = b
  <2>1. n \in RoleRow
    BY <1>5 DEF RoleRow
  <2> QED  BY <1>5, <2>1
<1>7. PICK new \in BOOLEAN : new = (b /\ ~d.row.dflt)
  <2>1. d.row.dflt \in BOOLEAN
    BY DEF RoleDraft, RoleRow
  <2> QED  BY <2>1
<1>8. /\ role' = [Defaulted(c, new) EXCEPT ![c] = n]
      /\ revoked' = [revoked EXCEPT ![c] = (@ \cup (d.row.perms \ ps)) \ ps]
      /\ InvalidateUser(Holders(c))
      /\ excused' = [excused EXCEPT !.cache = @ \ (Holders(c) \X Keys),
                                    !.dflt = IF d.raced THEN @ \cup {o} ELSE @]
      /\ draft' = [j \in 1..2 |-> IF j = i THEN Nothing ELSE RacedRole(draft[j], o)]
  BY <1>2, <1>3, <1>4, <1>5, <1>7 DEF SaveRole, Revocations, InvalidatedBy
<1>9. /\ role' = [r \in Roles |-> role'[r]] /\ role'[c] = n
      /\ \A r \in Roles : r # c => role'[r] = IF new /\ r \in DefaultRoles(o) THEN [role[r] EXCEPT !.dflt = FALSE]
                                              ELSE role[r]
  <2>1. Defaulted(c, new) = [r \in Roles |-> IF new /\ r # c /\ r \in DefaultRoles(o)
                                             THEN [role[r] EXCEPT !.dflt = FALSE] ELSE role[r]]
    BY <1>3 DEF Defaulted
  <2> QED  BY <1>8, <2>1
<1>10. /\ role' \in [Roles -> RoleRow]
       /\ \A r \in Roles : r # c => /\ role'[r].st = role[r].st /\ role'[r].perms = role[r].perms
                                    /\ OrgOf(r) # o => role'[r] = role[r]
                                    /\ ~new => role'[r] = role[r]
                                    /\ role'[r].dflt => role[r].dflt
                                    /\ new /\ OrgOf(r) = o /\ role'[r].st = "live" => role'[r].dflt = FALSE
  <2>1. ASSUME NEW r \in Roles, r # c
        PROVE  /\ role'[r] \in RoleRow
               /\ role'[r].st = role[r].st /\ role'[r].perms = role[r].perms
               /\ OrgOf(r) # o => role'[r] = role[r]
               /\ ~new => role'[r] = role[r]
               /\ role'[r].dflt => role[r].dflt
               /\ new /\ OrgOf(r) = o /\ role'[r].st = "live" => role'[r].dflt = FALSE
    <3>1. role[r] \in RoleRow /\ role[r].dflt \in BOOLEAN
      BY <1>1 DEF AccessTypeOK, RoleRow
    <3>2. CASE new /\ r \in DefaultRoles(o)
      <4>1. role'[r] = [role[r] EXCEPT !.dflt = FALSE]
        BY <1>9, <2>1, <3>2
      <4>2. /\ role'[r] \in RoleRow /\ role'[r].st = role[r].st /\ role'[r].perms = role[r].perms
            /\ role'[r].dflt = FALSE
        BY <3>1, <4>1 DEF RoleRow
      <4>3. OrgOf(r) = o
        BY <3>2 DEF DefaultRoles, LiveRoles, RolesOf
      <4> QED  BY <3>2, <4>2, <4>3
    <3>3. CASE ~(new /\ r \in DefaultRoles(o))
      <4>1. role'[r] = role[r]
        BY <1>9, <2>1, <3>3
      <4>2. new /\ OrgOf(r) = o /\ role[r].st = "live" => role[r].dflt = FALSE
        BY <3>1, <3>3 DEF DefaultRoles, LiveRoles, RolesOf
      <4> QED  BY <3>1, <4>1, <4>2
    <3> QED  BY <3>2, <3>3
  <2> QED  BY <1>6, <1>9, <2>1
<1>11. PICK df : df = IF d.raced THEN excused.dflt \cup {o} ELSE excused.dflt
  OBVIOUS
<1>12. /\ excused' \in Excuses /\ excused'.cache = excused.cache \ (Holders(c) \X Keys) /\ excused'.work = excused.work
       /\ excused'.admin = excused.admin /\ excused'.dflt = df /\ excused'.role = excused.role
  <2>1. df \in SUBSET Orgs
    BY <1>1, <1>11 DEF AccessTypeOK, Excuses
  <2>2. excused' = [excused EXCEPT !.cache = @ \ (Holders(c) \X Keys), !.dflt = df]
    BY <1>8, <1>11
  <2> QED  BY <1>1, <2>1, <2>2 DEF AccessTypeOK, Excuses
<1>13. /\ revoked' \in [Roles -> SUBSET Perms] /\ \A r \in Roles : r # c => revoked'[r] = revoked[r]
       /\ revoked'[c] \cap ps = {}
  <2>1. PICK v : v = (revoked[c] \cup (d.row.perms \ ps)) \ ps
    OBVIOUS
  <2>2. v \in SUBSET Perms /\ v \cap ps = {}
    BY <1>1, <2>1 DEF AccessTypeOK, RoleDraft, RoleRow
  <2>3. revoked' = [revoked EXCEPT ![c] = v]
    BY <1>8, <2>1
  <2> QED  BY <1>1, <2>2, <2>3 DEF AccessTypeOK
<1>14. /\ HomeRoleStands' /\ AdminRemains' /\ ReleasedHoldsNothing' /\ PurgeLeavesNothing'
       /\ MembersFit' /\ GoneBelongNowhere' /\ RolesStand'
  <2>1. \A r \in Roles : OrgOf(r) # o => role'[r] = role[r]
    BY <1>3, <1>10
  <2>2. \A r \in Roles : role[r].st # "none" => role'[r].st # "none"
    BY <1>6, <1>9, <1>10
  <2>3. \A r \in Roles : role[r].st = "live" /\ role'[r].st # "live" => ~IsSystem(r) /\ HomeHolders(r) = {}
    BY <1>6, <1>9, <1>10
  <2>4. \A r \in Roles : revoked'[r] # revoked[r] => role'[r].st = "live"
    BY <1>6, <1>9, <1>13
  <2> QED  BY <1>1, <1>12, <2>1, <2>2, <2>3, <2>4, RolesChange
<1>15. DefaultsDiffer'
  <2> SUFFICES ASSUME NEW r \in Roles, NEW s \in Roles, OrgOf(r) = OrgOf(s), OrgOf(r) \notin df,
                      role'[r].st = "live", role'[s].st = "live", role'[r].dflt, role'[s].dflt
               PROVE  r = s
    BY <1>12 DEF DefaultsDiffer, OrgOf
  <2>1. OrgOf(r) \notin excused.dflt /\ (OrgOf(r) = o => ~d.raced)
    BY <1>11
  <2>2. CASE r # c /\ s # c
    BY <1>10, <2>1, <2>2 DEF AccessIInv, DefaultsDiffer
  <2>3. CASE r = c \/ s = c
    <3>1. OrgOf(r) = o /\ OrgOf(s) = o /\ b /\ ~d.raced
      BY <1>3, <1>6, <1>9, <2>1, <2>3
    <3>2. CASE new
      BY <1>10, <2>3, <3>1, <3>2
    <3>3. CASE ~new
      <4>1. d.row.dflt
        BY <1>7, <3>1, <3>3
      <4>2. role[c].st = "live" /\ role[c].dflt
        BY <1>2, <1>3, <3>1, <4>1 DEF DraftFits
      <4>3. \A x \in Roles \ {c} : role'[x] = role[x]
        BY <1>10, <3>3
      <4>4. role[r].st = "live" /\ role[s].st = "live" /\ role[r].dflt /\ role[s].dflt
        BY <4>2, <4>3
      <4> QED  BY <2>1, <4>4 DEF AccessIInv, DefaultsDiffer
    <3> QED  BY <3>2, <3>3
  <2> QED  BY <2>2, <2>3
<1>16. RevocationStands'
  <2> SUFFICES ASSUME NEW r \in Roles, ~IsSystem(r) PROVE role'[r].perms \cap revoked'[r] = {}
    BY DEF RevocationStands, IsSystem
  <2>1. CASE r = c
    BY <1>6, <1>9, <1>13, <2>1
  <2>2. CASE r # c
    BY <1>10, <1>13, <2>2 DEF AccessIInv, RevocationStands
  <2> QED  BY <2>1, <2>2
<1>17. /\ draft' = [j \in 1..2 |-> draft'[j]] /\ \A j \in 1..2 : Proceeds(draft[j], draft'[j])
       /\ \A j \in 1..2 : draft'[j] = draft[j] /\ draft[j].k = "role" /\ ~draft[j].raced => OrgOf(draft[j].r) # o
  <2>1. draft' = [j \in 1..2 |-> draft'[j]]
    BY <1>8
  <2>2. ASSUME NEW j \in 1..2
        PROVE  /\ Proceeds(draft[j], draft'[j])
               /\ draft'[j] = draft[j] /\ draft[j].k = "role" /\ ~draft[j].raced => OrgOf(draft[j].r) # o
    <3>1. CASE j = i
      BY <1>8, <3>1, AccessKinds DEF Proceeds
    <3>2. CASE j # i /\ draft[j].k = "role" /\ OrgOf(draft[j].r) = o
      <4>1. draft'[j] = [draft[j] EXCEPT !.raced = TRUE] /\ draft[j] \in RoleDraft /\ draft[j] # Nothing
        BY <1>1, <1>8, <3>2, AccessKinds, DraftUsers DEF RacedRole
      <4>2. draft'[j].raced = TRUE
        BY <4>1 DEF RoleDraft
      <4> QED  BY <4>1, <4>2 DEF Proceeds
    <3>3. CASE j # i /\ ~(draft[j].k = "role" /\ OrgOf(draft[j].r) = o)
      BY <1>8, <3>3 DEF RacedRole, Proceeds
    <3> QED  BY <3>1, <3>2, <3>3
  <2> QED  BY <2>1, <2>2
<1>18. DraftsFit' /\ draft' \in [1..2 -> UserDraft \cup RoleDraft \cup {Nothing}]
  <2>1. \A j \in 1..2 : draft'[j] = draft[j] /\ draft[j].k = "role" /\ ~draft[j].raced =>
                          role'[draft[j].r] = role[draft[j].r]
    BY <1>1, <1>3, <1>10, <1>17, DraftUsers
  <2> QED  BY <1>1, <1>17, <2>1, DraftsGo
<1>19. Holders(c) \in SUBSET Users
  BY DEF Holders
<1>20. AccessTypeOK'
  BY <1>1, <1>8, <1>10, <1>12, <1>13, <1>18, <1>19, CacheTypes DEF AccessTypeOK
<1>21. PermsStand(Holders(c))
  <2>1. \A v \in Users \ Holders(c), r \in Roles :
          v \in Holders(r) /\ role[r].st = "live" => role'[r].st = "live" /\ role'[r].perms = role[r].perms
    BY <1>10
  <2> QED  BY <1>1, <1>19, <2>1, RowsStand DEF AccessIInv
<1>22. CacheCoherent' /\ FillFresh'
  BY <1>1, <1>8, <1>12, <1>19, <1>21, CacheEmptied DEF AccessIInv
<1>23. RefreshOnce'
  BY <1>1 DEF AccessIInv, RefreshOnce
<1> QED  BY <1>14, <1>15, <1>16, <1>18, <1>20, <1>22, <1>23 DEF AccessIInv

-----------------------------------------------------------------------------
(* Who may do what: organizations                                             *)

LEMMA SystemPermsAre == \A n \in RoleNames : SystemPerms(n) \in SUBSET Perms
BY DEF RoleNames, SystemPerms, Perms

LEMMA CreateOrganizationKeeps ==
  ASSUME AccessIInv, NEW a \in Users, NEW o \in Orgs, CreateOrganization(a, o)
  PROVE  AccessIInv'
<1> USE DEF CreateOrganization
<1>1. /\ AccessTypeOK /\ spent' \in Nat /\ o \notin org /\ Unnamed(o) /\ user[a].st = "live" /\ Untold({a})
      /\ org' = org \cup {o}
      /\ UNCHANGED <<user, revoked, upgraded, draft, held, key, session>>
  BY DEF AccessIInv, AccessTypeOK, Spend
<1>2. PICK z \in Slots : z = <<a, o>> /\ z[1] = a /\ z[2] = o
  BY AccessRows
<1>3. PICK t \in Roles : t = <<o, "admin">> /\ OrgOf(t) = o /\ IsSystem(t)
  BY AccessRows DEF RoleNames, OrgOf, IsSystem
<1>4. PICK m \in MemberRow : m = LiveMember(t) /\ m.st = "live" /\ m.role = t
  <2>1. PICK m : m = LiveMember(t)
    OBVIOUS
  <2>2. m = [st |-> "live", role |-> t]
    BY <2>1 DEF LiveMember
  <2>3. m \in MemberRow /\ m.st = "live" /\ m.role = t
    BY <2>2 DEF MemberRow
  <2> QED  BY <2>1, <2>3
<1>5. member' = [member EXCEPT ![z] = m]
  BY <1>2, <1>3, <1>4
<1>6. /\ member' \in [Slots -> MemberRow] /\ member'[z] = m /\ \A x \in Slots : x # z => member'[x] = member[x]
  BY <1>1, <1>5 DEF AccessTypeOK
<1>7. /\ excused' \in Excuses /\ excused'.cache = excused.cache \cup Left({a}) /\ excused'.work = excused.work
      /\ excused'.admin = excused.admin /\ excused'.dflt = excused.dflt /\ excused'.role = excused.role
  BY <1>1, ExcuseUntold
<1>8. /\ role' = [r \in Roles |-> role'[r]]
      /\ \A r \in Roles : IF OrgOf(r) = o /\ IsSystem(r)
                          THEN role'[r] = [st |-> "live", perms |-> SystemPerms(r[2]), dflt |-> r[2] = "agent"]
                          ELSE role'[r] = role[r]
  OBVIOUS
<1> HIDE DEF CreateOrganization
<1>9. /\ role' \in [Roles -> RoleRow]
      /\ \A r \in Roles : /\ OrgOf(r) # o \/ ~IsSystem(r) => role'[r] = role[r]
                          /\ OrgOf(r) = o /\ IsSystem(r) => /\ role'[r].st = "live"
                                                            /\ role'[r].dflt => r = <<o, "agent">>
  <2>1. ASSUME NEW r \in Roles
        PROVE  /\ role'[r] \in RoleRow
               /\ OrgOf(r) # o \/ ~IsSystem(r) => role'[r] = role[r]
               /\ OrgOf(r) = o /\ IsSystem(r) => /\ role'[r].st = "live"
                                                 /\ role'[r].dflt => r = <<o, "agent">>
    <3>1. r[2] \in RoleNames /\ r = <<r[1], r[2]>> /\ role[r] \in RoleRow
      BY <1>1, AccessRows DEF AccessTypeOK
    <3>2. CASE OrgOf(r) = o /\ IsSystem(r)
      <4>1. PICK ps \in SUBSET Perms, b \in BOOLEAN : ps = SystemPerms(r[2]) /\ b = (r[2] = "agent")
        BY <3>1, SystemPermsAre
      <4>2. role'[r] = [st |-> "live", perms |-> ps, dflt |-> b]
        BY <1>8, <3>2, <4>1
      <4>3. role'[r] \in RoleRow
        BY <4>2 DEF RoleRow
      <4>4. role'[r].st = "live" /\ role'[r].dflt = b
        BY <4>2
      <4>5. b => r = <<o, "agent">>
        BY <3>1, <3>2, <4>1 DEF OrgOf
      <4> QED  BY <3>2, <4>3, <4>4, <4>5
    <3>3. CASE ~(OrgOf(r) = o /\ IsSystem(r))
      BY <1>8, <3>1, <3>3
    <3> QED  BY <3>2, <3>3
  <2> QED  BY <1>8, <2>1
<1>10. \A r \in Roles : OrgOf(r) = o => role[r].st = "none"
  BY <1>1 DEF AccessIInv, PurgeLeavesNothing, RolesOf
<1>11. \A r \in Roles : role[r].st # "none" => role'[r] = role[r]
  BY <1>9, <1>10
<1>12. HomeRoleStands'
  <2> SUFFICES ASSUME NEW v \in Users, user[v].st = "live"
               PROVE  /\ OrgOf(user[v].role) = user[v].home
                      /\ role'[user[v].role].st = "live" \/ user[v].role \in excused.role
    BY <1>1, <1>7 DEF HomeRoleStands, OrgOf
  <2>1. user[v].role \in Roles
    BY <1>1 DEF AccessTypeOK, UserRow
  <2> QED  BY <1>11, <2>1 DEF AccessIInv, HomeRoleStands
<1>13. AdminRemains'
  <2> SUFFICES ASSUME NEW p \in org \cup {o}, p \notin excused.admin PROVE Admins(p)' # {}
    BY <1>1, <1>7 DEF AdminRemains
  <2>1. CASE p = o
    BY <1>2, <1>3, <1>4, <1>6, <2>1 DEF Admins
  <2>2. CASE p # o
    <3>1. PICK v \in Admins(p) : TRUE
      BY <2>2 DEF AccessIInv, AdminRemains
    <3>2. <<v, p>> \in Slots /\ v \in Users /\ <<v, p>> # z
      BY <1>1, <1>2, <2>2, <3>1, AccessRows DEF AccessTypeOK, Admins
    <3> QED  BY <1>6, <3>1, <3>2 DEF Admins
  <2> QED  BY <2>1, <2>2
<1>14. ReleasedHoldsNothing'
  <2> SUFFICES ASSUME NEW x \in Slots, x \in held \/ key[x] = "on", x \notin excused.work
               PROVE  Entitled(x[1], x[2])'
    BY <1>1, <1>7 DEF ReleasedHoldsNothing, InUse
  <2>1. x \in InUse /\ x = <<x[1], x[2]>> /\ x[1] \in Users
    BY AccessRows DEF InUse
  <2>2. x # z
    BY <1>1, <1>2, <2>1 DEF AccessIInv, PurgeLeavesNothing
  <2>3. Entitled(x[1], x[2])
    BY <2>1 DEF AccessIInv, ReleasedHoldsNothing
  <2> QED  BY <1>1, <1>6, <2>1, <2>2, <2>3 DEF Entitled
<1>15. DefaultsDiffer'
  <2> SUFFICES ASSUME NEW r \in Roles, NEW s \in Roles, OrgOf(r) = OrgOf(s), OrgOf(r) \notin excused.dflt,
                      role'[r].st = "live", role'[s].st = "live", role'[r].dflt, role'[s].dflt
               PROVE  r = s
    BY <1>7 DEF DefaultsDiffer, OrgOf
  <2>1. CASE OrgOf(r) = o
    BY <1>9, <1>10, <2>1
  <2>2. CASE OrgOf(r) # o
    BY <1>9, <2>2 DEF AccessIInv, DefaultsDiffer
  <2> QED  BY <2>1, <2>2
<1>16. RevocationStands'
  <2> SUFFICES ASSUME NEW r \in Roles, ~IsSystem(r) PROVE role'[r].perms \cap revoked[r] = {}
    BY <1>1 DEF RevocationStands, IsSystem
  <2> QED  BY <1>9 DEF AccessIInv, RevocationStands
<1>17. PurgeLeavesNothing'
  <2> SUFFICES ASSUME NEW p \in Orgs \ org, p # o
               PROVE  /\ \A v \in Users : /\ user[v].st # "none" => user[v].home # p
                                          /\ member'[<<v, p>>].st = "none" /\ <<v, p>> \notin InUse
                      /\ \A r \in RolesOf(p) : role'[r].st = "none"
    BY <1>1 DEF PurgeLeavesNothing, RolesOf, InUse
  <2>1. \A v \in Users : <<v, p>> \in Slots /\ <<v, p>> # z
    BY <1>2, AccessRows
  <2>2. \A r \in RolesOf(p) : r \in Roles /\ OrgOf(r) # o
    BY DEF RolesOf
  <2> QED  BY <1>6, <1>9, <2>1, <2>2 DEF AccessIInv, PurgeLeavesNothing
<1>18. MembersFit'
  <2> SUFFICES ASSUME NEW x \in Slots
               PROVE  /\ OrgOf(member'[x].role) = x[2]
                      /\ member'[x].st = "live" => role'[member'[x].role].st # "none" \/ member'[x].role \in excused.role
    BY <1>7 DEF MembersFit, OrgOf
  <2>1. CASE x = z
    BY <1>2, <1>3, <1>4, <1>6, <1>9, <2>1
  <2>2. CASE x # z
    <3>1. member'[x] = member[x] /\ member[x].role \in Roles
      BY <1>1, <1>6, <2>2 DEF AccessTypeOK, MemberRow
    <3> QED  BY <1>11, <3>1 DEF AccessIInv, MembersFit
  <2> QED  BY <2>1, <2>2
<1>19. GoneBelongNowhere'
  <2> SUFFICES ASSUME NEW x \in Slots
               PROVE  /\ user[x[1]].st # "live" => member'[x].st # "live"
                      /\ user[x[1]].st = "none" => member'[x].st = "none" /\ key[x] = "none" /\ x \notin held
    BY <1>1 DEF GoneBelongNowhere
  <2> QED  BY <1>1, <1>2, <1>6 DEF AccessIInv, GoneBelongNowhere
<1>20. RolesStand'
  <2> SUFFICES ASSUME NEW r \in Roles
               PROVE  /\ OrgOf(r) \in org \cup {o} /\ IsSystem(r) => role'[r].st = "live"
                      /\ role'[r].st = "none" => revoked[r] = {}
    BY <1>1 DEF RolesStand, OrgOf, IsSystem
  <2> QED  BY <1>9, <1>10 DEF AccessIInv, RolesStand
<1>21. DraftsFit' /\ draft' \in [1..2 -> UserDraft \cup RoleDraft \cup {Nothing}]
  <2>1. /\ draft' = [i \in 1..2 |-> draft'[i]] /\ \A i \in 1..2 : Proceeds(draft[i], draft'[i])
    BY <1>1 DEF AccessTypeOK, Proceeds
  <2>2. \A i \in 1..2 : draft[i].k = "role" => OrgOf(draft[i].r) # o /\ role'[draft[i].r] = role[draft[i].r]
    BY <1>1, <1>9, DraftUsers DEF Unnamed
  <2> QED  BY <1>1, <2>1, <2>2, DraftsGo DEF AccessIInv
<1>22. AccessTypeOK'
  BY <1>1, <1>6, <1>7, <1>9, <1>21, CacheTypes DEF AccessTypeOK
<1>23. PermsStand({a})
  <2>1. \A v \in Users \ {a} : user'[v] = user[v] /\ \A p \in Orgs : member'[<<v, p>>] = member[<<v, p>>]
    BY <1>1, <1>2, <1>6, AccessRows
  <2>2. \A v \in Users \ {a}, r \in Roles :
          v \in Holders(r) /\ role[r].st = "live" => role'[r].st = "live" /\ role'[r].perms = role[r].perms
    BY <1>11
  <2> QED  BY <1>1, <2>1, <2>2, RowsStand DEF AccessIInv
<1>24. CacheCoherent' /\ FillFresh'
  BY <1>1, <1>7, <1>23, CacheUntold DEF AccessIInv
<1>25. RefreshOnce'
  BY <1>1 DEF AccessIInv, RefreshOnce
<1> QED  BY <1>12, <1>13, <1>14, <1>15, <1>16, <1>17, <1>18, <1>19, <1>20, <1>21, <1>22, <1>24, <1>25 DEF AccessIInv

\* what an upgrade makes of a role
LEMMA UpgradedPerms ==
  ASSUME AccessTypeOK, NEW r \in Roles
  PROVE  /\ ToppedUp(r) \in SUBSET Perms /\ Implied(r) \in SUBSET Perms
         /\ ~IsSystem(r) => /\ ToppedUp(r) = role[r].perms
                            /\ Implied(r) = role[r].perms
                               \/ (Implied(r) = role[r].perms \cup {"new"} /\ "new" \notin revoked[r])
<1>1. role[r].perms \in SUBSET Perms /\ r[2] \in RoleNames /\ "new" \in Perms
  BY AccessRows DEF AccessTypeOK, RoleRow, Perms
<1>2. FixedPerms(r) \in SUBSET Perms /\ (~IsSystem(r) => FixedPerms(r) = role[r].perms)
  BY <1>1, SystemPermsAre DEF FixedPerms
<1>3. ToppedUp(r) \in SUBSET Perms /\ (~IsSystem(r) => ToppedUp(r) = role[r].perms)
  BY <1>2 DEF ToppedUp, IsSystem
<1> QED  BY <1>1, <1>3 DEF Implied

LEMMA RunMigrationKeeps ==
  ASSUME AccessIInv, RunMigration
  PROVE  AccessIInv'
<1>1. PICK blocked \in BOOLEAN : blocked = \E u \in WithoutMembership : member[<<u, user[u].home>>].st = "gone"
  OBVIOUS
<1>2. PICK ps : ps = [r \in Roles |-> IF blocked THEN ToppedUp(r) ELSE Implied(r)]
  OBVIOUS
<1>3. PICK us : us = {u \in Users : \E r \in Roles : role'[r] # role[r] /\ u \in Holders(r)}
                     \cup (IF blocked THEN {} ELSE WithoutMembership)
  OBVIOUS
<1>4. /\ upgraded' = TRUE
      /\ role' = [r \in Roles |-> IF role[r].st # "live" THEN role[r] ELSE [role[r] EXCEPT !.perms = ps[r]]]
      /\ member' = IF blocked THEN member
                   ELSE [x \in Slots |-> IF x[1] \in WithoutMembership /\ x[2] = user[x[1]].home
                                         THEN LiveMember(user[x[1]].role) ELSE member[x]]
      /\ Untold(us)
      /\ excused' = [excused EXCEPT !.cache = @ \cup Left(us)]
      /\ spent' = spent + 1 /\ UNCHANGED <<org, user, revoked, draft, held, key, session>>
  <2>1. PICK after : after = [r \in Roles |-> IF role[r].st # "live" THEN role[r]
                                ELSE [role[r] EXCEPT !.perms = IF blocked THEN ToppedUp(r) ELSE Implied(r)]]
    OBVIOUS
  <2>2. /\ role' = after /\ upgraded' = TRUE
        /\ member' = IF blocked THEN member
                     ELSE [x \in Slots |-> IF x[1] \in WithoutMembership /\ x[2] = user[x[1]].home
                                           THEN LiveMember(user[x[1]].role) ELSE member[x]]
        /\ spent' = spent + 1 /\ UNCHANGED <<org, user, revoked, draft, held, key, session>>
    BY <1>1, <2>1 DEF RunMigration, Spend
  <2>3. /\ Untold({u \in Users : \E r \in Roles : after[r] # role[r] /\ u \in Holders(r)}
                  \cup (IF blocked THEN {} ELSE WithoutMembership))
        /\ excused' = [excused EXCEPT !.cache = @ \cup Left({u \in Users : \E r \in Roles : after[r] # role[r] /\ u \in Holders(r)}
                  \cup (IF blocked THEN {} ELSE WithoutMembership))]
    BY <1>1, <2>1 DEF RunMigration
  <2>4. us = {u \in Users : \E r \in Roles : after[r] # role[r] /\ u \in Holders(r)}
             \cup (IF blocked THEN {} ELSE WithoutMembership)
    BY <1>3, <2>2
  <2>5. after = [r \in Roles |-> IF role[r].st # "live" THEN role[r] ELSE [role[r] EXCEPT !.perms = ps[r]]]
    BY <1>2, <2>1
  <2> QED  BY <2>2, <2>3, <2>4, <2>5
<1>5. /\ AccessTypeOK /\ spent' \in Nat /\ upgraded' \in BOOLEAN
      /\ UNCHANGED <<org, user, revoked, draft, held, key, session>>
  BY <1>4 DEF AccessIInv, AccessTypeOK
<1>6. /\ WithoutMembership \subseteq Users /\ us \in SUBSET Users
      /\ \A u \in WithoutMembership : user[u].st = "live" /\ member[<<u, user[u].home>>].st # "live"
  BY <1>3 DEF WithoutMembership
<1>7. /\ role' \in [Roles -> RoleRow]
      /\ \A r \in Roles : role'[r].st = role[r].st /\ role'[r].dflt = role[r].dflt
      /\ \A r \in Roles : ~IsSystem(r) => role'[r].perms = role[r].perms
                            \/ (role'[r].perms = role[r].perms \cup {"new"} /\ "new" \notin revoked[r])
  <2>1. ASSUME NEW r \in Roles
        PROVE  /\ role'[r] \in RoleRow /\ role'[r].st = role[r].st /\ role'[r].dflt = role[r].dflt
               /\ ~IsSystem(r) => role'[r].perms = role[r].perms
                            \/ (role'[r].perms = role[r].perms \cup {"new"} /\ "new" \notin revoked[r])
    <3>1. role[r] \in RoleRow
      BY <1>5 DEF AccessTypeOK
    <3>2. PICK q \in SUBSET Perms : /\ q = ps[r]
                                    /\ ~IsSystem(r) => q = role[r].perms
                                         \/ (q = role[r].perms \cup {"new"} /\ "new" \notin revoked[r])
      BY <1>2, <1>5, UpgradedPerms
    <3>3. CASE role[r].st = "live"
      <4>1. role'[r] = [role[r] EXCEPT !.perms = q]
        BY <1>4, <3>2, <3>3
      <4>2. role'[r] \in RoleRow /\ role'[r].st = role[r].st /\ role'[r].dflt = role[r].dflt /\ role'[r].perms = q
        BY <3>1, <4>1 DEF RoleRow
      <4> QED  BY <3>2, <4>2
    <3>4. CASE role[r].st # "live"
      BY <1>4, <3>1, <3>4
    <3> QED  BY <3>3, <3>4
  <2>2. role' = [r \in Roles |-> role'[r]]
    BY <1>4
  <2> QED  BY <2>1, <2>2
<1>8. /\ member' \in [Slots -> MemberRow]
      /\ \A x \in Slots :
           \/ member'[x] = member[x]
           \/ /\ member'[x].st = "live" /\ member[x].st # "live" /\ member'[x].role = user[x[1]].role
              /\ x[2] = user[x[1]].home /\ user[x[1]].st = "live" /\ x[1] \in us
  <2>1. CASE blocked
    BY <1>4, <1>5, <2>1 DEF AccessTypeOK
  <2>2. CASE ~blocked
    <3>1. ASSUME NEW x \in Slots
          PROVE  /\ member'[x] \in MemberRow
                 /\ \/ member'[x] = member[x]
                    \/ /\ member'[x].st = "live" /\ member[x].st # "live" /\ member'[x].role = user[x[1]].role
                       /\ x[2] = user[x[1]].home /\ user[x[1]].st = "live" /\ x[1] \in us
      <4>1. x[1] \in Users /\ x = <<x[1], x[2]>> /\ member[x] \in MemberRow
        BY <1>5, AccessRows DEF AccessTypeOK
      <4>2. CASE x[1] \in WithoutMembership /\ x[2] = user[x[1]].home
        <5>1. PICK t \in Roles : t = user[x[1]].role
          BY <1>5, <4>1 DEF AccessTypeOK, UserRow
        <5>2. PICK m : m = LiveMember(t)
          OBVIOUS
        <5>3. m \in MemberRow /\ m.st = "live" /\ m.role = t
          BY <5>2 DEF LiveMember, MemberRow
        <5>4. member'[x] = m
          BY <1>4, <2>2, <4>2, <5>1, <5>2
        <5>5. x[1] \in us /\ user[x[1]].st = "live" /\ member[x].st # "live"
          BY <1>3, <1>6, <2>2, <4>1, <4>2
        <5> QED  BY <4>2, <5>1, <5>3, <5>4, <5>5
      <4>3. CASE ~(x[1] \in WithoutMembership /\ x[2] = user[x[1]].home)
        BY <1>4, <2>2, <4>1, <4>3
      <4> QED  BY <4>2, <4>3
    <3>2. member' = [x \in Slots |-> member'[x]]
      BY <1>4, <2>2
    <3> QED  BY <3>1, <3>2
  <2> QED  BY <2>1, <2>2
<1>9. \A x \in Slots : member[x].st = "live" => member'[x] = member[x]
  BY <1>8
<1>10. /\ excused' \in Excuses /\ excused'.cache = excused.cache \cup Left(us) /\ excused'.work = excused.work
       /\ excused'.admin = excused.admin /\ excused'.dflt = excused.dflt /\ excused'.role = excused.role
  BY <1>4, <1>5, <1>6, ExcuseUntold
<1>11. HomeRoleStands'
  <2> SUFFICES ASSUME NEW v \in Users, user[v].st = "live"
               PROVE  /\ OrgOf(user[v].role) = user[v].home
                      /\ role'[user[v].role].st = "live" \/ user[v].role \in excused.role
    BY <1>5, <1>10 DEF HomeRoleStands, OrgOf
  <2>1. user[v].role \in Roles
    BY <1>5 DEF AccessTypeOK, UserRow
  <2> QED  BY <1>7, <2>1 DEF AccessIInv, HomeRoleStands
<1>12. AdminRemains'
  <2> SUFFICES ASSUME NEW p \in org, p \notin excused.admin PROVE Admins(p)' # {}
    BY <1>5, <1>10 DEF AdminRemains
  <2>1. PICK v \in Admins(p) : TRUE
    BY DEF AccessIInv, AdminRemains
  <2>2. <<v, p>> \in Slots /\ v \in Users
    BY <1>5, <2>1, AccessRows DEF AccessTypeOK, Admins
  <2> QED  BY <1>9, <2>1, <2>2 DEF Admins
<1>13. ReleasedHoldsNothing'
  <2> SUFFICES ASSUME NEW x \in Slots, x \in held \/ key[x] = "on", x \notin excused.work
               PROVE  Entitled(x[1], x[2])'
    BY <1>5, <1>10 DEF ReleasedHoldsNothing, InUse
  <2>1. x \in InUse /\ x = <<x[1], x[2]>>
    BY AccessRows DEF InUse
  <2>2. Entitled(x[1], x[2])
    BY <2>1 DEF AccessIInv, ReleasedHoldsNothing
  <2> QED  BY <1>4, <1>9, <2>1, <2>2 DEF Entitled
<1>14. DefaultsDiffer'
  <2> SUFFICES ASSUME NEW r \in Roles, NEW s \in Roles, OrgOf(r) = OrgOf(s), OrgOf(r) \notin excused.dflt,
                      role'[r].st = "live", role'[s].st = "live", role'[r].dflt, role'[s].dflt
               PROVE  r = s
    BY <1>10 DEF DefaultsDiffer, OrgOf
  <2> QED  BY <1>7 DEF AccessIInv, DefaultsDiffer
<1>15. RevocationStands'
  <2> SUFFICES ASSUME NEW r \in Roles, ~IsSystem(r) PROVE role'[r].perms \cap revoked[r] = {}
    BY <1>5 DEF RevocationStands, IsSystem
  <2> QED  BY <1>7 DEF AccessIInv, RevocationStands
<1>16. PurgeLeavesNothing'
  <2> SUFFICES ASSUME NEW p \in Orgs \ org
               PROVE  /\ \A v \in Users : /\ user[v].st # "none" => user[v].home # p
                                          /\ member'[<<v, p>>].st = "none" /\ <<v, p>> \notin InUse
                      /\ \A r \in RolesOf(p) : role'[r].st = "none"
    BY <1>5 DEF PurgeLeavesNothing, RolesOf, InUse
  <2>1. \A v \in Users : <<v, p>> \in Slots /\ <<v, p>>[1] = v /\ <<v, p>>[2] = p
    BY AccessRows
  <2>2. \A r \in RolesOf(p) : r \in Roles
    BY DEF RolesOf
  <2>3. /\ \A v \in Users : /\ user[v].st # "none" => user[v].home # p
                            /\ member[<<v, p>>].st = "none" /\ <<v, p>> \notin InUse
        /\ \A r \in RolesOf(p) : role[r].st = "none"
    BY DEF AccessIInv, PurgeLeavesNothing
  <2>4. \A v \in Users : member'[<<v, p>>] = member[<<v, p>>]
    BY <1>8, <2>1, <2>3
  <2> QED  BY <1>7, <2>2, <2>3, <2>4
<1>17. MembersFit'
  <2> SUFFICES ASSUME NEW x \in Slots
               PROVE  /\ OrgOf(member'[x].role) = x[2]
                      /\ member'[x].st = "live" => role'[member'[x].role].st # "none" \/ member'[x].role \in excused.role
    BY <1>10 DEF MembersFit, OrgOf
  <2>1. x[1] \in Users /\ user[x[1]].role \in Roles /\ member[x].role \in Roles
    BY <1>5, AccessRows DEF AccessTypeOK, MemberRow, UserRow
  <2>2. CASE member'[x] = member[x]
    BY <1>7, <2>1, <2>2 DEF AccessIInv, MembersFit
  <2>3. CASE member'[x] # member[x]
    BY <1>7, <1>8, <2>1, <2>3 DEF AccessIInv, HomeRoleStands
  <2> QED  BY <2>2, <2>3
<1>18. GoneBelongNowhere'
  <2> SUFFICES ASSUME NEW x \in Slots
               PROVE  /\ user[x[1]].st # "live" => member'[x].st # "live"
                      /\ user[x[1]].st = "none" => member'[x].st = "none" /\ key[x] = "none" /\ x \notin held
    BY <1>5 DEF GoneBelongNowhere
  <2> QED  BY <1>8 DEF AccessIInv, GoneBelongNowhere
<1>19. RolesStand'
  <2> SUFFICES ASSUME NEW r \in Roles
               PROVE  /\ OrgOf(r) \in org /\ IsSystem(r) => role'[r].st = "live"
                      /\ role'[r].st = "none" => revoked[r] = {}
    BY <1>5 DEF RolesStand, OrgOf, IsSystem
  <2> QED  BY <1>7 DEF AccessIInv, RolesStand
<1>20. DraftsFit' /\ draft' \in [1..2 -> UserDraft \cup RoleDraft \cup {Nothing}]
  BY <1>5, <1>7, SameDrafts
<1>21. AccessTypeOK'
  BY <1>4, <1>5, <1>6, <1>7, <1>8, <1>10, <1>20, CacheTypes DEF AccessTypeOK
<1>22. PermsStand(us)
  <2>1. \A v \in Users \ us : user'[v] = user[v] /\ \A p \in Orgs : member'[<<v, p>>] = member[<<v, p>>]
    BY <1>5, <1>8, AccessRows
  <2>2. \A v \in Users \ us, r \in Roles : v \in Holders(r) => role'[r] = role[r]
    BY <1>3
  <2>3. \A v \in Users \ us, r \in Roles :
          v \in Holders(r) /\ role[r].st = "live" => role'[r].st = "live" /\ role'[r].perms = role[r].perms
    BY <2>2
  <2> QED  BY <1>5, <1>6, <2>1, <2>3, RowsStand DEF AccessIInv
<1>23. CacheCoherent' /\ FillFresh'
  BY <1>4, <1>5, <1>6, <1>10, <1>22, CacheUntold DEF AccessIInv
<1>24. RefreshOnce'
  BY <1>5 DEF AccessIInv, RefreshOnce
<1> QED  BY <1>11, <1>12, <1>13, <1>14, <1>15, <1>16, <1>17, <1>18, <1>19, <1>20, <1>21, <1>23, <1>24 DEF AccessIInv

\* where a purge leaves somebody: where they were, at a keeper's, or nowhere
LEMMA RehomedIs ==
  ASSUME AccessIInv, NEW o \in org, NEW u \in Users
  PROVE  /\ Rehomed(u, o) \in UserRow
         /\ \/ Rehomed(u, o) = user[u] /\ (user[u].st = "none" \/ user[u].home # o)
            \/ \E p \in org \ {o} :
                 /\ member[<<u, p>>].st = "live" /\ Rehomed(u, o).st = user[u].st /\ user[u].st = "live"
                 /\ Rehomed(u, o).home = p /\ Rehomed(u, o).role = member[<<u, p>>].role
                 /\ Rehomed(u, o).active = user[u].active
            \/ user[u].st # "none" /\ Rehomed(u, o).st = "none" /\ Keeper(u, o) = {}
<1>1. AccessTypeOK /\ user[u] \in UserRow
  BY DEF AccessIInv, AccessTypeOK
<1>2. CASE user[u].st = "none" \/ user[u].home # o
  BY <1>1, <1>2 DEF Rehomed
<1>3. CASE ~(user[u].st = "none" \/ user[u].home # o) /\ Keeper(u, o) # {}
  <2>1. PICK p : p = CHOOSE x \in Keeper(u, o) : TRUE
    OBVIOUS
  <2>2. p \in Keeper(u, o)
    BY <1>3, <2>1
  <2>3. p \in org \ {o} /\ p \in Orgs /\ member[<<u, p>>].st = "live"
    BY <1>1, <2>2 DEF Keeper, AccessTypeOK
  <2>4. PICK t \in Roles : t = member[<<u, p>>].role
    BY <1>1, <2>3, AccessRows DEF AccessTypeOK, MemberRow
  <2>5. PICK w : w = [user[u] EXCEPT !.home = p, !.role = t]
    OBVIOUS
  <2>6. w \in UserRow /\ w.st = user[u].st /\ w.home = p /\ w.role = t /\ w.active = user[u].active
    BY <1>1, <2>3, <2>5 DEF UserRow
  <2>7. Rehomed(u, o) = w
    BY <1>3, <2>1, <2>4, <2>5 DEF Rehomed
  <2>8. user[u].st = "live"
    <3>1. PICK z \in Slots : z = <<u, p>> /\ z[1] = u
      BY <2>3, AccessRows
    <3> QED  BY <2>3, <3>1 DEF AccessIInv, GoneBelongNowhere
  <2> QED  BY <2>3, <2>4, <2>6, <2>7, <2>8
<1>4. CASE ~(user[u].st = "none" \/ user[u].home # o) /\ Keeper(u, o) = {}
  <2>1. PICK w : w = [user[u] EXCEPT !.st = "none"]
    OBVIOUS
  <2>2. w \in UserRow /\ w.st = "none"
    BY <1>1, <2>1 DEF UserRow
  <2>3. Rehomed(u, o) = w
    BY <1>4, <2>1 DEF Rehomed
  <2> QED  BY <1>4, <2>2, <2>3
<1> QED  BY <1>2, <1>3, <1>4

LEMMA PurgeKeeps ==
  ASSUME AccessIInv, NEW o \in org, Purge(o)
  PROVE  AccessIInv'
<1>1. /\ AccessTypeOK /\ o \in Orgs /\ spent' \in Nat /\ org' = org \ {o} /\ Untold(Users) /\ Touch(Users)
      /\ UNCHANGED <<upgraded, session>>
      /\ \A u \in Users : user[u].st # "none" /\ Rehomed(u, o).st = "none" => ~HeldElsewhere(u, o)
  BY DEF AccessIInv, AccessTypeOK, Purge, Spend
<1>2. /\ user' = [u \in Users |-> Rehomed(u, o)]
      /\ role' = [r \in Roles |-> IF OrgOf(r) = o THEN [st |-> "none", perms |-> {}, dflt |-> FALSE] ELSE role[r]]
      /\ revoked' = [r \in Roles |-> IF OrgOf(r) = o THEN {} ELSE revoked[r]]
  BY DEF Purge
<1>3. /\ member' = [x \in Slots |-> Cleared(x, o)]
      /\ held' = {x \in held : x[2] # o}
      /\ key' = [x \in Slots |-> IF x[2] = o THEN "none" ELSE key[x]]
  BY DEF Purge
<1>4. PICK l, g : l = Left(Users) /\ g = {r \in Roles : role[r].st = "gone"}
  OBVIOUS
<1>5. /\ excused' \in Excuses /\ excused'.cache = excused.cache \cup l /\ excused'.work = excused.work
      /\ excused'.admin = excused.admin /\ excused'.dflt = excused.dflt /\ excused'.role = excused.role \cup g
  <2>1. excused' = [excused EXCEPT !.cache = @ \cup l, !.role = @ \cup g]
    BY <1>4 DEF Purge
  <2>2. l \in SUBSET (Users \X Keys) /\ g \in SUBSET Roles
    BY <1>4 DEF Left
  <2> QED  BY <1>1, <2>1, <2>2 DEF AccessTypeOK, Excuses
<1>6. /\ user' \in [Users -> UserRow]
      /\ \A u \in Users :
           \/ user'[u] = user[u] /\ (user[u].st = "none" \/ user[u].home # o)
           \/ \E p \in org \ {o} :
                /\ member[<<u, p>>].st = "live" /\ user'[u].st = user[u].st /\ user[u].st = "live"
                /\ user'[u].home = p /\ user'[u].role = member[<<u, p>>].role
                /\ user'[u].active = user[u].active
           \/ user[u].st # "none" /\ user'[u].st = "none" /\ Keeper(u, o) = {} /\ ~HeldElsewhere(u, o)
  <2>1. \A u \in Users : user'[u] = Rehomed(u, o)
    BY <1>2
  <2>2. \A u \in Users : user'[u] \in UserRow
    BY <2>1, RehomedIs
  <2>3. ASSUME NEW u \in Users
        PROVE  \/ user'[u] = user[u] /\ (user[u].st = "none" \/ user[u].home # o)
               \/ \E p \in org \ {o} :
                    /\ member[<<u, p>>].st = "live" /\ user'[u].st = user[u].st /\ user[u].st = "live"
                    /\ user'[u].home = p /\ user'[u].role = member[<<u, p>>].role
                    /\ user'[u].active = user[u].active
               \/ user[u].st # "none" /\ user'[u].st = "none" /\ Keeper(u, o) = {} /\ ~HeldElsewhere(u, o)
    BY <1>1, <2>1, RehomedIs
  <2> QED  BY <1>2, <2>2, <2>3
<1>7. /\ role' \in [Roles -> RoleRow] /\ revoked' \in [Roles -> SUBSET Perms]
      /\ \A r \in Roles : /\ OrgOf(r) # o => role'[r] = role[r] /\ revoked'[r] = revoked[r]
                          /\ OrgOf(r) = o => role'[r].st = "none" /\ role'[r].perms = {} /\ revoked'[r] = {}
  <2>1. PICK n : n = [st |-> "none", perms |-> {}, dflt |-> FALSE]
    OBVIOUS
  <2>2. n \in RoleRow /\ n.st = "none" /\ n.perms = {}
    BY <2>1 DEF RoleRow
  <2>3. role' = [r \in Roles |-> IF OrgOf(r) = o THEN n ELSE role[r]]
    BY <1>2, <2>1
  <2> QED  BY <1>1, <1>2, <2>2, <2>3 DEF AccessTypeOK
<1>8. /\ member' \in [Slots -> MemberRow]
      /\ \A x \in Slots : /\ x[2] # o => member'[x] = member[x]
                          /\ x[2] = o => member'[x].st = "none" /\ OrgOf(member'[x].role) = o
  <2>1. PICK t \in Roles : t = <<o, "agent">> /\ OrgOf(t) = o
    BY <1>1, AccessRows DEF RoleNames, OrgOf
  <2>2. PICK n : n = [st |-> "none", role |-> t]
    OBVIOUS
  <2>3. n \in MemberRow /\ n.st = "none" /\ n.role = t
    BY <2>2 DEF MemberRow
  <2>4. member' = [x \in Slots |-> IF x[2] = o THEN n ELSE member[x]]
    BY <1>3, <2>1, <2>2 DEF Cleared
  <2> QED  BY <1>1, <2>1, <2>3, <2>4 DEF AccessTypeOK
<1>9. /\ held' \subseteq Slots /\ key' \in [Slots -> {"none", "on", "off"}]
      /\ \A x \in Slots : /\ x[2] # o => key'[x] = key[x]
                          /\ x[2] = o => key'[x] = "none" /\ x \notin held'
      /\ held' \subseteq held
  BY <1>1, <1>3 DEF AccessTypeOK
<1>10. \A x \in Slots : member[x].st = "live" => x[2] \in org
  BY AccessRows DEF AccessIInv, PurgeLeavesNothing
<1>11. \A u \in Users, p \in org \ {o} : member[<<u, p>>].st = "live" => Keeper(u, o) # {}
  BY DEF Keeper
<1>12. HomeRoleStands'
  <2> SUFFICES ASSUME NEW v \in Users, user'[v].st = "live"
               PROVE  /\ OrgOf(user'[v].role) = user'[v].home
                      /\ role'[user'[v].role].st = "live" \/ user'[v].role \in excused.role \cup g
    BY <1>5 DEF HomeRoleStands, OrgOf
  <2>1. CASE user'[v] = user[v] /\ user[v].home # o
    <3>1. user[v].role \in Roles /\ OrgOf(user[v].role) = user[v].home
      BY <1>1, <2>1 DEF AccessTypeOK, UserRow, AccessIInv, HomeRoleStands
    <3> QED  BY <1>7, <2>1, <3>1 DEF AccessIInv, HomeRoleStands
  <2>2. CASE \E p \in org \ {o} : /\ member[<<v, p>>].st = "live" /\ user'[v].home = p
                                  /\ user'[v].role = member[<<v, p>>].role
    <3>1. PICK p \in org \ {o} : /\ member[<<v, p>>].st = "live" /\ user'[v].home = p
                                 /\ user'[v].role = member[<<v, p>>].role
      BY <2>2
    <3>2. PICK z \in Slots : z = <<v, p>> /\ z[2] = p
      BY <1>1, <3>1, AccessRows DEF AccessTypeOK
    <3>3. PICK t \in Roles : t = member[z].role /\ OrgOf(t) = p
      BY <1>1, <3>2 DEF AccessTypeOK, MemberRow, AccessIInv, MembersFit
    <3>4. role'[t] = role[t] /\ (role[t].st # "none" \/ t \in excused.role) /\ role[t].st \in {"none", "live", "gone"}
      BY <1>1, <1>7, <3>1, <3>2, <3>3 DEF AccessTypeOK, RoleRow, AccessIInv, MembersFit
    <3> QED  BY <1>4, <3>1, <3>2, <3>3, <3>4
  <2> QED  BY <1>6, <2>1, <2>2
<1>13. AdminRemains'
  <2> SUFFICES ASSUME NEW p \in org \ {o}, p \notin excused.admin PROVE Admins(p)' # {}
    BY <1>1, <1>5 DEF AdminRemains
  <2>1. PICK v \in Admins(p) : TRUE
    BY DEF AccessIInv, AdminRemains
  <2>2. <<v, p>> \in Slots /\ v \in Users /\ <<v, p>>[2] # o
    BY <1>1, <2>1, AccessRows DEF AccessTypeOK, Admins
  <2> QED  BY <1>8, <2>1, <2>2 DEF Admins
<1>14. ReleasedHoldsNothing'
  <2> SUFFICES ASSUME NEW x \in Slots, x \in held' \/ key'[x] = "on", x \notin excused.work
               PROVE  Entitled(x[1], x[2])'
    BY <1>5 DEF ReleasedHoldsNothing, InUse
  <2>1. x[2] # o /\ x \in InUse /\ x = <<x[1], x[2]>> /\ x[1] \in Users
    BY <1>9, AccessRows DEF InUse
  <2>2. user[x[1]].st = "live" /\ user[x[1]].active /\ member[x].st = "live"
    BY <2>1 DEF AccessIInv, ReleasedHoldsNothing, Entitled
  <2>3. x[2] \in org \ {o} /\ Keeper(x[1], o) # {}
    BY <1>10, <1>11, <2>1, <2>2
  <2>4. user'[x[1]].st = "live" /\ user'[x[1]].active
    BY <1>6, <2>1, <2>2, <2>3
  <2> QED  BY <1>8, <2>1, <2>2, <2>4 DEF Entitled
<1>15. DefaultsDiffer'
  <2> SUFFICES ASSUME NEW r \in Roles, NEW s \in Roles, OrgOf(r) = OrgOf(s), OrgOf(r) \notin excused.dflt,
                      role'[r].st = "live", role'[s].st = "live", role'[r].dflt, role'[s].dflt
               PROVE  r = s
    BY <1>5 DEF DefaultsDiffer, OrgOf
  <2> QED  BY <1>7 DEF AccessIInv, DefaultsDiffer
<1>16. RevocationStands'
  <2> SUFFICES ASSUME NEW r \in Roles, ~IsSystem(r) PROVE role'[r].perms \cap revoked'[r] = {}
    BY DEF RevocationStands, IsSystem
  <2> QED  BY <1>7 DEF AccessIInv, RevocationStands
<1>17. PurgeLeavesNothing'
  <2> SUFFICES ASSUME NEW q \in Orgs, q \notin org \ {o}
               PROVE  /\ \A v \in Users : /\ user'[v].st # "none" => user'[v].home # q
                                          /\ member'[<<v, q>>].st = "none" /\ <<v, q>> \notin InUse'
                      /\ \A r \in RolesOf(q) : role'[r].st = "none"
    BY <1>1 DEF PurgeLeavesNothing, RolesOf
  <2>1. ASSUME NEW v \in Users
        PROVE  /\ user'[v].st # "none" => user'[v].home # q
               /\ member'[<<v, q>>].st = "none" /\ <<v, q>> \notin InUse'
    <3>1. PICK z \in Slots : z = <<v, q>> /\ z[2] = q
      BY AccessRows
    <3>2. q # o => /\ user[v].st # "none" => user[v].home # q
                   /\ member[z].st = "none" /\ z \notin InUse
      BY <3>1 DEF AccessIInv, PurgeLeavesNothing
    <3>3. user'[v].st # "none" => user'[v].home # q
      BY <1>6, <3>2
    <3>4. member'[z].st = "none" /\ z \notin InUse'
      BY <1>8, <1>9, <3>1, <3>2 DEF InUse
    <3> QED  BY <3>1, <3>3, <3>4
  <2>2. \A r \in RolesOf(q) : role'[r].st = "none"
    BY <1>7 DEF AccessIInv, PurgeLeavesNothing, RolesOf
  <2> QED  BY <2>1, <2>2
<1>18. MembersFit'
  <2> SUFFICES ASSUME NEW x \in Slots
               PROVE  /\ OrgOf(member'[x].role) = x[2]
                      /\ member'[x].st = "live" =>
                           role'[member'[x].role].st # "none" \/ member'[x].role \in excused.role \cup g
    BY <1>5 DEF MembersFit, OrgOf
  <2>1. CASE x[2] = o
    BY <1>8, <2>1
  <2>2. CASE x[2] # o
    <3>1. member'[x] = member[x] /\ member[x].role \in Roles /\ OrgOf(member[x].role) = x[2]
      BY <1>1, <1>8, <2>2 DEF AccessTypeOK, MemberRow, AccessIInv, MembersFit
    <3> QED  BY <1>7, <2>2, <3>1 DEF AccessIInv, MembersFit
  <2> QED  BY <2>1, <2>2
<1>19. GoneBelongNowhere'
  <2> SUFFICES ASSUME NEW x \in Slots
               PROVE  /\ user'[x[1]].st # "live" => member'[x].st # "live"
                      /\ user'[x[1]].st = "none" => member'[x].st = "none" /\ key'[x] = "none" /\ x \notin held'
    BY DEF GoneBelongNowhere
  <2>1. CASE x[2] = o
    BY <1>8, <1>9, <2>1
  <2>2. CASE x[2] # o
    <3>1. x[1] \in Users /\ x[2] \in Orgs /\ x = <<x[1], x[2]>> /\ member'[x] = member[x] /\ key'[x] = key[x]
      BY <1>8, <1>9, <2>2, AccessRows
    <3>2. /\ user[x[1]].st # "live" => member[x].st # "live"
          /\ user[x[1]].st = "none" => member[x].st = "none" /\ key[x] = "none" /\ x \notin held
      BY DEF AccessIInv, GoneBelongNowhere
    <3>3. CASE user'[x[1]].st = user[x[1]].st
      BY <1>9, <3>1, <3>2, <3>3
    <3>4. CASE user'[x[1]].st = "none" /\ ~HeldElsewhere(x[1], o)
      BY <1>9, <2>2, <3>1, <3>4 DEF HeldElsewhere
    <3> QED  BY <1>6, <3>1, <3>3, <3>4
  <2> QED  BY <2>1, <2>2
<1>20. RolesStand'
  <2> SUFFICES ASSUME NEW r \in Roles
               PROVE  /\ OrgOf(r) \in org \ {o} /\ IsSystem(r) => role'[r].st = "live"
                      /\ role'[r].st = "none" => revoked'[r] = {}
    BY <1>1 DEF RolesStand, OrgOf, IsSystem
  <2> QED  BY <1>7 DEF AccessIInv, RolesStand
<1>21. DraftsFit' /\ draft' \in [1..2 -> UserDraft \cup RoleDraft \cup {Nothing}]
  <2>1. \A i \in 1..2 : draft[i].k = "role" /\ OrgOf(draft[i].r) \in org' =>
                          OrgOf(draft[i].r) \in org /\ role'[draft[i].r] = role[draft[i].r]
    BY <1>1, <1>7, DraftUsers
  <2> QED  BY <1>1, <2>1, TouchGoes, DraftsGo, DraftUsers DEF AccessIInv
<1>22. AccessTypeOK'
  <2>1. org' \subseteq Orgs
    BY <1>1 DEF AccessTypeOK
  <2> QED  BY <1>1, <1>5, <1>6, <1>7, <1>8, <1>9, <1>21, <2>1, CacheTypes DEF AccessTypeOK
<1>23. CacheCoherent' /\ FillFresh'
  <2>1. PermsStand(Users)
    BY DEF PermsStand
  <2> QED  BY <1>1, <1>4, <1>5, <2>1, CacheUntold DEF AccessIInv
<1>24. RefreshOnce'
  BY <1>1 DEF AccessIInv, RefreshOnce
<1> QED  BY <1>12, <1>13, <1>14, <1>15, <1>16, <1>17, <1>18, <1>19, <1>20, <1>21, <1>22, <1>23, <1>24 DEF AccessIInv

-----------------------------------------------------------------------------
(* Who may do what: every behaviour                                           *)

LEMMA FirstOrgs ==
  /\ FirstOrg \in Orgs /\ SecondOrg \in Orgs /\ SecondOrg # FirstOrg /\ Founder \in Users
  /\ \A u \in Users : FirstHome(u) \in Orgs /\ FirstHome(u) \in {FirstOrg, SecondOrg}
  /\ FirstHome(Founder) = FirstOrg
  /\ \A u \in Users : u # Founder => FirstHome(u) = SecondOrg
<1>1. FirstOrg \in Orgs /\ Founder \in Users
  BY AccessAssumption DEF FirstOrg
<1>2. \E o \in Orgs : o # FirstOrg
  BY <1>1, AccessAssumption
<1>3. SecondOrg \in Orgs /\ SecondOrg # FirstOrg
  BY <1>2 DEF SecondOrg
<1> QED  BY <1>1, <1>3 DEF FirstHome

LEMMA AccessInitKeeps ==
  ASSUME AccessInit
  PROVE  AccessIInv
<1>1. /\ org = {FirstHome(u) : u \in Users}
      /\ user = [u \in Users |-> NewUser(FirstHome(u), <<FirstHome(u), "admin">>, u = Founder)]
      /\ revoked = [r \in Roles |-> {}]
      /\ cached = [e \in Users \X Keys |-> Miss]
      /\ fill = Nothing /\ draft = [i \in 1..2 |-> Nothing]
      /\ held = {x \in Slots : member[x].st = "live"}
      /\ key = [x \in Slots |-> IF x \in held THEN "on" ELSE "none"]
  BY DEF AccessInit
<1>2. PICK shared \in BOOLEAN :
       /\ member = [x \in Slots |->
            IF x[2] = FirstHome(x[1]) THEN LiveMember(<<x[2], "admin">>)
            ELSE IF shared /\ x[2] \in org
            THEN LiveMember(<<x[2], IF x[1] = Founder THEN "admin" ELSE "custom">>)
            ELSE [st |-> "none", role |-> <<x[2], "agent">>]]
       /\ role = [r \in Roles |->
            IF IsSystem(r) /\ OrgOf(r) \in org
            THEN [st |-> "live", perms |-> SystemPerms(r[2]), dflt |-> r[2] = "agent"]
            ELSE IF ~IsSystem(r) /\ shared /\ OrgOf(r) = FirstOrg
            THEN [st |-> "live", perms |-> {"manage", "new"}, dflt |-> FALSE]
            ELSE [st |-> "none", perms |-> {}, dflt |-> FALSE]]
  BY AccessAssumption DEF AccessInit
<1>3. /\ org \subseteq Orgs /\ FirstOrg \in org /\ \A p \in org : p \in {FirstOrg, SecondOrg}
      /\ \A u \in Users : FirstHome(u) \in org
  BY <1>1, FirstOrgs
<1>4. \A u \in Users : /\ user[u] \in UserRow /\ user[u].st = "live" /\ user[u].active = TRUE
                       /\ user[u].home = FirstHome(u) /\ user[u].role = <<FirstHome(u), "admin">>
  <2> SUFFICES ASSUME NEW u \in Users
               PROVE  /\ user[u] \in UserRow /\ user[u].st = "live" /\ user[u].active = TRUE
                      /\ user[u].home = FirstHome(u) /\ user[u].role = <<FirstHome(u), "admin">>
    OBVIOUS
  <2>1. PICK o \in Orgs, s \in BOOLEAN : o = FirstHome(u) /\ s = (u = Founder)
    BY FirstOrgs
  <2>2. PICK t \in Roles : t = <<o, "admin">>
    BY AccessRows DEF RoleNames
  <2>3. user[u] = NewUser(o, t, s)
    BY <1>1, <2>1, <2>2
  <2>4. /\ NewUser(o, t, s) \in UserRow /\ NewUser(o, t, s).st = "live" /\ NewUser(o, t, s).home = o
        /\ NewUser(o, t, s).role = t /\ NewUser(o, t, s).active = TRUE
    BY NewUserIs
  <2> QED  BY <2>1, <2>2, <2>3, <2>4
<1>5. ASSUME NEW x \in Slots
      PROVE  /\ member[x] \in MemberRow /\ OrgOf(member[x].role) = x[2]
             /\ x[2] = FirstHome(x[1]) => member[x].st = "live" /\ member[x].role = <<x[2], "admin">>
             /\ member[x].st # "none" =>
                  /\ member[x].st = "live" /\ x[2] \in org
                  /\ member[x].role = <<x[2], "admin">>
                     \/ (member[x].role = <<x[2], "custom">> /\ shared /\ x[2] = FirstOrg)
  <2>1. x[1] \in Users /\ x[2] \in Orgs
    BY AccessRows
  <2>2. PICK a \in Roles, b \in Roles, c \in Roles :
          a = <<x[2], "admin">> /\ b = <<x[2], "agent">> /\ c = <<x[2], "custom">>
    BY <2>1, AccessRows DEF RoleNames
  <2>3. OrgOf(a) = x[2] /\ OrgOf(b) = x[2] /\ OrgOf(c) = x[2]
    BY <2>2 DEF OrgOf
  <2>4. ASSUME NEW t \in Roles, NEW s \in {"none", "live"}
        PROVE  /\ [st |-> s, role |-> t] \in MemberRow /\ [st |-> s, role |-> t].st = s
               /\ [st |-> s, role |-> t].role = t
    BY DEF MemberRow
  <2>5. CASE x[2] = FirstHome(x[1])
    <3>1. member[x] = [st |-> "live", role |-> a]
      BY <1>2, <2>2, <2>5 DEF LiveMember
    <3>2. member[x] \in MemberRow /\ member[x].st = "live" /\ member[x].role = a
      BY <2>4, <3>1
    <3>3. x[2] \in org
      BY <1>3, <2>1, <2>5
    <3> QED  BY <2>2, <2>3, <3>2, <3>3
  <2>6. CASE x[2] # FirstHome(x[1]) /\ shared /\ x[2] \in org /\ x[1] = Founder
    <3>1. member[x] = [st |-> "live", role |-> a]
      BY <1>2, <2>2, <2>6 DEF LiveMember
    <3>2. member[x] \in MemberRow /\ member[x].st = "live" /\ member[x].role = a
      BY <2>4, <3>1
    <3> QED  BY <2>2, <2>3, <2>6, <3>2
  <2>7. CASE x[2] # FirstHome(x[1]) /\ shared /\ x[2] \in org /\ x[1] # Founder
    <3>1. member[x] = [st |-> "live", role |-> c]
      BY <1>2, <2>2, <2>7 DEF LiveMember
    <3>2. x[2] = FirstOrg
      BY <1>3, <2>1, <2>7, FirstOrgs
    <3>3. member[x] \in MemberRow /\ member[x].st = "live" /\ member[x].role = c
      BY <2>4, <3>1
    <3> QED  BY <2>2, <2>3, <2>7, <3>2, <3>3
  <2>8. CASE x[2] # FirstHome(x[1]) /\ ~(shared /\ x[2] \in org)
    <3>1. member[x] = [st |-> "none", role |-> b]
      BY <1>2, <2>2, <2>8
    <3>2. member[x] \in MemberRow /\ member[x].st = "none" /\ member[x].role = b
      BY <2>4, <3>1
    <3> QED  BY <2>2, <2>3, <2>8, <3>2
  <2> QED  BY <2>5, <2>6, <2>7, <2>8
<1>6. ASSUME NEW r \in Roles
      PROVE  /\ role[r] \in RoleRow
             /\ OrgOf(r) \in org /\ IsSystem(r) => role[r].st = "live"
             /\ ~IsSystem(r) /\ shared /\ OrgOf(r) = FirstOrg => role[r].st = "live"
             /\ OrgOf(r) \notin org => role[r].st = "none"
             /\ role[r].dflt => r[2] = "agent"
  <2>1. r[2] \in RoleNames /\ SystemPerms(r[2]) \in SUBSET Perms
    BY AccessRows, SystemPermsAre
  <2>2. ASSUME NEW s \in {"none", "live"}, NEW q \in SUBSET Perms, NEW d \in BOOLEAN
        PROVE  /\ [st |-> s, perms |-> q, dflt |-> d] \in RoleRow
               /\ [st |-> s, perms |-> q, dflt |-> d].st = s /\ [st |-> s, perms |-> q, dflt |-> d].dflt = d
    BY DEF RoleRow
  <2>3. CASE IsSystem(r) /\ OrgOf(r) \in org
    <3>1. PICK q \in SUBSET Perms, d \in BOOLEAN : q = SystemPerms(r[2]) /\ d = (r[2] = "agent")
      BY <2>1
    <3>2. role[r] = [st |-> "live", perms |-> q, dflt |-> d]
      BY <1>2, <2>3, <3>1
    <3> QED  BY <2>2, <2>3, <3>1, <3>2
  <2>4. CASE ~IsSystem(r) /\ shared /\ OrgOf(r) = FirstOrg
    <3>1. role[r] = [st |-> "live", perms |-> {"manage", "new"}, dflt |-> FALSE] /\ {"manage", "new"} \in SUBSET Perms
      BY <1>2, <2>4 DEF Perms
    <3> QED  BY <1>3, <2>2, <2>4, <3>1
  <2>5. CASE ~(IsSystem(r) /\ OrgOf(r) \in org) /\ ~(~IsSystem(r) /\ shared /\ OrgOf(r) = FirstOrg)
    <3>1. role[r] = [st |-> "none", perms |-> {}, dflt |-> FALSE] /\ {} \in SUBSET Perms
      BY <1>2, <2>5
    <3> QED  BY <2>2, <2>5, <3>1
  <2> QED  BY <2>3, <2>4, <2>5
<1>7. \A x \in Slots : /\ x \in held <=> member[x].st = "live"
                       /\ key[x] = IF member[x].st = "live" THEN "on" ELSE "none"
  BY <1>1
<1>8. AccessTypeOK
  <2>1. user \in [Users -> UserRow] /\ member \in [Slots -> MemberRow] /\ role \in [Roles -> RoleRow]
    BY <1>1, <1>2, <1>4, <1>5, <1>6
  <2>2. /\ revoked \in [Roles -> SUBSET Perms] /\ held \subseteq Slots /\ key \in [Slots -> {"none", "on", "off"}]
        /\ cached \in [Users \X Keys -> Entry \cup {Miss}] /\ fill \in FillRow \cup {Nothing}
        /\ draft \in [1..2 -> UserDraft \cup RoleDraft \cup {Nothing}]
    BY <1>1
  <2>3. upgraded \in BOOLEAN /\ session \in [Users -> SessionRow] /\ spent \in Nat
    BY DEF AccessInit, SessionRow
  <2>4. excused \in Excuses
    BY DEF AccessInit, Excuses
  <2> QED  BY <1>3, <2>1, <2>2, <2>3, <2>4 DEF AccessTypeOK
<1>9. CacheCoherent /\ FillFresh
  BY <1>1 DEF CacheCoherent, FillFresh
<1>10. HomeRoleStands
  <2> SUFFICES ASSUME NEW u \in Users
               PROVE  OrgOf(user[u].role) = user[u].home /\ role[user[u].role].st = "live"
    BY DEF HomeRoleStands
  <2>1. PICK t \in Roles : t = user[u].role /\ OrgOf(t) = FirstHome(u) /\ IsSystem(t)
    BY <1>3, <1>4, AccessRows DEF RoleNames, OrgOf, IsSystem
  <2> QED  BY <1>3, <1>4, <1>6, <2>1
<1>11. AdminRemains
  <2> SUFFICES ASSUME NEW o \in org PROVE Admins(o) # {}
    BY DEF AdminRemains
  <2>1. PICK u \in Users : o = FirstHome(u)
    BY <1>1
  <2>2. PICK z \in Slots : z = <<u, o>> /\ z[1] = u /\ z[2] = o
    BY <1>3, AccessRows
  <2>3. u \in Admins(o)
    BY <1>5, <2>1, <2>2 DEF Admins
  <2> QED  BY <2>3
<1>12. ReleasedHoldsNothing
  <2> SUFFICES ASSUME NEW x \in Slots, x \in held \/ key[x] = "on" PROVE Entitled(x[1], x[2])
    BY DEF ReleasedHoldsNothing, InUse
  <2> QED  BY <1>4, <1>7, AccessRows DEF Entitled
<1>13. DefaultsDiffer
  <2> SUFFICES ASSUME NEW r \in Roles, NEW s \in Roles, OrgOf(r) = OrgOf(s), role[r].dflt, role[s].dflt
               PROVE  r = s
    BY DEF DefaultsDiffer
  <2> QED  BY <1>6, AccessRows DEF OrgOf
<1>14. RevocationStands
  BY <1>1 DEF RevocationStands
<1>15. PurgeLeavesNothing
  <2> SUFFICES ASSUME NEW o \in Orgs \ org
               PROVE  /\ \A u \in Users : /\ user[u].home # o
                                          /\ member[<<u, o>>].st = "none" /\ <<u, o>> \notin InUse
                      /\ \A r \in RolesOf(o) : role[r].st = "none"
    BY DEF PurgeLeavesNothing
  <2>1. ASSUME NEW u \in Users
        PROVE  user[u].home # o /\ member[<<u, o>>].st = "none" /\ <<u, o>> \notin InUse
    <3>1. PICK z \in Slots : z = <<u, o>> /\ z[2] = o
      BY AccessRows
    <3>2. member[z].st = "none"
      BY <1>5, <3>1
    <3> QED  BY <1>3, <1>4, <1>7, <3>1, <3>2 DEF InUse
  <2>2. \A r \in RolesOf(o) : role[r].st = "none"
    BY <1>6 DEF RolesOf
  <2> QED  BY <2>1, <2>2
<1>16. RefreshOnce
  <2> SUFFICES ASSUME NEW u \in Users PROVE session[u].live + session[u].rotating <= session[u].issued
    BY DEF RefreshOnce
  <2>1. session[u] = [live |-> 0, rotating |-> 0, issued |-> 0]
    BY DEF AccessInit
  <2> QED  BY <2>1
<1>17. MembersFit
  <2> SUFFICES ASSUME NEW x \in Slots
               PROVE  /\ OrgOf(member[x].role) = x[2]
                      /\ member[x].st = "live" => role[member[x].role].st # "none"
    BY DEF MembersFit
  <2>1. OrgOf(member[x].role) = x[2]
    BY <1>5
  <2>2. ASSUME member[x].st = "live" PROVE role[member[x].role].st = "live"
    <3>1. x[2] \in org /\ x[2] \in Orgs
      BY <1>5, <2>2, AccessRows
    <3>2. CASE member[x].role = <<x[2], "admin">>
      <4>1. PICK t \in Roles : t = <<x[2], "admin">> /\ OrgOf(t) = x[2] /\ IsSystem(t)
        BY <3>1, AccessRows DEF RoleNames, OrgOf, IsSystem
      <4> QED  BY <1>6, <3>1, <3>2, <4>1
    <3>3. CASE member[x].role = <<x[2], "custom">> /\ shared /\ x[2] = FirstOrg
      <4>1. PICK t \in Roles : t = <<x[2], "custom">> /\ OrgOf(t) = x[2] /\ ~IsSystem(t)
        BY <3>1, AccessRows DEF RoleNames, OrgOf, IsSystem
      <4> QED  BY <1>6, <3>1, <3>3, <4>1
    <3> QED  BY <1>5, <2>2, <3>2, <3>3
  <2> QED  BY <2>1, <2>2
<1>18. GoneBelongNowhere
  BY <1>4, AccessRows DEF GoneBelongNowhere
<1>19. RolesStand
  BY <1>1, <1>6 DEF RolesStand
<1>20. DraftsFit
  BY <1>1, AccessKinds DEF DraftsFit, DraftFits
<1> QED  BY <1>8, <1>9, <1>10, <1>11, <1>12, <1>13, <1>14, <1>15, <1>16, <1>17, <1>18, <1>19, <1>20 DEF AccessIInv

LEMMA AccessNextKeeps ==
  ASSUME AccessIInv, AccessNext
  PROVE  AccessIInv'
<1> USE AccessIInv
<1>1. \A o \in org, n \in RoleNames : o \in Orgs /\ <<o, n>> \in Roles
  BY AccessRows DEF AccessIInv, AccessTypeOK
<1>2. CASE \E u \in Users, k \in Keys : LoadPermissions(u, k) \/ EntryExpires(u, k)
  BY <1>2, LoadPermissionsKeeps, ExpiryKeeps
<1>3. CASE StorePermissions
  BY <1>3, StoreKeeps
<1>4. ASSUME NEW u \in Users, NEW o \in org,
             \/ Register(u, o) \/ CallbackSSO(u, o) \/ RemoveOrganizationMember(o, u)
             \/ RemoveMember(o, u) \/ DeleteUser(o, u)
             \/ CreateAPIKey(u, o) \/ UpdateAPIKey(u, o) \/ DeleteAPIKey(u, o) \/ AssignWork(u, o)
             \/ SwitchOrg(u, o)
      PROVE  AccessIInv'
  BY <1>4, RegisterKeeps, CallbackKeeps, RemoveOrganizationMemberKeeps, RemoveMemberKeeps, DeleteUserKeeps,
     KeysKeep, AssignKeeps, SessionStepsKeep
<1>5. ASSUME NEW u \in Users, NEW o \in org, \E c \in Changes : c.f # "none" /\ UpdateUser(u, o, c)
      PROVE  AccessIInv'
  BY <1>5, ReadsKeep
<1>6. ASSUME NEW u \in Users, NEW o \in org, NEW n \in RoleNames,
             \/ \E s \in BOOLEAN : CreateUser(o, u, <<o, n>>, s)
             \/ AddOrganizationMember(o, u, <<o, n>>)
             \/ UpdateOrganizationMemberRole(o, u, <<o, n>>)
             \/ UpdateMember(u, o, <<o, n>>)
      PROVE  AccessIInv'
  BY <1>1, <1>6, CreateUserKeeps, AddKeeps, MemberRoleKeeps
<1>7. CASE \E u \in Users : UpdateAvailability(u) \/ UpdateCurrentUserSettings(u) \/ ChangePassword(u)
  BY <1>7, ReadsKeep
<1>8. CASE \E u \in Users : Login(u) \/ RefreshToken(u) \/ Rotated(u) \/ Logout(u)
  BY <1>8, SessionStepsKeep
<1>9. CASE \E a \in Users, o \in Orgs : CreateOrganization(a, o)
  BY <1>9, CreateOrganizationKeeps
<1>10. CASE \E o \in org : Purge(o) \/ \E ps \in Asked, d \in BOOLEAN : CreateRole(o, ps, d)
  BY <1>10, PurgeKeeps, CreateRoleKeeps
<1>11. CASE \E r \in Roles : DeleteRole(r) \/ \E ps \in Asked, d \in BOOLEAN : UpdateRole(r, ps, d)
  BY <1>11, DeleteRoleKeeps, UpdateRoleKeeps
<1>12. CASE \E i \in 1..2 : SaveRow(i) \/ SaveFails(i) \/ SaveRole(i) \/ SaveRoleFails(i)
  BY <1>12, SaveRowKeeps, FailuresKeep, SaveRoleKeeps
<1>13. CASE RunMigration
  BY <1>13, RunMigrationKeeps
<1> QED
  BY <1>2, <1>3, <1>4, <1>5, <1>6, <1>7, <1>8, <1>9, <1>10, <1>11, <1>12, <1>13 DEF AccessNext, AccessRequest

LEMMA AccessStutters ==
  ASSUME AccessIInv, UNCHANGED accessVars
  PROVE  AccessIInv'
<1>1. /\ RowsUnchanged
      /\ UNCHANGED <<org, user, member, role, revoked, upgraded, cached, fill, draft, held, key, session, spent, excused>>
  BY DEF accessVars, RowsUnchanged
<1>2. AccessTypeOK' /\ RefreshOnce'
  BY <1>1 DEF AccessIInv, AccessTypeOK, RefreshOnce
<1> QED  BY <1>1, <1>2, PeopleSame, SameWork, SameDrafts, SameCache DEF AccessIInv

\* Together with the rest, what is stated about people, roles, the cache and the
\* sessions holds in every state, with any number of users, organizations,
\* requests and cached entries.
THEOREM AccessInvariant == AccessSpec => []AccessIInv
<1>1. AccessInit => AccessIInv
  BY AccessInitKeeps
<1>2. AccessIInv /\ [AccessNext]_accessVars => AccessIInv'
  BY AccessNextKeeps, AccessStutters
<1> QED  BY <1>1, <1>2, PTL DEF AccessSpec

LEMMA AccessIInvSound ==
  ASSUME AccessIInv
  PROVE  AccessInv
<1>1. user \in [Users -> UserRow]
  BY DEF AccessIInv, AccessTypeOK
<1>2. OneDefaultRole
  <2> SUFFICES ASSUME NEW o \in Orgs, o \notin excused.dflt PROVE Cardinality(DefaultRoles(o)) <= 1
    BY DEF OneDefaultRole
  <2>1. \A r, s \in DefaultRoles(o) : r = s
    BY DEF AccessIInv, DefaultsDiffer, DefaultRoles, LiveRoles, RolesOf
  <2>2. CASE DefaultRoles(o) = {}
    <3>1. Cardinality(DefaultRoles(o)) = 0
      BY <2>2, FS_EmptySet
    <3> QED  BY <3>1
  <2>3. CASE DefaultRoles(o) # {}
    <3>1. PICK r : DefaultRoles(o) = {r}
      BY <2>1, <2>3
    <3>2. Cardinality(DefaultRoles(o)) = 1
      BY <3>1, FS_Singleton
    <3> QED  BY <3>2
  <2> QED  BY <2>2, <2>3
<1> QED  BY <1>1, <1>2 DEF AccessIInv, AccessInv

-----------------------------------------------------------------------------
(* Who may do what: users who go and come back                                *)

\* what a step other than a purge does to the users
UserStep(u) ==
  /\ \A v \in Users : v # u => user'[v] = user[v]
  /\ \/ user'[u] = user[u]
     \/ user'[u].st = "gone"
     \/ user'[u].st = "live" /\ Stale(u)
     \/ user'[u].st = "live" /\ user[u].st # "live" /\ \E o \in Orgs : Entitled(u, o)'

LEMMA NewcomersEntitled ==
  ASSUME AccessTypeOK, NEW u \in Users, NEW o \in Orgs, NEW r \in Roles, NEW s \in BOOLEAN, user[u].st # "live",
         user' = [user EXCEPT ![u] = NewUser(o, r, s)], member' = [member EXCEPT ![<<u, o>>] = LiveMember(r)]
  PROVE  UserStep(u)
<1>1. PICK w : w = NewUser(o, r, s)
  OBVIOUS
<1>2. w.st = "live" /\ w.active = TRUE
  BY <1>1, NewUserIs
<1>3. user'[u] = w /\ \A v \in Users : v # u => user'[v] = user[v]
  BY <1>1 DEF AccessTypeOK
<1>4. PICK m, z : m = LiveMember(r) /\ z = <<u, o>>
  OBVIOUS
<1>5. m.st = "live" /\ z \in Slots
  BY <1>4, AccessRows DEF LiveMember
<1>6. member'[z] = m
  BY <1>4, <1>5 DEF AccessTypeOK
<1>7. Entitled(u, o)'
  BY <1>2, <1>3, <1>4, <1>5, <1>6 DEF Entitled
<1> QED  BY <1>2, <1>3, <1>7 DEF UserStep

LEMMA UsersStep ==
  ASSUME AccessIInv, AccessNext
  PROVE  UNCHANGED user \/ (\E u \in Users : UserStep(u)) \/ (\E o \in org : Purge(o))
<1>1. AccessTypeOK /\ \A o \in org, n \in RoleNames : o \in Orgs /\ <<o, n>> \in Roles
  BY AccessRows DEF AccessIInv, AccessTypeOK
<1>2. ASSUME NEW u \in Users, NEW o \in org, NEW n \in RoleNames, NEW s \in BOOLEAN, CreateUser(o, u, <<o, n>>, s)
      PROVE  UserStep(u)
  <2>1. PICK r \in Roles : r = <<o, n>>
    BY <1>1
  <2>2. /\ user[u].st # "live" /\ user' = [user EXCEPT ![u] = NewUser(o, r, s)]
        /\ member' = [member EXCEPT ![<<u, o>>] = LiveMember(r)]
    BY <1>2, <2>1 DEF CreateUser
  <2> QED  BY <1>1, <2>2, NewcomersEntitled
<1>3. ASSUME NEW u \in Users, NEW o \in org, Register(u, o)
      PROVE  UNCHANGED user \/ UserStep(u)
  <2>1. PICK r \in (IF DefaultRoles(o) # {} THEN DefaultRoles(o) ELSE {<<o, "agent">>}) :
          \/ /\ user[u].st = "none" /\ user' = [user EXCEPT ![u] = NewUser(o, r, FALSE)]
             /\ member' = [member EXCEPT ![<<u, o>>] = LiveMember(r)]
          \/ UNCHANGED user
    BY <1>3 DEF Register
  <2>2. r \in Roles /\ o \in Orgs
    BY <1>1, <2>1 DEF DefaultRoles, LiveRoles, RolesOf, RoleNames, AccessTypeOK
  <2>3. CASE /\ user[u].st = "none" /\ user' = [user EXCEPT ![u] = NewUser(o, r, FALSE)]
             /\ member' = [member EXCEPT ![<<u, o>>] = LiveMember(r)]
    <3>1. PICK s \in BOOLEAN : s = FALSE
      OBVIOUS
    <3>2. user' = [user EXCEPT ![u] = NewUser(o, r, s)]
      BY <2>3, <3>1
    <3> QED  BY <1>1, <2>2, <2>3, <3>2, NewcomersEntitled
  <2> QED  BY <2>1, <2>3
<1>4. ASSUME NEW u \in Users, NEW o \in org, CallbackSSO(u, o)
      PROVE  UNCHANGED user \/ UserStep(u)
  <2>1. PICK r \in Roles : r = <<o, "agent">>
    BY <1>1 DEF RoleNames
  <2>2. \/ /\ user[u].st = "none" /\ user' = [user EXCEPT ![u] = NewUser(o, r, FALSE)]
           /\ member' = [member EXCEPT ![<<u, o>>] = LiveMember(r)]
        \/ UNCHANGED user
    BY <1>4, <2>1 DEF CallbackSSO
  <2>3. CASE /\ user[u].st = "none" /\ user' = [user EXCEPT ![u] = NewUser(o, r, FALSE)]
             /\ member' = [member EXCEPT ![<<u, o>>] = LiveMember(r)]
    <3>1. PICK s \in BOOLEAN : s = FALSE
      OBVIOUS
    <3>2. user' = [user EXCEPT ![u] = NewUser(o, r, s)] /\ o \in Orgs
      BY <1>1, <2>3, <3>1 DEF AccessTypeOK
    <3> QED  BY <1>1, <2>3, <3>2, NewcomersEntitled
  <2> QED  BY <2>2, <2>3
<1>5. ASSUME NEW u \in Users, NEW o \in org, DeleteUser(o, u)
      PROVE  UserStep(u)
  <2>1. PICK w : w = [user[u] EXCEPT !.st = "gone"]
    OBVIOUS
  <2>2. w.st = "gone"
    BY <1>1, <2>1 DEF AccessTypeOK, UserRow
  <2>3. user' = [user EXCEPT ![u] = w]
    BY <1>1, <1>5, <2>1 DEF DeleteUser, AccessTypeOK
  <2> QED  BY <1>1, <2>2, <2>3 DEF UserStep, AccessTypeOK
<1>6. ASSUME NEW i \in 1..2, SaveRow(i)
      PROVE  \E u \in Users : UserStep(u)
  <2>1. PICK d \in UserDraft : d = draft[i] /\ d.k = "user" /\ d.u \in Users /\ DraftFits(d)
    BY <1>1, <1>6, DraftUsers DEF SaveRow, AccessIInv, DraftsFit
  <2>2. PICK w, u : w = Written(d) /\ u = d.u
    OBVIOUS
  <2>3. w.st = "live"
    BY <2>1, <2>2, WrittenIs
  <2>4. user' = [user EXCEPT ![u] = w] /\ Done(i, {u})
    BY <1>6, <2>1, <2>2 DEF SaveRow
  <2>5. Stale(u)
    BY <1>1, <2>1, <2>2, <2>4, DoneGoes DEF Stale
  <2> QED  BY <1>1, <2>1, <2>2, <2>3, <2>4, <2>5 DEF UserStep, AccessTypeOK
<1>7. ASSUME NEW u \in Users, NEW o \in org,
             \/ RemoveOrganizationMember(o, u) \/ RemoveMember(o, u)
             \/ CreateAPIKey(u, o) \/ UpdateAPIKey(u, o) \/ DeleteAPIKey(u, o) \/ AssignWork(u, o)
             \/ SwitchOrg(u, o) \/ \E c \in Changes : c.f # "none" /\ UpdateUser(u, o, c)
      PROVE  UNCHANGED user
  BY <1>7 DEF RemoveOrganizationMember, RemoveMember, CreateAPIKey, UpdateAPIKey, DeleteAPIKey, AssignWork,
              SwitchOrg, UpdateUser, ReadRow
<1>8. ASSUME NEW u \in Users, NEW o \in org, NEW n \in RoleNames,
             \/ AddOrganizationMember(o, u, <<o, n>>)
             \/ UpdateOrganizationMemberRole(o, u, <<o, n>>)
             \/ UpdateMember(u, o, <<o, n>>)
      PROVE  UNCHANGED user
  BY <1>8 DEF AddOrganizationMember, UpdateOrganizationMemberRole, UpdateMember
<1>9. CASE \E u \in Users : \/ UpdateAvailability(u) \/ UpdateCurrentUserSettings(u) \/ ChangePassword(u)
                            \/ Login(u) \/ RefreshToken(u) \/ Rotated(u) \/ Logout(u)
  BY <1>9 DEF UpdateAvailability, UpdateCurrentUserSettings, ChangePassword, ReadRow, Login, RefreshToken, Rotated,
              Logout
<1>10. CASE \E u \in Users, k \in Keys : LoadPermissions(u, k) \/ EntryExpires(u, k)
  BY <1>10 DEF LoadPermissions, EntryExpires
<1>11. CASE StorePermissions \/ RunMigration \/ \E a \in Users, o \in Orgs : CreateOrganization(a, o)
  BY <1>11 DEF StorePermissions, RunMigration, CreateOrganization
<1>12. CASE \E o \in org : \E ps \in Asked, d \in BOOLEAN : CreateRole(o, ps, d)
  BY <1>12 DEF CreateRole
<1>13. CASE \E r \in Roles : DeleteRole(r) \/ \E ps \in Asked, d \in BOOLEAN : UpdateRole(r, ps, d)
  BY <1>13 DEF DeleteRole, UpdateRole
<1>14. CASE \E i \in 1..2 : SaveFails(i) \/ SaveRole(i) \/ SaveRoleFails(i)
  BY <1>14 DEF SaveFails, SaveRole, SaveRoleFails
<1> QED
  BY <1>2, <1>3, <1>4, <1>5, <1>6, <1>7, <1>8, <1>9, <1>10, <1>11, <1>12, <1>13, <1>14 DEF AccessNext, AccessRequest

SharedStep ==
  \A u \in Users : user[u].st = "live" =>
    /\ user'[u].st = "none" => \A o \in org' : member[<<u, o>>].st # "live"
    /\ user'[u].st = "live" /\ user'[u].home # user[u].home =>
         member'[<<u, user'[u].home>>].st = "live" \/ Stale(u)

GoneStep ==
  \A u \in Users :
    /\ user[u].st = "gone" /\ user'[u].st = "live" => Stale(u) \/ \E o \in Orgs : Entitled(u, o)'
    /\ user[u].st = "live" /\ ~user[u].active /\ user'[u].st = "live" /\ user'[u].active => Stale(u)

LEMMA PurgeShares ==
  ASSUME AccessIInv, NEW o \in org, Purge(o)
  PROVE  SharedStep /\ GoneStep
<1>1. /\ AccessTypeOK /\ org' = org \ {o} /\ user' = [u \in Users |-> Rehomed(u, o)]
      /\ member' = [x \in Slots |-> Cleared(x, o)] /\ org \subseteq Orgs
  BY DEF AccessIInv, AccessTypeOK, Purge
<1> SUFFICES ASSUME NEW u \in Users
             PROVE  /\ user[u].st = "live" =>
                         /\ user'[u].st = "none" => \A p \in org' : member[<<u, p>>].st # "live"
                         /\ user'[u].st = "live" /\ user'[u].home # user[u].home =>
                              member'[<<u, user'[u].home>>].st = "live"
                    /\ ~(user[u].st = "gone" /\ user'[u].st = "live")
                    /\ ~(user[u].st = "live" /\ ~user[u].active /\ user'[u].st = "live" /\ user'[u].active)
  BY DEF SharedStep, GoneStep
<1>2. user'[u] = Rehomed(u, o)
  BY <1>1
<1>3. CASE user'[u] = user[u]
  BY <1>3
<1>4. CASE \E p \in org \ {o} : /\ member[<<u, p>>].st = "live" /\ user'[u].st = user[u].st /\ user[u].st = "live"
                                /\ user'[u].home = p /\ user'[u].active = user[u].active
  <2>1. PICK p \in org \ {o} : /\ member[<<u, p>>].st = "live" /\ user'[u].st = user[u].st /\ user[u].st = "live"
                               /\ user'[u].home = p /\ user'[u].active = user[u].active
    BY <1>4
  <2>2. PICK z \in Slots : z = <<u, p>> /\ z[2] = p /\ z[2] # o
    BY <1>1, <2>1, AccessRows
  <2>3. member'[z] = member[z]
    BY <1>1, <2>2 DEF Cleared
  <2> QED  BY <2>1, <2>2, <2>3
<1>5. CASE user'[u].st = "none" /\ Keeper(u, o) = {}
  BY <1>1, <1>5 DEF Keeper
<1> QED  BY <1>2, <1>3, <1>4, <1>5, RehomedIs

LEMMA UserStepShares ==
  ASSUME NEW u \in Users, UserStep(u)
  PROVE  SharedStep /\ GoneStep
BY DEF UserStep, SharedStep, GoneStep

\* A purge loses nobody who belongs to another organization, nobody comes back
\* unasked, and what a person may do agrees with the rows they have, whichever
\* requests, upgrades, purges and cache misses run into each other.
THEOREM AccessIsKept == AccessSpec => AccessKept
<1>1. AccessIInv => AccessInv
  BY AccessIInvSound
<1>2. AccessIInv /\ [AccessNext]_accessVars => [SharedStep]_accessVars /\ [GoneStep]_accessVars
  <2> SUFFICES ASSUME AccessIInv, AccessNext PROVE SharedStep /\ GoneStep
    OBVIOUS
  <2>1. CASE UNCHANGED user
    BY <2>1 DEF SharedStep, GoneStep
  <2> QED  BY <2>1, UsersStep, UserStepShares, PurgeShares
<1>3. AccessSpec => []AccessInv /\ [][SharedStep]_accessVars /\ [][GoneStep]_accessVars
  BY <1>1, <1>2, AccessInvariant, PTL DEF AccessSpec
<1> QED  BY <1>3 DEF AccessKept, SharedUsersKept, GoneStaysGone, SharedStep, GoneStep
=============================================================================
