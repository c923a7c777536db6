------------------------------- MODULE Work -------------------------------
(***************************************************************************)
(* The work a team tracks about its contacts: deals on a board and tasks   *)
(* with a deadline.  A board is a pipeline of stages; a deal has a stage,  *)
(* a status that follows the stage's type, and a rank, a string that says  *)
(* where in its column the card stands.  A task is reminded of and chased  *)
(* once by a job that runs every minute.                                   *)
(*                                                                         *)
(* A request is split where the code reads and later writes on the         *)
(* strength of what it read: that half-done work is in jobs.  Names,       *)
(* values, currencies, colours and column positions are left out; a time   *)
(* is still to come or past.                                               *)
(***************************************************************************)
EXTENDS Naturals, Sequences, FiniteSets

CONSTANTS
  Users,
  Readers,       \* the users with contacts:read
  Active,        \* the users that are active
  Contacts,
  None,
  RankLast,      \* the last letter of a rank; the first is 0
  StageTypes,    \* DefaultStages(): the types of a new pipeline's stages
  FirstBoard,    \* the ranks the cards of the first column may have
  PageSize,      \* cards of a column that are loaded at once
  MaxPipes, MaxStages, MaxDeals, MaxTypes, MaxTasks,
  MaxJobs,       \* bound: requests and job runs in progress at once
  MaxOps         \* bound: requests

Letters == 0..RankLast

\* the ranks rankBetween makes, whose last letter is not the first one, and none
Ranks == {r \in Seq(Letters) : r # <<>> => r[Len(r)] # 0}

ASSUME WorkAssumption ==
  /\ Readers \subseteq Users /\ Active \subseteq Users /\ None \notin Users
  /\ MaxTypes >= 2 /\ RankLast \in Nat \ {0} /\ PageSize \in Nat \ {0}
  /\ {MaxPipes, MaxStages, MaxDeals, MaxTypes, MaxTasks, MaxJobs, MaxOps} \subseteq Nat
  /\ MaxPipes # 0
  /\ StageTypes \in Seq({"open", "won", "lost"}) /\ StageTypes[1] = "open" /\ Len(StageTypes) \in 1..MaxStages
  /\ \A b \in FirstBoard : \A d \in DOMAIN b : b[d] \in Ranks

VARIABLES
  contact,   \* what the rest of the system does to contacts
  pipe, stage, deal,
  type, task,
  jobs,      \* requests and job runs that have read and not yet written
  pager,     \* someone scrolling down a column
  ops

vars == <<contact, pipe, stage, deal, type, task, jobs, pager, ops>>

Pipes == 1..MaxPipes
Stages == 1..MaxStages
Deals == 1..MaxDeals
Types == 1..MaxTypes
Tasks == 1..MaxTasks
Slots == 1..MaxJobs
Kinds == {"remind", "due"}
Owners == Users \cup {None}

-----------------------------------------------------------------------------
(* Ranks *)

\* the order the database compares board positions by
Less(a, b) ==
  \E i \in 1..Len(b) :
    /\ i <= Len(a) + 1
    /\ \A j \in 1..(i - 1) : a[j] = b[j]
    /\ i > Len(a) \/ a[i] < b[i]

\* rankBetween settling for a letter that is not strictly between
RankNoRoom(prev, nxt) ==
  LET hi == IF nxt # <<>> /\ ~Less(prev, nxt) THEN <<>> ELSE nxt
      P(i) == IF i <= Len(prev) THEN prev[i] ELSE 0
      N(i) == IF i <= Len(hi) THEN hi[i] ELSE RankLast + 1
      stop == CHOOSE i \in 1..(Len(prev) + Len(hi) + 2) :
                P(i) < N(i) /\ \A j \in 1..(i - 1) : P(j) >= N(j)
  IN  [i \in 1..stop |-> IF i < stop THEN P(i) ELSE P(i) + (N(i) - P(i)) \div 2]

\* rankBetween: copy prev until there is room for a letter strictly between
\* it and next; once prev is below next, whatever follows is free
RankBetween(prev, nxt) ==
  LET hi == IF nxt # <<>> /\ ~Less(prev, nxt) THEN <<>> ELSE nxt
      P(i) == IF i <= Len(prev) THEN prev[i] ELSE 0
      Parted(i) == \E j \in 1..(i - 1) : j > Len(hi) \/ P(j) < hi[j]
      N(i) == IF ~Parted(i) /\ i <= Len(hi) THEN hi[i] ELSE RankLast + 1
      stop == CHOOSE i \in 1..(Len(prev) + Len(hi) + 2) :
                /\ P(i) + 1 < N(i)
                /\ \A j \in 1..(i - 1) : P(j) + 1 >= N(j)
  IN  [i \in 1..stop |-> IF i < stop THEN P(i) ELSE P(i) + (N(i) - P(i)) \div 2]

\* statusForStage
StatusForStage(t) == CASE t = "won" -> "won" [] t = "lost" -> "lost" [] OTHER -> "open"

-----------------------------------------------------------------------------
(* State *)

NoDeal == [at |-> "no", stage |-> 1, status |-> "open", closed |-> FALSE,
           rank |-> <<>>, owner |-> None, contact |-> None, odd |-> FALSE]
GoneDeal == [NoDeal EXCEPT !.at = "gone"]

Deal == [at: {"no", "live", "gone"}, stage: Stages, status: {"open", "won", "lost"},
         closed: BOOLEAN,   \* closed_at is set
         rank: Ranks, owner: Owners, contact: Contacts \cup {None},
         odd: BOOLEAN]      \* two requests met on this deal: see Board

NoTask == [at |-> "no", status |-> "open", done |-> FALSE, cancelled |-> FALSE,
           owner |-> None, contact |-> None, type |-> 1,
           when |-> [k \in Kinds |-> "later"], stamp |-> [k \in Kinds |-> FALSE],
           told |-> [k \in Kinds |-> 0], odd |-> {}]
GoneTask == [NoTask EXCEPT !.at = "gone"]

Task == [at: {"no", "live", "gone"}, status: {"open", "completed", "cancelled"},
         done: BOOLEAN, cancelled: BOOLEAN,       \* completed_at, cancelled_at
         owner: Owners, contact: Contacts \cup {None}, type: Types,
         when: [Kinds -> {"later", "past", "none"}],   \* remind_at, due_at
         stamp: [Kinds -> BOOLEAN],       \* reminder_sent_at, overdue_notified_at
         told: [Kinds -> 0..2],           \* notices sent since the stamp was last cleared
         odd: SUBSET {"status", "type", "remind", "due"}]

Idle == [k |-> "idle"]

StageTypeNames == {"open", "won", "lost"}
InsertJob == [k: {"insert"}, stage: Stages, type: StageTypeNames, rank: Ranks, owner: Owners, contact: Contacts]
MoveJob == [k: {"move"}, d: Deals, stage: Stages, type: StageTypeNames, lo: Ranks, hi: Ranks, rank: Ranks]
StageJob == [k: {"save", "sync"}, stage: Stages, type: StageTypeNames]
RemoveJob == [k: {"remove"}, stage: Stages, to: Stages \cup {0}, type: StageTypeNames, was: StageTypeNames]
TaskJob == [k: {"task"}, type: Types, owner: Users, contact: Contacts]
CloseJob == [k: {"close"}, t: Tasks, to: {"completed", "cancelled"}]
ReopenJob == [k: {"reopen"}, t: Tasks]
EditJob == [k: {"edit"}, t: Tasks, what: Kinds, at: {"later", "none"}]
BulkJob == [k: {"bulk"}, u: Users, todo: SUBSET Tasks, act: {"complete", "cancel", "reassign",
                                                             "reschedule", "delete"}]
NotifyJob == [k: {"notify"}, what: Kinds, batch: SUBSET Tasks]
TypeJob == [k: {"type"}, ty: Types, archived: BOOLEAN]
UntypeJob == [k: {"untype"}, ty: Types]

Job ==
  {Idle} \cup InsertJob \cup MoveJob \cup StageJob \cup RemoveJob
  \cup TaskJob \cup CloseJob \cup ReopenJob \cup EditJob \cup BulkJob \cup NotifyJob
  \cup TypeJob \cup UntypeJob

Pager == [on: BOOLEAN, stage: Stages, after: Ranks, seen: SUBSET Deals,
          kept: SUBSET (Deals \X Ranks),   \* cards of the column that stayed, with their rank
          user: Users, twice: SUBSET Deals]

TypeOK ==
  /\ contact \in [Contacts -> [live: BOOLEAN, agent: Owners, queue: BOOLEAN]]
  /\ pipe \in [Pipes -> [at: {"no", "live", "gone"}, default: BOOLEAN, archived: BOOLEAN]]
  /\ stage \in [Stages -> [at: {"no", "live", "gone"}, pipe: Pipes, type: StageTypeNames]]
  /\ deal \in [Deals -> Deal]
  /\ type \in [Types -> [at: {"no", "live", "gone"}, system: BOOLEAN, archived: BOOLEAN]]
  /\ task \in [Tasks -> Task]
  /\ jobs \in [Slots -> Job]
  /\ pager \in Pager
  /\ ops \in 0..MaxOps

NoPager == [on |-> FALSE, stage |-> 1, after |-> <<>>, seen |-> {}, kept |-> {},
            user |-> CHOOSE u \in Users : TRUE, twice |-> {}]

\* SeedOrganization of deals: a first pipeline, the default
SeedPipeline ==
  /\ pipe = [p \in Pipes |-> [at |-> IF p = 1 THEN "live" ELSE "no",
                              default |-> p = 1, archived |-> FALSE]]
  /\ stage = [s \in Stages |-> IF s \in DOMAIN StageTypes
                THEN [at |-> "live", pipe |-> 1, type |-> StageTypes[s]]
                ELSE [at |-> "no", pipe |-> 1, type |-> "open"]]

\* SeedOrganization of tasks, one built-in type standing for all, and a type
\* of the organization's own
SeedTypes ==
  type = [y \in Types |-> [at |-> IF y <= 2 THEN "live" ELSE "no",
                           system |-> y = 1, archived |-> FALSE]]

\* a seeded organization and a few rows made since
Init ==
  /\ contact = [c \in Contacts |-> [live |-> TRUE, agent |-> None, queue |-> TRUE]]
  /\ SeedPipeline /\ SeedTypes
  /\ \E b \in FirstBoard, c \in Contacts, u \in Users :
       /\ deal = [d \in Deals |-> IF d \in DOMAIN b
                    THEN [NoDeal EXCEPT !.at = "live", !.rank = b[d], !.contact = c]
                    ELSE NoDeal]
       /\ task = [t \in Tasks |-> IF t = 1
                    THEN [NoTask EXCEPT !.at = "live", !.owner = u, !.contact = c, !.type = 2]
                    ELSE NoTask]
  /\ jobs = [i \in Slots |-> Idle]
  /\ pager = NoPager
  /\ ops = 0

Request == ops < MaxOps /\ ops' = ops + 1

\* a request or a job run begins and stops where another may slip in
Starts(job) ==
  LET free == {i \in Slots : jobs[i] = Idle} IN
  /\ free # {}
  /\ jobs' = [jobs EXCEPT ![CHOOSE i \in free : \A j \in free : i <= j] = job]
Ends(i) == jobs' = [jobs EXCEPT ![i] = Idle]

Fresh(row, ids) == {i \in ids : row[i].at = "no" /\ \A j \in ids : j < i => row[j].at # "no"}

-----------------------------------------------------------------------------
(* Who sees what *)

\* scopeAssignedContact: with contacts:read everything, otherwise the
\* contacts of one's own and those reached through a transfer or the queue
SeesContact(u, c) ==
  contact[c].live /\ (u \in Readers \/ contact[c].agent = u \/ contact[c].queue)

\* VisibleTo
VisibleTo(u, d) ==
  u \in Readers \/ deal[d].owner = u \/ contact[deal[d].contact].agent = u

\* visibleDeal: every route that names a deal
VisibleDeal(u, d) == deal[d].at = "live" /\ VisibleTo(u, d)

LiveDealContact(d) == contact[deal[d].contact].live

\* List
List == {d \in Deals : deal[d].at = "live" /\ LiveDealContact(d)}

\* the handlers of the list and of a contact's panel
ListDeals(u) == {d \in List : VisibleTo(u, d)}

\* filtered: one column of the board
Column(u, s) == {d \in ListDeals(u) : deal[d].stage = s /\ deal[d].status = "open"}

\* taskScope
TaskScope(u, t) ==
  u \in Readers \/ task[t].owner = u \/ SeesContact(u, task[t].contact)

\* List: every task the viewer may see, in the "all" view
ListTasks(u) ==
  {t \in Tasks : task[t].at = "live" /\ contact[task[t].contact].live /\ TaskScope(u, t)}

\* DueFor: what the badge counts as overdue
DueFor(u) ==
  {t \in Tasks : /\ task[t].at = "live" /\ task[t].owner = u /\ task[t].status = "open"
                 /\ task[t].when["due"] = "past" /\ contact[task[t].contact].live}

\* canSeeTask
CanSeeTask(u, t) ==
  task[t].at = "live" /\ (task[t].owner = u \/ SeesContact(u, task[t].contact))

\* contacts are assigned, queued, deleted and restored elsewhere
ContactChanges(c) ==
  /\ Request
  /\ \E f \in {"live", "queue"} : contact' = [contact EXCEPT ![c][f] = ~@]
     \/ \E a \in Owners \ {contact[c].agent} : contact' = [contact EXCEPT ![c].agent = a]
  /\ UNCHANGED <<pipe, stage, deal, type, task, jobs, pager>>

-----------------------------------------------------------------------------
(* Deals *)

Locked(d) == \E i \in Slots : jobs[i].k = "move" /\ jobs[i].d = d
Cards(s) == {d \in Deals : deal[d].at = "live" /\ deal[d].stage = s}
OpenStages(p) == {s \in Stages : stage[s].at = "live" /\ stage[s].pipe = p /\ stage[s].type = "open"}

\* DefaultPipeline, positions left out
DefaultPipeline ==
  LET shown == {p \in Pipes : pipe[p].at = "live" /\ ~pipe[p].archived}
      marked == {p \in shown : pipe[p].default}
  IN  IF marked # {} THEN marked ELSE shown

\* resolvePipeline; 0 is a pipeline that was not named
ResolvePipeline(p) == IF p = 0 THEN DefaultPipeline ELSE {q \in {p} : pipe[q].at = "live"}

\* resolveStage; 0 is a stage that was not named
ResolveStage(p, s) ==
  IF s = 0 THEN OpenStages(p) ELSE {q \in {s} : stage[q].at = "live" /\ stage[q].pipe = p}

\* lastRank
LastRank(s) ==
  IF Cards(s) = {} THEN <<>>
  ELSE deal[CHOOSE d \in Cards(s) : \A e \in Cards(s) : ~Less(deal[d].rank, deal[e].rank)].rank

\* rankOf: a neighbour that is gone or is the card itself counts as absent
RankOf(n, self) == IF n \in {0, self} \/ deal[n].at # "live" THEN <<>> ELSE deal[n].rank

\* the stage a deal is written to is not the stage that was read
Stale(s, t) == stage[s].at # "live" \/ stage[s].type # t

\* Create, up to the insert: contact, pipeline, stage and last rank
Create(c, owner, p0, s0) ==
  /\ contact[c].live
  /\ Cardinality({i \in Slots : jobs[i].k = "insert"})
       < Cardinality({d \in Deals : deal[d].at = "no"})
  /\ \E p \in ResolvePipeline(p0) : \E s \in ResolveStage(p, s0) :
       Starts([k |-> "insert", stage |-> s, type |-> stage[s].type,
               rank |-> RankBetween(LastRank(s), <<>>), contact |-> c,
               owner |-> IF owner = None THEN contact[c].agent ELSE owner])
  /\ UNCHANGED <<contact, pipe, stage, deal, type, task, pager>>

InsertDeal(i) ==
  /\ jobs[i].k = "insert"
  /\ \E d \in Fresh(deal, Deals) :
       deal' = [deal EXCEPT ![d] =
         [at |-> "live", stage |-> jobs[i].stage, status |-> StatusForStage(jobs[i].type),
          closed |-> FALSE, rank |-> jobs[i].rank, owner |-> jobs[i].owner,
          contact |-> jobs[i].contact, odd |-> Stale(jobs[i].stage, jobs[i].type)]]
  /\ Ends(i)
  /\ UNCHANGED <<contact, pipe, stage, type, task, pager, ops>>

\* the handler of POST /deals
CreateDeal(u, c) ==
  /\ Request /\ SeesContact(u, c)
  /\ \E p \in Pipes \cup {0}, s \in Stages \cup {0}, o \in {None, u} : Create(c, o, p, s)

\* the create_deal action of a rule or a flow
ActionCreateDeal(c) ==
  /\ Request
  /\ \E p \in Pipes \cup {0}, s \in Stages \cup {0} : Create(c, None, p, s)

\* rankFor: the ranks a card is dropped between; the bottom of the column
\* when no neighbour is named
RankFor(d, s, after, before) ==
  IF after = 0 /\ before = 0 THEN <<LastRank(s), <<>>>>
  ELSE <<RankOf(after, d), RankOf(before, d)>>

\* Move, up to the write, with the deal's row locked
Move(d, s, after, before) ==
  LET r == RankFor(d, s, after, before) IN
  /\ deal[d].at = "live" /\ ~Locked(d)
  /\ stage[s].at = "live" /\ stage[s].pipe = stage[deal[d].stage].pipe
  /\ Starts([k |-> "move", d |-> d, stage |-> s, type |-> stage[s].type,
             lo |-> r[1], hi |-> r[2], rank |-> RankBetween(r[1], r[2])])
  /\ UNCHANGED <<contact, pipe, stage, deal, type, task, pager>>

\* what Move writes for another stage
Restaged(row, j) ==
  [row EXCEPT !.stage = j.stage, !.status = StatusForStage(j.type), !.rank = j.rank,
              !.closed = StatusForStage(j.type) # "open", !.odd = Stale(j.stage, j.type)]

\* the rest of Move: inside a column only the rank is written
WriteMove(i) ==
  LET j == jobs[i] IN
  /\ j.k = "move"
  /\ deal' = [deal EXCEPT ![j.d] = IF j.stage = @.stage THEN [@ EXCEPT !.rank = j.rank]
                                   ELSE Restaged(@, j)]
  /\ Ends(i)
  /\ UNCHANGED <<contact, pipe, stage, type, task, pager, ops>>

\* the handler of a drag and drop
MoveDeal(u, d) ==
  /\ Request /\ VisibleDeal(u, d)
  /\ \E s \in Stages, after \in Deals \cup {0}, before \in Deals \cup {0} :
       Move(d, s, after, before)

\* resolveDeal: the deal an action names or its event is about, or an open
\* one of the contact
ResolveDeal(named, c) ==
  IF named # 0 THEN {named}
  ELSE {d \in Deals : deal[d].at = "live" /\ deal[d].contact = c /\ deal[d].status = "open"}

\* the move_deal_stage action of a rule or a flow
ActionMoveDeal(c) ==
  /\ Request
  /\ \E n \in Deals \cup {0}, s \in Stages : \E d \in ResolveDeal(n, c) : Move(d, s, 0, 0)

\* Update, of which only the owner matters here; nobody checks the owner
Update(d, o) == ~Locked(d) /\ deal' = [deal EXCEPT ![d].owner = o]

Delete(d) == ~Locked(d) /\ deal' = [deal EXCEPT ![d] = GoneDeal]

\* their handlers
UpdateDeal(u, d) ==
  /\ Request /\ VisibleDeal(u, d)
  /\ \E o \in Owners \ {deal[d].owner} : Update(d, o)
  /\ UNCHANGED <<contact, pipe, stage, type, task, jobs, pager>>

DeleteDeal(u, d) ==
  /\ Request /\ VisibleDeal(u, d) /\ Delete(d)
  /\ UNCHANGED <<contact, pipe, stage, type, task, jobs, pager>>

-----------------------------------------------------------------------------
(* Pipelines and stages *)

CreatePipeline ==
  LET used == Cardinality({s \in Stages : stage[s].at # "no"}) IN
  /\ used + Len(StageTypes) <= MaxStages
  /\ \E p \in Fresh(pipe, Pipes) :
       /\ pipe' = [pipe EXCEPT ![p] = [at |-> "live", archived |-> FALSE,
                     default |-> \A q \in Pipes : pipe[q].at # "live"]]
       /\ stage' = [s \in Stages |-> IF s - used \in DOMAIN StageTypes
                      THEN [at |-> "live", pipe |-> p, type |-> StageTypes[s - used]] ELSE stage[s]]
  /\ UNCHANGED <<contact, deal, type, task, jobs, pager>>

\* UpdatePipeline making one the default
UpdatePipeline(p) ==
  /\ pipe[p].at = "live" /\ ~pipe[p].default
  /\ pipe' = [q \in Pipes |-> [pipe[q] EXCEPT !.default = q = p]]
  /\ UNCHANGED <<contact, stage, deal, type, task, jobs, pager>>

ArchivePipeline(p) ==
  /\ pipe[p].at = "live" /\ ~pipe[p].archived
  /\ pipe' = [pipe EXCEPT ![p].archived = TRUE]
  /\ UNCHANGED <<contact, stage, deal, type, task, jobs, pager>>

\* DeletePipeline: refused while open deals live on it; closed ones stay
\* behind without a board
DeletePipeline(p) ==
  /\ pipe[p].at = "live"
  /\ ~\E d \in Deals : deal[d].at = "live" /\ stage[deal[d].stage].pipe = p
                       /\ deal[d].status = "open"
  /\ pipe' = [pipe EXCEPT ![p].at = "gone"]
  /\ stage' = [s \in Stages |-> IF stage[s].pipe = p /\ stage[s].at = "live"
                                THEN [stage[s] EXCEPT !.at = "gone"] ELSE stage[s]]
  /\ UNCHANGED <<contact, deal, type, task, jobs, pager>>

CreateStage(p, t) ==
  /\ pipe[p].at = "live"
  /\ \E s \in Fresh(stage, Stages) :
       stage' = [stage EXCEPT ![s] = [at |-> "live", pipe |-> p, type |-> t]]
  /\ UNCHANGED <<contact, pipe, deal, type, task, jobs, pager>>

\* UpdateStage loads the whole row, saves the whole row and then brings the
\* deals in line, in three statements of their own
UpdateStage(s, t) ==
  /\ stage[s].at = "live"
  /\ Starts([k |-> "save", stage |-> s, type |-> t])
  /\ UNCHANGED <<contact, pipe, stage, deal, type, task, pager>>

\* Save writes every column, deleted_at too: a stage deleted meanwhile is back
SaveStage(i) ==
  /\ jobs[i].k = "save"
  /\ stage' = [stage EXCEPT ![jobs[i].stage].type = jobs[i].type, ![jobs[i].stage].at = "live"]
  /\ jobs' = [jobs EXCEPT ![i].k = "sync"]
  /\ UNCHANGED <<contact, pipe, deal, type, task, pager, ops>>

\* the deals of a retyped stage stay as they are
SyncStatusNot(row, status, stale) == [row EXCEPT !.odd = @ \/ stale]

\* syncStatusToStage on one deal of the stage
SyncStatus(row, status, stale) ==
  IF row.status = status THEN [row EXCEPT !.odd = @ \/ stale]
  ELSE [row EXCEPT !.status = status, !.closed = @ /\ status # "open", !.odd = stale]

SyncStatusToStage(i) ==
  LET s == jobs[i].stage IN
  /\ jobs[i].k = "sync"
  /\ ~\E d \in Cards(s) : Locked(d)
  /\ deal' = [d \in Deals |-> IF d \in Cards(s)
                THEN SyncStatus(deal[d], StatusForStage(jobs[i].type), Stale(s, jobs[i].type))
                ELSE deal[d]]
  /\ Ends(i)
  /\ UNCHANGED <<contact, pipe, stage, type, task, pager, ops>>

\* DeleteStage, up to its writes: cards need somewhere to go
DeleteStage(s, to) ==
  /\ stage[s].at = "live"
  /\ IF Cards(s) = {} THEN to = 0
     ELSE to \in Stages \ {s} /\ stage[to].at = "live" /\ stage[to].pipe = stage[s].pipe
  /\ Starts([k |-> "remove", stage |-> s, to |-> to, was |-> stage[s].type,
             type |-> IF to = 0 THEN "open" ELSE stage[to].type])
  /\ UNCHANGED <<contact, pipe, stage, deal, type, task, pager>>

\* what DeleteStage writes to a card: the status follows, closed_at does not
Swept(row, j) ==
  IF j.to = 0 THEN [row EXCEPT !.odd = TRUE]
  ELSE [row EXCEPT !.stage = j.to, !.status = StatusForStage(j.type),
                   !.odd = Stale(j.to, j.type) \/ (row.closed /\ j.type = "open")]

\* the rest of DeleteStage: all undone when no open column would be left
RemoveStage(i) ==
  LET j == jobs[i]
      refused == j.was = "open" /\ OpenStages(stage[j.stage].pipe) \ {j.stage} = {}
  IN
  /\ j.k = "remove"
  /\ ~\E d \in Cards(j.stage) : Locked(d)
  /\ IF refused THEN UNCHANGED <<deal, stage>>
     ELSE /\ deal' = [d \in Deals |-> IF d \in Cards(j.stage) THEN Swept(deal[d], j) ELSE deal[d]]
          /\ stage' = [stage EXCEPT ![j.stage].at = "gone"]
  /\ Ends(i)
  /\ UNCHANGED <<contact, pipe, type, task, pager, ops>>

\* the handlers, for anyone who may manage pipelines; whether segments or
\* rules name the stage only matters to one who does not insist
HandleCreatePipeline == Request /\ CreatePipeline
HandleUpdatePipeline(p) == Request /\ UpdatePipeline(p)
HandleDeletePipeline(p) == Request /\ (ArchivePipeline(p) \/ DeletePipeline(p))
HandleCreateStage(p) == Request /\ \E t \in {"open", "won", "lost"} : CreateStage(p, t)
HandleUpdateStage(s) == Request /\ \E t \in {"open", "won", "lost"} : UpdateStage(s, t)
HandleDeleteStage(s) == Request /\ \E to \in Stages \cup {0} : DeleteStage(s, to)

-----------------------------------------------------------------------------
(* Scrolling down a column *)

\* ORDER BY board_position, created_at
Above(d, e) == Less(deal[d].rank, deal[e].rank) \/ (deal[d].rank = deal[e].rank /\ d < e)
Top(cards, n) == {d \in cards : Cardinality({e \in cards : Above(e, d)}) < n}
Bottom(cards) == CHOOSE d \in cards : \A e \in cards \ {d} : Above(e, d)

\* next_cursor: the board position of the last card of the page
Cursor(cards) == deal[Bottom(Top(cards, PageSize))].rank

\* one page of the cards below the cursor; a card that has the cursor's rank
\* and is not on the page is not below it
Shows(pg, cards) ==
  LET page == Top(cards, PageSize)
      more == Cardinality(cards) > PageSize
  IN  [pg EXCEPT !.on = more, !.seen = @ \cup page, !.twice = @ \cup (page \cap pg.seen),
         !.after = IF more THEN Cursor(cards) ELSE @,
         !.kept = {<<d, deal[d].rank>> : d \in Column(pg.user, pg.stage)} \cap
                  {k \in @ : k[1] \in page \cup pg.seen \/ ~more \/ k[2] # deal[Bottom(page)].rank}]

\* Board: the first page of a column
Board(u, s) ==
  /\ Request /\ stage[s].at = "live" /\ pager = NoPager
  /\ Column(u, s) # {}
  /\ pager' = Shows([NoPager EXCEPT !.stage = s, !.user = u,
                       !.kept = {<<d, deal[d].rank>> : d \in Column(u, s)}], Column(u, s))
  /\ UNCHANGED <<contact, pipe, stage, deal, type, task, jobs>>

\* StageDeals of the service: keyset, the cards past the cursor
Below(cards, after) == {d \in cards : Less(after, deal[d].rank)}

\* the handler: one more page
StageDeals ==
  /\ pager.on
  /\ pager' = Shows(pager, Below(Column(pager.user, pager.stage), pager.after))
  /\ UNCHANGED <<contact, pipe, stage, deal, type, task, jobs, ops>>

-----------------------------------------------------------------------------
(* Tasks *)

\* resolveType
ResolveType(y) == type[y].at = "live" /\ ~type[y].archived

\* resolveOwner: the first candidate that is active
ResolveOwner(given, c, creator) ==
  IF given \in Active THEN {given}
  ELSE IF contact[c].agent \in Active THEN {contact[c].agent}
  ELSE {creator} \cap Active

\* Create, up to the insert
CreateTaskFor(c, y, given, creator) ==
  /\ contact[c].live /\ ResolveType(y)
  /\ Cardinality({i \in Slots : jobs[i].k = "task"})
       < Cardinality({t \in Tasks : task[t].at = "no"})
  /\ \E o \in ResolveOwner(given, c, creator) :
       Starts([k |-> "task", type |-> y, owner |-> o, contact |-> c])
  /\ UNCHANGED <<contact, pipe, stage, deal, type, task, pager>>

\* the type was deleted, or counted as unused, since it was resolved
Doomed(y) == type[y].at # "live" \/ \E i \in Slots : jobs[i].k = "untype" /\ jobs[i].ty = y

InsertTask(i) ==
  /\ jobs[i].k = "task"
  /\ \E t \in Fresh(task, Tasks) :
       task' = [task EXCEPT ![t] =
         [NoTask EXCEPT !.at = "live", !.owner = jobs[i].owner, !.contact = jobs[i].contact,
            !.type = jobs[i].type,
            !.odd = IF Doomed(jobs[i].type) THEN {"type"} ELSE {}]]
  /\ Ends(i)
  /\ UNCHANGED <<contact, pipe, stage, deal, type, pager, ops>>

\* the handler of POST /tasks
CreateTask(u, c) ==
  /\ Request /\ SeesContact(u, c)
  /\ \E y \in Types, given \in Owners : CreateTaskFor(c, y, given, u)

\* the create_task action of a rule or a flow, whose creator is its author
ActionCreateTask(c) ==
  /\ Request
  /\ \E y \in Types, given \in Owners, author \in Users : CreateTaskFor(c, y, given, author)

\* what close writes
Closed(row, to) ==
  [row EXCEPT !.status = to,
              !.done = @ \/ to = "completed", !.cancelled = @ \/ to = "cancelled",
              !.odd = IF row.status = "open" THEN @ ELSE @ \cup {"status"}]

\* what Reopen writes
Reopened(row) ==
  [row EXCEPT !.status = "open", !.done = FALSE, !.cancelled = FALSE,
              !.stamp = [k \in Kinds |-> FALSE], !.told = [k \in Kinds |-> 0],
              !.odd = @ \cap {"type"}]

Unstamped(row, ks) ==
  [row EXCEPT !.stamp = [k \in Kinds |-> @[k] /\ k \notin ks],
              !.told = [k \in Kinds |-> IF k \in ks THEN 0 ELSE @[k]], !.odd = @ \ ks]

\* what Update writes: a new deadline lets both notices go out again, a new
\* reminder only its own, and a reminder that is removed none
Edited(row, what, at) ==
  LET new == [row EXCEPT !.when[what] = at] IN
  IF what = "due" THEN Unstamped(new, Kinds)
  ELSE IF at = "none" THEN new ELSE Unstamped(new, {"remind"})

\* the handlers of complete, cancel, reopen and update, up to their writes
CloseTask(u, t, to) ==
  /\ Request /\ CanSeeTask(u, t) /\ task[t].status = "open"
  /\ Starts([k |-> "close", t |-> t, to |-> to])
  /\ UNCHANGED <<contact, pipe, stage, deal, type, task, pager>>

ReopenTask(u, t) ==
  /\ Request /\ CanSeeTask(u, t) /\ task[t].status # "open"
  /\ Starts([k |-> "reopen", t |-> t])
  /\ UNCHANGED <<contact, pipe, stage, deal, type, task, pager>>

UpdateTask(u, t) ==
  /\ Request /\ CanSeeTask(u, t) /\ task[t].status = "open"
  /\ \E e \in {<<"due", "later">>, <<"remind", "later">>, <<"remind", "none">>} :
       Starts([k |-> "edit", t |-> t, what |-> e[1], at |-> e[2]])
  /\ UNCHANGED <<contact, pipe, stage, deal, type, task, pager>>

\* their writes, by id; a task deleted meanwhile is not found
WriteTask(i) ==
  LET j == jobs[i] IN
  /\ j.k \in {"close", "reopen", "edit"}
  /\ task' = [task EXCEPT ![j.t] =
       IF @.at # "live" THEN @
       ELSE CASE j.k = "close" -> Closed(@, j.to)
              [] j.k = "reopen" -> Reopened(@)
              [] j.k = "edit" -> Edited(@, j.what, j.at)]
  /\ Ends(i)
  /\ UNCHANGED <<contact, pipe, stage, deal, type, pager, ops>>

\* Reassign: to an active user
Reassigned(row) == {[row EXCEPT !.owner = o] : o \in Active}

ReassignTask(u, t) ==
  /\ Request /\ CanSeeTask(u, t)
  /\ \E row \in Reassigned(task[t]) \ {task[t]} : task' = [task EXCEPT ![t] = row]
  /\ UNCHANGED <<contact, pipe, stage, deal, type, jobs, pager>>

DeleteTask(u, t) ==
  /\ Request /\ CanSeeTask(u, t)
  /\ task' = [task EXCEPT ![t] = GoneTask]
  /\ UNCHANGED <<contact, pipe, stage, deal, type, jobs, pager>>

\* BulkTasks: one action on several tasks, each on its own
BulkTasks(u, ts, act) ==
  /\ Request /\ ts # {} /\ \A t \in ts : task[t].at # "no"
  /\ Starts([k |-> "bulk", u |-> u, todo |-> ts, act |-> act])
  /\ UNCHANGED <<contact, pipe, stage, deal, type, task, pager>>

\* what the action does to a task; one that is not open is left alone
Applied(row, act) ==
  CASE act = "complete" /\ row.status = "open" -> {Closed(row, "completed")}
    [] act = "cancel" /\ row.status = "open" -> {Closed(row, "cancelled")}
    [] act = "reschedule" /\ row.status = "open" -> {Edited(row, "due", "later")}
    [] act = "reassign" -> Reassigned(row)
    [] act = "delete" -> {GoneTask}
    [] OTHER -> {row}

BulkStep(i) ==
  LET j == jobs[i] IN
  /\ j.k = "bulk"
  /\ \E t \in j.todo :
       /\ \E row \in IF CanSeeTask(j.u, t) THEN Applied(task[t], j.act) ELSE {task[t]} :
            task' = [task EXCEPT ![t] = row]
       /\ jobs' = [jobs EXCEPT ![i] = IF j.todo = {t} THEN Idle ELSE [j EXCEPT !.todo = @ \ {t}]]
  /\ UNCHANGED <<contact, pipe, stage, deal, type, pager, ops>>

\* time passes a reminder or a deadline (bound: counted as a request)
Lapse(t, k) ==
  /\ Request /\ task[t].at = "live" /\ task[t].when[k] = "later"
  /\ task' = [task EXCEPT ![t].when[k] = "past"]
  /\ UNCHANGED <<contact, pipe, stage, deal, type, jobs, pager>>

Due(t, k) ==
  /\ task[t].at = "live" /\ task[t].status = "open" /\ task[t].when[k] = "past"
  /\ contact[task[t].contact].live /\ ~task[t].stamp[k]

\* Mutant: the notifier looks for reminders and forgets the deadlines
BatchOfReminders(k) == {t \in Tasks : Due(t, k) /\ k = "remind"}

\* the query of one batch
Batch(k) == {t \in Tasks : Due(t, k)}

\* notifyDueTasks: one batch is read
NotifyDueTasks(k) ==
  /\ Batch(k) # {}
  /\ Starts([k |-> "notify", what |-> k, batch |-> Batch(k)])
  /\ UNCHANGED <<contact, pipe, stage, deal, type, task, pager, ops>>

\* the update that claims a notice changed a row: only the stamp is looked at
Claims(row, k) == row.at = "live" /\ ~row.stamp[k]

\* notifyTaskBatch: each task of the batch is claimed, then its owner is
\* told; told counts the attempt, a notice that fails is not repeated
NotifyTask(i) ==
  LET j == jobs[i] IN
  /\ j.k = "notify"
  /\ \E t \in j.batch :
       LET moved == task[t].status # "open" \/ task[t].when[j.what] # "past" IN
       /\ task' = IF ~Claims(task[t], j.what) THEN task
                  ELSE [task EXCEPT ![t].stamp[j.what] = TRUE, ![t].told[j.what] = @ + 1,
                                    ![t].odd = IF moved THEN @ \cup {j.what} ELSE @]
       /\ jobs' = [jobs EXCEPT ![i] = IF j.batch = {t} THEN Idle ELSE [j EXCEPT !.batch = @ \ {t}]]
  /\ UNCHANGED <<contact, pipe, stage, deal, type, pager, ops>>

-----------------------------------------------------------------------------
(* Task types *)

CreateTaskType ==
  /\ Request
  /\ \E y \in Fresh(type, Types) :
       type' = [type EXCEPT ![y] = [at |-> "live", system |-> FALSE, archived |-> FALSE]]
  /\ UNCHANGED <<contact, pipe, stage, deal, task, jobs, pager>>

\* UpdateTaskType loads the row and saves all of it
UpdateTaskType(y, arch) ==
  /\ Request /\ type[y].at = "live" /\ ~(arch /\ type[y].system)
  /\ Starts([k |-> "type", ty |-> y, archived |-> arch])
  /\ UNCHANGED <<contact, pipe, stage, deal, type, task, pager>>

SaveTaskType(i) ==
  /\ jobs[i].k = "type"
  /\ type' = [type EXCEPT ![jobs[i].ty].archived = jobs[i].archived, ![jobs[i].ty].at = "live"]
  /\ Ends(i)
  /\ UNCHANGED <<contact, pipe, stage, deal, task, pager, ops>>

\* DeleteTaskType: only a type of the organization's own that no task has
Unused(y) ==
  /\ type[y].at = "live" /\ ~type[y].system
  /\ ~\E t \in Tasks : task[t].at = "live" /\ task[t].type = y

DeleteTaskType(y) ==
  /\ Request /\ Unused(y)
  /\ Starts([k |-> "untype", ty |-> y])
  /\ UNCHANGED <<contact, pipe, stage, deal, type, task, pager>>

RemoveTaskType(i) ==
  /\ jobs[i].k = "untype"
  /\ type' = [type EXCEPT ![jobs[i].ty].at = "gone"]
  /\ Ends(i)
  /\ UNCHANGED <<contact, pipe, stage, deal, task, pager, ops>>

\* the process dies: what it had not written is lost, and a stage that was
\* retyped keeps deals of the old status
Restart ==
  /\ Request /\ \E i \in Slots : jobs[i] # Idle
  /\ jobs' = [i \in Slots |-> Idle]
  /\ deal' = [d \in Deals |->
       IF \E i \in Slots : jobs[i].k = "sync" /\ d \in Cards(jobs[i].stage)
       THEN [deal[d] EXCEPT !.odd = TRUE] ELSE deal[d]]
  /\ UNCHANGED <<contact, pipe, stage, type, task, pager>>

-----------------------------------------------------------------------------

Continue(i) ==
  \/ InsertDeal(i) \/ WriteMove(i) \/ SaveStage(i) \/ SyncStatusToStage(i) \/ RemoveStage(i)
  \/ InsertTask(i) \/ WriteTask(i) \/ BulkStep(i) \/ NotifyTask(i)
  \/ SaveTaskType(i) \/ RemoveTaskType(i)

DealRequest ==
  \/ \E u \in Users, c \in Contacts : CreateDeal(u, c)
  \/ \E c \in Contacts : ActionCreateDeal(c) \/ ActionMoveDeal(c)
  \/ \E u \in Users, d \in Deals : MoveDeal(u, d) \/ UpdateDeal(u, d) \/ DeleteDeal(u, d)
  \/ HandleCreatePipeline
  \/ \E p \in Pipes : HandleUpdatePipeline(p) \/ HandleDeletePipeline(p) \/ HandleCreateStage(p)
  \/ \E s \in Stages : HandleUpdateStage(s) \/ HandleDeleteStage(s)
  \/ \E u \in Users, s \in Stages : Board(u, s)

TaskRequest ==
  \/ \E u \in Users, c \in Contacts : CreateTask(u, c)
  \/ \E c \in Contacts : ActionCreateTask(c)
  \/ \E u \in Users, t \in Tasks :
       \/ CloseTask(u, t, "completed") \/ CloseTask(u, t, "cancelled")
       \/ ReopenTask(u, t) \/ UpdateTask(u, t) \/ ReassignTask(u, t) \/ DeleteTask(u, t)
  \/ \E u \in Users, ts \in SUBSET Tasks,
        act \in {"complete", "cancel", "reassign", "reschedule", "delete"} : BulkTasks(u, ts, act)
  \/ CreateTaskType
  \/ \E y \in Types : DeleteTaskType(y) \/ UpdateTaskType(y, TRUE) \/ UpdateTaskType(y, FALSE)

Next ==
  \/ DealRequest \/ TaskRequest \/ Restart
  \/ \E c \in Contacts : ContactChanges(c)
  \/ StageDeals
  \/ \E t \in Tasks, k \in Kinds : Lapse(t, k)
  \/ \E k \in Kinds : NotifyDueTasks(k)
  \/ \E i \in Slots : Continue(i)

\* a request that was begun is finished, and the scheduler keeps running the
\* notifier
Fairness ==
  /\ WF_vars(\E i \in Slots : Continue(i))
  /\ WF_vars(\E k \in Kinds : NotifyDueTasks(k))

Spec == Init /\ [][Next]_vars /\ Fairness

-----------------------------------------------------------------------------
(* Properties *)

\* A card dropped between two neighbours that stand in order gets a rank
\* strictly between theirs, and a card dropped at the end one below the last
\* (rankBetween, rankFor).
RankFits ==
  \A i \in Slots : jobs[i].k = "move" =>
    LET j == jobs[i] IN
    /\ Less(j.lo, j.rank)
    /\ j.hi # <<>> /\ Less(j.lo, j.hi) => Less(j.rank, j.hi)

\* The board is trustworthy: the stage of a deal exists, its status is that of
\* the stage's type, and an open deal bears no closing date and has a
\* pipeline.  A stage being retyped is excused until its deals follow; so is
\* a deal whose stage changed between the read and the write of a create, a
\* move or a sweep (odd), and a closed deal whose pipeline was deleted.
BoardAgrees ==
  \A d \in Deals : deal[d].at = "live" /\ ~deal[d].odd =>
    LET s == stage[deal[d].stage] IN
    /\ \/ s.at = "live" /\ deal[d].status = StatusForStage(s.type)
       \/ pipe[s.pipe].at = "gone" /\ deal[d].status # "open"
       \/ \E i \in Slots : jobs[i].k = "sync" /\ jobs[i].stage = deal[d].stage
    /\ deal[d].status = "open" => ~deal[d].closed

\* Someone who scrolls a column to its end has seen every card that stayed
\* where it was, once, whatever others moved meanwhile, unless the card
\* shares its rank with the last one of a page (StageDeals pages by key
\* "rather than offset: cards move while someone is paging").
PagesComplete ==
  \A k \in pager.kept : /\ k[1] \notin pager.twice
                        /\ ~pager.on => k[1] \in pager.seen

\* The lists and the routes that take an id agree: what a user is shown can
\* be opened, a task of a living contact that can be opened is listed, and so
\* is what the badge counts (visibleDeal, taskScope, canSeeTask, DueFor).
ListsAgree ==
  \A u \in Users :
    /\ \A d \in ListDeals(u) : VisibleDeal(u, d)
    /\ ListTasks(u) = {t \in Tasks : CanSeeTask(u, t) /\ contact[task[t].contact].live}
    /\ DueFor(u) \subseteq ListTasks(u)

\* completed_at and cancelled_at say what the status says, unless two requests
\* closed the task at once.
DatesFollowStatus ==
  \A t \in Tasks : task[t].at = "live" /\ "status" \notin task[t].odd =>
    /\ task[t].done = (task[t].status = "completed")
    /\ task[t].cancelled = (task[t].status = "cancelled")

\* An owner is told of a reminder and of a deadline at most once, however many
\* runs of the notifier overlap (notifyTaskBatch).
ToldOnce == \A t \in Tasks, k \in Kinds : task[t].told[k] <= 1

\* "A new deadline is a new promise": an open task whose reminder or deadline
\* is still to come has not been stamped for it, unless a run that had read
\* the old one claimed it after the change.
NewDeadlineNewPromise ==
  \A t \in Tasks, k \in Kinds :
    task[t].at = "live" /\ task[t].status = "open" /\ task[t].when[k] = "later" /\ task[t].stamp[k]
      => k \in task[t].odd

\* The type of a task exists, unless it was deleted while the task was being
\* created (DeleteTaskType).
TypeKept ==
  \A t \in Tasks : task[t].at = "live" /\ "type" \notin task[t].odd => type[task[t].type].at = "live"

\* Every open task whose time has come, of a contact that was not deleted, is
\* claimed by the notifier sooner or later, through restarts and races.
Chased == []<>(\A t \in Tasks, k \in Kinds : ~Due(t, k))

\* Ranks, pages, lists, dates and notices of deals and tasks, whoever edits at
\* the same time (rank.go, board.go, tasks/service.go, jobs.go).
WorkInv ==
  /\ TypeOK /\ RankFits /\ PagesComplete /\ ListsAgree
  /\ DatesFollowStatus /\ ToldOnce /\ NewDeadlineNewPromise /\ TypeKept
===========================================================================
