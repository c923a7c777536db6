------------------------------ MODULE Campaign ------------------------------
(***************************************************************************)
(* One bulk-message campaign: the HTTP handlers and the scheduler job that *)
(* change its status (internal/handlers), the Redis stream its recipient   *)
(* jobs travel on (internal/queue) and the workers that send them          *)
(* (internal/worker).                                                      *)
(*                                                                         *)
(* None of the three shares a transaction.  A request reads the campaign,  *)
(* decides, and writes later; a worker reads the campaign once per job and *)
(* makes every database write on its own; a job leaves the stream when it  *)
(* is acknowledged, which is after everything else.  Each of those points  *)
(* is a step here.                                                         *)
(*                                                                         *)
(* The stream is a bag per recipient row: the order of jobs is left out,   *)
(* since with several workers it decides nothing.  Statuses after "sent"   *)
(* (delivered, read) are written by status webhooks and are left out.      *)
(***************************************************************************)
EXTENDS Integers, FiniteSets, Sequences

CONSTANTS Rows,        \* recipient rows of the campaign
          Workers,     \* worker goroutines
          Requests,    \* requests and scheduler ticks of a behaviour
          Ops,         \* operations the requests may perform
          InitStatus,  \* status of the campaign row at the start
          Imported,    \* rows that exist at the start (manual or CSV audience)
          Audience,    \* rows each materialisation of a segment would write
          Rejected,    \* rows whose account, contact or consent check fails
          MaxFaults,   \* bound on crashes, restarts, failed enqueues, reads and writes
          None         \* no job

Statuses == {"draft", "scheduled", "queued", "processing", "paused",
             "completed", "cancelled", "failed", "deleted"}

(* The statuses in which a handler goes on after reading the campaign. *)
Accepts == [start  |-> {"draft", "scheduled", "paused"},
            tick   |-> {"scheduled"},
            pause  |-> {"processing", "queued"},
            cancel |-> Statuses \ {"completed", "cancelled", "deleted"},
            retry  |-> {"completed", "paused", "failed"},
            delete |-> Statuses \ {"processing", "queued", "deleted"},
            import |-> {"draft"}]

Pausable == {"draft", "scheduled", "queued"}

ASSUME CampaignAssumption ==
  /\ IsFiniteSet(Rows) /\ IsFiniteSet(Workers)
  /\ None \notin Rows
  /\ Ops \subseteq DOMAIN Accepts \cup {"template"}
  /\ InitStatus \in {"draft", "scheduled"}
  /\ Imported \subseteq Rows /\ Rejected \subseteq Rows
  /\ Audience \in Seq(SUBSET Rows)
  /\ MaxFaults \in Nat

VARIABLES status,    \* campaign row: status
          template,  \* the campaign's template still exists
          written,   \* how many times the segment audience was materialised
          rec,       \* [Rows -> recipient status, "none" when there is no row]
          req,       \* [Requests -> state of a request]
          stream,    \* [Rows -> Nat]: jobs not yet read by a worker
          pel,       \* [Rows -> Nat]: read, unacknowledged, idle for under 5 minutes
          stale,     \* [Rows -> Nat]: read, unacknowledged, idle for longer
          wpc,       \* [Workers -> where HandleRecipientJob stands]
          job,       \* [Workers -> Rows \cup {None}]
          boot,      \* workers that have not finished claimPendingMessages
          enq,       \* [Rows -> Nat]: jobs ever enqueued (history)
          sends,     \* [Rows -> Nat]: sends WhatsApp accepted (history)
          faults

dbVars == <<status, template, written, rec>>
queueVars == <<stream, pel, stale, enq>>
workerVars == <<wpc, job, boot>>
vars == <<dbVars, req, queueVars, workerVars, sends, faults>>

Pending == {r \in Rows : rec[r] = "pending"}
Failed == {r \in Rows : rec[r] = "failed"}

(* Updates by primary key: they touch nothing once the row is deleted. *)
SetStatus(s) == status' = IF status = "deleted" THEN "deleted" ELSE s
SetRec(r, s) == rec' = [rec EXCEPT ![r] = IF @ = "none" THEN "none" ELSE s]

Idle == [op |-> "none", pc |-> "new", seen |-> FALSE, rows |-> {}]

(* CreateCampaign leaves a draft; rows with status "scheduled" come from     *)
(* releases that wrote it (comment of startDueCampaigns).                    *)
Init == /\ status = InitStatus
        /\ template = TRUE
        /\ written = 0
        /\ rec = [r \in Rows |-> IF r \in Imported THEN "pending" ELSE "none"]
        /\ req = [q \in Requests |-> Idle]
        /\ stream = [r \in Rows |-> 0]
        /\ pel = [r \in Rows |-> 0]
        /\ stale = [r \in Rows |-> 0]
        /\ wpc = [w \in Workers |-> "idle"]
        /\ job = [w \in Workers |-> None]
        /\ boot = Workers
        /\ enq = [r \in Rows |-> 0]
        /\ sends = [r \in Rows |-> 0]
        /\ faults = 0

Fault == faults < MaxFaults /\ faults' = faults + 1

-----------------------------------------------------------------------------
(* Requests.                                                                 *)

Goto(q, pc) == req' = [req EXCEPT ![q].pc = pc]
At(q, op, pc) == req[q].op = op /\ req[q].pc = pc

(* Every handler first loads the campaign and refuses the wrong statuses. *)
Check(q, op) ==
  /\ op \in Ops \cap DOMAIN Accepts
  /\ req[q].pc = "new"
  /\ status \in Accepts[op]
  /\ req' = [req EXCEPT ![q] = [op |-> op, pc |-> "checked",
                                seen |-> written > 0, rows |-> {}]]
  /\ UNCHANGED <<dbVars, queueVars, workerVars, sends, faults>>

(* materializeSegmentAudience, which trusts MaterializedAt as loaded. *)
Materialize(q) ==
  /\ req[q].op \in {"start", "tick"} /\ req[q].pc = "checked"
  /\ IF Audience = <<>> \/ req[q].seen
     THEN UNCHANGED <<rec, written>>
     ELSE /\ written < Len(Audience)
          /\ written' = written + 1
          /\ rec' = [r \in Rows |-> IF r \in Audience[written + 1] THEN "pending" ELSE rec[r]]
  /\ Goto(q, "audience")
  /\ UNCHANGED <<status, template, queueVars, workerVars, sends, faults>>

(* Mutant: a resume leaves out the rows that were enqueued before. *)
LoadPendingNeverQueued(q) ==
  /\ req[q].op \in {"start", "tick"} /\ req[q].pc = "audience"
  /\ Pending # {}
  /\ req' = [req EXCEPT ![q].pc = "loaded", ![q].rows = {r \in Pending : enq[r] = 0}]
  /\ UNCHANGED <<dbVars, queueVars, workerVars, sends, faults>>

(* The pending recipients the start will enqueue. *)
LoadPending(q) ==
  /\ req[q].op \in {"start", "tick"} /\ req[q].pc = "audience"
  /\ Pending # {}
  /\ req' = [req EXCEPT ![q].pc = "loaded", ![q].rows = Pending]
  /\ UNCHANGED <<dbVars, queueVars, workerVars, sends, faults>>

(* Nothing to send: the button reports an error, the job completes it. *)
LoadNothing(q) ==
  /\ req[q].op \in {"start", "tick"} /\ req[q].pc = "audience"
  /\ Pending = {}
  /\ IF req[q].op = "tick" THEN SetStatus("completed") ELSE UNCHANGED status
  /\ Goto(q, "done")
  /\ UNCHANGED <<template, written, rec, queueVars, workerVars, sends, faults>>

(* The template is gone: the button reports an error, the job fails it. *)
TemplateMissing(q) ==
  /\ req[q].op \in {"start", "tick"} /\ req[q].pc = "loaded"
  /\ ~ template
  /\ IF req[q].op = "tick" THEN SetStatus("failed") ELSE UNCHANGED status
  /\ Goto(q, "done")
  /\ UNCHANGED <<template, written, rec, queueVars, workerVars, sends, faults>>

(* StartCampaign's status update carries no condition ... *)
StartMark(q) ==
  /\ At(q, "start", "loaded")
  /\ template
  /\ SetStatus("processing")
  /\ Goto(q, "marked")
  /\ UNCHANGED <<template, written, rec, queueVars, workerVars, sends, faults>>

(* Mutant: the claim without its status condition. *)
TickClaimUnguarded(q) ==
  /\ At(q, "tick", "loaded")
  /\ template
  /\ status' = "processing" /\ Goto(q, "marked")
  /\ UNCHANGED <<template, written, rec, queueVars, workerVars, sends, faults>>

(* ... the scheduled start claims the campaign or walks away. *)
TickClaim(q) ==
  /\ At(q, "tick", "loaded")
  /\ template
  /\ IF status = "scheduled"
     THEN status' = "processing" /\ Goto(q, "marked")
     ELSE UNCHANGED status /\ Goto(q, "done")
  /\ UNCHANGED <<template, written, rec, queueVars, workerVars, sends, faults>>

AddJobs(S) == /\ stream' = [r \in Rows |-> IF r \in S THEN stream[r] + 1 ELSE stream[r]]
              /\ enq' = [r \in Rows |-> IF r \in S THEN enq[r] + 1 ELSE enq[r]]
              /\ UNCHANGED <<pel, stale>>

Enqueue(q) ==
  /\ req[q].pc = "marked"
  /\ AddJobs(req[q].rows)
  /\ Goto(q, "done")
  /\ UNCHANGED <<dbVars, workerVars, sends, faults>>

(* The pipeline fails after some of the jobs were added. *)
EnqueueFails(q) ==
  /\ req[q].pc = "marked"
  /\ \E S \in SUBSET req[q].rows : AddJobs(S)
  /\ CASE req[q].op = "start" -> SetStatus("draft")
       [] req[q].op = "tick"  -> SetStatus("scheduled")
       [] req[q].op = "retry" -> UNCHANGED status
  /\ Fault
  /\ Goto(q, "done")
  /\ UNCHANGED <<template, written, rec, workerVars, sends>>

PauseCampaign(q) ==
  /\ At(q, "pause", "checked")
  /\ SetStatus("paused")
  /\ Goto(q, "done")
  /\ UNCHANGED <<template, written, rec, queueVars, workerVars, sends, faults>>

CancelCampaign(q) ==
  /\ At(q, "cancel", "checked")
  /\ SetStatus("cancelled")
  /\ Goto(q, "done")
  /\ UNCHANGED <<template, written, rec, queueVars, workerVars, sends, faults>>

(* Recipients first, then the campaign. *)
DeleteRecipients(q) ==
  /\ At(q, "delete", "checked")
  /\ rec' = [r \in Rows |-> "none"]
  /\ Goto(q, "emptied")
  /\ UNCHANGED <<status, template, written, queueVars, workerVars, sends, faults>>

DeleteCampaign(q) ==
  /\ At(q, "delete", "emptied")
  /\ status' = "deleted"
  /\ Goto(q, "done")
  /\ UNCHANGED <<template, written, rec, queueVars, workerVars, sends, faults>>

ImportRecipients(q) ==
  /\ At(q, "import", "checked")
  /\ \E r \in Rows : rec[r] = "none" /\ rec' = [rec EXCEPT ![r] = "pending"]
  /\ Goto(q, "done")
  /\ UNCHANGED <<status, template, written, queueVars, workerVars, sends, faults>>

RetryLoad(q) ==
  /\ At(q, "retry", "checked")
  /\ IF Failed = {} THEN Goto(q, "done")
     ELSE req' = [req EXCEPT ![q].pc = "loaded", ![q].rows = Failed]
  /\ UNCHANGED <<dbVars, queueVars, workerVars, sends, faults>>

(* Every row that is failed now, not only the loaded ones. *)
RetryReset(q) ==
  /\ At(q, "retry", "loaded")
  /\ rec' = [r \in Rows |-> IF r \in Failed THEN "pending" ELSE rec[r]]
  /\ Goto(q, "reset")
  /\ UNCHANGED <<status, template, written, queueVars, workerVars, sends, faults>>

RetryMark(q) ==
  /\ At(q, "retry", "reset")
  /\ SetStatus("processing")
  /\ Goto(q, "marked")
  /\ UNCHANGED <<template, written, rec, queueVars, workerVars, sends, faults>>

(* The template is deleted and its guard pauses what has not started. *)
DeleteTemplate ==
  /\ "template" \in Ops
  /\ template
  /\ template' = FALSE
  /\ status' = IF status \in Pausable THEN "paused" ELSE status
  /\ UNCHANGED <<written, rec, req, queueVars, workerVars, sends, faults>>

RequestStep(q) ==
  \/ Materialize(q) \/ LoadPending(q) \/ LoadNothing(q) \/ TemplateMissing(q)
  \/ StartMark(q) \/ TickClaim(q) \/ Enqueue(q)
  \/ PauseCampaign(q) \/ CancelCampaign(q)
  \/ DeleteRecipients(q) \/ DeleteCampaign(q) \/ ImportRecipients(q)
  \/ RetryLoad(q) \/ RetryReset(q) \/ RetryMark(q)

-----------------------------------------------------------------------------
(* The stream and the workers.                                               *)

Take(w, r) == /\ job' = [job EXCEPT ![w] = r]
              /\ wpc' = [wpc EXCEPT ![w] = "load"]

(* claimPendingMessages, once, when a worker starts: jobs idle long enough. *)
Reclaim(w) ==
  /\ w \in boot /\ wpc[w] = "idle"
  /\ \E r \in Rows : /\ stale[r] > 0
                     /\ stale' = [stale EXCEPT ![r] = @ - 1]
                     /\ Take(w, r)
  /\ UNCHANGED <<dbVars, req, stream, pel, enq, boot, sends, faults>>

EndReclaim(w) ==
  /\ w \in boot /\ wpc[w] = "idle"
  /\ \A r \in Rows : stale[r] = 0
  /\ boot' = boot \ {w}
  /\ UNCHANGED <<dbVars, req, queueVars, wpc, job, sends, faults>>

(* Mutant: a plain XREAD, which leaves the job to the other workers too. *)
ReadWithoutGroup(w) ==
  /\ w \notin boot /\ wpc[w] = "idle"
  /\ \E r \in Rows : stream[r] > 0 /\ Take(w, r)
  /\ UNCHANGED <<dbVars, req, queueVars, boot, sends, faults>>

(* XREADGROUP ">": one job nobody has read. *)
Read(w) ==
  /\ w \notin boot /\ wpc[w] = "idle"
  /\ \E r \in Rows : /\ stream[r] > 0
                     /\ stream' = [stream EXCEPT ![r] = @ - 1]
                     /\ Take(w, r)
  /\ UNCHANGED <<dbVars, req, pel, stale, enq, boot, sends, faults>>

Step(w, pc) == wpc' = [wpc EXCEPT ![w] = pc]
Drop(w) == /\ job' = [job EXCEPT ![w] = None]
           /\ Step(w, "idle")

(* HandleRecipientJob reads the campaign: the only look at its status. *)
Load(w) ==
  /\ wpc[w] = "load" /\ status # "deleted"
  /\ Step(w, IF status \in {"paused", "cancelled"} THEN "ack"
             ELSE IF job[w] \in Rejected THEN "reject"
             ELSE IF ~ template THEN "untemplated"
             ELSE "send")
  /\ UNCHANGED <<dbVars, req, queueVars, job, boot, sends, faults>>

(* The campaign cannot be loaded: the job is not acknowledged. *)
LoadFails(w) ==
  /\ wpc[w] = "load"
  /\ \/ status = "deleted" /\ UNCHANGED faults
     \/ Fault
  /\ pel' = [pel EXCEPT ![job[w]] = @ + 1]
  /\ Drop(w)
  /\ UNCHANGED <<dbVars, req, stream, stale, enq, boot, sends>>

(* Account, contact or CheckTemplate: failed, and straight to the ack. *)
Reject(w) ==
  /\ wpc[w] = "reject"
  /\ SetRec(job[w], "failed")
  /\ Step(w, "ack")
  /\ UNCHANGED <<status, template, written, req, queueVars, job, boot, sends, faults>>

(* The template is gone: failed, and the completion check. *)
FailWithoutTemplate(w) ==
  /\ wpc[w] = "untemplated"
  /\ SetRec(job[w], "failed")
  /\ Step(w, "count")
  /\ UNCHANGED <<status, template, written, req, queueVars, job, boot, sends, faults>>

(* sendTemplateMessage: WhatsApp accepts the message or refuses it. *)
Send(w) ==
  /\ wpc[w] = "send"
  /\ sends' = [sends EXCEPT ![job[w]] = @ + 1]
  /\ Step(w, "sent")
  /\ UNCHANGED <<dbVars, req, queueVars, job, boot, faults>>

SendRefused(w) ==
  /\ wpc[w] = "send"
  /\ Step(w, "refused")
  /\ UNCHANGED <<dbVars, req, queueVars, job, boot, sends, faults>>

(* Mutant: a refused send skips the completion check, like a rejection. *)
RecordOutcomeRefusedUnchecked(w) ==
  /\ wpc[w] \in {"sent", "refused"}
  /\ SetRec(job[w], IF wpc[w] = "sent" THEN "sent" ELSE "failed")
  /\ Step(w, IF wpc[w] = "sent" THEN "count" ELSE "ack")
  /\ UNCHANGED <<status, template, written, req, queueVars, job, boot, sends, faults>>

(* updateRecipientStatus, whose error nobody looks at. *)
RecordOutcome(w) ==
  /\ wpc[w] \in {"sent", "refused"}
  /\ \/ SetRec(job[w], IF wpc[w] = "sent" THEN "sent" ELSE "failed") /\ UNCHANGED faults
     \/ UNCHANGED rec /\ Fault
  /\ Step(w, "count")
  /\ UNCHANGED <<status, template, written, req, queueVars, job, boot, sends>>

(* Mutant: completion without counting the pending rows. *)
CountPendingSkipped(w) ==
  /\ wpc[w] = "count"
  /\ Step(w, "reload")
  /\ UNCHANGED <<dbVars, req, queueVars, job, boot, sends, faults>>

(* checkCampaignCompletion counts, reads the status, then writes it.  A      *)
(* failed count reads as zero.                                               *)
CountPending(w) ==
  /\ wpc[w] = "count"
  /\ \/ Step(w, IF Pending = {} THEN "reload" ELSE "ack") /\ UNCHANGED faults
     \/ Step(w, "reload") /\ Fault
  /\ UNCHANGED <<dbVars, req, queueVars, job, boot, sends>>

ReloadStatus(w) ==
  /\ wpc[w] = "reload"
  /\ Step(w, IF status = "processing" THEN "complete" ELSE "ack")
  /\ UNCHANGED <<dbVars, req, queueVars, job, boot, sends, faults>>

Complete(w) ==
  /\ wpc[w] = "complete"
  /\ SetStatus("completed")
  /\ Step(w, "ack")
  /\ UNCHANGED <<template, written, rec, req, queueVars, job, boot, sends, faults>>

Ack(w) ==
  /\ wpc[w] = "ack"
  /\ Drop(w)
  /\ UNCHANGED <<dbVars, req, queueVars, boot, sends, faults>>

(* The process dies with the job unacknowledged and is started again. *)
Crash(w) ==
  /\ wpc[w] # "idle"
  /\ Fault
  /\ pel' = [pel EXCEPT ![job[w]] = @ + 1]
  /\ Drop(w)
  /\ boot' = boot \cup {w}
  /\ UNCHANGED <<dbVars, req, stream, stale, enq, sends>>

(* A deployment restarts an idle worker. *)
Restart(w) ==
  /\ wpc[w] = "idle" /\ w \notin boot
  /\ Fault
  /\ boot' = boot \cup {w}
  /\ UNCHANGED <<dbVars, req, queueVars, wpc, job, sends>>

(* ClaimMinIdleTime passes for an unacknowledged job. *)
Age(r) ==
  /\ pel[r] > 0
  /\ pel' = [pel EXCEPT ![r] = @ - 1]
  /\ stale' = [stale EXCEPT ![r] = @ + 1]
  /\ UNCHANGED <<dbVars, req, stream, enq, workerVars, sends, faults>>

WorkerStep(w) ==
  \/ Reclaim(w) \/ EndReclaim(w) \/ Read(w) \/ Load(w) \/ LoadFails(w)
  \/ Reject(w) \/ FailWithoutTemplate(w) \/ Send(w) \/ SendRefused(w)
  \/ RecordOutcome(w) \/ CountPending(w) \/ ReloadStatus(w) \/ Complete(w) \/ Ack(w)

Next == \/ \E q \in Requests, op \in Ops : Check(q, op)
        \/ \E q \in Requests : RequestStep(q) \/ EnqueueFails(q)
        \/ DeleteTemplate
        \/ \E w \in Workers : WorkerStep(w) \/ Crash(w) \/ Restart(w)
        \/ \E r \in Rows : Age(r)

Spec == Init /\ [][Next]_vars

(* A request that has begun runs to its end, the scheduler keeps ticking,    *)
(* workers keep working and time passes.  Users promise nothing.             *)
FairSpec == /\ Spec
            /\ \A q \in Requests : /\ WF_vars(RequestStep(q))
                                   /\ WF_vars(Check(q, "tick"))
            /\ \A w \in Workers : WF_vars(WorkerStep(w))
            /\ \A r \in Rows : WF_vars(Age(r))

-----------------------------------------------------------------------------
RequestPcs == {"new", "checked", "audience", "loaded", "reset", "marked", "emptied", "done"}
WorkerPcs == {"idle", "load", "reject", "untemplated", "send", "sent", "refused",
              "count", "reload", "complete", "ack"}

DbTypes == /\ status \in Statuses
           /\ template \in BOOLEAN
           /\ written \in 0..Len(Audience)
           /\ rec \in [Rows -> {"none", "pending", "sent", "failed"}]

RequestTypes == req \in [Requests -> [op : Ops \cup {"none"}, pc : RequestPcs,
                                     seen : BOOLEAN, rows : SUBSET Rows]]

QueueTypes == \A bag \in {stream, pel, stale, enq, sends} : bag \in [Rows -> Nat]

WorkerTypes == /\ wpc \in [Workers -> WorkerPcs]
               /\ job \in [Workers -> Rows \cup {None}]
               /\ \A w \in Workers : job[w] = None <=> wpc[w] = "idle"
               /\ boot \in SUBSET Workers

TypeOK == DbTypes /\ RequestTypes /\ QueueTypes /\ WorkerTypes /\ faults \in 0..MaxFaults

Unsent(w, r) == job[w] = r /\ wpc[w] \in {"load", "reject", "untemplated", "send"}
Due(r) == {w \in Workers : Unsent(w, r)}

(* No message without a job: the sends a row has had, plus the jobs that may *)
(* still send to it, never outnumber the enqueues and the faults that gave   *)
(* a worker the same job twice.                                              *)
SendsNeedJobs ==
  \A r \in Rows :
     sends[r] + stream[r] + pel[r] + stale[r] + Cardinality(Due(r))
       =< enq[r] + faults

HasJob(r) ==
  \/ stream[r] + pel[r] + stale[r] > 0
  \/ \E w \in Workers : job[w] = r /\ wpc[w] # "ack"
  \/ \E q \in Requests : req[q].pc = "marked" /\ r \in req[q].rows

(* Operations other than a retry or an import only take rows out of Pending. *)
Undisturbed == /\ faults = 0
               /\ written =< 1
               /\ \A q \in Requests : req[q].op \notin {"retry", "import"}

(* A running campaign never strands a recipient, however starts, pauses,     *)
(* cancels and ticks overlap: each pending row has a job in flight, or a     *)
(* request that is about to enqueue one.                                     *)
NoRecipientStranded ==
  Undisturbed /\ status = "processing" => \A r \in Pending : HasJob(r)

(* Table of campaign statuses: completed means all recipients processed.     *)
(* The worker's count, read and write are three statements.                  *)
CompletedMeansProcessed ==
  Undisturbed /\ status = "completed" => Pending = {}

(* The guarded claim of the scheduled start: ticks that overlap on several   *)
(* replicas message nobody twice.                                            *)
ScheduledStartSendsOnce ==
  Undisturbed /\ (\A q \in Requests : req[q].op \in {"none", "tick"})
    => \A r \in Rows : sends[r] =< 1

(* A campaign that is sending gets somewhere: it completes, unless somebody  *)
(* pauses, cancels or deletes it.                                            *)
RunningCampaignFinishes == status = "processing" ~> status # "processing"

=============================================================================
