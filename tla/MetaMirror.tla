------------------------------ MODULE MetaMirror ------------------------------
(***************************************************************************)
(* Message templates and WhatsApp flows: rows of this system that mirror    *)
(* an object kept by Meta.                                                  *)
(*                                                                          *)
(* internal/handlers/templates.go, template_guard.go and the template part  *)
(* of webhook.go: a template is drafted, edited, submitted for review,      *)
(* synchronised and deleted here, while Meta's verdicts arrive as status    *)
(* webhooks that may be late, repeated or out of order, and a campaign that *)
(* depends on it has to be stopped when it can no longer be sent.           *)
(*                                                                          *)
(* internal/handlers/flows.go: a flow is edited here, saved to Meta,        *)
(* published, deprecated and synchronised; every operation calls Meta       *)
(* between reading the row and writing it.                                  *)
(*                                                                          *)
(* One template and one flow: handlers address one row by its id, or by     *)
(* account, name and language.  A text or a set of screens is a number.     *)
(***************************************************************************)
EXTENDS Integers

CONSTANTS
    Requests,     \* handler goroutines that may overlap
    Texts,        \* versions of a text, 0 standing for "no screens"
    Invalid,      \* screens that validateFlowStructure refuses
    MaxEdits,     \* bound on requests about the template
    MaxFlowEdits, \* bound on requests about the flow
    MaxVerdicts,  \* bound on what Meta decides by itself
    MaxDeliveries \* bound on deliveries of status webhooks

ASSUME MetaMirrorAssumption ==
    /\ Texts \subseteq Nat /\ 0 \in Texts /\ Invalid \subseteq Texts \ {0}
    /\ {MaxEdits, MaxFlowEdits, MaxVerdicts, MaxDeliveries} \subseteq Nat

VARIABLES
    tmpl,      \* the row: [st, text, id, gone]
    meta,      \* Meta's template: [st, text]
    posts,     \* statuses Meta has announced; each may be delivered again
    camp,      \* the campaign on the template
    exposed,   \* the campaign was left on a template already not approved
    treq,      \* template requests under way
    loose,     \* the row's status no longer speaks of the row's text
    edits, verdicts, deliveries,
    flow,      \* the row: [st, text, id, dirty, gone]
    mflow,     \* Meta's flow: [st, text]
    spare,     \* flows left in Meta that no row points to
    freq,      \* flow requests under way
    tangled,   \* a flow operation overlapped another, or broke off half way
    fedits

templateVars == <<tmpl, meta, posts, camp, exposed, treq, loose, edits, verdicts, deliveries>>
flowVars == <<flow, mflow, spare, freq, tangled, fedits>>
mirrorVars == <<templateVars, flowVars>>

Absent == "absent"
Rest0 == [do |-> "none"]
Exists == tmpl.st # Absent
Live == Exists /\ ~tmpl.gone

\* Begins and finishes a request that changes a template.
Work0(s, r) == treq' = [treq EXCEPT ![s] = r]
Over(s) == Work0(s, Rest0)
Operator == edits < MaxEdits /\ edits' = edits + 1

-----------------------------------------------------------------------------
(* Templates *)

\* CreateTemplate: a local draft.  The unique index covers deleted rows too,
\* so a name is free only when no row ever had it.
CreateTemplate ==
    /\ Operator
    /\ ~Exists
    /\ \E x \in Texts \ {0} : tmpl' = [st |-> "DRAFT", text |-> x, id |-> FALSE, gone |-> FALSE]
    /\ loose' = FALSE
    /\ UNCHANGED <<meta, posts, camp, exposed, treq, verdicts, deliveries>>

\* An edit of a text Meta has judged takes the row back to DRAFT.
Edited(row, x) ==
    [row EXCEPT !.text = x,
                !.st = IF @ \in {"APPROVED", "REJECTED"} THEN "DRAFT" ELSE @,
                !.gone = FALSE]
\* UpdateTemplate reads the row ...
UpdateTemplate(s) ==
    /\ Operator
    /\ Live /\ treq[s] = Rest0
    /\ \E x \in Texts \ {0} : Work0(s, [do |-> "edit", row |-> tmpl, text |-> x])
    /\ UNCHANGED <<tmpl, meta, posts, camp, exposed, loose, verdicts, deliveries>>

\* The campaign is exposed when approval is lost other than by a webhook.
Exposes(st) == exposed' = (exposed \/ (tmpl.st = "APPROVED" /\ st # "APPROVED"))

\* ... and saves the whole of it, whatever has happened to it meanwhile; a
\* save of a deleted row puts it back.
SaveEdit(s) ==
    /\ treq[s].do = "edit"
    /\ tmpl' = Edited(treq[s].row, treq[s].text)
    /\ loose' = (loose \/ tmpl # treq[s].row)
    /\ Exposes(tmpl'.st)
    /\ Over(s)
    /\ UNCHANGED <<meta, posts, camp, edits, verdicts, deliveries>>

\* SubmitTemplate is refused while Meta reviews the text.
SubmitTemplate(s) ==
    /\ Operator
    /\ Live /\ treq[s] = Rest0
    /\ ~(tmpl.id /\ tmpl.st = "PENDING")
    /\ Work0(s, [do |-> "submit", row |-> tmpl])
    /\ UNCHANGED <<tmpl, meta, posts, camp, exposed, loose, verdicts, deliveries>>

\* submitTemplateToMeta: Meta takes the text that was read for review.
SubmitTemplateToMeta(s) ==
    /\ treq[s].do = "submit"
    /\ meta' = [st |-> "PENDING", text |-> treq[s].row.text]
    /\ loose' = (loose \/ tmpl # treq[s].row)
    /\ Work0(s, [treq[s] EXCEPT !.do = "submitted"])
    /\ UNCHANGED <<tmpl, posts, camp, exposed, edits, verdicts, deliveries>>

\* Meta refuses the submission, and the row stays as it was.
SubmissionFails(s) ==
    /\ treq[s].do = "submit"
    /\ Over(s)
    /\ UNCHANGED <<tmpl, meta, posts, camp, exposed, loose, edits, verdicts, deliveries>>

\* The row that was read is saved whole with Meta's id and PENDING.  A verdict
\* that came first is overwritten.
SaveSubmitted(s) ==
    /\ treq[s].do = "submitted"
    /\ tmpl' = [treq[s].row EXCEPT !.id = TRUE, !.st = "PENDING", !.gone = FALSE]
    /\ loose' = (tmpl # treq[s].row)
    /\ Exposes("PENDING")
    /\ Over(s)
    /\ UNCHANGED <<meta, posts, camp, edits, verdicts, deliveries>>

\* SyncTemplates fetches Meta's list ...
SyncTemplates(s) ==
    /\ Operator
    /\ treq[s] = Rest0 /\ meta.st # Absent
    /\ Work0(s, [do |-> "sync", row |-> tmpl, got |-> meta])
    /\ UNCHANGED <<tmpl, meta, posts, camp, exposed, loose, verdicts, deliveries>>

\* ... and writes it over the row, deleted or not, or inserts one.  Nobody
\* looks at the campaigns here.
SaveSynced(s) ==
    /\ treq[s].do = "sync"
    /\ tmpl' = [st |-> treq[s].got.st, text |-> treq[s].got.text, id |-> TRUE, gone |-> FALSE]
    /\ loose' = (tmpl # treq[s].row \/ meta # treq[s].got)
    /\ Exposes(treq[s].got.st)
    /\ Over(s)
    /\ UNCHANGED <<meta, posts, camp, edits, verdicts, deliveries>>

\* DeleteTemplate: the soft delete, with Meta's copy removed by a goroutine
\* when there is one, and then the campaigns that depended on it.
DeleteTemplate(s) ==
    /\ Operator
    /\ Live /\ treq[s] = Rest0
    /\ tmpl' = [tmpl EXCEPT !.gone = TRUE]
    /\ Work0(s, [do |-> "guard"])
    /\ UNCHANGED <<meta, posts, camp, exposed, loose, verdicts, deliveries>>

\* deleteTemplateFromMeta, in its own time; an error is only logged.
DeleteTemplateFromMeta ==
    /\ Exists /\ tmpl.gone /\ tmpl.id /\ meta.st # Absent
    /\ meta' = [st |-> Absent, text |-> 0]
    /\ loose' = TRUE
    /\ UNCHANGED <<tmpl, posts, camp, exposed, treq, edits, verdicts, deliveries>>

\* Meta decides on its own schedule and announces it.
MetaDecides ==
    /\ verdicts < MaxVerdicts /\ verdicts' = verdicts + 1
    /\ \E st \in {"APPROVED", "REJECTED", "FLAGGED"} :
         /\ \/ meta.st = "PENDING" /\ st # "FLAGGED"
            \/ meta.st = "APPROVED" /\ st = "FLAGGED"
         /\ meta' = [meta EXCEPT !.st = st]
         /\ posts' = posts \cup {st}
    /\ UNCHANGED <<tmpl, camp, exposed, treq, loose, edits, deliveries>>

\* Meta takes a flagged template back and announces it by another word, which
\* the webhook stores as it comes: the row is then not APPROVED until a sync.
MetaReinstates ==
    /\ verdicts < MaxVerdicts /\ verdicts' = verdicts + 1
    /\ meta.st = "FLAGGED"
    /\ meta' = [meta EXCEPT !.st = "APPROVED"]
    /\ posts' = posts \cup {"REINSTATED"}
    /\ UNCHANGED <<tmpl, camp, exposed, treq, loose, edits, deliveries>>

\* processTemplateStatusUpdate, first half: the row takes the status, found by
\* account, name and language and whatever text it now holds.
ProcessTemplateStatusUpdate(s) ==
    /\ deliveries < MaxDeliveries /\ deliveries' = deliveries + 1
    /\ Live /\ treq[s] = Rest0
    /\ \E st \in posts :
         /\ tmpl' = [tmpl EXCEPT !.st = st]
         /\ loose' = (loose \/ tmpl.text # meta.text \/ st # meta.st)
         /\ exposed' = (exposed /\ st # "APPROVED")
    /\ Work0(s, [do |-> "reread"])
    /\ UNCHANGED <<meta, posts, camp, edits, verdicts>>

\* The row is read back, and only one that is not approved is guarded.
GuardTemplateDependents(s) ==
    /\ treq[s].do = "reread"
    /\ Work0(s, IF Live /\ tmpl.st # "APPROVED" THEN [do |-> "guard"] ELSE Rest0)
    /\ UNCHANGED <<tmpl, meta, posts, camp, exposed, loose, edits, verdicts, deliveries>>

Pausable == {"draft", "scheduled", "queued"}

\* pauseDependentCampaigns finds the campaigns that can still be saved ...
FindDependentCampaigns(s) ==
    /\ treq[s].do = "guard"
    /\ Work0(s, IF camp \in Pausable THEN [do |-> "pause"] ELSE Rest0)
    /\ UNCHANGED <<tmpl, meta, posts, camp, exposed, loose, edits, verdicts, deliveries>>

\* As Paused, for whatever was found.
PausedAnyway(c) == "paused"

\* ... and pauses those that still can be when it writes.
Paused(c) == IF c \in Pausable THEN "paused" ELSE c
PauseDependentCampaigns(s) ==
    /\ treq[s].do = "pause"
    /\ camp' = Paused(camp)
    /\ exposed' = (exposed /\ camp \notin Pausable)
    /\ Over(s)
    /\ UNCHANGED <<tmpl, meta, posts, loose, edits, verdicts, deliveries>>

\* CreateCampaign: any template that exists will do, approved or not.
CreateCampaign ==
    /\ Operator
    /\ camp = "none" /\ Live
    /\ camp' = "draft"
    /\ exposed' = (tmpl.st # "APPROVED" \/ \E s \in Requests : treq[s].do \in {"reread", "guard", "pause"})
    /\ UNCHANGED <<tmpl, meta, posts, treq, loose, verdicts, deliveries>>

\* StartCampaign, from a draft or from a pause.
StartCampaign ==
    /\ Operator
    /\ camp \in {"draft", "paused"}
    /\ camp' = "processing"
    /\ UNCHANGED <<tmpl, meta, posts, exposed, treq, loose, verdicts, deliveries>>

TemplateInit ==
    /\ \/ tmpl = [st |-> Absent, text |-> 0, id |-> FALSE, gone |-> FALSE] /\ meta = [st |-> Absent, text |-> 0]
          /\ posts = {} /\ camp = "none"
       \/ tmpl = [st |-> "APPROVED", text |-> 1, id |-> TRUE, gone |-> FALSE] /\ meta = [st |-> "APPROVED", text |-> 1]
          /\ posts = {"APPROVED"} /\ camp = "draft"
    /\ exposed = FALSE /\ loose = FALSE
    /\ treq = [s \in Requests |-> Rest0]
    /\ edits = 0 /\ verdicts = 0 /\ deliveries = 0

TemplateNext ==
    \/ CreateTemplate \/ DeleteTemplateFromMeta \/ MetaDecides \/ MetaReinstates
    \/ CreateCampaign \/ StartCampaign
    \/ \E s \in Requests :
         \/ UpdateTemplate(s) \/ SaveEdit(s)
         \/ SubmitTemplate(s) \/ SubmitTemplateToMeta(s) \/ SubmissionFails(s) \/ SaveSubmitted(s)
         \/ SyncTemplates(s) \/ SaveSynced(s)
         \/ DeleteTemplate(s) \/ ProcessTemplateStatusUpdate(s)
         \/ GuardTemplateDependents(s) \/ FindDependentCampaigns(s) \/ PauseDependentCampaigns(s)

-----------------------------------------------------------------------------
(* WhatsApp flows *)

Fresh(x, id, st) == [st |-> st, text |-> x, id |-> id, dirty |-> FALSE, gone |-> FALSE]
FlowLive == flow.st # Absent /\ ~flow.gone
Go(s, r) == freq' = [freq EXCEPT ![s] = r]
Ended(s) == Go(s, Rest0)
Author == fedits < MaxFlowEdits /\ fedits' = fedits + 1

\* A request writes a row that is no longer the one it read.
Crosses(s) == tangled' = (tangled \/ flow # freq[s].row)

\* A request changes Meta's flow while another has yet to write what it did
\* to it, or from a row that is no longer the one it read.
Overtakes(s) ==
    tangled' = (tangled \/ flow # freq[s].row
                \/ \E o \in Requests \ {s} : freq[o].do \in {"created", "uploaded", "published", "deprecated"})

\* CreateFlow: a draft with the screens of the editor.
CreateFlow ==
    /\ Author
    /\ flow.st = Absent
    /\ \E x \in Texts : flow' = Fresh(x, FALSE, "DRAFT")
    /\ UNCHANGED <<mflow, spare, freq, tangled>>

\* DuplicateFlow: a copy of some other flow's screens, without its Meta id.
DuplicateFlow ==
    /\ Author
    /\ flow.st = Absent
    /\ \E x \in Texts : flow' = Fresh(x, FALSE, "DRAFT")
    /\ UNCHANGED <<mflow, spare, freq, tangled>>

\* UpdateFlow writes the new screens and says that Meta does not have them.
UpdateFlow ==
    /\ Author
    /\ FlowLive
    /\ \E x \in Texts \ {flow.text} : flow' = [flow EXCEPT !.text = x, !.dirty = TRUE]
    /\ UNCHANGED <<mflow, spare, freq, tangled>>

\* DeleteFlow: this row only; Meta keeps its flow.
DeleteFlow ==
    /\ Author
    /\ FlowLive
    /\ flow' = [flow EXCEPT !.gone = TRUE]
    /\ UNCHANGED <<mflow, spare, freq, tangled>>

\* SaveFlowToMeta, PublishFlow and DeprecateFlow read the row and check it.
ReadFlow(s) ==
    /\ Author
    /\ FlowLive /\ freq[s] = Rest0
    /\ \E op \in {"save", "publish", "deprecate"} :
         /\ op = "save" => flow.st # "DEPRECATED"
         /\ op = "publish" => flow.st = "DRAFT" /\ flow.id
         /\ op = "deprecate" => flow.st = "PUBLISHED"
         /\ Go(s, [do |-> op, row |-> flow])
    /\ UNCHANGED <<flow, mflow, spare, tangled>>

\* Step 1 of a save: Meta gets a flow if the row names none.  A flow made
\* earlier for the same row is then left behind.
CreateInMeta(s) ==
    /\ freq[s].do = "save" /\ ~freq[s].row.id
    /\ mflow' = [st |-> "DRAFT", text |-> 0]
    /\ spare' = IF mflow.st = Absent THEN spare ELSE spare + 1
    /\ Overtakes(s)
    /\ Go(s, [freq[s] EXCEPT !.do = "created"])
    /\ UNCHANGED <<flow, fedits>>

Uploads(s) == freq[s].do = "created" \/ (freq[s].do = "save" /\ freq[s].row.id)

\* validateFlowStructure refuses: the handler returns without keeping the id.
ValidateFlowStructure(s) ==
    /\ Uploads(s)
    /\ freq[s].row.text \in Invalid
    /\ tangled' = (tangled \/ freq[s].do = "created")
    /\ Ended(s)
    /\ UNCHANGED <<flow, mflow, spare, fedits>>

\* Step 2: the screens that were read go up, if there are any.
UpdateFlowJSON(s) ==
    /\ Uploads(s)
    /\ freq[s].row.text \notin Invalid
    /\ mflow' = IF freq[s].row.text = 0 THEN mflow ELSE [st |-> "DRAFT", text |-> freq[s].row.text]
    /\ Overtakes(s)
    /\ Go(s, [freq[s] EXCEPT !.do = "uploaded"])
    /\ UNCHANGED <<flow, spare, fedits>>

\* The upload fails, and the id is kept all the same.
UploadFails(s) ==
    /\ Uploads(s)
    /\ freq[s].row.text \notin Invalid \cup {0}
    /\ flow' = IF FlowLive THEN [flow EXCEPT !.id = TRUE] ELSE flow
    /\ Crosses(s)
    /\ Ended(s)
    /\ UNCHANGED <<mflow, spare, fedits>>

\* What a completed save writes, whatever the screens are by now.
SavedRow == [flow EXCEPT !.id = TRUE, !.st = "DRAFT", !.dirty = FALSE]
SaveFlowToMeta(s) ==
    /\ freq[s].do = "uploaded"
    /\ flow' = IF FlowLive THEN SavedRow ELSE flow
    /\ Crosses(s)
    /\ Ended(s)
    /\ UNCHANGED <<mflow, spare, fedits>>

\* PublishFlow: Meta publishes the screens it has, then the row says so.
PublishInMeta(s) ==
    /\ freq[s].do = "publish"
    /\ mflow.st = "DRAFT"
    /\ mflow' = [mflow EXCEPT !.st = "PUBLISHED"]
    /\ Overtakes(s)
    /\ Go(s, [freq[s] EXCEPT !.do = "published"])
    /\ UNCHANGED <<flow, spare, fedits>>
PublishFlow(s) ==
    /\ freq[s].do = "published"
    /\ flow' = IF FlowLive THEN [flow EXCEPT !.st = "PUBLISHED"] ELSE flow
    /\ Crosses(s)
    /\ Ended(s)
    /\ UNCHANGED <<mflow, spare, fedits>>

\* DeprecateFlow: likewise.
DeprecateInMeta(s) ==
    /\ freq[s].do = "deprecate"
    /\ mflow.st = "PUBLISHED"
    /\ mflow' = [mflow EXCEPT !.st = "DEPRECATED"]
    /\ Overtakes(s)
    /\ Go(s, [freq[s] EXCEPT !.do = "deprecated"])
    /\ UNCHANGED <<flow, spare, fedits>>
DeprecateFlow(s) ==
    /\ freq[s].do = "deprecated"
    /\ flow' = IF FlowLive THEN [flow EXCEPT !.st = "DEPRECATED"] ELSE flow
    /\ Crosses(s)
    /\ Ended(s)
    /\ UNCHANGED <<mflow, spare, fedits>>

\* Meta refuses, and the handler returns with nothing written.
MetaRefuses(s) ==
    /\ freq[s].do \in {"publish", "deprecate"} \/ (freq[s].do = "save" /\ ~freq[s].row.id)
    /\ Ended(s)
    /\ UNCHANGED <<flow, mflow, spare, tangled, fedits>>

\* The process stops between Meta's answer and the write.
FlowRequestLost(s) ==
    /\ freq[s].do \in {"created", "uploaded", "published", "deprecated"}
    /\ tangled' = TRUE
    /\ Ended(s)
    /\ UNCHANGED <<flow, mflow, spare, fedits>>

\* SyncFlows lists Meta's flows ...
ListFlows(s) ==
    /\ Author
    /\ freq[s] = Rest0 /\ mflow.st # Absent
    /\ Go(s, [do |-> "sync", row |-> flow, got |-> mflow])
    /\ UNCHANGED <<flow, mflow, spare, tangled>>

\* ... and for each updates the row with its id, or inserts one.  Local
\* changes are overwritten without clearing the flag; without the assets
\* only the status is taken.
SyncFlows(s) ==
    /\ freq[s].do = "sync"
    /\ \E assets \in BOOLEAN :
         LET got == freq[s].got
             text == IF assets THEN got.text ELSE flow.text
         IN  IF FlowLive /\ flow.id
             THEN /\ flow' = [flow EXCEPT !.st = got.st, !.text = text]
                  /\ tangled' = (tangled \/ flow # freq[s].row \/ mflow # got)
             ELSE IF FlowLive
             THEN flow' = flow /\ tangled' = TRUE
             ELSE /\ flow' = Fresh(IF assets THEN got.text ELSE 0, TRUE, got.st)
                  /\ tangled' = (tangled \/ mflow # got)
    /\ Ended(s)
    /\ UNCHANGED <<mflow, spare, fedits>>

FlowInit ==
    /\ flow = [st |-> Absent, text |-> 0, id |-> FALSE, dirty |-> FALSE, gone |-> FALSE]
    /\ mflow = [st |-> Absent, text |-> 0]
    /\ spare = 0 /\ tangled = FALSE /\ fedits = 0
    /\ freq = [s \in Requests |-> Rest0]

FlowNext ==
    \/ CreateFlow \/ DuplicateFlow \/ UpdateFlow \/ DeleteFlow
    \/ \E s \in Requests :
         \/ ReadFlow(s) \/ CreateInMeta(s) \/ ValidateFlowStructure(s) \/ UpdateFlowJSON(s)
         \/ UploadFails(s) \/ SaveFlowToMeta(s) \/ PublishInMeta(s) \/ PublishFlow(s)
         \/ DeprecateInMeta(s) \/ DeprecateFlow(s) \/ MetaRefuses(s) \/ FlowRequestLost(s)
         \/ ListFlows(s) \/ SyncFlows(s)

MirrorInit == TemplateInit /\ FlowInit

MirrorNext ==
    \/ TemplateNext /\ UNCHANGED flowVars
    \/ FlowNext /\ UNCHANGED templateVars

MirrorSpec == MirrorInit /\ [][MirrorNext]_mirrorVars

-----------------------------------------------------------------------------
(* Properties *)

\* A template the product shows as APPROVED carries the text Meta has, which
\* is the text it approved, unless a status came in for a text edited since,
\* or two operations on the row overlapped (UpdateTemplate, SubmitTemplate,
\* SyncTemplates and processTemplateStatusUpdate all write the row).
ApprovedTextIsReviewed ==
    Live /\ tmpl.st = "APPROVED" /\ ~loose => tmpl.text = meta.text

\* A campaign that has not begun and was set up on an approved template does
\* not wait on one that Meta took out of approval or that was deleted: the
\* guard has paused it or is about to, in whatever order webhooks, edits and
\* starts come.
BrokenTemplateStopsCampaign ==
    camp \in Pausable /\ ~(Live /\ tmpl.st = "APPROVED")
        => exposed \/ \E s \in Requests : treq[s].do \in {"reread", "guard", "pause"}

\* The guard never pauses a campaign that has begun to send, although it reads
\* the campaigns before it writes them (pauseDependentCampaigns).
GuardSparesRunning == [][camp = "processing" => camp' = "processing"]_camp

\* A flow that shows no local changes has the screens Meta has, unless
\* operations on it overlapped, one broke off, it has no screens to upload, or
\* its first upload failed, after which Meta has none; while a save is between
\* Meta and the row, Meta may be ahead.
CleanFlowIsMetas ==
    FlowLive /\ flow.id /\ ~flow.dirty /\ flow.text # 0 /\ ~tangled
        => \/ mflow.text \in {flow.text, 0}
           \/ \E s \in Requests : freq[s].do \in {"created", "uploaded"}

\* A flow the product shows as PUBLISHED is published in Meta, except while
\* an operation on it is between Meta's answer and the row.
PublishedIsPublished ==
    FlowLive /\ flow.st = "PUBLISHED" /\ ~tangled
        => \/ mflow.st = "PUBLISHED"
           \/ \E s \in Requests : freq[s].do \in {"uploaded", "deprecated"}

\* Saving a flow again uses the flow it already has in Meta: a second one is
\* made only when operations overlapped, a request broke off, or the screens
\* were refused before the id was kept.
OneFlowInMeta == spare > 0 => tangled

\* The rows that mirror Meta's templates and flows say what Meta says, and what
\* was built on them follows (templates.go, template_guard.go, flows.go).
MirrorInv ==
    /\ ApprovedTextIsReviewed /\ BrokenTemplateStopsCampaign
    /\ CleanFlowIsMetas /\ PublishedIsPublished /\ OneFlowInMeta

\* The same, and no campaign that sends is stopped for it.
MirrorKept == []MirrorInv /\ GuardSparesRunning
=============================================================================
