---------------------------- MODULE PlatformProofs ----------------------------
(* Proofs about six parts of the platform that share no state: messages, what *)
(* Meta mirrors of templates and flows, the configuration of accounts, menus  *)
(* and caches, the hub with its notifications, the job scheduler and the      *)
(* event outbox; for any messages, accounts, texts, people, tabs, overlapping *)
(* requests, jobs, replicas, events, batch sizes and bounds.                  *)
EXTENDS MetaMirror, Messages, Config, Hub, Scheduler, Outbox, SequenceTheorems, FiniteSetTheorems, WellFoundedInduction, TLAPS

(* A set all of whose members are the same has one member at most. *)
LEMMA AtMostOne ==
  ASSUME NEW S, \A x, y \in S : x = y  PROVE Cardinality(S) <= 1
<1>1. CASE S = {}
  BY <1>1, FS_EmptySet
<1>2. CASE S # {}
  <2>1. PICK x \in S : TRUE
    BY <1>2
  <2>2. S = {x}
    BY <2>1
  <2> QED  BY <2>2, FS_Singleton
<1> QED  BY <1>1, <1>2

-----------------------------------------------------------------------------
(* The shape of the state                                                     *)

Status == {"DRAFT", "PENDING", "APPROVED", "REJECTED", "FLAGGED", "REINSTATED"}
TemplateRow == [st : Status \cup {Absent}, text : Nat, id : BOOLEAN, gone : BOOLEAN]
TemplateCopy == [st : Status \cup {Absent}, text : Nat]

(* What a template request carries: the row it read, which was there, and     *)
(* what it fetched from Meta, which existed.                                  *)
TemplateRequest(r) ==
  /\ r.do \in {"edit", "submit", "submitted"} => r.row \in TemplateRow /\ r.row.st # Absent
  /\ r.do = "edit" => r.text \in Nat
  /\ r.do = "sync" => r.got \in TemplateCopy /\ r.got.st # Absent

TemplateTypes ==
  /\ tmpl \in TemplateRow /\ meta \in TemplateCopy /\ posts \subseteq Status
  /\ exposed \in BOOLEAN /\ loose \in BOOLEAN
  /\ DOMAIN treq = Requests
  /\ \A s \in Requests : TemplateRequest(treq[s])

Guarding(s) == treq[s].do \in {"reread", "guard", "pause"}
Pausing(s) == treq[s].do \in {"guard", "pause"}

(* A deleted template is not left to a request that will only read it back:   *)
(* the read-back of a status looks away from a deleted row.                   *)
DeletedIsGuarded ==
  camp \in Pausable /\ ~Live => exposed \/ \E s \in Requests : Pausing(s)

TemplateInv == TemplateTypes /\ ApprovedTextIsReviewed /\ BrokenTemplateStopsCampaign /\ DeletedIsGuarded

FlowStatus == {"DRAFT", "PUBLISHED", "DEPRECATED"}
FlowRow == [st : FlowStatus \cup {Absent}, text : Nat, id : BOOLEAN, dirty : BOOLEAN, gone : BOOLEAN]
FlowCopy == [st : FlowStatus \cup {Absent}, text : Nat]

Operating == {"save", "created", "uploaded", "publish", "published", "deprecate", "deprecated"}
FlowRequest(r) ==
  /\ r.do \in Operating => r \in [do : Operating, row : FlowRow] /\ r.row.st # Absent /\ ~r.row.gone
  /\ r.do = "sync" => r.got \in FlowCopy /\ r.got.st # Absent

FlowTypes ==
  /\ flow \in FlowRow /\ mflow \in FlowCopy /\ spare \in Nat /\ tangled \in BOOLEAN
  /\ DOMAIN freq = Requests
  /\ \A s \in Requests : FlowRequest(freq[s])

(* A row names a flow of Meta before it is published, and does not lose it.   *)
IdsKept ==
  /\ flow.st = Absent => ~flow.id
  /\ flow.st \in {"PUBLISHED", "DEPRECATED"} => flow.id
  /\ \A s \in Requests : freq[s].do \in {"publish", "published", "deprecate", "deprecated"} => flow.id

(* Meta has a flow for a row that names none only while a save is under way.  *)
UnnamedIsUnderWay ==
  ~flow.id /\ mflow.st # Absent /\ ~tangled => \E s \in Requests : freq[s].do \in {"created", "uploaded"}

(* Nobody else has touched Meta's flow since a request changed it.            *)
MetaAsLeft ==
  \A s \in Requests : ~tangled =>
    /\ freq[s].do = "created" => mflow.text = 0
    /\ freq[s].do = "uploaded" => freq[s].row.text \in {mflow.text, 0}
    /\ freq[s].do = "published" => mflow.st = "PUBLISHED"

FlowInv == FlowTypes /\ IdsKept /\ UnnamedIsUnderWay /\ MetaAsLeft
           /\ CleanFlowIsMetas /\ PublishedIsPublished /\ OneFlowInMeta

MirrorIInv == TemplateInv /\ FlowInv

-----------------------------------------------------------------------------
(* Templates                                                                  *)

LEMMA TemplateInitInv == TemplateInit => TemplateInv
<1> SUFFICES ASSUME TemplateInit  PROVE TemplateInv
  OBVIOUS
<1>1. \A s \in Requests : treq[s].do = "none"
  BY DEF TemplateInit, Rest0
<1>2. TemplateTypes
  <2>1. \A s \in Requests : TemplateRequest(treq[s])
    BY <1>1 DEF TemplateRequest
  <2>2. meta \in TemplateCopy /\ posts \subseteq Status /\ DOMAIN treq = Requests
    BY DEF TemplateInit, TemplateCopy, Status, Absent
  <2>3. tmpl \in TemplateRow
    <3>1. [st |-> Absent, text |-> 0, id |-> FALSE, gone |-> FALSE] \in TemplateRow
      BY DEF TemplateRow
    <3>2. [st |-> "APPROVED", text |-> 1, id |-> TRUE, gone |-> FALSE] \in TemplateRow
      BY DEF TemplateRow, Status
    <3> QED  BY <3>1, <3>2 DEF TemplateInit
  <2>4. exposed \in BOOLEAN /\ loose \in BOOLEAN
    BY DEF TemplateInit
  <2> QED  BY <2>1, <2>2, <2>3, <2>4 DEF TemplateTypes
<1>3. ApprovedTextIsReviewed
  BY DEF TemplateInit, ApprovedTextIsReviewed
<1>4. camp \in Pausable => Live /\ tmpl.st = "APPROVED"
  BY DEF TemplateInit, Pausable, Live, Exists, Absent
<1> QED  BY <1>2, <1>3, <1>4 DEF TemplateInv, BrokenTemplateStopsCampaign, DeletedIsGuarded

(* What a step of one request leaves of the others. *)
LEMMA RequestMoves ==
  ASSUME TemplateTypes, NEW s \in Requests, NEW r, Work0(s, r)
  PROVE  /\ DOMAIN treq' = Requests
         /\ treq'[s] = r
         /\ \A o \in Requests \ {s} : treq'[o] = treq[o]
         /\ TemplateRequest(r) => \A o \in Requests : TemplateRequest(treq'[o])
<1>1. DOMAIN treq' = Requests /\ treq'[s] = r /\ \A o \in Requests \ {s} : treq'[o] = treq[o]
  BY DEF TemplateTypes, Work0
<1>2. TemplateRequest(r) => \A o \in Requests : TemplateRequest(treq'[o])
  <2> SUFFICES ASSUME TemplateRequest(r), NEW o \in Requests  PROVE TemplateRequest(treq'[o])
    OBVIOUS
  <2>1. CASE o = s
    BY <1>1, <2>1
  <2>2. CASE o # s
    <3>1. treq'[o] = treq[o]
      BY <1>1, <2>2
    <3> QED  BY <3>1 DEF TemplateTypes
  <2> QED  BY <2>1, <2>2
<1> QED  BY <1>1, <1>2

(* A request that was not guarding ends, and the row is left as it was or     *)
(* loses approval in a way that exposes the campaign.                         *)
LEMMA GuardsRemain ==
  ASSUME TemplateInv, NEW s \in Requests, NEW r, Work0(s, r), ~Guarding(s)
  PROVE  /\ (\E o \in Requests : Guarding(o)) => \E o \in Requests : Guarding(o)'
         /\ (\E o \in Requests : Pausing(o)) => \E o \in Requests : Pausing(o)'
<1>1. \A o \in Requests \ {s} : treq'[o] = treq[o]
  BY RequestMoves DEF TemplateInv
<1> QED  BY <1>1 DEF Guarding, Pausing

(* A write that keeps the campaign, brings the row to life and exposes the    *)
(* campaign when approval is lost keeps the promise to campaigns.             *)
LEMMA WriteKeepsPromise ==
  ASSUME TemplateInv, NEW s \in Requests, Over(s), ~Guarding(s),
         camp' = camp, Live', Exposes(tmpl'.st)
  PROVE  BrokenTemplateStopsCampaign' /\ DeletedIsGuarded'
<1>1. (\E o \in Requests : Guarding(o)) => \E o \in Requests : Guarding(o)'
  BY GuardsRemain DEF Over
<1>2. SUFFICES ASSUME camp \in Pausable, tmpl'.st # "APPROVED"
               PROVE  exposed' \/ \E o \in Requests : Guarding(o)'
  BY DEF BrokenTemplateStopsCampaign, DeletedIsGuarded, Guarding
<1>3. CASE tmpl.st = "APPROVED"
  BY <1>2, <1>3 DEF Exposes
<1>4. CASE tmpl.st # "APPROVED"
  BY <1>1, <1>2, <1>4 DEF Exposes, TemplateInv, BrokenTemplateStopsCampaign, Guarding
<1> QED  BY <1>3, <1>4

(* A step that touches neither the row nor the campaign keeps it too. *)
LEMMA QuietKeepsPromise ==
  ASSUME TemplateInv, NEW s \in Requests, NEW r, Work0(s, r), ~Guarding(s),
         UNCHANGED <<tmpl, camp, exposed>>
  PROVE  BrokenTemplateStopsCampaign' /\ DeletedIsGuarded'
<1>1. /\ (\E o \in Requests : Guarding(o)) => \E o \in Requests : Guarding(o)'
      /\ (\E o \in Requests : Pausing(o)) => \E o \in Requests : Pausing(o)'
  BY GuardsRemain
<1>2. Live' = Live
  BY DEF Live, Exists
<1> QED  BY <1>1, <1>2 DEF TemplateInv, BrokenTemplateStopsCampaign, DeletedIsGuarded, Guarding, Pausing

(* Requests that carry no row. *)
LEMMA BareRequest ==
  /\ TemplateRequest(Rest0) /\ TemplateRequest([do |-> "guard"])
  /\ TemplateRequest([do |-> "reread"]) /\ TemplateRequest([do |-> "pause"])
BY DEF TemplateRequest, Rest0

LEMMA CreateTemplateInv ==
  ASSUME TemplateInv, CreateTemplate
  PROVE  TemplateInv'
<1>1. PICK x \in Texts \ {0} : tmpl' = [st |-> "DRAFT", text |-> x, id |-> FALSE, gone |-> FALSE]
  BY DEF CreateTemplate
<1>2. x \in Nat
  BY MetaMirrorAssumption
<1>3. tmpl' \in TemplateRow
  <2>1. [st |-> "DRAFT", text |-> x, id |-> FALSE, gone |-> FALSE] \in TemplateRow
    BY <1>2 DEF TemplateRow, Status
  <2> QED  BY <1>1, <2>1
<1>4. UNCHANGED <<meta, posts, camp, exposed, treq>> /\ loose' = FALSE /\ ~Live
  BY DEF CreateTemplate, Live
<1>5. TemplateTypes'
  BY <1>3, <1>4 DEF TemplateInv, TemplateTypes
<1>6. Live' /\ tmpl'.st # "APPROVED"
  BY <1>1 DEF Live, Exists, Absent
<1> QED
  BY <1>4, <1>5, <1>6 DEF TemplateInv, ApprovedTextIsReviewed, BrokenTemplateStopsCampaign, DeletedIsGuarded

LEMMA UpdateTemplateInv ==
  ASSUME TemplateInv, NEW s \in Requests, UpdateTemplate(s)
  PROVE  TemplateInv'
<1>1. PICK x \in Texts \ {0} : Work0(s, [do |-> "edit", row |-> tmpl, text |-> x])
  BY DEF UpdateTemplate
<1> DEFINE r == [do |-> "edit", row |-> tmpl, text |-> x]
<1>2. TemplateRequest(r)
  BY MetaMirrorAssumption DEF TemplateRequest, UpdateTemplate, Live, Exists, TemplateInv, TemplateTypes
<1>3. ~Guarding(s) /\ UNCHANGED <<tmpl, meta, posts, camp, exposed, loose>>
  BY DEF UpdateTemplate, Guarding, Rest0
<1>4. Work0(s, r)
  BY <1>1
<1> HIDE DEF r
<1>5. TemplateTypes'
  BY <1>2, <1>3, <1>4, RequestMoves DEF TemplateInv, TemplateTypes
<1>6. BrokenTemplateStopsCampaign' /\ DeletedIsGuarded'
  BY <1>3, <1>4, QuietKeepsPromise
<1>7. ApprovedTextIsReviewed'
  BY <1>3 DEF TemplateInv, ApprovedTextIsReviewed, Live, Exists
<1> QED  BY <1>5, <1>6, <1>7 DEF TemplateInv

LEMMA SaveEditInv ==
  ASSUME TemplateInv, NEW s \in Requests, SaveEdit(s)
  PROVE  TemplateInv'
<1> DEFINE line == treq[s].row
<1>1. line \in TemplateRow /\ line.st # Absent /\ treq[s].text \in Nat
  BY DEF TemplateInv, TemplateTypes, TemplateRequest, SaveEdit
<1>2. /\ tmpl' = Edited(line, treq[s].text) /\ Over(s) /\ Exposes(tmpl'.st)
      /\ ~Guarding(s) /\ UNCHANGED <<meta, posts, camp>> /\ loose' \in BOOLEAN
  BY DEF SaveEdit, Guarding
<1> HIDE DEF line
<1>3. tmpl' \in TemplateRow /\ tmpl'.st \notin {Absent, "APPROVED"} /\ ~tmpl'.gone
  <2>1. CASE line.st \in {"APPROVED", "REJECTED"}
    <3>1. tmpl' = [line EXCEPT !.text = treq[s].text, !.st = "DRAFT", !.gone = FALSE]
      BY <1>2, <2>1 DEF Edited
    <3> QED  BY <1>1, <3>1 DEF TemplateRow, Status, Absent
  <2>2. CASE line.st \notin {"APPROVED", "REJECTED"}
    <3>1. tmpl' = [line EXCEPT !.text = treq[s].text, !.st = line.st, !.gone = FALSE]
      BY <1>2, <2>2 DEF Edited
    <3> QED  BY <1>1, <2>2, <3>1 DEF TemplateRow, Status, Absent
  <2> QED  BY <2>1, <2>2
<1>4. Live'
  BY <1>3 DEF Live, Exists
<1>5. BrokenTemplateStopsCampaign' /\ DeletedIsGuarded'
  BY <1>2, <1>4, WriteKeepsPromise
<1>6. TemplateTypes'
  <2>1. exposed' \in BOOLEAN
    BY <1>2 DEF Exposes
  <2> QED  BY <1>2, <1>3, <2>1, RequestMoves, BareRequest DEF TemplateInv, TemplateTypes, Over
<1>7. ApprovedTextIsReviewed'
  BY <1>3 DEF ApprovedTextIsReviewed
<1> QED  BY <1>5, <1>6, <1>7 DEF TemplateInv

LEMMA SubmitTemplateInv ==
  ASSUME TemplateInv, NEW s \in Requests, SubmitTemplate(s)
  PROVE  TemplateInv'
<1> DEFINE r == [do |-> "submit", row |-> tmpl]
<1>1. TemplateRequest(r)
  BY DEF TemplateRequest, SubmitTemplate, Live, Exists, TemplateInv, TemplateTypes
<1>2. ~Guarding(s) /\ UNCHANGED <<tmpl, meta, posts, camp, exposed, loose>> /\ Work0(s, r)
  BY DEF SubmitTemplate, Guarding, Rest0
<1> HIDE DEF r
<1>3. TemplateTypes'
  BY <1>1, <1>2, RequestMoves DEF TemplateInv, TemplateTypes
<1>4. BrokenTemplateStopsCampaign' /\ DeletedIsGuarded'
  BY <1>2, QuietKeepsPromise
<1>5. ApprovedTextIsReviewed'
  BY <1>2 DEF TemplateInv, ApprovedTextIsReviewed, Live, Exists
<1> QED  BY <1>3, <1>4, <1>5 DEF TemplateInv

LEMMA SubmitTemplateToMetaInv ==
  ASSUME TemplateInv, NEW s \in Requests, SubmitTemplateToMeta(s)
  PROVE  TemplateInv'
<1> DEFINE r == [treq[s] EXCEPT !.do = "submitted"]
<1>1. treq[s].row \in TemplateRow /\ treq[s].row.st # Absent
  BY DEF TemplateInv, TemplateTypes, TemplateRequest, SubmitTemplateToMeta
<1>2. TemplateRequest(r)
  <2>1. r.row = treq[s].row /\ r.do \in {"submitted", treq[s].do}
    OBVIOUS
  <2> QED  BY <1>1, <2>1 DEF TemplateRequest, SubmitTemplateToMeta
<1>3. /\ ~Guarding(s) /\ UNCHANGED <<tmpl, posts, camp, exposed>> /\ Work0(s, r)
      /\ loose' = (loose \/ tmpl # treq[s].row) /\ meta' = [st |-> "PENDING", text |-> treq[s].row.text]
  BY DEF SubmitTemplateToMeta, Guarding
<1> HIDE DEF r
<1>4. TemplateTypes'
  <2>1. meta' \in TemplateCopy
    BY <1>1, <1>3 DEF TemplateCopy, TemplateRow, Status
  <2> QED  BY <1>2, <1>3, <2>1, RequestMoves DEF TemplateInv, TemplateTypes
<1>5. BrokenTemplateStopsCampaign' /\ DeletedIsGuarded'
  BY <1>3, QuietKeepsPromise
<1>6. ApprovedTextIsReviewed'
  BY <1>3 DEF ApprovedTextIsReviewed
<1> QED  BY <1>4, <1>5, <1>6 DEF TemplateInv

LEMMA SubmissionFailsInv ==
  ASSUME TemplateInv, NEW s \in Requests, SubmissionFails(s)
  PROVE  TemplateInv'
<1>1. ~Guarding(s) /\ UNCHANGED <<tmpl, meta, posts, camp, exposed, loose>> /\ Work0(s, Rest0)
  BY DEF SubmissionFails, Guarding, Over
<1>2. TemplateTypes'
  BY <1>1, RequestMoves, BareRequest DEF TemplateInv, TemplateTypes
<1>3. BrokenTemplateStopsCampaign' /\ DeletedIsGuarded'
  BY <1>1, QuietKeepsPromise
<1>4. ApprovedTextIsReviewed'
  BY <1>1 DEF TemplateInv, ApprovedTextIsReviewed, Live, Exists
<1> QED  BY <1>2, <1>3, <1>4 DEF TemplateInv

LEMMA SaveSubmittedInv ==
  ASSUME TemplateInv, NEW s \in Requests, SaveSubmitted(s)
  PROVE  TemplateInv'
<1> DEFINE line == treq[s].row
<1>1. line \in TemplateRow
  BY DEF TemplateInv, TemplateTypes, TemplateRequest, SaveSubmitted
<1>2. /\ tmpl' = [line EXCEPT !.id = TRUE, !.st = "PENDING", !.gone = FALSE] /\ Over(s)
      /\ ~Guarding(s) /\ UNCHANGED <<meta, posts, camp>> /\ loose' \in BOOLEAN /\ Exposes("PENDING")
  BY DEF SaveSubmitted, Guarding
<1> HIDE DEF line
<1>3. tmpl' \in TemplateRow /\ tmpl'.st = "PENDING" /\ ~tmpl'.gone
  BY <1>1, <1>2 DEF TemplateRow, Status
<1>4. Live' /\ Exposes(tmpl'.st)
  BY <1>2, <1>3 DEF Live, Exists, Absent
<1>5. BrokenTemplateStopsCampaign' /\ DeletedIsGuarded'
  BY <1>2, <1>4, WriteKeepsPromise
<1>6. TemplateTypes'
  <2>1. exposed' \in BOOLEAN
    BY <1>2 DEF Exposes
  <2> QED  BY <1>2, <1>3, <2>1, RequestMoves, BareRequest DEF TemplateInv, TemplateTypes, Over
<1>7. ApprovedTextIsReviewed'
  BY <1>3 DEF ApprovedTextIsReviewed
<1> QED  BY <1>5, <1>6, <1>7 DEF TemplateInv

LEMMA SyncTemplatesInv ==
  ASSUME TemplateInv, NEW s \in Requests, SyncTemplates(s)
  PROVE  TemplateInv'
<1> DEFINE r == [do |-> "sync", row |-> tmpl, got |-> meta]
<1>1. TemplateRequest(r)
  BY DEF TemplateRequest, SyncTemplates, TemplateInv, TemplateTypes
<1>2. ~Guarding(s) /\ UNCHANGED <<tmpl, meta, posts, camp, exposed, loose>> /\ Work0(s, r)
  BY DEF SyncTemplates, Guarding, Rest0
<1> HIDE DEF r
<1>3. TemplateTypes'
  BY <1>1, <1>2, RequestMoves DEF TemplateInv, TemplateTypes
<1>4. BrokenTemplateStopsCampaign' /\ DeletedIsGuarded'
  BY <1>2, QuietKeepsPromise
<1>5. ApprovedTextIsReviewed'
  BY <1>2 DEF TemplateInv, ApprovedTextIsReviewed, Live, Exists
<1> QED  BY <1>3, <1>4, <1>5 DEF TemplateInv

LEMMA SaveSyncedInv ==
  ASSUME TemplateInv, NEW s \in Requests, SaveSynced(s)
  PROVE  TemplateInv'
<1> DEFINE got == treq[s].got
<1>1. got \in TemplateCopy /\ got.st # Absent
  BY DEF TemplateInv, TemplateTypes, TemplateRequest, SaveSynced
<1>2. /\ tmpl' = [st |-> got.st, text |-> got.text, id |-> TRUE, gone |-> FALSE] /\ Over(s)
      /\ ~Guarding(s) /\ UNCHANGED <<meta, posts, camp>> /\ Exposes(got.st)
      /\ loose' = (tmpl # treq[s].row \/ meta # got)
  BY DEF SaveSynced, Guarding
<1> HIDE DEF got
<1>3. tmpl' \in TemplateRow
  <2>1. [st |-> got.st, text |-> got.text, id |-> TRUE, gone |-> FALSE] \in TemplateRow
    BY <1>1 DEF TemplateRow, TemplateCopy
  <2> QED  BY <1>2, <2>1
<1>4. Live' /\ Exposes(tmpl'.st) /\ tmpl'.text = got.text
  BY <1>1, <1>2 DEF Live, Exists, Absent
<1>5. BrokenTemplateStopsCampaign' /\ DeletedIsGuarded'
  BY <1>2, <1>4, WriteKeepsPromise
<1>6. TemplateTypes'
  <2>1. exposed' \in BOOLEAN /\ loose' \in BOOLEAN
    BY <1>2 DEF Exposes
  <2> QED  BY <1>2, <1>3, <2>1, RequestMoves, BareRequest DEF TemplateInv, TemplateTypes, Over
<1>7. ApprovedTextIsReviewed'
  BY <1>2, <1>4 DEF ApprovedTextIsReviewed
<1> QED  BY <1>5, <1>6, <1>7 DEF TemplateInv

LEMMA DeleteTemplateInv ==
  ASSUME TemplateInv, NEW s \in Requests, DeleteTemplate(s)
  PROVE  TemplateInv'
<1>1. /\ tmpl' = [tmpl EXCEPT !.gone = TRUE] /\ Work0(s, [do |-> "guard"])
      /\ UNCHANGED <<meta, posts, camp, exposed, loose>>
  BY DEF DeleteTemplate
<1>2. tmpl \in TemplateRow
  BY DEF TemplateInv, TemplateTypes
<1>3. tmpl' \in TemplateRow /\ tmpl'.gone
  BY <1>1, <1>2 DEF TemplateRow
<1>4. TemplateTypes'
  BY <1>1, <1>3, RequestMoves, BareRequest DEF TemplateInv, TemplateTypes
<1>5. Pausing(s)'
  <2>1. treq'[s] = [do |-> "guard"]
    BY <1>1, RequestMoves DEF TemplateInv
  <2> QED  BY <2>1 DEF Pausing
<1>6. BrokenTemplateStopsCampaign' /\ DeletedIsGuarded'
  BY <1>5 DEF BrokenTemplateStopsCampaign, DeletedIsGuarded, Pausing
<1>7. ApprovedTextIsReviewed'
  BY <1>3 DEF ApprovedTextIsReviewed, Live
<1> QED  BY <1>4, <1>6, <1>7 DEF TemplateInv

LEMMA DeleteTemplateFromMetaInv ==
  ASSUME TemplateInv, DeleteTemplateFromMeta
  PROVE  TemplateInv'
<1>1. /\ meta' = [st |-> Absent, text |-> 0] /\ loose' = TRUE
      /\ UNCHANGED <<tmpl, posts, camp, exposed, treq>>
  BY DEF DeleteTemplateFromMeta
<1>2. meta' \in TemplateCopy
  BY <1>1 DEF TemplateCopy
<1>3. TemplateTypes'
  BY <1>1, <1>2 DEF TemplateInv, TemplateTypes
<1>4. BrokenTemplateStopsCampaign' /\ DeletedIsGuarded'
  BY <1>1 DEF TemplateInv, BrokenTemplateStopsCampaign, DeletedIsGuarded, Pausing, Live, Exists
<1>5. ApprovedTextIsReviewed'
  BY <1>1 DEF ApprovedTextIsReviewed
<1> QED  BY <1>3, <1>4, <1>5 DEF TemplateInv

(* What Meta does by itself changes its status, never its text. *)
LEMMA MetaMovesInv ==
  ASSUME TemplateInv, MetaDecides \/ MetaReinstates
  PROVE  TemplateInv'
<1>1. PICK st \in Status, word \in Status :
        /\ meta' = [meta EXCEPT !.st = st] /\ posts' = posts \cup {word}
        /\ UNCHANGED <<tmpl, camp, exposed, treq, loose>>
  <2>1. CASE MetaDecides
    BY <2>1 DEF MetaDecides, Status
  <2>2. CASE MetaReinstates
    BY <2>2 DEF MetaReinstates, Status
  <2> QED  BY <2>1, <2>2
<1>2. meta \in TemplateCopy
  BY DEF TemplateInv, TemplateTypes
<1>3. meta' \in TemplateCopy /\ meta'.text = meta.text
  BY <1>1, <1>2 DEF TemplateCopy
<1>4. TemplateTypes'
  BY <1>1, <1>3 DEF TemplateInv, TemplateTypes
<1>5. BrokenTemplateStopsCampaign' /\ DeletedIsGuarded'
  BY <1>1 DEF TemplateInv, BrokenTemplateStopsCampaign, DeletedIsGuarded, Pausing, Live, Exists
<1>6. ApprovedTextIsReviewed'
  BY <1>1, <1>3 DEF TemplateInv, ApprovedTextIsReviewed, Live, Exists
<1> QED  BY <1>4, <1>5, <1>6 DEF TemplateInv

LEMMA ProcessTemplateStatusUpdateInv ==
  ASSUME TemplateInv, NEW s \in Requests, ProcessTemplateStatusUpdate(s)
  PROVE  TemplateInv'
<1>1. PICK st \in posts :
        /\ tmpl' = [tmpl EXCEPT !.st = st]
        /\ loose' = (loose \/ tmpl.text # meta.text \/ st # meta.st)
        /\ exposed' = (exposed /\ st # "APPROVED")
  BY DEF ProcessTemplateStatusUpdate
<1>2. Live /\ Work0(s, [do |-> "reread"]) /\ UNCHANGED <<meta, posts, camp>>
  BY DEF ProcessTemplateStatusUpdate
<1>3. tmpl \in TemplateRow /\ st \in Status
  BY DEF TemplateInv, TemplateTypes
<1>4. tmpl' \in TemplateRow /\ tmpl'.text = tmpl.text /\ tmpl'.st = st /\ tmpl'.gone = tmpl.gone
  BY <1>1, <1>3 DEF TemplateRow
<1>5. Live'
  BY <1>2, <1>3, <1>4 DEF Live, Exists, Status, Absent
<1>6. TemplateTypes'
  <2>1. exposed' \in BOOLEAN /\ loose' \in BOOLEAN
    BY <1>1
  <2> QED  BY <1>2, <1>4, <2>1, RequestMoves, BareRequest DEF TemplateInv, TemplateTypes
<1>7. BrokenTemplateStopsCampaign' /\ DeletedIsGuarded'
  <2>1. treq'[s].do = "reread"
    BY <1>2, RequestMoves DEF TemplateInv
  <2> QED  BY <1>5, <2>1 DEF BrokenTemplateStopsCampaign, DeletedIsGuarded
<1>8. ApprovedTextIsReviewed'
  BY <1>1, <1>2, <1>4 DEF ApprovedTextIsReviewed
<1> QED  BY <1>6, <1>7, <1>8 DEF TemplateInv

(* The request that reads the row back drops it only when it is approved, or  *)
(* when it is deleted and another request guards the campaigns.               *)
LEMMA GuardTemplateDependentsInv ==
  ASSUME TemplateInv, NEW s \in Requests, GuardTemplateDependents(s)
  PROVE  TemplateInv'
<1> DEFINE r == IF Live /\ tmpl.st # "APPROVED" THEN [do |-> "guard"] ELSE Rest0
<1>1. treq[s].do = "reread" /\ Work0(s, r) /\ UNCHANGED <<tmpl, meta, posts, camp, exposed, loose>>
  BY DEF GuardTemplateDependents
<1>2. TemplateRequest(r)
  BY BareRequest
<1>3. Live /\ tmpl.st # "APPROVED" => r.do = "guard"
  OBVIOUS
<1> HIDE DEF r
<1>4. TemplateTypes'
  BY <1>1, <1>2, RequestMoves DEF TemplateInv, TemplateTypes
<1>5. treq'[s] = r /\ \A o \in Requests \ {s} : treq'[o] = treq[o]
  BY <1>1, RequestMoves DEF TemplateInv
<1>6. Live' = Live /\ tmpl' = tmpl /\ camp' = camp /\ exposed' = exposed
  BY <1>1 DEF Live, Exists
<1>7. DeletedIsGuarded'
  BY <1>1, <1>5, <1>6 DEF TemplateInv, DeletedIsGuarded, Pausing
<1>8. BrokenTemplateStopsCampaign'
  <2>1. CASE Live /\ tmpl.st # "APPROVED"
    BY <1>3, <1>5, <2>1 DEF BrokenTemplateStopsCampaign
  <2>2. CASE ~Live
    BY <1>6, <1>7, <2>2 DEF BrokenTemplateStopsCampaign, DeletedIsGuarded, Pausing
  <2>3. CASE Live /\ tmpl.st = "APPROVED"
    BY <1>6, <2>3 DEF BrokenTemplateStopsCampaign
  <2> QED  BY <2>1, <2>2, <2>3
<1>9. ApprovedTextIsReviewed'
  BY <1>1, <1>6 DEF TemplateInv, ApprovedTextIsReviewed
<1> QED  BY <1>4, <1>7, <1>8, <1>9 DEF TemplateInv

LEMMA FindDependentCampaignsInv ==
  ASSUME TemplateInv, NEW s \in Requests, FindDependentCampaigns(s)
  PROVE  TemplateInv'
<1> DEFINE r == IF camp \in Pausable THEN [do |-> "pause"] ELSE Rest0
<1>1. Work0(s, r) /\ UNCHANGED <<tmpl, meta, posts, camp, exposed, loose>>
  BY DEF FindDependentCampaigns
<1>2. TemplateRequest(r)
  BY BareRequest
<1>3. camp \in Pausable => r.do = "pause"
  OBVIOUS
<1> HIDE DEF r
<1>4. TemplateTypes'
  BY <1>1, <1>2, RequestMoves DEF TemplateInv, TemplateTypes
<1>5. treq'[s] = r
  BY <1>1, RequestMoves DEF TemplateInv
<1>6. BrokenTemplateStopsCampaign' /\ DeletedIsGuarded'
  BY <1>1, <1>3, <1>5 DEF BrokenTemplateStopsCampaign, DeletedIsGuarded, Pausing
<1>7. ApprovedTextIsReviewed'
  BY <1>1 DEF TemplateInv, ApprovedTextIsReviewed, Live, Exists
<1> QED  BY <1>4, <1>6, <1>7 DEF TemplateInv

LEMMA PauseDependentCampaignsInv ==
  ASSUME TemplateInv, NEW s \in Requests, PauseDependentCampaigns(s)
  PROVE  TemplateInv'
<1>1. /\ camp' = Paused(camp) /\ exposed' = (exposed /\ camp \notin Pausable)
      /\ Work0(s, Rest0) /\ UNCHANGED <<tmpl, meta, posts, loose>>
  BY DEF PauseDependentCampaigns, Over
<1>2. TemplateTypes'
  <2>1. exposed' \in BOOLEAN
    BY <1>1
  <2> QED  BY <1>1, <2>1, RequestMoves, BareRequest DEF TemplateInv, TemplateTypes
<1>3. camp' \notin Pausable
  BY <1>1 DEF Paused, Pausable
<1>4. ApprovedTextIsReviewed'
  BY <1>1 DEF TemplateInv, ApprovedTextIsReviewed, Live, Exists
<1> QED  BY <1>2, <1>3, <1>4 DEF TemplateInv, BrokenTemplateStopsCampaign, DeletedIsGuarded

LEMMA CampaignMovesInv ==
  ASSUME TemplateInv, CreateCampaign \/ StartCampaign
  PROVE  TemplateInv'
<1>1. UNCHANGED <<tmpl, meta, posts, treq, loose>>
  BY DEF CreateCampaign, StartCampaign
<1>2. ApprovedTextIsReviewed'
  BY <1>1 DEF TemplateInv, ApprovedTextIsReviewed, Live, Exists
<1>3. CASE CreateCampaign
  <2>1. Live' /\ exposed' = (tmpl.st # "APPROVED" \/ \E s \in Requests : treq[s].do \in {"reread", "guard", "pause"})
    BY <1>1, <1>3 DEF CreateCampaign, Live, Exists
  <2>2. TemplateTypes'
    <3>1. exposed' \in BOOLEAN
      BY <2>1
    <3> QED  BY <1>1, <3>1 DEF TemplateInv, TemplateTypes
  <2>3. BrokenTemplateStopsCampaign' /\ DeletedIsGuarded'
    BY <1>1, <2>1 DEF BrokenTemplateStopsCampaign, DeletedIsGuarded
  <2> QED  BY <1>2, <2>2, <2>3 DEF TemplateInv
<1>4. CASE StartCampaign
  <2>1. TemplateTypes'
    BY <1>1, <1>4 DEF TemplateInv, TemplateTypes, StartCampaign
  <2>2. camp' \notin Pausable
    BY <1>4 DEF StartCampaign, Pausable
  <2> QED  BY <1>2, <2>1, <2>2 DEF TemplateInv, BrokenTemplateStopsCampaign, DeletedIsGuarded
<1> QED  BY <1>3, <1>4

LEMMA TemplateStepInv ==
  ASSUME TemplateInv, [TemplateNext]_templateVars
  PROVE  TemplateInv'
<1>1. CASE UNCHANGED templateVars
  <2>1. UNCHANGED <<tmpl, meta, posts, camp, exposed, treq, loose>>
    BY <1>1 DEF templateVars
  <2>2. TemplateTypes'
    BY <2>1 DEF TemplateInv, TemplateTypes
  <2>3. ApprovedTextIsReviewed' /\ BrokenTemplateStopsCampaign' /\ DeletedIsGuarded'
    BY <2>1 DEF TemplateInv, ApprovedTextIsReviewed, BrokenTemplateStopsCampaign, DeletedIsGuarded,
                Pausing, Live, Exists
  <2> QED  BY <2>2, <2>3 DEF TemplateInv
<1>2. CASE TemplateNext
  BY <1>2, CreateTemplateInv, DeleteTemplateFromMetaInv, MetaMovesInv, CampaignMovesInv,
     UpdateTemplateInv, SaveEditInv, SubmitTemplateInv, SubmitTemplateToMetaInv, SubmissionFailsInv,
     SaveSubmittedInv, SyncTemplatesInv, SaveSyncedInv, DeleteTemplateInv, ProcessTemplateStatusUpdateInv,
     GuardTemplateDependentsInv, FindDependentCampaignsInv, PauseDependentCampaignsInv
  DEF TemplateNext
<1> QED  BY <1>1, <1>2

-----------------------------------------------------------------------------
(* WhatsApp flows                                                             *)

Ahead == {"created", "uploaded", "published", "deprecated"}

LEMMA FlowInitInv == FlowInit => FlowInv
<1> SUFFICES ASSUME FlowInit  PROVE FlowInv
  OBVIOUS
<1>1. \A s \in Requests : freq[s].do = "none"
  BY DEF FlowInit, Rest0
<1>2. FlowTypes
  <2>1. \A s \in Requests : FlowRequest(freq[s])
    BY <1>1 DEF FlowRequest, Operating
  <2>2. [st |-> Absent, text |-> 0, id |-> FALSE, dirty |-> FALSE, gone |-> FALSE] \in FlowRow
    BY DEF FlowRow
  <2>3. mflow \in FlowCopy /\ spare \in Nat /\ DOMAIN freq = Requests
    BY DEF FlowInit, FlowCopy
  <2>4. tangled \in BOOLEAN /\ flow \in FlowRow
    BY <2>2 DEF FlowInit
  <2> QED  BY <2>1, <2>3, <2>4 DEF FlowTypes
<1>3. ~FlowLive /\ ~flow.id /\ flow.st = Absent /\ mflow.st = Absent /\ spare = 0
  BY DEF FlowInit, FlowLive
<1>4. IdsKept /\ UnnamedIsUnderWay /\ MetaAsLeft
  BY <1>1, <1>3 DEF IdsKept, UnnamedIsUnderWay, MetaAsLeft, Absent
<1>5. CleanFlowIsMetas /\ PublishedIsPublished /\ OneFlowInMeta
  BY <1>3 DEF CleanFlowIsMetas, PublishedIsPublished, OneFlowInMeta
<1> QED  BY <1>2, <1>4, <1>5 DEF FlowInv

(* What a step of one request leaves of the others. *)
LEMMA FlowRequestMoves ==
  ASSUME FlowTypes, NEW s \in Requests, NEW r, Go(s, r)
  PROVE  /\ DOMAIN freq' = Requests
         /\ freq'[s] = r
         /\ \A o \in Requests \ {s} : freq'[o] = freq[o]
         /\ FlowRequest(r) => \A o \in Requests : FlowRequest(freq'[o])
<1>1. DOMAIN freq' = Requests /\ freq'[s] = r /\ \A o \in Requests \ {s} : freq'[o] = freq[o]
  BY DEF FlowTypes, Go
<1>2. FlowRequest(r) => \A o \in Requests : FlowRequest(freq'[o])
  <2> SUFFICES ASSUME FlowRequest(r), NEW o \in Requests  PROVE FlowRequest(freq'[o])
    OBVIOUS
  <2>1. CASE o = s
    BY <1>1, <2>1
  <2>2. CASE o # s
    <3>1. freq'[o] = freq[o]
      BY <1>1, <2>2
    <3> QED  BY <3>1 DEF FlowTypes
  <2> QED  BY <2>1, <2>2
<1> QED  BY <1>1, <1>2

LEMMA RestFlowRequest == FlowRequest(Rest0) /\ Rest0.do = "none"
BY DEF FlowRequest, Rest0, Operating

(* The author's own edits: nobody's request moves, Meta is not called, and    *)
(* the row keeps its id.                                                      *)
LEMMA AuthorInv ==
  ASSUME FlowInv, CreateFlow \/ DuplicateFlow \/ UpdateFlow \/ DeleteFlow
  PROVE  FlowInv'
<1>1. UNCHANGED <<mflow, spare, freq, tangled>>
  BY DEF CreateFlow, DuplicateFlow, UpdateFlow, DeleteFlow
<1>2. flow \in FlowRow
  BY DEF FlowInv, FlowTypes
<1>3. /\ flow' \in FlowRow /\ flow'.id = flow.id /\ flow'.st # Absent
      /\ flow'.st = flow.st \/ flow'.st = "DRAFT"
      /\ FlowLive' => flow'.dirty \/ ~flow'.id
      /\ FlowLive' => flow'.st = "DRAFT" \/ FlowLive
  <2>1. CASE CreateFlow \/ DuplicateFlow
    <3>1. PICK x \in Texts : flow' = Fresh(x, FALSE, "DRAFT")
      BY <2>1 DEF CreateFlow, DuplicateFlow
    <3>2. Fresh(x, FALSE, "DRAFT") \in FlowRow
      BY MetaMirrorAssumption DEF Fresh, FlowRow, FlowStatus
    <3>3. flow' \in FlowRow /\ flow'.id = FALSE /\ flow'.st = "DRAFT"
      BY <3>1, <3>2 DEF Fresh
    <3>4. flow.id = FALSE
      BY <1>2, <2>1 DEF CreateFlow, DuplicateFlow, FlowInv, IdsKept, FlowRow
    <3> QED  BY <3>3, <3>4 DEF Absent
  <2>2. CASE UpdateFlow
    <3>1. PICK x \in Texts \ {flow.text} : flow' = [flow EXCEPT !.text = x, !.dirty = TRUE]
      BY <2>2 DEF UpdateFlow
    <3>2. x \in Nat
      BY MetaMirrorAssumption
    <3>3. flow' \in FlowRow /\ flow'.dirty /\ flow'.id = flow.id /\ flow'.st = flow.st
      BY <1>2, <3>1, <3>2 DEF FlowRow
    <3>4. FlowLive /\ flow.st # Absent
      BY <2>2 DEF UpdateFlow, FlowLive
    <3> QED  BY <3>3, <3>4
  <2>3. CASE DeleteFlow
    <3>1. flow' = [flow EXCEPT !.gone = TRUE] /\ FlowLive
      BY <2>3 DEF DeleteFlow
    <3>2. flow' \in FlowRow /\ flow'.gone /\ flow'.id = flow.id /\ flow'.st = flow.st
      BY <1>2, <3>1 DEF FlowRow
    <3> QED  BY <3>1, <3>2 DEF FlowLive
  <2> QED  BY <2>1, <2>2, <2>3
<1>4. FlowTypes'
  BY <1>1, <1>3 DEF FlowInv, FlowTypes
<1>5. IdsKept'
  BY <1>1, <1>3 DEF FlowInv, IdsKept
<1>6. UnnamedIsUnderWay' /\ MetaAsLeft' /\ OneFlowInMeta'
  BY <1>1, <1>3 DEF FlowInv, UnnamedIsUnderWay, MetaAsLeft, OneFlowInMeta
<1>7. CleanFlowIsMetas'
  BY <1>3 DEF CleanFlowIsMetas
<1>8. PublishedIsPublished'
  BY <1>1, <1>3 DEF FlowInv, PublishedIsPublished
<1> QED  BY <1>4, <1>5, <1>6, <1>7, <1>8 DEF FlowInv

(* A request begins or gives up without having changed anything. *)
LEMMA QuietFlowInv ==
  ASSUME FlowInv, NEW s \in Requests, NEW r, Go(s, r), FlowRequest(r),
         UNCHANGED <<flow, mflow, spare, tangled>>,
         freq[s].do \notin Ahead, r.do \notin Ahead,
         r.do \in {"publish", "deprecate"} => flow.id
  PROVE  FlowInv'
<1>1. /\ DOMAIN freq' = Requests /\ freq'[s] = r
      /\ \A o \in Requests \ {s} : freq'[o] = freq[o]
      /\ \A o \in Requests : FlowRequest(freq'[o])
  BY FlowRequestMoves DEF FlowInv
<1>2. FlowTypes'
  BY <1>1 DEF FlowInv, FlowTypes
<1>3. \A o \in Requests : freq'[o].do \in Ahead => freq'[o] = freq[o]
  BY <1>1
<1>4. \A o \in Requests : freq[o].do \in Ahead => freq'[o] = freq[o]
  BY <1>1
<1>5. FlowLive' = FlowLive
  BY DEF FlowLive
<1>6. IdsKept'
  BY <1>1 DEF FlowInv, IdsKept, Ahead
<1>7. UnnamedIsUnderWay' /\ MetaAsLeft' /\ OneFlowInMeta'
  BY <1>3, <1>4 DEF FlowInv, UnnamedIsUnderWay, MetaAsLeft, OneFlowInMeta, Ahead
<1>8. CleanFlowIsMetas' /\ PublishedIsPublished'
  BY <1>4, <1>5 DEF FlowInv, CleanFlowIsMetas, PublishedIsPublished, Ahead
<1> QED  BY <1>2, <1>6, <1>7, <1>8 DEF FlowInv

LEMMA ReadFlowInv ==
  ASSUME FlowInv, NEW s \in Requests, ReadFlow(s)
  PROVE  FlowInv'
<1>1. PICK op \in {"save", "publish", "deprecate"} :
        /\ op = "publish" => flow.id
        /\ op = "deprecate" => flow.st = "PUBLISHED"
        /\ Go(s, [do |-> op, row |-> flow])
  BY DEF ReadFlow
<1> DEFINE r == [do |-> op, row |-> flow]
<1>2. FlowRequest(r)
  BY DEF FlowRequest, FlowInv, FlowTypes, ReadFlow, FlowLive, Operating
<1>3. Go(s, r) /\ r.do = op
  BY <1>1
<1>4. op \in {"publish", "deprecate"} => flow.id
  BY <1>1 DEF FlowInv, IdsKept
<1>5. freq[s].do \notin Ahead /\ op \notin Ahead /\ UNCHANGED <<flow, mflow, spare, tangled>>
  BY DEF ReadFlow, Rest0, Ahead
<1> HIDE DEF r
<1> QED  BY <1>2, <1>3, <1>4, <1>5, QuietFlowInv

LEMMA ListFlowsInv ==
  ASSUME FlowInv, NEW s \in Requests, ListFlows(s)
  PROVE  FlowInv'
<1> DEFINE r == [do |-> "sync", row |-> flow, got |-> mflow]
<1>1. FlowRequest(r) /\ r.do = "sync"
  BY DEF FlowRequest, FlowInv, FlowTypes, ListFlows, Operating
<1>2. Go(s, r) /\ freq[s].do \notin Ahead /\ "sync" \notin Ahead /\ UNCHANGED <<flow, mflow, spare, tangled>>
  BY DEF ListFlows, Rest0, Ahead
<1> HIDE DEF r
<1> QED  BY <1>1, <1>2, QuietFlowInv

LEMMA MetaRefusesInv ==
  ASSUME FlowInv, NEW s \in Requests, MetaRefuses(s)
  PROVE  FlowInv'
<1>1. /\ Go(s, Rest0) /\ freq[s].do \notin Ahead /\ Rest0.do \notin Ahead
      /\ UNCHANGED <<flow, mflow, spare, tangled>>
  BY RestFlowRequest DEF MetaRefuses, Ended, Ahead
<1> QED  BY <1>1, RestFlowRequest, QuietFlowInv

(* A step that changes Meta's flow: unless it tangles, the row is still the   *)
(* one that was read, and nobody else is ahead of the row.                    *)
LEMMA MetaStep ==
  ASSUME FlowInv, NEW s \in Requests, NEW op \in Ahead, freq[s].do \in Operating,
         Go(s, [freq[s] EXCEPT !.do = op]), Overtakes(s), flow' = flow,
         mflow' \in FlowCopy, spare' \in Nat,
         op \in {"published", "deprecated"} => flow.id
  PROVE  /\ FlowTypes' /\ IdsKept'
         /\ freq'[s].do = op /\ freq'[s].row = freq[s].row
         /\ ~tangled' => /\ ~tangled /\ flow = freq[s].row
                         /\ \A o \in Requests \ {s} : freq[o].do \notin Ahead /\ freq'[o] = freq[o]
<1> DEFINE r == [freq[s] EXCEPT !.do = op]
<1>1. freq[s] \in [do : Operating, row : FlowRow] /\ freq[s].row.st # Absent /\ ~freq[s].row.gone
  BY DEF FlowInv, FlowTypes, FlowRequest
<1>2. r \in [do : Operating, row : FlowRow] /\ r.do = op /\ r.row = freq[s].row
  BY <1>1 DEF Ahead, Operating
<1>3. FlowRequest(r)
  BY <1>1, <1>2 DEF FlowRequest, Ahead
<1>4. Go(s, r)
  OBVIOUS
<1> HIDE DEF r
<1>5. /\ DOMAIN freq' = Requests /\ freq'[s] = r
      /\ \A o \in Requests \ {s} : freq'[o] = freq[o]
      /\ \A o \in Requests : FlowRequest(freq'[o])
  BY <1>3, <1>4, FlowRequestMoves DEF FlowInv
<1>6. tangled' \in BOOLEAN
  BY DEF Overtakes
<1>7. FlowTypes'
  BY <1>5, <1>6 DEF FlowInv, FlowTypes
<1>8. IdsKept'
  BY <1>2, <1>5 DEF FlowInv, IdsKept, Ahead
<1>9. ~tangled' => /\ ~tangled /\ flow = freq[s].row
                   /\ \A o \in Requests \ {s} : freq[o].do \notin Ahead
  BY DEF Overtakes, Ahead
<1> QED  BY <1>2, <1>5, <1>7, <1>8, <1>9

(* Once tangled, only the types and the ids are promised. *)
LEMMA TangledInv ==
  ASSUME FlowTypes', IdsKept', tangled'
  PROVE  FlowInv'
BY DEF FlowInv, UnnamedIsUnderWay, MetaAsLeft, CleanFlowIsMetas, PublishedIsPublished, OneFlowInMeta

LEMMA CreateInMetaInv ==
  ASSUME FlowInv, NEW s \in Requests, CreateInMeta(s)
  PROVE  FlowInv'
<1>1. /\ freq[s].do = "save" /\ ~freq[s].row.id /\ Overtakes(s) /\ flow' = flow
      /\ Go(s, [freq[s] EXCEPT !.do = "created"]) /\ mflow' = [st |-> "DRAFT", text |-> 0]
      /\ spare' = IF mflow.st = Absent THEN spare ELSE spare + 1
  BY DEF CreateInMeta
<1>2. mflow' \in FlowCopy /\ spare' \in Nat
  BY <1>1 DEF FlowCopy, FlowStatus, FlowInv, FlowTypes
<1>3. /\ FlowTypes' /\ IdsKept'
      /\ freq'[s].do = "created" /\ freq'[s].row = freq[s].row
      /\ ~tangled' => /\ ~tangled /\ flow = freq[s].row
                      /\ \A o \in Requests \ {s} : freq[o].do \notin Ahead /\ freq'[o] = freq[o]
  BY <1>1, <1>2, MetaStep DEF Ahead, Operating
<1>4. CASE tangled'
  BY <1>3, <1>4, TangledInv
<1>5. CASE ~tangled'
  <2>1. ~tangled /\ flow = freq[s].row /\ \A o \in Requests \ {s} : freq[o].do \notin Ahead /\ freq'[o] = freq[o]
    BY <1>3, <1>5
  <2>2. ~flow.id /\ \A o \in Requests : freq[o].do \notin {"created", "uploaded"}
    BY <1>1, <2>1 DEF Ahead
  <2>3. mflow.st = Absent
    BY <2>1, <2>2 DEF FlowInv, UnnamedIsUnderWay
  <2>4. OneFlowInMeta'
    BY <1>1, <2>1, <2>3 DEF FlowInv, OneFlowInMeta
  <2>5. MetaAsLeft'
    BY <1>1, <1>3, <2>1 DEF MetaAsLeft, Ahead
  <2>6. UnnamedIsUnderWay' /\ CleanFlowIsMetas'
    BY <1>3 DEF UnnamedIsUnderWay, CleanFlowIsMetas
  <2>7. PublishedIsPublished'
    BY <1>1, <2>2 DEF PublishedIsPublished, FlowInv, IdsKept
  <2> QED  BY <1>3, <2>4, <2>5, <2>6, <2>7 DEF FlowInv
<1> QED  BY <1>4, <1>5

LEMMA UpdateFlowJSONInv ==
  ASSUME FlowInv, NEW s \in Requests, UpdateFlowJSON(s)
  PROVE  FlowInv'
<1>1. /\ freq[s].do \in {"save", "created"} /\ Overtakes(s) /\ UNCHANGED <<flow, spare>>
      /\ Go(s, [freq[s] EXCEPT !.do = "uploaded"])
      /\ mflow' = IF freq[s].row.text = 0 THEN mflow ELSE [st |-> "DRAFT", text |-> freq[s].row.text]
  BY DEF UpdateFlowJSON, Uploads
<1>2. freq[s].row \in FlowRow /\ mflow \in FlowCopy /\ spare \in Nat
  BY <1>1 DEF FlowInv, FlowTypes, FlowRequest, Operating
<1>3. mflow' \in FlowCopy /\ spare' \in Nat
  BY <1>1, <1>2 DEF FlowCopy, FlowStatus, FlowRow
<1>4. /\ FlowTypes' /\ IdsKept'
      /\ freq'[s].do = "uploaded" /\ freq'[s].row = freq[s].row
      /\ ~tangled' => /\ ~tangled /\ flow = freq[s].row
                      /\ \A o \in Requests \ {s} : freq[o].do \notin Ahead /\ freq'[o] = freq[o]
  BY <1>1, <1>3, MetaStep DEF Ahead, Operating
<1>5. CASE tangled'
  BY <1>4, <1>5, TangledInv
<1>6. CASE ~tangled'
  <2>1. ~tangled /\ flow = freq[s].row /\ \A o \in Requests \ {s} : freq[o].do \notin Ahead /\ freq'[o] = freq[o]
    BY <1>4, <1>6
  <2>2. freq[s].row.text \in {mflow'.text, 0}
    BY <1>1
  <2>3. MetaAsLeft'
    BY <1>4, <2>1, <2>2 DEF MetaAsLeft, Ahead
  <2>4. UnnamedIsUnderWay' /\ CleanFlowIsMetas' /\ PublishedIsPublished'
    BY <1>4 DEF UnnamedIsUnderWay, CleanFlowIsMetas, PublishedIsPublished
  <2>5. OneFlowInMeta'
    BY <1>1, <2>1 DEF FlowInv, OneFlowInMeta
  <2> QED  BY <1>4, <2>3, <2>4, <2>5 DEF FlowInv
<1> QED  BY <1>5, <1>6

LEMMA PublishInMetaInv ==
  ASSUME FlowInv, NEW s \in Requests, PublishInMeta(s)
  PROVE  FlowInv'
<1>1. /\ freq[s].do = "publish" /\ Overtakes(s) /\ UNCHANGED <<flow, spare>>
      /\ Go(s, [freq[s] EXCEPT !.do = "published"]) /\ mflow' = [mflow EXCEPT !.st = "PUBLISHED"]
  BY DEF PublishInMeta
<1>2. mflow \in FlowCopy /\ spare \in Nat /\ flow.id
  BY <1>1 DEF FlowInv, FlowTypes, IdsKept
<1>3. mflow' \in FlowCopy /\ spare' \in Nat /\ mflow'.st = "PUBLISHED" /\ mflow'.text = mflow.text
  BY <1>1, <1>2 DEF FlowCopy, FlowStatus
<1>4. /\ FlowTypes' /\ IdsKept'
      /\ freq'[s].do = "published" /\ freq'[s].row = freq[s].row
      /\ ~tangled' => /\ ~tangled /\ flow = freq[s].row
                      /\ \A o \in Requests \ {s} : freq[o].do \notin Ahead /\ freq'[o] = freq[o]
  BY <1>1, <1>2, <1>3, MetaStep DEF Ahead, Operating
<1>5. CASE tangled'
  BY <1>4, <1>5, TangledInv
<1>6. CASE ~tangled'
  <2>1. ~tangled /\ \A o \in Requests \ {s} : freq[o].do \notin Ahead /\ freq'[o] = freq[o]
    BY <1>4, <1>6
  <2>2. MetaAsLeft'
    BY <1>3, <1>4, <2>1 DEF MetaAsLeft, Ahead
  <2>3. UnnamedIsUnderWay' /\ PublishedIsPublished'
    BY <1>1, <1>2, <1>3 DEF UnnamedIsUnderWay, PublishedIsPublished
  <2>4. CleanFlowIsMetas'
    BY <1>1, <1>3, <2>1 DEF FlowInv, CleanFlowIsMetas, FlowLive, Ahead
  <2>5. OneFlowInMeta'
    BY <1>1, <2>1 DEF FlowInv, OneFlowInMeta
  <2> QED  BY <1>4, <2>2, <2>3, <2>4, <2>5 DEF FlowInv
<1> QED  BY <1>5, <1>6

LEMMA DeprecateInMetaInv ==
  ASSUME FlowInv, NEW s \in Requests, DeprecateInMeta(s)
  PROVE  FlowInv'
<1>1. /\ freq[s].do = "deprecate" /\ Overtakes(s) /\ UNCHANGED <<flow, spare>>
      /\ Go(s, [freq[s] EXCEPT !.do = "deprecated"]) /\ mflow' = [mflow EXCEPT !.st = "DEPRECATED"]
  BY DEF DeprecateInMeta
<1>2. mflow \in FlowCopy /\ spare \in Nat /\ flow.id
  BY <1>1 DEF FlowInv, FlowTypes, IdsKept
<1>3. mflow' \in FlowCopy /\ spare' \in Nat /\ mflow'.text = mflow.text
  BY <1>1, <1>2 DEF FlowCopy, FlowStatus
<1>4. /\ FlowTypes' /\ IdsKept'
      /\ freq'[s].do = "deprecated" /\ freq'[s].row = freq[s].row
      /\ ~tangled' => /\ ~tangled /\ flow = freq[s].row
                      /\ \A o \in Requests \ {s} : freq[o].do \notin Ahead /\ freq'[o] = freq[o]
  BY <1>1, <1>2, <1>3, MetaStep DEF Ahead, Operating
<1>5. CASE tangled'
  BY <1>4, <1>5, TangledInv
<1>6. CASE ~tangled'
  <2>1. ~tangled /\ \A o \in Requests \ {s} : freq[o].do \notin Ahead /\ freq'[o] = freq[o]
    BY <1>4, <1>6
  <2>2. MetaAsLeft'
    BY <1>4, <2>1 DEF MetaAsLeft, Ahead
  <2>3. UnnamedIsUnderWay' /\ PublishedIsPublished'
    BY <1>1, <1>2, <1>4 DEF UnnamedIsUnderWay, PublishedIsPublished
  <2>4. CleanFlowIsMetas'
    BY <1>1, <1>3, <2>1 DEF FlowInv, CleanFlowIsMetas, FlowLive, Ahead
  <2>5. OneFlowInMeta'
    BY <1>1, <2>1 DEF FlowInv, OneFlowInMeta
  <2> QED  BY <1>4, <2>2, <2>3, <2>4, <2>5 DEF FlowInv
<1> QED  BY <1>5, <1>6

(* A request that ends and writes the row, without calling Meta: unless it    *)
(* tangles, nobody's view of Meta's flow is disturbed.                        *)
LEMMA RowStep ==
  ASSUME FlowInv, NEW s \in Requests, Ended(s), UNCHANGED <<mflow, spare>>,
         tangled' \in BOOLEAN, tangled => tangled',
         flow' \in FlowRow, flow'.st = Absent => flow' = flow, flow.id => flow'.id,
         flow'.st \in {"PUBLISHED", "DEPRECATED"} => flow'.id,
         ~tangled' => flow'.id
  PROVE  /\ FlowTypes' /\ IdsKept'
         /\ UnnamedIsUnderWay' /\ MetaAsLeft' /\ OneFlowInMeta'
         /\ \A o \in Requests \ {s} : freq'[o] = freq[o]
<1>1. /\ DOMAIN freq' = Requests /\ freq'[s].do = "none"
      /\ \A o \in Requests \ {s} : freq'[o] = freq[o]
      /\ \A o \in Requests : FlowRequest(freq'[o])
  BY FlowRequestMoves, RestFlowRequest DEF FlowInv, Ended
<1>2. FlowTypes'
  BY <1>1 DEF FlowInv, FlowTypes
<1>3. IdsKept'
  BY <1>1 DEF FlowInv, IdsKept
<1>4. UnnamedIsUnderWay'
  BY DEF UnnamedIsUnderWay
<1>5. MetaAsLeft'
  BY <1>1 DEF FlowInv, MetaAsLeft
<1>6. OneFlowInMeta'
  BY DEF FlowInv, OneFlowInMeta
<1> QED  BY <1>1, <1>2, <1>3, <1>4, <1>5, <1>6

(* The row a request has read was live, so a request that does not cross      *)
(* another finds it live.                                                     *)
LEMMA CrossesOrLive ==
  ASSUME FlowInv, NEW s \in Requests, freq[s].do \in Operating, Crosses(s)
  PROVE  /\ tangled' \in BOOLEAN /\ (tangled => tangled')
         /\ ~tangled' => ~tangled /\ flow = freq[s].row /\ FlowLive
<1>1. freq[s].row.st # Absent /\ ~freq[s].row.gone
  BY DEF FlowInv, FlowTypes, FlowRequest
<1> QED  BY <1>1 DEF Crosses, FlowLive

LEMMA UploadFailsInv ==
  ASSUME FlowInv, NEW s \in Requests, UploadFails(s)
  PROVE  FlowInv'
<1>1. /\ freq[s].do \in {"save", "created"} /\ (freq[s].do = "save" => freq[s].row.id)
      /\ Ended(s) /\ Crosses(s) /\ UNCHANGED <<mflow, spare>>
      /\ flow' = IF FlowLive THEN [flow EXCEPT !.id = TRUE] ELSE flow
  BY DEF UploadFails, Uploads
<1>2. /\ tangled' \in BOOLEAN /\ (tangled => tangled')
      /\ ~tangled' => ~tangled /\ flow = freq[s].row /\ FlowLive
  BY <1>1, CrossesOrLive DEF Operating
<1>3. flow \in FlowRow
  BY DEF FlowInv, FlowTypes
<1>4. /\ flow' \in FlowRow /\ flow'.st = flow.st /\ flow'.text = flow.text
      /\ flow'.dirty = flow.dirty /\ flow'.gone = flow.gone
      /\ FlowLive => flow'.id
      /\ ~FlowLive => flow' = flow
  <2>1. CASE FlowLive
    BY <1>1, <1>3, <2>1 DEF FlowRow
  <2>2. CASE ~FlowLive
    BY <1>1, <1>3, <2>2
  <2> QED  BY <2>1, <2>2
<1>5. flow.st = Absent => ~FlowLive
  BY DEF FlowLive
<1>6. flow'.st \in {"PUBLISHED", "DEPRECATED"} => flow'.id
  BY <1>4 DEF FlowInv, IdsKept
<1>7. /\ FlowTypes' /\ IdsKept'
      /\ UnnamedIsUnderWay' /\ MetaAsLeft' /\ OneFlowInMeta'
      /\ \A o \in Requests \ {s} : freq'[o] = freq[o]
  BY <1>1, <1>2, <1>4, <1>5, <1>6, RowStep
<1>8. CASE tangled'
  BY <1>7, <1>8, TangledInv
<1>9. CASE ~tangled'
  <2>1. ~tangled /\ flow = freq[s].row
    BY <1>2, <1>9
  <2>2. PublishedIsPublished'
    <3>1. FlowLive' = FlowLive
      BY <1>4 DEF FlowLive
    <3> QED  BY <1>1, <1>4, <1>7, <2>1, <3>1 DEF FlowInv, PublishedIsPublished
  <2>3. CleanFlowIsMetas'
    <3>1. CASE freq[s].do = "created"
      <4>1. mflow'.text = 0
        BY <1>1, <2>1, <3>1 DEF FlowInv, MetaAsLeft
      <4> QED  BY <4>1 DEF CleanFlowIsMetas
    <3>2. CASE freq[s].do = "save"
      <4>1. flow.id /\ FlowLive' = FlowLive
        BY <1>1, <1>4, <2>1, <3>2 DEF FlowLive
      <4> QED  BY <1>1, <1>4, <1>7, <2>1, <3>2, <4>1 DEF FlowInv, CleanFlowIsMetas
    <3> QED  BY <1>1, <3>1, <3>2
  <2> QED  BY <1>7, <2>2, <2>3 DEF FlowInv
<1> QED  BY <1>8, <1>9

LEMMA SaveFlowToMetaInv ==
  ASSUME FlowInv, NEW s \in Requests, SaveFlowToMeta(s)
  PROVE  FlowInv'
<1>1. /\ freq[s].do = "uploaded" /\ Ended(s) /\ Crosses(s) /\ UNCHANGED <<mflow, spare>>
      /\ flow' = IF FlowLive THEN [flow EXCEPT !.id = TRUE, !.st = "DRAFT", !.dirty = FALSE] ELSE flow
  BY DEF SaveFlowToMeta, SavedRow
<1>2. /\ tangled' \in BOOLEAN /\ (tangled => tangled')
      /\ ~tangled' => ~tangled /\ flow = freq[s].row /\ FlowLive
  BY <1>1, CrossesOrLive DEF Operating
<1>3. flow \in FlowRow
  BY DEF FlowInv, FlowTypes
<1>4. /\ flow' \in FlowRow
      /\ FlowLive => flow'.id /\ flow'.st = "DRAFT" /\ flow'.text = flow.text
      /\ ~FlowLive => flow' = flow
  <2>1. CASE FlowLive
    BY <1>1, <1>3, <2>1 DEF FlowRow, FlowStatus
  <2>2. CASE ~FlowLive
    BY <1>1, <1>3, <2>2
  <2> QED  BY <2>1, <2>2
<1>5. flow'.st = Absent => flow' = flow
  BY <1>4 DEF Absent
<1>6. flow'.st \in {"PUBLISHED", "DEPRECATED"} => flow'.id
  BY <1>4 DEF FlowInv, IdsKept
<1>7. /\ FlowTypes' /\ IdsKept'
      /\ UnnamedIsUnderWay' /\ MetaAsLeft' /\ OneFlowInMeta'
  BY <1>1, <1>2, <1>4, <1>5, <1>6, RowStep
<1>8. CASE tangled'
  BY <1>7, <1>8, TangledInv
<1>9. CASE ~tangled'
  <2>1. ~tangled /\ flow = freq[s].row /\ FlowLive
    BY <1>2, <1>9
  <2>2. PublishedIsPublished'
    BY <1>4, <2>1 DEF PublishedIsPublished
  <2>3. CleanFlowIsMetas'
    BY <1>1, <1>4, <2>1 DEF CleanFlowIsMetas, FlowInv, MetaAsLeft
  <2> QED  BY <1>7, <2>2, <2>3 DEF FlowInv
<1> QED  BY <1>8, <1>9

(* The row follows Meta's flow once it is published or deprecated there. *)
LEMMA FollowInv ==
  ASSUME FlowInv, NEW s \in Requests, PublishFlow(s) \/ DeprecateFlow(s)
  PROVE  FlowInv'
<1>1. PICK st \in {"PUBLISHED", "DEPRECATED"} :
        /\ freq[s].do \in {"published", "deprecated"}
        /\ st = "PUBLISHED" => freq[s].do = "published"
        /\ Ended(s) /\ Crosses(s) /\ UNCHANGED <<mflow, spare>>
        /\ flow' = IF FlowLive THEN [flow EXCEPT !.st = st] ELSE flow
  <2>1. CASE PublishFlow(s)
    BY <2>1 DEF PublishFlow
  <2>2. CASE DeprecateFlow(s)
    BY <2>2 DEF DeprecateFlow
  <2> QED  BY <2>1, <2>2
<1>2. /\ tangled' \in BOOLEAN /\ (tangled => tangled')
      /\ ~tangled' => ~tangled /\ flow = freq[s].row /\ FlowLive
  BY <1>1, CrossesOrLive DEF Operating
<1>3. flow \in FlowRow /\ flow.id
  BY <1>1 DEF FlowInv, FlowTypes, IdsKept
<1>4. /\ flow' \in FlowRow /\ flow'.id
      /\ FlowLive => /\ flow'.st = st /\ flow'.text = flow.text
                     /\ flow'.dirty = flow.dirty /\ flow'.gone = flow.gone
      /\ ~FlowLive => flow' = flow
  <2>1. CASE FlowLive
    BY <1>1, <1>3, <2>1 DEF FlowRow, FlowStatus
  <2>2. CASE ~FlowLive
    BY <1>1, <1>3, <2>2
  <2> QED  BY <2>1, <2>2
<1>5. flow'.st = Absent => flow' = flow
  BY <1>4 DEF Absent
<1>6. /\ FlowTypes' /\ IdsKept'
      /\ UnnamedIsUnderWay' /\ MetaAsLeft' /\ OneFlowInMeta'
      /\ \A o \in Requests \ {s} : freq'[o] = freq[o]
  BY <1>1, <1>2, <1>4, <1>5, RowStep
<1>7. CASE tangled'
  BY <1>6, <1>7, TangledInv
<1>8. CASE ~tangled'
  <2>1. ~tangled /\ FlowLive
    BY <1>2, <1>8
  <2>2. PublishedIsPublished'
    <3>1. CASE st = "PUBLISHED"
      <4>1. mflow'.st = "PUBLISHED"
        BY <1>1, <2>1, <3>1 DEF FlowInv, MetaAsLeft
      <4> QED  BY <4>1 DEF PublishedIsPublished
    <3>2. CASE st = "DEPRECATED"
      BY <1>4, <2>1, <3>2 DEF PublishedIsPublished
    <3> QED  BY <1>1, <3>1, <3>2
  <2>3. CleanFlowIsMetas'
    BY <1>1, <1>3, <1>4, <1>6, <2>1 DEF FlowInv, CleanFlowIsMetas
  <2> QED  BY <1>6, <2>2, <2>3 DEF FlowInv
<1> QED  BY <1>7, <1>8

LEMMA SyncFlowsInv ==
  ASSUME FlowInv, NEW s \in Requests, SyncFlows(s)
  PROVE  FlowInv'
<1> DEFINE got == freq[s].got
<1>1. PICK assets \in BOOLEAN :
        IF FlowLive /\ flow.id
        THEN /\ flow' = [flow EXCEPT !.st = got.st, !.text = IF assets THEN got.text ELSE flow.text]
             /\ tangled' = (tangled \/ flow # freq[s].row \/ mflow # got)
        ELSE IF FlowLive
        THEN flow' = flow /\ tangled' = TRUE
        ELSE /\ flow' = Fresh(IF assets THEN got.text ELSE 0, TRUE, got.st)
             /\ tangled' = (tangled \/ mflow # got)
  BY DEF SyncFlows
<1>2. freq[s].do = "sync" /\ Ended(s) /\ UNCHANGED <<mflow, spare>>
  BY DEF SyncFlows
<1>3. got \in FlowCopy /\ got.st # Absent /\ flow \in FlowRow /\ mflow \in FlowCopy
  BY <1>2 DEF FlowInv, FlowTypes, FlowRequest
<1> HIDE DEF got
<1>4. CASE FlowLive /\ flow.id
  <2> DEFINE x == IF assets THEN got.text ELSE flow.text
  <2>1. flow' = [flow EXCEPT !.st = got.st, !.text = x] /\ tangled' = (tangled \/ flow # freq[s].row \/ mflow # got)
    BY <1>1, <1>4
  <2>2. x \in Nat /\ x \in {got.text, flow.text}
    BY <1>3 DEF FlowCopy, FlowRow
  <2> HIDE DEF x
  <2>3. /\ flow' \in FlowRow /\ flow'.st = got.st /\ flow'.text = x
        /\ flow'.dirty = flow.dirty /\ flow'.gone = flow.gone /\ flow'.id
    BY <1>3, <1>4, <2>1, <2>2 DEF FlowRow, FlowCopy
  <2>4. tangled' \in BOOLEAN /\ (tangled => tangled') /\ (~tangled' => ~tangled /\ mflow = got)
    BY <2>1
  <2>5. /\ FlowTypes' /\ IdsKept'
        /\ UnnamedIsUnderWay' /\ MetaAsLeft' /\ OneFlowInMeta'
        /\ \A o \in Requests \ {s} : freq'[o] = freq[o]
    BY <1>2, <1>3, <2>3, <2>4, RowStep
  <2>6. PublishedIsPublished'
    BY <1>2, <2>3, <2>4 DEF PublishedIsPublished
  <2>7. CleanFlowIsMetas'
    BY <1>2, <1>4, <2>2, <2>3, <2>4, <2>5 DEF FlowInv, CleanFlowIsMetas
  <2> QED  BY <2>5, <2>6, <2>7 DEF FlowInv
<1>5. CASE FlowLive /\ ~flow.id
  <2>1. flow' = flow /\ tangled' = TRUE
    BY <1>1, <1>5
  <2>2. flow'.st \in {"PUBLISHED", "DEPRECATED"} => flow'.id
    BY <2>1 DEF FlowInv, IdsKept
  <2>3. FlowTypes' /\ IdsKept'
    BY <1>2, <1>3, <2>1, <2>2, RowStep
  <2> QED  BY <2>1, <2>3, TangledInv
<1>6. CASE ~FlowLive
  <2> DEFINE x == IF assets THEN got.text ELSE 0
  <2>1. flow' = Fresh(x, TRUE, got.st) /\ tangled' = (tangled \/ mflow # got)
    BY <1>1, <1>6
  <2>2. x \in Nat /\ x \in {got.text, 0}
    BY <1>3 DEF FlowCopy
  <2> HIDE DEF x
  <2>3. flow' \in FlowRow /\ flow'.st = got.st /\ flow'.text = x /\ flow'.id
    <3>1. Fresh(x, TRUE, got.st) \in FlowRow
      BY <1>3, <2>2 DEF Fresh, FlowRow, FlowCopy
    <3> QED  BY <2>1, <3>1 DEF Fresh
  <2>4. tangled' \in BOOLEAN /\ (tangled => tangled') /\ (~tangled' => ~tangled /\ mflow = got)
    BY <2>1
  <2>5. /\ FlowTypes' /\ IdsKept'
        /\ UnnamedIsUnderWay' /\ MetaAsLeft' /\ OneFlowInMeta'
    BY <1>2, <1>3, <2>3, <2>4, RowStep
  <2>6. PublishedIsPublished' /\ CleanFlowIsMetas'
    BY <1>2, <2>2, <2>3, <2>4 DEF PublishedIsPublished, CleanFlowIsMetas
  <2> QED  BY <2>5, <2>6 DEF FlowInv
<1> QED  BY <1>4, <1>5, <1>6

LEMMA ValidateFlowStructureInv ==
  ASSUME FlowInv, NEW s \in Requests, ValidateFlowStructure(s)
  PROVE  FlowInv'
<1>1. freq[s].do \in {"save", "created"} /\ Go(s, Rest0) /\ UNCHANGED <<flow, mflow, spare>>
      /\ tangled' = (tangled \/ freq[s].do = "created")
  BY DEF ValidateFlowStructure, Uploads, Ended
<1>2. CASE freq[s].do = "save"
  <2>1. tangled' = tangled
    BY <1>1, <1>2 DEF FlowInv, FlowTypes
  <2>2. freq[s].do \notin Ahead /\ Rest0.do \notin Ahead
    BY <1>2, RestFlowRequest DEF Ahead
  <2> QED  BY <1>1, <2>1, <2>2, RestFlowRequest, QuietFlowInv
<1>3. CASE freq[s].do = "created"
  <2>1. tangled' = TRUE
    BY <1>1, <1>3
  <2>2. flow'.st \in {"PUBLISHED", "DEPRECATED"} => flow'.id
    BY <1>1 DEF FlowInv, IdsKept
  <2>3. flow' \in FlowRow
    BY <1>1 DEF FlowInv, FlowTypes
  <2>4. FlowTypes' /\ IdsKept'
    BY <1>1, <2>1, <2>2, <2>3, RowStep DEF Ended
  <2> QED  BY <2>1, <2>4, TangledInv
<1> QED  BY <1>1, <1>2, <1>3

LEMMA FlowRequestLostInv ==
  ASSUME FlowInv, NEW s \in Requests, FlowRequestLost(s)
  PROVE  FlowInv'
<1>1. Ended(s) /\ UNCHANGED <<flow, mflow, spare>> /\ tangled' = TRUE
  BY DEF FlowRequestLost
<1>2. flow'.st \in {"PUBLISHED", "DEPRECATED"} => flow'.id
  BY <1>1 DEF FlowInv, IdsKept
<1>3. flow' \in FlowRow
  BY <1>1 DEF FlowInv, FlowTypes
<1>4. FlowTypes' /\ IdsKept'
  BY <1>1, <1>2, <1>3, RowStep
<1> QED  BY <1>1, <1>4, TangledInv

LEMMA FlowStepInv ==
  ASSUME FlowInv, [FlowNext]_flowVars
  PROVE  FlowInv'
<1>1. CASE UNCHANGED flowVars
  <2>1. UNCHANGED <<flow, mflow, spare, freq, tangled>>
    BY <1>1 DEF flowVars
  <2>2. FlowTypes'
    BY <2>1 DEF FlowInv, FlowTypes
  <2>3. IdsKept' /\ UnnamedIsUnderWay' /\ MetaAsLeft' /\ OneFlowInMeta'
    BY <2>1 DEF FlowInv, IdsKept, UnnamedIsUnderWay, MetaAsLeft, OneFlowInMeta
  <2>4. CleanFlowIsMetas' /\ PublishedIsPublished'
    BY <2>1 DEF FlowInv, CleanFlowIsMetas, PublishedIsPublished, FlowLive
  <2> QED  BY <2>2, <2>3, <2>4 DEF FlowInv
<1>2. CASE FlowNext
  BY <1>2, AuthorInv, ReadFlowInv, CreateInMetaInv, ValidateFlowStructureInv, UpdateFlowJSONInv,
     UploadFailsInv, SaveFlowToMetaInv, PublishInMetaInv, FollowInv, DeprecateInMetaInv,
     MetaRefusesInv, FlowRequestLostInv, ListFlowsInv, SyncFlowsInv
  DEF FlowNext
<1> QED  BY <1>1, <1>2

-----------------------------------------------------------------------------
(* The theorems                                                               *)

(* Whatever requests, webhooks and Meta's decisions overlap, the rows keep    *)
(* the shape above, a deleted template is not left to a request that only     *)
(* reads it back, and a flow of Meta without a row that names it is on its    *)
(* way to one (templates.go, template_guard.go, flows.go).                    *)
THEOREM MirrorInvariant == MirrorSpec => []MirrorIInv
<1>1. MirrorInit => MirrorIInv
  BY TemplateInitInv, FlowInitInv DEF MirrorInit, MirrorIInv
<1>2. MirrorIInv /\ [MirrorNext]_mirrorVars => MirrorIInv'
  <2> SUFFICES ASSUME MirrorIInv, [MirrorNext]_mirrorVars  PROVE MirrorIInv'
    OBVIOUS
  <2>1. [TemplateNext]_templateVars /\ [FlowNext]_flowVars
    BY DEF MirrorNext, mirrorVars
  <2> QED  BY <2>1, TemplateStepInv, FlowStepInv DEF MirrorIInv
<1> QED  BY <1>1, <1>2, PTL DEF MirrorSpec

(* The guard pauses only campaigns that have not begun to send                *)
(* (pauseDependentCampaigns).                                                 *)
LEMMA StepSparesRunning ==
  ASSUME [MirrorNext]_mirrorVars, camp = "processing"
  PROVE  camp' = "processing"
<1>1. CASE UNCHANGED mirrorVars
  BY <1>1 DEF mirrorVars, templateVars
<1>2. CASE FlowNext /\ UNCHANGED templateVars
  BY <1>2 DEF templateVars
<1>3. CASE CreateCampaign \/ StartCampaign
  BY <1>3 DEF CreateCampaign, StartCampaign
<1>4. CASE \E s \in Requests : PauseDependentCampaigns(s)
  BY <1>4 DEF PauseDependentCampaigns, Paused, Pausable
<1>5. CASE CreateTemplate \/ DeleteTemplateFromMeta \/ MetaDecides \/ MetaReinstates
  BY <1>5 DEF CreateTemplate, DeleteTemplateFromMeta, MetaDecides, MetaReinstates
<1>6. ASSUME NEW s \in Requests,
             \/ UpdateTemplate(s) \/ SaveEdit(s)
             \/ SubmitTemplate(s) \/ SubmitTemplateToMeta(s) \/ SubmissionFails(s) \/ SaveSubmitted(s)
             \/ SyncTemplates(s) \/ SaveSynced(s)
             \/ DeleteTemplate(s) \/ ProcessTemplateStatusUpdate(s)
             \/ GuardTemplateDependents(s) \/ FindDependentCampaigns(s)
      PROVE  camp' = camp
  BY <1>6 DEF UpdateTemplate, SaveEdit, SubmitTemplate, SubmitTemplateToMeta, SubmissionFails, SaveSubmitted,
     SyncTemplates, SaveSynced, DeleteTemplate, ProcessTemplateStatusUpdate,
     GuardTemplateDependents, FindDependentCampaigns
<1> QED  BY <1>1, <1>2, <1>3, <1>4, <1>5, <1>6 DEF MirrorNext, TemplateNext

(* A template shown as approved carries the text that was reviewed, a         *)
(* campaign does not wait on a template that was taken out of approval or     *)
(* deleted, and one that sends is never stopped for it; a flow that shows no  *)
(* local changes has Meta's screens, one shown as published is published, and *)
(* a second flow in Meta is made only when operations overlapped or broke off *)
(* (templates.go, template_guard.go, flows.go).                               *)
THEOREM MirrorIsKept == MirrorSpec => MirrorKept
<1>1. MirrorIInv => MirrorInv
  BY DEF MirrorIInv, TemplateInv, FlowInv, MirrorInv
<1>2. [MirrorNext]_mirrorVars => [camp = "processing" => camp' = "processing"]_camp
  BY StepSparesRunning
<1>3. MirrorSpec => []MirrorInv
  BY <1>1, MirrorInvariant, PTL
<1>4. MirrorSpec => GuardSparesRunning
  BY <1>2, PTL DEF MirrorSpec, GuardSparesRunning
<1> QED  BY <1>3, <1>4 DEF MirrorKept

-----------------------------------------------------------------------------
(* Messages: the shape of the state                                           *)

Reactors == {"customer", "agent"}
OutRow == [st : Statuses, wamid : BOOLEAN, by : {"direct", "campaign"}, react : SUBSET Reactors]
Causes == {"open", "handler", "loaded", "bot"}
BoxRow == [id : InIds, echo : BOOLEAN, st : {"received", "read", "sent"}, tick : BOOLEAN,
           why : Causes \cup {"none", "late"}]

StatusJob == [k : {"apply", "count"}, m : Out, s : Receipts]
ReactJob == [k : {"react"}, m : Out, who : Reactors, on : BOOLEAN, base : SUBSET Reactors]
SaveJob == [k : {"save"}, m : InIds, echo : BOOLEAN]
AttributeJob == [k : {"attribute"}, m : InIds]
MarkJob == [k : {"mark"}, u : Agents, at : Nat, may : BOOLEAN, from : Agents \cup {Nobody}]
SelectJob == [k : {"select"}, why : Causes]
UpdateJob == [k : {"update"}, why : Causes, rows : SUBSET Nat, upto : Nat]
MessageJob == {Free0} \cup StatusJob \cup ReactJob \cup SaveJob \cup AttributeJob \cup MarkJob
              \cup SelectJob \cup UpdateJob

SendTypes ==
  /\ row \in [Out -> OutRow]
  /\ leg \in [Out -> {"none", "sending", "accepted", "refused", "done", "lost"}]
  /\ progress \in [Out -> SUBSET Receipts] /\ heard \in [Out -> SUBSET Receipts]
  /\ tally \in [delivered : Nat, read : Nat, failed : Nat]
  /\ DOMAIN recipient = Out /\ wish \in [Out -> SUBSET Reactors]
ReadTypes ==
  /\ box \in Seq(BoxRow) /\ replied \in Nat /\ origin \in BOOLEAN
  /\ assignee \in Agents \cup {Nobody} /\ marker \in [Agents -> Nat]
JobTypes == jobs \in [1..2 -> MessageJob]

-----------------------------------------------------------------------------
(* Sending                                                                    *)

(* How far a send is, what Meta knows of it, what was heard, what the row     *)
(* says.  A row without its WhatsApp id has heard nothing.                    *)
SendSane(m) ==
  /\ leg[m] \in {"sending", "accepted", "refused"} => row[m].st = "pending" /\ ~row[m].wamid
  /\ leg[m] = "accepted" => "sent" \in progress[m]
  /\ row[m].wamid => leg[m] = "done" /\ "sent" \in progress[m] /\ row[m].st \in heard[m] \cup {"sent"}
  /\ ~row[m].wamid => heard[m] = {} /\ row[m].st \in {"none", "pending", "failed"}
  /\ "failed" \in progress[m] => progress[m] \subseteq {"sent", "failed"}
  /\ heard[m] \subseteq progress[m]
  /\ row[m].st = "none" => row[m].react = {} /\ wish[m] = {}

(* A status is the furthest of what was heard. *)
Furthest(m, s) == \A x \in heard[m] \cup {"sent"} : StatusPriority(s) >= StatusPriority(x)

OnStatus(j, m) == j.k \in {"apply", "count"} /\ j.m = m
OnReaction(j, m) == j.k = "react" /\ j.m = m

(* A receipt or a reaction under way is about a row that can have it. *)
SendJobSane(j) ==
  /\ j.k \in {"apply", "count"} => row[j.m].wamid /\ j.s \in heard[j.m]
  /\ j.k = "count" => row[j.m].by = "campaign"
  /\ j.k = "react" => row[j.m].st # "none"

(* Where nothing overlapped, one receipt at a time is processed, it moves the *)
(* row to the furthest status, and the row is at the furthest without it.     *)
StatusCalm(m) ==
  m \notin disturbed =>
    /\ \A i, o \in 1..2 : OnStatus(jobs[i], m) /\ OnStatus(jobs[o], m) => i = o
    /\ \A i \in 1..2 : jobs[i].k = "apply" /\ jobs[i].m = m => Moves(m, jobs[i].s) /\ Furthest(m, jobs[i].s)
    /\ \A i \in 1..2 : jobs[i].k = "count" /\ jobs[i].m = m => row[m].st = jobs[i].s
    /\ row[m].wamid /\ ~BusyWith({"apply"}, m) => Furthest(m, row[m].st)
    /\ row[m].by = "campaign" /\ leg[m] = "done" /\ ~BusyWith({"apply", "count"}, m) =>
         recipient[m] = row[m].st

(* Likewise one reaction at a time, and it makes the row what was wished.     *)
ReactCalm(m) ==
  m \notin disturbed =>
    /\ \A i, o \in 1..2 : OnReaction(jobs[i], m) /\ OnReaction(jobs[o], m) => i = o
    /\ \A i \in 1..2 : OnReaction(jobs[i], m) => WithReaction(jobs[i].base, jobs[i].who, jobs[i].on) = wish[m]
    /\ ~BusyWith({"react"}, m) => row[m].react = wish[m]

(* What a counter may count: the rows that got so far, but for those whose    *)
(* count is under way.                                                        *)
Uncounted(m, s) == \E i \in 1..2 : jobs[i].k = "count" /\ jobs[i].m = m /\ jobs[i].s = s
Counted(s, ss) == {m \in Out : row[m].by = "campaign" /\ row[m].st \in ss /\ ~Uncounted(m, s)}
TallySane ==
  disturbed \cap Out = {} =>
    /\ tally.delivered <= Cardinality(Counted("delivered", {"delivered", "read"}))
    /\ tally.read <= Cardinality(Counted("read", {"read"}))

SendInv ==
  /\ SendTypes
  /\ \A m \in Out : SendSane(m) /\ StatusCalm(m) /\ ReactCalm(m)
  /\ \A i \in 1..2 : SendJobSane(jobs[i])
  /\ TallySane

-----------------------------------------------------------------------------
(* Receiving and reading                                                      *)

(* What is shown as read has its receipt or a reason not to, and what is not  *)
(* has nothing noted yet.                                                     *)
ReadSane(b) ==
  ~b.echo => /\ b.st = "read" => b.tick \/ b.why \in {"bot", "late"}
             /\ b.st # "read" => b.why = "none"

(* Who may send receipts handled the conversation or could; what is not in    *)
(* the list an update brings along had been read by then.                     *)
ReadJobSane(j) ==
  /\ j.k = "mark" => (j.may => j.from \in {j.u, Nobody})
  /\ j.k = "update" => /\ j.upto <= Len(box)
                       /\ \A n \in Incoming : n <= j.upto /\ n \notin j.rows => box[n].st = "read"

(* Where nothing overlapped, one delivery of a message at a time is processed, *)
(* and nothing is stored of it before.                                        *)
SavesCalm(id) ==
  id \notin disturbed =>
    /\ \A n, l \in SavedAs(id) : n = l
    /\ \A i \in 1..2 : jobs[i].k = "save" /\ jobs[i].m = id => SavedAs(id) = {}
    /\ \A i, o \in 1..2 : jobs[i].k = "save" /\ jobs[i].m = id /\ jobs[o].k = "save" /\ jobs[o].m = id => i = o

(* Where nothing overlapped, an answer is attributed before it is counted.    *)
RepliesCalm ==
  "reply" \notin disturbed =>
    /\ replied <= 1 /\ (~origin => replied = 0)
    /\ \A i \in 1..2 : jobs[i].k = "attribute" => replied = 0
    /\ \A i, o \in 1..2 : jobs[i].k = "attribute" /\ jobs[o].k = "attribute" => i = o

ReadInv ==
  /\ ReadTypes /\ opened = marker
  /\ \A n \in 1..Len(box) : ReadSane(box[n])
  /\ \A i \in 1..2 : ReadJobSane(jobs[i])
  /\ \A id \in InIds : SavesCalm(id)
  /\ RepliesCalm

MessagesIInv == JobTypes /\ SendInv /\ ReadInv

-----------------------------------------------------------------------------
(* Jobs                                                                       *)

SendKinds == {"apply", "count", "react"}
ReadKinds == {"save", "attribute", "mark", "select", "update"}

LEMMA JobKinds ==
  ASSUME NEW j \in MessageJob
  PROVE  /\ j.k \in {"apply", "count"} => j \in StatusJob
         /\ j.k = "react" => j \in ReactJob
         /\ j.k = "save" => j \in SaveJob
         /\ j.k = "attribute" => j \in AttributeJob
         /\ j.k = "mark" => j \in MarkJob
         /\ j.k = "select" => j \in SelectJob
         /\ j.k = "update" => j \in UpdateJob
<1>1. j \in StatusJob => j.k \in {"apply", "count"}
  BY DEF StatusJob
<1>2. j \in ReactJob => j.k = "react"
  BY DEF ReactJob
<1>3. j \in SaveJob => j.k = "save"
  BY DEF SaveJob
<1>4. j \in AttributeJob => j.k = "attribute"
  BY DEF AttributeJob
<1>5. j \in MarkJob => j.k = "mark"
  BY DEF MarkJob
<1>6. j \in SelectJob => j.k = "select"
  BY DEF SelectJob
<1>7. j \in UpdateJob => j.k = "update"
  BY DEF UpdateJob
<1>8. j = Free0 => j.k = "free"
  BY DEF Free0
<1> QED  BY <1>1, <1>2, <1>3, <1>4, <1>5, <1>6, <1>7, <1>8 DEF MessageJob

(* A job goes on or ends in its place, the other one stays.                   *)
LEMMA JobGoesOn ==
  ASSUME JobTypes, NEW i \in 1..2, NEW j \in MessageJob, Goes(i, j)
  PROVE  JobTypes' /\ jobs'[i] = j /\ \A o \in 1..2 : o # i => jobs'[o] = jobs[o]
BY DEF JobTypes, Goes

LEMMA JobEnds ==
  ASSUME NEW i \in 1..2, Ends(i)
  PROVE  Goes(i, Free0) /\ Free0 \in MessageJob /\ Free0.k = "free"
<1>1. Free0.k = "free"
  BY DEF Free0
<1> QED  BY <1>1 DEF Ends, Goes, MessageJob

(* A job starts in a free place. *)
LEMMA JobStarts ==
  ASSUME NEW j, Starts(j)
  PROVE  \E i \in 1..2 : jobs[i].k = "free" /\ Goes(i, j)
<1>1. PICK i \in 1..2 : jobs[i] = Free0 /\ jobs' = [jobs EXCEPT ![i] = j]
  BY DEF Starts
<1>2. jobs[i].k = "free" /\ Goes(i, j)
  BY <1>1 DEF Goes, Free0
<1> QED  BY <1>2

-----------------------------------------------------------------------------
(* What a step leaves alone                                                   *)

SameMessage(m) ==
  /\ row'[m] = row[m] /\ leg'[m] = leg[m] /\ progress'[m] = progress[m] /\ heard'[m] = heard[m]
  /\ recipient'[m] = recipient[m] /\ wish'[m] = wish[m]
SameJobs(ks, m) == \A i \in 1..2 :
  jobs'[i] = jobs[i] \/ (~(jobs[i].k \in ks /\ jobs[i].m = m) /\ ~(jobs'[i].k \in ks /\ jobs'[i].m = m))

LEMMA SendSaneStays ==
  ASSUME NEW m \in Out, SendSane(m), SameMessage(m)
  PROVE  SendSane(m)'
BY DEF SendSane, SameMessage

LEMMA StatusCalmStays ==
  ASSUME NEW m \in Out, StatusCalm(m), disturbed \subseteq disturbed', SameJobs({"apply", "count"}, m),
         row'[m].st = row[m].st, row[m].wamid <=> row'[m].wamid, row'[m].by = row[m].by,
         leg'[m] = leg[m], heard'[m] = heard[m], recipient'[m] = recipient[m]
  PROVE  StatusCalm(m)'
<1> SUFFICES ASSUME m \notin disturbed'  PROVE StatusCalm(m)'
  BY DEF StatusCalm
<1>1. \A i \in 1..2 : OnStatus(jobs'[i], m) => jobs'[i] = jobs[i]
  BY DEF SameJobs, OnStatus
<1>2. \A i \in 1..2 : OnStatus(jobs[i], m) => jobs'[i] = jobs[i]
  BY DEF SameJobs, OnStatus
<1>3. m \notin disturbed
  OBVIOUS
<1>4. \A i, o \in 1..2 : OnStatus(jobs'[i], m) /\ OnStatus(jobs'[o], m) => i = o
  BY <1>1, <1>3 DEF StatusCalm
<1>5. ASSUME NEW i \in 1..2, jobs'[i].k = "apply", jobs'[i].m = m
      PROVE  Moves(m, jobs[i].s)' /\ Furthest(m, jobs[i].s)'
  <2>1. jobs'[i] = jobs[i]
    BY <1>1, <1>5 DEF OnStatus
  <2>2. Moves(m, jobs[i].s) /\ Furthest(m, jobs[i].s)
    BY <1>3, <1>5, <2>1 DEF StatusCalm
  <2> QED  BY <2>1, <2>2 DEF Moves, Furthest
<1>6. \A i \in 1..2 : jobs'[i].k = "count" /\ jobs'[i].m = m => row'[m].st = jobs'[i].s
  BY <1>1, <1>3 DEF StatusCalm, OnStatus
<1>7. row'[m].wamid /\ ~BusyWith({"apply"}, m)' => Furthest(m, row[m].st)'
  BY <1>2, <1>3 DEF StatusCalm, OnStatus, BusyWith, Furthest
<1>8. row'[m].by = "campaign" /\ leg'[m] = "done" /\ ~BusyWith({"apply", "count"}, m)' => recipient'[m] = row'[m].st
  BY <1>2, <1>3 DEF StatusCalm, OnStatus, BusyWith
<1> QED  BY <1>4, <1>5, <1>6, <1>7, <1>8 DEF StatusCalm

LEMMA ReactCalmStays ==
  ASSUME NEW m \in Out, ReactCalm(m), disturbed \subseteq disturbed', SameJobs({"react"}, m),
         row'[m].react = row[m].react, wish'[m] = wish[m]
  PROVE  ReactCalm(m)'
<1> SUFFICES ASSUME m \notin disturbed'  PROVE ReactCalm(m)'
  BY DEF ReactCalm
<1>1. \A i \in 1..2 : OnReaction(jobs'[i], m) => jobs'[i] = jobs[i]
  BY DEF SameJobs, OnReaction
<1>2. \A i \in 1..2 : OnReaction(jobs[i], m) => jobs'[i] = jobs[i]
  BY DEF SameJobs, OnReaction
<1>3. m \notin disturbed
  OBVIOUS
<1> QED  BY <1>1, <1>2, <1>3 DEF ReactCalm, OnReaction, BusyWith

(* Jobs of the sending half stay where they were when no row loses its id,    *)
(* its sender or what was heard of it.                                        *)
LEMMA SendJobStays ==
  ASSUME NEW j \in MessageJob, SendJobSane(j),
         \A m \in Out : /\ row[m].wamid => row'[m].wamid
                        /\ heard[m] \subseteq heard'[m]
                        /\ row[m].by = "campaign" => row'[m].by = "campaign"
                        /\ row[m].st # "none" => row'[m].st # "none"
  PROVE  SendJobSane(j)'
<1>1. j.k \in {"apply", "count", "react"} => j.m \in Out
  BY JobKinds DEF StatusJob, ReactJob
<1> QED  BY <1>1 DEF SendJobSane

(* A counter is honest still if it did not grow and no row left what it may   *)
(* count.                                                                     *)
LEMMA TallyStays ==
  ASSUME TallySane, tally' = tally, disturbed \subseteq disturbed',
         disturbed' \cap Out = {} =>
           /\ Counted("delivered", {"delivered", "read"}) \subseteq Counted("delivered", {"delivered", "read"})'
           /\ Counted("read", {"read"}) \subseteq Counted("read", {"read"})',
         tally \in [delivered : Nat, read : Nat, failed : Nat]
  PROVE  TallySane'
<1> SUFFICES ASSUME disturbed' \cap Out = {}  PROVE TallySane'
  BY DEF TallySane
<1>1. disturbed \cap Out = {}
  OBVIOUS
<1> DEFINE A == Counted("delivered", {"delivered", "read"})
           B == Counted("read", {"read"})
<1>2. IsFiniteSet(A) /\ IsFiniteSet(A') /\ IsFiniteSet(B) /\ IsFiniteSet(B')
  BY MessagesAssumption, FS_Subset DEF Counted
<1>3. /\ Cardinality(A) \in Nat /\ Cardinality(A') \in Nat /\ Cardinality(A) <= Cardinality(A')
      /\ Cardinality(B) \in Nat /\ Cardinality(B') \in Nat /\ Cardinality(B) <= Cardinality(B')
  <2>1. A \subseteq A' /\ B \subseteq B'
    OBVIOUS
  <2> HIDE DEF A, B
  <2> QED  BY <1>2, <2>1, FS_Subset, FS_CardinalityType
<1>4. tally.delivered <= Cardinality(A) /\ tally.read <= Cardinality(B)
  BY <1>1 DEF TallySane
<1>5. tally'.delivered <= Cardinality(A') /\ tally'.read <= Cardinality(B')
  <2> HIDE DEF A, B
  <2> QED  BY <1>3, <1>4
<1> QED  BY <1>5 DEF TallySane

(* Receiving and reading leave what is sent alone. *)
LEMMA SendFrame ==
  ASSUME JobTypes, SendInv, UNCHANGED <<row, leg, progress, heard, tally, recipient, wish>>,
         disturbed \subseteq disturbed',
         \A i \in 1..2 : jobs'[i] = jobs[i] \/ (jobs[i].k \notin SendKinds /\ jobs'[i].k \notin SendKinds)
  PROVE  SendInv'
<1>1. /\ row' = row /\ leg' = leg /\ progress' = progress /\ heard' = heard /\ tally' = tally
      /\ recipient' = recipient /\ wish' = wish
  OBVIOUS
<1>2. SendTypes'
  BY <1>1 DEF SendInv, SendTypes
<1>3. \A m \in Out : SameMessage(m)
  BY <1>1 DEF SameMessage
<1>4. \A m \in Out : SameJobs({"apply", "count"}, m) /\ SameJobs({"react"}, m)
  BY DEF SameJobs, SendKinds
<1>5. ASSUME NEW m \in Out  PROVE SendSane(m)' /\ StatusCalm(m)' /\ ReactCalm(m)'
  <2>1. SendSane(m) /\ StatusCalm(m) /\ ReactCalm(m)
    BY DEF SendInv
  <2> QED  BY <1>1, <1>3, <1>4, <2>1, SendSaneStays, StatusCalmStays, ReactCalmStays
<1>6. ASSUME NEW i \in 1..2  PROVE SendJobSane(jobs[i])'
  BY <1>1 DEF SendJobSane, SendInv, SendKinds
<1>7. TallySane'
  <2>1. ASSUME NEW s, NEW ss  PROVE Counted(s, ss)' = Counted(s, ss)
    <3>1. \A m \in Out : Uncounted(m, s)' <=> Uncounted(m, s)
      BY DEF Uncounted, SendKinds
    <3> QED  BY <1>1, <3>1 DEF Counted
  <2> QED  BY <1>1, <2>1, TallyStays DEF SendInv, SendTypes
<1> QED  BY <1>2, <1>5, <1>6, <1>7 DEF SendInv

(* Sending leaves alone what is received and read.                            *)
LEMMA ReadFrame ==
  ASSUME JobTypes, ReadInv, UNCHANGED readVars, disturbed \subseteq disturbed',
         \A i \in 1..2 : jobs'[i] = jobs[i] \/ jobs'[i].k \notin ReadKinds
  PROVE  ReadInv'
<1>1. /\ box' = box /\ origin' = origin /\ replied' = replied /\ assignee' = assignee
      /\ marker' = marker /\ opened' = opened
  BY DEF readVars
<1>2. ReadTypes' /\ opened' = marker' /\ \A n \in 1..Len(box') : ReadSane(box[n])'
  BY <1>1 DEF ReadInv, ReadTypes, ReadSane
<1>3. ASSUME NEW i \in 1..2  PROVE ReadJobSane(jobs[i])'
  BY <1>1 DEF ReadJobSane, ReadInv, ReadKinds, Incoming
<1>4. ASSUME NEW id \in InIds  PROVE SavesCalm(id)'
  BY <1>1 DEF SavesCalm, ReadInv, ReadKinds, SavedAs
<1>5. RepliesCalm'
  BY <1>1 DEF RepliesCalm, ReadInv, ReadKinds
<1> QED  BY <1>2, <1>3, <1>4, <1>5 DEF ReadInv

-----------------------------------------------------------------------------
(* Steps of sending                                                           *)

(* A step about one message. *)
LEMMA MessageStep ==
  ASSUME SendInv, NEW m0 \in Out, SendTypes', disturbed \subseteq disturbed',
         \A m \in Out \ {m0} : SameMessage(m) /\ SameJobs({"apply", "count"}, m) /\ SameJobs({"react"}, m),
         SendSane(m0)', StatusCalm(m0)', ReactCalm(m0)', \A i \in 1..2 : SendJobSane(jobs[i])', TallySane'
  PROVE  SendInv'
<1>1. ASSUME NEW m \in Out  PROVE SendSane(m)' /\ StatusCalm(m)' /\ ReactCalm(m)'
  <2>1. CASE m = m0
    BY <2>1
  <2>2. CASE m # m0
    <3>1. SameMessage(m) /\ SameJobs({"apply", "count"}, m) /\ SameJobs({"react"}, m)
      BY <2>2
    <3>2. SendSane(m) /\ StatusCalm(m) /\ ReactCalm(m)
      BY DEF SendInv
    <3>3. SendSane(m)'
      BY <3>1, <3>2, SendSaneStays
    <3>4. StatusCalm(m)'
      BY <3>1, <3>2, StatusCalmStays DEF SameMessage
    <3>5. ReactCalm(m)'
      BY <3>1, <3>2, ReactCalmStays DEF SameMessage
    <3> QED  BY <3>3, <3>4, <3>5
  <2> QED  BY <2>1, <2>2
<1> QED  BY <1>1 DEF SendInv

(* A step about one message that touches no job. *)
LEMMA QuietStep ==
  ASSUME JobTypes, SendInv, NEW m0 \in Out, SendTypes', jobs' = jobs, disturbed' = disturbed, tally' = tally,
         \A m \in Out \ {m0} : SameMessage(m),
         row[m0].wamid => row'[m0].wamid, heard[m0] \subseteq heard'[m0],
         row[m0].by = "campaign" => row'[m0].by = "campaign",
         row[m0].st # "none" => row'[m0].st # "none",
         row[m0].st \in {"delivered", "read"} => row'[m0].st = row[m0].st,
         SendSane(m0)', StatusCalm(m0)', ReactCalm(m0)'
  PROVE  SendInv'
<1>1. \A m \in Out : SameJobs({"apply", "count"}, m) /\ SameJobs({"react"}, m)
  BY DEF SameJobs
<1>2. ASSUME NEW i \in 1..2  PROVE SendJobSane(jobs[i])'
  <2> DEFINE j == jobs[i]
  <2>1. j \in MessageJob /\ SendJobSane(j)
    BY DEF JobTypes, SendInv
  <2>2. \A m \in Out : /\ row[m].wamid => row'[m].wamid
                       /\ heard[m] \subseteq heard'[m]
                       /\ row[m].by = "campaign" => row'[m].by = "campaign"
                       /\ row[m].st # "none" => row'[m].st # "none"
    BY DEF SameMessage
  <2>3. jobs'[i] = j
    OBVIOUS
  <2> QED  BY <2>1, <2>2, <2>3, SendJobStays DEF SendJobSane
<1>3. TallySane'
  <2>1. ASSUME NEW s, NEW ss, ss \subseteq {"delivered", "read"}
        PROVE  Counted(s, ss) \subseteq Counted(s, ss)'
    <3>1. \A m \in Out : Uncounted(m, s)' <=> Uncounted(m, s)
      BY DEF Uncounted
    <3>2. \A m \in Out : row[m].st \in ss => row'[m].st \in ss
      BY <2>1 DEF SameMessage
    <3>3. \A m \in Out : row[m].by = "campaign" => row'[m].by = "campaign"
      BY DEF SameMessage
    <3> QED  BY <3>1, <3>2, <3>3 DEF Counted
  <2> QED  BY <2>1, TallyStays DEF SendInv, SendTypes
<1> QED  BY <1>1, <1>2, <1>3, MessageStep

(* While a row has no WhatsApp id, no receipt of it is processed.             *)
LEMMA NoIdNoReceipt ==
  ASSUME SendInv, NEW m \in Out, ~row[m].wamid, NEW i \in 1..2
  PROVE  ~OnStatus(jobs[i], m)
BY DEF SendInv, SendJobSane, OnStatus

LEMMA StoredKeeps ==
  ASSUME JobTypes, SendInv, NEW m \in Out, NEW by \in {"direct", "campaign"}, Stored(m, by)  PROVE SendInv'
<1> DEFINE new == [st |-> "pending", wamid |-> FALSE, by |-> by, react |-> {}]
<1>1. /\ row[m].st = "none" /\ row' = [row EXCEPT ![m] = new] /\ leg' = [leg EXCEPT ![m] = "sending"]
      /\ progress' = progress /\ heard' = heard /\ tally' = tally /\ recipient' = recipient /\ wish' = wish
      /\ jobs' = jobs /\ disturbed' = disturbed
  BY DEF Stored
<1>2. new \in OutRow /\ new.st = "pending" /\ ~new.wamid /\ new.react = {}
  BY DEF OutRow, Statuses
<1> HIDE DEF new
<1>3. SendTypes /\ SendSane(m) /\ StatusCalm(m) /\ ReactCalm(m)
  BY DEF SendInv
<1>4. ~row[m].wamid /\ row[m].react = {} /\ wish[m] = {} /\ row[m].by \in {"direct", "campaign"}
  BY <1>1, <1>3 DEF SendSane, SendTypes, OutRow, Receipts
<1>5. SendTypes'
  BY <1>1, <1>2, <1>3 DEF SendTypes
<1>6. row'[m] = new /\ leg'[m] = "sending" /\ \A o \in Out \ {m} : SameMessage(o)
  BY <1>1, <1>3 DEF SendTypes, SameMessage
<1>7. \A i \in 1..2 : ~OnStatus(jobs[i], m) /\ ~OnReaction(jobs[i], m)
  BY <1>1, <1>4, NoIdNoReceipt DEF SendInv, SendJobSane, OnReaction
<1>8. SendSane(m)'
  BY <1>1, <1>2, <1>3, <1>4, <1>6 DEF SendSane
<1>9. StatusCalm(m)'
  BY <1>1, <1>2, <1>6, <1>7 DEF StatusCalm, OnStatus
<1>10. ReactCalm(m)'
  BY <1>1, <1>2, <1>4, <1>6, <1>7 DEF ReactCalm, OnReaction
<1> QED
  <2>1. \A i \in 1..2 : SendJobSane(jobs[i]) /\ jobs[i] \in MessageJob
    BY DEF SendInv, JobTypes
  <2>2. SendJobSane(jobs[1])' /\ SendJobSane(jobs[2])'
    <3> SUFFICES ASSUME NEW i \in 1..2  PROVE SendJobSane(jobs[i])'
      OBVIOUS
    <3>1. jobs[i].k \in {"apply", "count", "react"} => jobs[i].m \in Out /\ jobs[i].m # m
      BY <1>7, <2>1, JobKinds DEF OnStatus, OnReaction, StatusJob, ReactJob
    <3>2. \A o \in Out \ {m} : row'[o] = row[o] /\ heard'[o] = heard[o]
      BY <1>6 DEF SameMessage
    <3> QED  BY <1>1, <2>1, <3>1, <3>2 DEF SendJobSane
  <2>3. \A i \in 1..2 : SendJobSane(jobs[i])'
    BY <2>2
  <2>4. TallySane'
    <3>1. ASSUME NEW s, NEW ss, ss \subseteq {"delivered", "read"}
          PROVE  Counted(s, ss) \subseteq Counted(s, ss)'
      <4>1. \A o \in Out : Uncounted(o, s)' <=> Uncounted(o, s)
        BY <1>1 DEF Uncounted
      <4>2. \A o \in Out : row[o].st \in ss => row'[o] = row[o]
        BY <1>1, <1>6, <3>1 DEF SameMessage
      <4> QED  BY <4>1, <4>2 DEF Counted
    <3> QED  BY <1>1, <1>3, <3>1, TallyStays DEF SendInv, SendTypes
  <2>5. \A o \in Out : SameJobs({"apply", "count"}, o) /\ SameJobs({"react"}, o)
    BY <1>1 DEF SameJobs
  <2> QED  BY <1>1, <1>5, <1>6, <1>8, <1>9, <1>10, <2>3, <2>4, <2>5, MessageStep

LEMMA MetaAnswersKeeps ==
  ASSUME JobTypes, SendInv, NEW m \in Out, NEW ok \in BOOLEAN, MetaAnswers(m, ok)  PROVE SendInv'
<1>1. /\ leg[m] = "sending" /\ leg' = [leg EXCEPT ![m] = IF ok THEN "accepted" ELSE "refused"]
      /\ progress' = IF ok THEN [progress EXCEPT ![m] = {"sent"}] ELSE progress
      /\ row' = row /\ heard' = heard /\ tally' = tally /\ recipient' = recipient /\ wish' = wish
      /\ jobs' = jobs /\ disturbed' = disturbed
  BY DEF MetaAnswers
<1>2. SendTypes /\ SendSane(m) /\ StatusCalm(m) /\ ReactCalm(m)
  BY DEF SendInv
<1>3. /\ SendTypes' /\ leg'[m] \in {"accepted", "refused"} /\ (leg'[m] = "accepted" => "sent" \in progress'[m])
      /\ progress'[m] = progress[m] \/ progress'[m] = {"sent"}
      /\ \A o \in Out \ {m} : SameMessage(o)
  <2>1. CASE ok
    BY <1>1, <1>2, <2>1 DEF SendTypes, SameMessage, Receipts
  <2>2. CASE ~ok
    BY <1>1, <1>2, <2>2 DEF SendTypes, SameMessage
  <2> QED  BY <2>1, <2>2
<1>4. SendSane(m)'
  BY <1>1, <1>2, <1>3 DEF SendSane
<1>5. StatusCalm(m)'
  BY <1>1, <1>2, <1>3, NoIdNoReceipt DEF StatusCalm, OnStatus, SendSane
<1>6. ReactCalm(m)'
  BY <1>1, <1>2 DEF ReactCalm, OnReaction, BusyWith
<1> QED  BY <1>1, <1>3, <1>4, <1>5, <1>6, QuietStep

LEMMA MetaProgressKeeps ==
  ASSUME JobTypes, SendInv, NEW m \in Out, NEW s \in Receipts, MetaProgress(m, s)  PROVE SendInv'
<1>1. /\ "sent" \in progress[m] /\ "failed" \notin progress[m] /\ (s = "failed" => progress[m] = {"sent"})
      /\ progress' = [progress EXCEPT ![m] = progress[m] \cup {s}]
      /\ row' = row /\ leg' = leg /\ heard' = heard /\ tally' = tally /\ recipient' = recipient /\ wish' = wish
      /\ jobs' = jobs /\ disturbed' = disturbed
  BY DEF MetaProgress
<1>2. SendTypes /\ SendSane(m) /\ StatusCalm(m) /\ ReactCalm(m)
  BY DEF SendInv
<1>3. /\ SendTypes' /\ progress'[m] = progress[m] \cup {s}
      /\ \A o \in Out \ {m} : SameMessage(o)
  BY <1>1, <1>2 DEF SendTypes, SameMessage
<1>4. SendSane(m)'
  BY <1>1, <1>2, <1>3 DEF SendSane
<1>5. StatusCalm(m)' /\ ReactCalm(m)'
  <2>1. SameJobs({"apply", "count"}, m) /\ SameJobs({"react"}, m)
    BY <1>1 DEF SameJobs
  <2> QED  BY <1>1, <1>2, <2>1, StatusCalmStays, ReactCalmStays
<1> QED  BY <1>1, <1>3, <1>4, <1>5, QuietStep

LEMMA FinalizeMessageSendKeeps ==
  ASSUME JobTypes, SendInv, NEW m \in Out, FinalizeMessageSend(m)  PROVE SendInv'
<1> DEFINE ok == leg[m] = "accepted"
           st == IF ok THEN "sent" ELSE "failed"
           new == [row[m] EXCEPT !.st = st, !.wamid = ok]
<1>1. /\ leg[m] \in {"accepted", "refused"}
      /\ recipient' = IF row[m].by # "campaign" THEN recipient ELSE [recipient EXCEPT ![m] = st]
      /\ leg' = [leg EXCEPT ![m] = "done"]
      /\ progress' = progress /\ heard' = heard /\ tally' = tally /\ wish' = wish
      /\ jobs' = jobs /\ disturbed' = disturbed
  BY DEF FinalizeMessageSend
<1>2. SendTypes /\ SendSane(m) /\ StatusCalm(m) /\ ReactCalm(m) /\ row[m] \in OutRow
  BY DEF SendInv, SendTypes
<1>3. row' = [row EXCEPT ![m] = new]
  <2>1. row' = [row EXCEPT ![m].st = st, ![m].wamid = ok]
    BY DEF FinalizeMessageSend
  <2> QED  BY <1>2, <2>1 DEF SendTypes
<1>4. st \in {"sent", "failed"} /\ (ok => st = "sent") /\ (~ok => st = "failed")
  OBVIOUS
<1>5. /\ new \in OutRow /\ new.st = st /\ (new.wamid => ok) /\ (ok => new.wamid)
      /\ new.by = row[m].by /\ new.react = row[m].react
  <2> HIDE DEF st
  <2>1. ok \in BOOLEAN
    OBVIOUS
  <2> QED  BY <1>2, <1>4, <2>1 DEF OutRow, Statuses, Receipts
<1> HIDE DEF new, st
<1>6. /\ SendTypes' /\ row'[m] = new /\ leg'[m] = "done" /\ (row[m].by = "campaign" => recipient'[m] = st)
      /\ \A o \in Out \ {m} : SameMessage(o)
  <2>1. CASE row[m].by = "campaign"
    BY <1>1, <1>2, <1>3, <1>5, <2>1 DEF SendTypes, SameMessage
  <2>2. CASE row[m].by # "campaign"
    BY <1>1, <1>2, <1>3, <1>5, <2>2 DEF SendTypes, SameMessage
  <2> QED  BY <2>1, <2>2
<1>7. row[m].st = "pending" /\ ~row[m].wamid /\ heard[m] = {} /\ (ok => "sent" \in progress[m])
  BY <1>1, <1>2 DEF SendSane
<1>8. SendSane(m)'
  BY <1>1, <1>2, <1>4, <1>5, <1>6, <1>7 DEF SendSane
<1>9. StatusCalm(m)'
  <2>1. \A i \in 1..2 : ~OnStatus(jobs[i], m)
    BY <1>7, NoIdNoReceipt
  <2>2. row'[m].wamid => Furthest(m, row[m].st)'
    BY <1>1, <1>4, <1>5, <1>6, <1>7 DEF Furthest, StatusPriority
  <2> QED  BY <1>1, <1>5, <1>6, <2>1, <2>2 DEF StatusCalm, OnStatus
<1>10. ReactCalm(m)'
  BY <1>1, <1>2, <1>5, <1>6 DEF ReactCalm, OnReaction, BusyWith
<1> QED  BY <1>1, <1>4, <1>5, <1>6, <1>7, <1>8, <1>9, <1>10, QuietStep

LEMMA Priorities ==
  /\ \A s : StatusPriority(s) \in 0..4
  /\ StatusPriority("sent") = 1 /\ StatusPriority("delivered") = 2
  /\ StatusPriority("read") = 3 /\ StatusPriority("failed") = 4
BY DEF StatusPriority

LEMMA UpdateMessageStatusKeeps ==
  ASSUME JobTypes, SendInv, NEW m \in Out, NEW s \in Receipts, UpdateMessageStatus(m, s)
  PROVE  JobTypes' /\ SendInv'
<1>1. /\ s \in progress[m]
      /\ row' = row /\ leg' = leg /\ progress' = progress /\ tally' = tally /\ recipient' = recipient /\ wish' = wish
  BY DEF UpdateMessageStatus
<1>2. CASE ~row[m].wamid
  <2>1. heard' = heard /\ jobs' = jobs /\ disturbed' = disturbed
    BY <1>2 DEF UpdateMessageStatus
  <2> QED  BY <1>1, <2>1, SendFrame DEF JobTypes
<1>3. CASE row[m].wamid
  <2>1. /\ heard' = [heard EXCEPT ![m] = heard[m] \cup {s}]
        /\ disturbed' = IF BusyWith({"apply", "count"}, m) THEN disturbed \cup {m} ELSE disturbed
        /\ IF Moves(m, s) THEN Starts([k |-> "apply", m |-> m, s |-> s]) ELSE jobs' = jobs
    BY <1>3 DEF UpdateMessageStatus
  <2>2. SendTypes /\ SendSane(m) /\ StatusCalm(m) /\ ReactCalm(m)
    BY DEF SendInv
  <2>3. /\ SendTypes' /\ heard'[m] = heard[m] \cup {s} /\ disturbed \subseteq disturbed'
        /\ \A o \in Out \ {m} : SameMessage(o)
    BY <1>1, <2>1, <2>2 DEF SendTypes, SameMessage
  <2>4. SendSane(m)'
    BY <1>1, <1>3, <2>2, <2>3 DEF SendSane
  <2>5. m \notin disturbed' => m \notin disturbed /\ \A i \in 1..2 : ~OnStatus(jobs[i], m)
    BY <2>1 DEF BusyWith, OnStatus
  <2>6. m \notin disturbed' => Furthest(m, row[m].st)
    BY <1>3, <2>2, <2>5 DEF StatusCalm, BusyWith, OnStatus
  <2>7. \A j \in MessageJob : SendJobSane(j) => SendJobSane(j)'
    <3>1. \A o \in Out : heard[o] \subseteq heard'[o]
      BY <2>3 DEF SameMessage
    <3> QED  BY <1>1, <3>1, SendJobStays
  <2>8. CASE ~Moves(m, s)
    <3>1. jobs' = jobs
      BY <2>1, <2>8
    <3>2. ASSUME NEW i \in 1..2  PROVE SendJobSane(jobs[i])'
      <4>1. jobs[i] \in MessageJob /\ SendJobSane(jobs[i])
        BY DEF JobTypes, SendInv
      <4>2. PICK j \in MessageJob : j = jobs[i]
        BY <4>1
      <4>3. SendJobSane(j)'
        BY <2>7, <4>1, <4>2
      <4> QED  BY <3>1, <4>2, <4>3 DEF SendJobSane
    <3>3. \A o \in Out : SameJobs({"apply", "count"}, o) /\ SameJobs({"react"}, o)
      BY <3>1 DEF SameJobs
    <3>4. StatusCalm(m)'
      <4> SUFFICES ASSUME m \notin disturbed'  PROVE StatusCalm(m)'
        BY DEF StatusCalm
      <4>1. StatusPriority(s) <= StatusPriority(row[m].st)
        BY <2>8, Priorities DEF Moves
      <4>2. Furthest(m, row[m].st)'
        BY <1>1, <2>3, <2>6, <4>1 DEF Furthest
      <4>3. \A i \in 1..2 : ~OnStatus(jobs'[i], m)
        BY <2>5, <3>1
      <4>4. row[m].by = "campaign" /\ leg[m] = "done" => recipient[m] = row[m].st
        BY <2>2, <2>5 DEF StatusCalm, BusyWith, OnStatus
      <4> QED  BY <1>1, <4>2, <4>3, <4>4 DEF StatusCalm, OnStatus
    <3>5. ReactCalm(m)'
      BY <1>1, <2>2, <2>3, <3>3, ReactCalmStays
    <3>6. TallySane'
      <4>1. ASSUME NEW x, NEW ss  PROVE Counted(x, ss)' = Counted(x, ss)
        BY <1>1, <3>1 DEF Counted, Uncounted
      <4> QED  BY <1>1, <2>2, <2>3, <4>1, TallyStays DEF SendInv, SendTypes
    <3> QED  BY <2>3, <2>4, <3>1, <3>2, <3>3, <3>4, <3>5, <3>6, MessageStep DEF JobTypes
  <2>9. CASE Moves(m, s)
    <3> DEFINE new == [k |-> "apply", m |-> m, s |-> s]
    <3>1. PICK i \in 1..2 : jobs[i].k = "free" /\ Goes(i, new)
      BY <2>1, <2>9, JobStarts
    <3>2. new \in StatusJob
      BY DEF StatusJob
    <3>3. new \in MessageJob /\ new.k = "apply" /\ new.m = m /\ new.s = s
      BY <3>2 DEF MessageJob
    <3> HIDE DEF new
    <3>4. JobTypes' /\ jobs'[i] = new /\ \A o \in 1..2 : o # i => jobs'[o] = jobs[o]
      BY <3>1, <3>3, JobGoesOn
    <3>5. ASSUME NEW o \in 1..2  PROVE SendJobSane(jobs[o])'
      <4>1. CASE o = i
        BY <1>1, <1>3, <2>3, <3>3, <3>4, <4>1 DEF SendJobSane
      <4>2. CASE o # i
        <5>1. jobs[o] \in MessageJob /\ SendJobSane(jobs[o])
          BY DEF JobTypes, SendInv
        <5>2. PICK j \in MessageJob : j = jobs[o]
          BY <5>1
        <5>3. SendJobSane(j)'
          BY <2>7, <5>1, <5>2
        <5> QED  BY <3>4, <4>2, <5>2, <5>3 DEF SendJobSane
      <4> QED  BY <4>1, <4>2
    <3>6. \A o \in Out \ {m} : SameJobs({"apply", "count"}, o)
      BY <3>1, <3>3, <3>4 DEF SameJobs
    <3>7. \A o \in Out : SameJobs({"react"}, o)
      BY <3>1, <3>3, <3>4 DEF SameJobs
    <3>8. StatusCalm(m)'
      <4> SUFFICES ASSUME m \notin disturbed'  PROVE StatusCalm(m)'
        BY DEF StatusCalm
      <4>1. \A x \in heard[m] \cup {"sent", s} : StatusPriority(s) >= StatusPriority(x)
        BY <2>6, <2>9, Priorities DEF Moves, Furthest
      <4>2. Furthest(m, s)' /\ Moves(m, s)'
        BY <1>1, <2>3, <2>9, <4>1 DEF Furthest, Moves
      <4>3. \A o \in 1..2 : OnStatus(jobs'[o], m) => o = i
        BY <2>5, <3>4
      <4>4. BusyWith({"apply"}, m)' /\ BusyWith({"apply", "count"}, m)'
        BY <3>3, <3>4 DEF BusyWith
      <4> QED  BY <3>3, <3>4, <4>2, <4>3, <4>4 DEF StatusCalm, OnStatus
    <3>9. ReactCalm(m)'
      BY <1>1, <2>2, <2>3, <3>7, ReactCalmStays
    <3>10. TallySane'
      <4>1. ASSUME NEW x, NEW ss  PROVE Counted(x, ss)' = Counted(x, ss)
        <5>1. \A o \in Out : Uncounted(o, x)' <=> Uncounted(o, x)
          BY <3>1, <3>3, <3>4 DEF Uncounted
        <5> QED  BY <1>1, <5>1 DEF Counted
      <4> QED  BY <1>1, <2>2, <2>3, <4>1, TallyStays DEF SendInv, SendTypes
    <3> QED  BY <2>3, <2>4, <3>4, <3>5, <3>6, <3>7, <3>8, <3>9, <3>10, MessageStep
  <2> QED  BY <2>8, <2>9
<1> QED  BY <1>2, <1>3

(* A receipt under way, undisturbed, never takes back a delivery or a read.   *)
LEMMA NoneTakenBack ==
  ASSUME JobTypes, SendInv, NEW i \in 1..2, jobs[i].k = "apply", jobs[i].m \notin disturbed,
         row[jobs[i].m].st \in {"delivered", "read"}
  PROVE  jobs[i].s = "read" /\ row[jobs[i].m].st = "delivered"
<1> DEFINE m == jobs[i].m
           s == jobs[i].s
<1>1. m \in Out /\ s \in Receipts
  BY JobKinds DEF JobTypes, StatusJob
<1>2. SendSane(m) /\ StatusCalm(m) /\ SendJobSane(jobs[i])
  BY <1>1 DEF SendInv
<1>3. row[m].wamid /\ s \in heard[m]
  BY <1>2 DEF SendJobSane
<1>4. row[m].st \in progress[m] /\ s \in progress[m]
  BY <1>2, <1>3 DEF SendSane
<1>5. s # "failed"
  BY <1>2, <1>4 DEF SendSane
<1>6. StatusPriority(s) > StatusPriority(row[m].st)
  BY <1>2, <1>5 DEF StatusCalm, Moves
<1> QED  BY <1>1, <1>5, <1>6, Priorities DEF Receipts

LEMMA ApplyStatusKeeps ==
  ASSUME JobTypes, SendInv, NEW i \in 1..2, ApplyStatus(i)
  PROVE  JobTypes' /\ SendInv'
<1> DEFINE m == jobs[i].m
           s == jobs[i].s
           new == IF row[m].by = "campaign" THEN [jobs[i] EXCEPT !.k = "count"] ELSE Free0
<1>1. /\ jobs[i].k = "apply" /\ row' = [row EXCEPT ![m].st = s]
      /\ leg' = leg /\ progress' = progress /\ heard' = heard /\ tally' = tally /\ recipient' = recipient
      /\ wish' = wish /\ disturbed' = disturbed
  BY DEF ApplyStatus
<1>2. Goes(i, new)
  BY DEF ApplyStatus, Ends, Goes
<1>3. jobs[i] \in StatusJob /\ m \in Out /\ s \in Receipts
  BY <1>1, JobKinds DEF JobTypes, StatusJob
<1>4. /\ new \in MessageJob /\ new.k \in {"count", "free"}
      /\ new.k = "count" => new.m = m /\ new.s = s
      /\ row[m].by = "campaign" <=> new.k = "count"
  <2>1. CASE row[m].by = "campaign"
    <3>1. new = [jobs[i] EXCEPT !.k = "count"]
      BY <2>1
    <3> HIDE DEF new
    <3>2. new \in StatusJob /\ new.k = "count" /\ new.m = m /\ new.s = s
      BY <1>3, <3>1 DEF StatusJob
    <3> QED  BY <2>1, <3>2 DEF MessageJob
  <2>2. CASE row[m].by # "campaign"
    <3>1. new = Free0 /\ Free0.k = "free"
      BY <2>2 DEF Free0
    <3> HIDE DEF new
    <3> QED  BY <2>2, <3>1 DEF MessageJob
  <2> QED  BY <2>1, <2>2
<1> HIDE DEF new
<1>5. JobTypes' /\ jobs'[i] = new /\ \A o \in 1..2 : o # i => jobs'[o] = jobs[o]
  BY <1>2, <1>4, JobGoesOn
<1>6. SendTypes /\ SendSane(m) /\ StatusCalm(m) /\ ReactCalm(m) /\ SendJobSane(jobs[i])
  BY <1>3 DEF SendInv
<1>7. row[m].wamid /\ s \in heard[m] /\ row[m] \in OutRow
  BY <1>1, <1>3, <1>6 DEF SendJobSane, SendTypes
<1>8. /\ SendTypes' /\ \A o \in Out \ {m} : SameMessage(o)
      /\ row'[m].st = s /\ row'[m].wamid /\ row'[m].by = row[m].by /\ row'[m].react = row[m].react
  <2>1. [row[m] EXCEPT !.st = s] \in OutRow
    BY <1>3, <1>7 DEF OutRow, Statuses
  <2>2. row'[m] = [row[m] EXCEPT !.st = s] /\ row' = [row EXCEPT ![m] = [row[m] EXCEPT !.st = s]]
    BY <1>1, <1>3, <1>6 DEF SendTypes
  <2>3. SendTypes' /\ \A o \in Out \ {m} : SameMessage(o)
    BY <1>1, <1>3, <1>6, <2>1, <2>2 DEF SendTypes, SameMessage
  <2>4. row'[m].st = s /\ row'[m].wamid /\ row'[m].by = row[m].by /\ row'[m].react = row[m].react
    BY <1>7, <2>2 DEF OutRow
  <2> QED  BY <2>3, <2>4
<1>9. s # "none"
  BY <1>3 DEF Receipts
<1>10. PICK m1 \in Out, s1 \in Receipts : m1 = m /\ s1 = s
  BY <1>3
<1> HIDE DEF m, s
<1>11. SendSane(m1)'
  BY <1>1, <1>6, <1>7, <1>8, <1>9, <1>10 DEF SendSane
<1>12. m1 \notin disturbed => \A o \in 1..2 : o # i => ~OnStatus(jobs[o], m1)
  BY <1>1, <1>6, <1>10 DEF StatusCalm, OnStatus, m
<1>13. StatusCalm(m1)'
  <2> SUFFICES ASSUME m1 \notin disturbed  PROVE StatusCalm(m1)'
    BY <1>1 DEF StatusCalm
  <2>1. Furthest(m1, s1)'
    <3>1. Furthest(m1, s1)
      BY <1>1, <1>6, <1>10 DEF StatusCalm, m, s
    <3> QED  BY <1>1, <3>1 DEF Furthest
  <2>2. \A o \in 1..2 : OnStatus(jobs'[o], m1) => o = i /\ jobs'[o] = new /\ new.k = "count"
    BY <1>4, <1>5, <1>12 DEF OnStatus
  <2>3. row'[m1].by = "campaign" => BusyWith({"apply", "count"}, m1)'
    BY <1>4, <1>5, <1>8, <1>10 DEF BusyWith
  <2>4. Furthest(m1, row[m1].st)'
    BY <1>8, <1>10, <2>1 DEF Furthest
  <2> QED  BY <1>4, <1>8, <1>10, <2>2, <2>3, <2>4 DEF StatusCalm, OnStatus
<1>14. \A o \in Out \ {m1} : SameJobs({"apply", "count"}, o)
  BY <1>4, <1>5, <1>10 DEF SameJobs, m
<1>15. \A o \in Out : SameJobs({"react"}, o)
  BY <1>1, <1>4, <1>5 DEF SameJobs
<1>16. ReactCalm(m1)'
  BY <1>1, <1>6, <1>8, <1>10, <1>15, ReactCalmStays
<1>17. ASSUME NEW o \in 1..2  PROVE SendJobSane(jobs[o])'
  <2>1. CASE o = i
    BY <1>1, <1>4, <1>5, <1>7, <1>8, <2>1 DEF SendJobSane
  <2>2. CASE o # i
    <3>1. PICK j \in MessageJob : j = jobs[o] /\ SendJobSane(j)
      BY DEF JobTypes, SendInv
    <3>2. \A x \in Out : /\ row[x].wamid => row'[x].wamid
                         /\ heard[x] \subseteq heard'[x]
                         /\ row[x].by = "campaign" => row'[x].by = "campaign"
                         /\ row[x].st # "none" => row'[x].st # "none"
      BY <1>1, <1>8, <1>9, <1>10 DEF SameMessage
    <3>3. SendJobSane(j)'
      BY <3>1, <3>2, SendJobStays
    <3> QED  BY <1>5, <2>2, <3>1, <3>3 DEF SendJobSane
  <2> QED  BY <2>1, <2>2
<1>18. TallySane'
  <2>1. ASSUME disturbed' \cap Out = {}
        PROVE  /\ Counted("delivered", {"delivered", "read"}) \subseteq Counted("delivered", {"delivered", "read"})'
               /\ Counted("read", {"read"}) \subseteq Counted("read", {"read"})'
    <3>1. m1 \notin disturbed
      BY <1>1, <2>1
    <3>2. row[m1].st \in {"delivered", "read"} => s = "read" /\ row[m1].st = "delivered"
      BY <1>1, <1>10, <3>1, NoneTakenBack DEF m, s
    <3>3. \A o \in Out \ {m1}, x \in {"delivered", "read"} : row'[o] = row[o] /\ (Uncounted(o, x)' => Uncounted(o, x))
      BY <1>4, <1>5, <1>8, <1>10 DEF SameMessage, Uncounted
    <3>4. s = "read" => ~Uncounted(m1, "delivered")'
      BY <1>4, <1>5, <1>12, <3>1 DEF Uncounted, OnStatus
    <3>5. Counted("delivered", {"delivered", "read"}) \subseteq Counted("delivered", {"delivered", "read"})'
      BY <1>8, <1>10, <3>2, <3>3, <3>4 DEF Counted
    <3>6. Counted("read", {"read"}) \subseteq Counted("read", {"read"})'
      BY <1>8, <1>10, <3>2, <3>3 DEF Counted
    <3> QED  BY <3>5, <3>6
  <2> QED  BY <1>1, <1>6, <2>1, TallyStays DEF SendInv, SendTypes
<1> QED  BY <1>1, <1>5, <1>8, <1>10, <1>11, <1>13, <1>14, <1>15, <1>16, <1>17, <1>18, MessageStep

(* One more row may be counted. *)
LEMMA OneMoreCounted ==
  ASSUME NEW A, NEW B, A \subseteq Out, B \subseteq Out, A \subseteq B, NEW x \in B, x \notin A,
         NEW n \in Nat, n <= Cardinality(A)
  PROVE  n + 1 <= Cardinality(B)
<1>1. IsFiniteSet(A) /\ IsFiniteSet(B)
  BY MessagesAssumption, FS_Subset
<1>2. IsFiniteSet(A \cup {x}) /\ Cardinality(A \cup {x}) = Cardinality(A) + 1
  BY <1>1, FS_AddElement
<1>3. Cardinality(A \cup {x}) <= Cardinality(B)
  <2>1. A \cup {x} \in SUBSET B
    OBVIOUS
  <2> QED  BY <1>1, <2>1, FS_Subset
<1>4. Cardinality(A) \in Nat /\ Cardinality(B) \in Nat
  BY <1>1, FS_CardinalityType
<1> QED  BY <1>2, <1>3, <1>4

LEMMA IncrementCampaignStatKeeps ==
  ASSUME JobTypes, SendInv, NEW i \in 1..2, IncrementCampaignStat(i)
  PROVE  JobTypes' /\ SendInv'
<1>1. PICK m \in Out, s \in Receipts : jobs[i].m = m /\ jobs[i].s = s
  BY JobKinds DEF IncrementCampaignStat, JobTypes, StatusJob
<1>2. /\ jobs[i].k = "count" /\ recipient' = [recipient EXCEPT ![m] = s]
      /\ row' = row /\ leg' = leg /\ progress' = progress /\ heard' = heard
      /\ wish' = wish /\ disturbed' = disturbed
      /\ tally' = IF s = "sent" THEN tally ELSE [tally EXCEPT ![s] = @ + 1]
  BY <1>1 DEF IncrementCampaignStat
<1>3. Goes(i, Free0) /\ Free0 \in MessageJob /\ Free0.k = "free"
  BY JobEnds DEF IncrementCampaignStat
<1>4. JobTypes' /\ jobs'[i] = Free0 /\ \A o \in 1..2 : o # i => jobs'[o] = jobs[o]
  BY <1>3, JobGoesOn
<1>5. SendTypes /\ SendSane(m) /\ StatusCalm(m) /\ ReactCalm(m) /\ SendJobSane(jobs[i]) /\ TallySane
  BY DEF SendInv
<1>6. /\ tally' \in [delivered : Nat, read : Nat, failed : Nat]
      /\ s = "delivered" => tally'.delivered = tally.delivered + 1 /\ tally'.read = tally.read
      /\ s = "read" => tally'.read = tally.read + 1 /\ tally'.delivered = tally.delivered
      /\ s \notin {"delivered", "read"} => tally'.delivered = tally.delivered /\ tally'.read = tally.read
  <2>1. tally \in [delivered : Nat, read : Nat, failed : Nat]
    BY <1>5 DEF SendTypes
  <2>2. CASE s = "sent"
    BY <1>2, <2>1, <2>2
  <2>3. CASE s = "delivered"
    <3>1. tally' = [tally EXCEPT !.delivered = tally.delivered + 1]
      BY <1>2, <2>3
    <3> QED  BY <2>1, <2>3, <3>1
  <2>4. CASE s = "read"
    <3>1. tally' = [tally EXCEPT !.read = tally.read + 1]
      BY <1>2, <2>4
    <3> QED  BY <2>1, <2>4, <3>1
  <2>5. CASE s = "failed"
    <3>1. tally' = [tally EXCEPT !.failed = tally.failed + 1]
      BY <1>2, <2>5
    <3> QED  BY <2>1, <2>5, <3>1
  <2> QED  BY <2>2, <2>3, <2>4, <2>5 DEF Receipts
<1>7. SendTypes' /\ recipient'[m] = s /\ \A o \in Out \ {m} : SameMessage(o)
  BY <1>2, <1>5, <1>6 DEF SendTypes, SameMessage
<1>8. SendSane(m)'
  BY <1>2, <1>5 DEF SendSane
<1>9. m \notin disturbed =>
        row[m].st = s /\ row[m].by = "campaign" /\ \A o \in 1..2 : o # i => ~OnStatus(jobs[o], m)
  BY <1>1, <1>2, <1>5 DEF StatusCalm, SendJobSane, OnStatus
<1>10. StatusCalm(m)'
  <2> SUFFICES ASSUME m \notin disturbed  PROVE StatusCalm(m)'
    BY <1>2 DEF StatusCalm
  <2>1. \A o \in 1..2 : ~OnStatus(jobs'[o], m)
    BY <1>3, <1>4, <1>9 DEF OnStatus
  <2>2. row[m].wamid => Furthest(m, row[m].st)
    <3>1. ~BusyWith({"apply"}, m)
      BY <1>2, <1>9 DEF BusyWith, OnStatus
    <3> QED  BY <1>5, <3>1 DEF StatusCalm
  <2>3. row'[m].wamid => Furthest(m, row[m].st)'
    BY <1>2, <2>2 DEF Furthest
  <2>4. recipient'[m] = row'[m].st
    BY <1>2, <1>7, <1>9
  <2> QED  BY <2>1, <2>3, <2>4 DEF StatusCalm, OnStatus
<1>11. \A o \in Out \ {m} : SameJobs({"apply", "count"}, o)
  BY <1>1, <1>3, <1>4 DEF SameJobs
<1>12. \A o \in Out : SameJobs({"react"}, o)
  BY <1>2, <1>3, <1>4 DEF SameJobs
<1>13. ReactCalm(m)'
  BY <1>2, <1>5, <1>12, ReactCalmStays
<1>14. ASSUME NEW o \in 1..2  PROVE SendJobSane(jobs[o])'
  BY <1>2, <1>3, <1>4 DEF SendJobSane, SendInv
<1>15. TallySane'
  <2> SUFFICES ASSUME disturbed \cap Out = {}  PROVE TallySane'
    BY <1>2 DEF TallySane
  <2>1. m \notin disturbed
    OBVIOUS
  <2> DEFINE A == Counted("delivered", {"delivered", "read"})
             B == Counted("read", {"read"})
  <2>2. A \subseteq A' /\ B \subseteq B' /\ A \subseteq Out /\ A' \subseteq Out /\ B \subseteq Out /\ B' \subseteq Out
    <3>1. \A o \in Out, x \in {"delivered", "read"} : Uncounted(o, x)' => Uncounted(o, x)
      BY <1>3, <1>4 DEF Uncounted
    <3> QED  BY <1>2, <3>1 DEF Counted
  <2>3. ~Uncounted(m, s)'
    BY <1>3, <1>4, <1>9, <2>1 DEF Uncounted, OnStatus
  <2>4. Uncounted(m, s)
    BY <1>1, <1>2 DEF Uncounted
  <2>5. s = "delivered" => m \in A' /\ m \notin A
    BY <1>2, <1>9, <2>1, <2>3, <2>4 DEF Counted
  <2>6. s = "read" => m \in B' /\ m \notin B
    BY <1>2, <1>9, <2>1, <2>3, <2>4 DEF Counted
  <2>7. /\ tally.delivered \in Nat /\ tally.read \in Nat
        /\ tally.delivered <= Cardinality(A) /\ tally.read <= Cardinality(B)
    BY <1>5 DEF TallySane, SendTypes
  <2> HIDE DEF A, B
  <2>8. /\ Cardinality(A) \in Nat /\ Cardinality(B) \in Nat /\ Cardinality(A') \in Nat /\ Cardinality(B') \in Nat
        /\ Cardinality(A) <= Cardinality(A') /\ Cardinality(B) <= Cardinality(B')
    <3>1. IsFiniteSet(A) /\ IsFiniteSet(B) /\ IsFiniteSet(A') /\ IsFiniteSet(B')
      BY <2>2, MessagesAssumption, FS_Subset
    <3> QED  BY <2>2, <3>1, FS_Subset, FS_CardinalityType
  <2>9. tally'.delivered <= Cardinality(A')
    <3>1. CASE s = "delivered"
      BY <1>6, <2>2, <2>5, <2>7, <3>1, OneMoreCounted
    <3>2. CASE s # "delivered"
      BY <1>6, <2>7, <2>8, <3>2
    <3> QED  BY <3>1, <3>2
  <2>10. tally'.read <= Cardinality(B')
    <3>1. CASE s = "read"
      BY <1>6, <2>2, <2>6, <2>7, <3>1, OneMoreCounted
    <3>2. CASE s # "read"
      BY <1>6, <2>7, <2>8, <3>2
    <3> QED  BY <3>1, <3>2
  <2> QED  BY <2>9, <2>10 DEF TallySane, A, B
<1> QED  BY <1>2, <1>4, <1>7, <1>8, <1>10, <1>11, <1>12, <1>13, <1>14, <1>15, MessageStep

LEMMA RecalculateKeeps ==
  ASSUME JobTypes, SendInv, RecalculateCampaignStats  PROVE SendInv'
<1> DEFINE with(ss) == Cardinality({m \in Out : row[m].by = "campaign" /\ row[m].st \in ss})
<1>1. /\ tally' = [delivered |-> with({"delivered", "read"}), read |-> with({"read"}), failed |-> with({"failed"})]
      /\ disturbed' = disturbed \cup {m \in Out : BusyWith({"apply", "count"}, m)}
      /\ row' = row /\ leg' = leg /\ progress' = progress /\ heard' = heard /\ recipient' = recipient
      /\ wish' = wish /\ jobs' = jobs
  BY DEF RecalculateCampaignStats
<1>2. \A ss : with(ss) \in Nat
  BY MessagesAssumption, FS_Subset, FS_CardinalityType
<1>3. SendTypes'
  <2> HIDE DEF with
  <2>1. tally' \in [delivered : Nat, read : Nat, failed : Nat]
    BY <1>1, <1>2
  <2> QED  BY <1>1, <2>1 DEF SendInv, SendTypes
<1>4. \A m \in Out : SameMessage(m) /\ SameJobs({"apply", "count"}, m) /\ SameJobs({"react"}, m)
  BY <1>1 DEF SameMessage, SameJobs
<1>5. ASSUME NEW m \in Out  PROVE SendSane(m)' /\ StatusCalm(m)' /\ ReactCalm(m)'
  <2>1. SendSane(m) /\ StatusCalm(m) /\ ReactCalm(m) /\ disturbed \subseteq disturbed'
    BY <1>1 DEF SendInv
  <2> QED  BY <1>1, <1>4, <2>1, SendSaneStays, StatusCalmStays, ReactCalmStays
<1>6. ASSUME NEW i \in 1..2  PROVE SendJobSane(jobs[i])'
  BY <1>1 DEF SendJobSane, SendInv
<1>7. TallySane'
  <2> SUFFICES ASSUME disturbed' \cap Out = {}  PROVE TallySane'
    BY DEF TallySane
  <2>1. \A m \in Out, s \in {"delivered", "read"} : ~Uncounted(m, s)'
    BY <1>1 DEF Uncounted, BusyWith
  <2>2. ASSUME NEW s \in {"delivered", "read"}, NEW ss  PROVE with(ss) = Cardinality(Counted(s, ss)')
    <3>1. Counted(s, ss)' = {m \in Out : row[m].by = "campaign" /\ row[m].st \in ss}
      BY <1>1, <2>1 DEF Counted
    <3> QED  BY <3>1
  <2>3. tally'.delivered = with({"delivered", "read"}) /\ tally'.read = with({"read"})
    <3> HIDE DEF with
    <3> QED  BY <1>1
  <2>4. with({"delivered", "read"}) = Cardinality(Counted("delivered", {"delivered", "read"})')
    BY <2>2
  <2>5. with({"read"}) = Cardinality(Counted("read", {"read"})')
    BY <2>2
  <2>6. with({"delivered", "read"}) \in Nat /\ with({"read"}) \in Nat
    BY <1>2
  <2> HIDE DEF with
  <2> QED  BY <2>3, <2>4, <2>5, <2>6 DEF TallySane
<1> QED  BY <1>3, <1>5, <1>6, <1>7 DEF SendInv

(* A step about the reactions of one message. *)
LEMMA ReactionStep ==
  ASSUME JobTypes, SendInv, NEW m \in Out, NEW i \in 1..2, NEW j \in MessageJob, Goes(i, j),
         jobs[i].k \notin {"apply", "count"}, j.k \notin {"apply", "count"},
         OnReaction(jobs[i], m) \/ jobs[i].k = "free", j.k = "free" \/ j.m = m, SendJobSane(j),
         SendTypes', tally' = tally, disturbed \subseteq disturbed',
         \A o \in Out \ {m} : SameMessage(o),
         row[m].wamid <=> row'[m].wamid, row'[m].st = row[m].st, row'[m].by = row[m].by,
         leg' = leg, progress' = progress, heard' = heard, recipient' = recipient,
         row[m].st # "none", ReactCalm(m)'
  PROVE  JobTypes' /\ SendInv'
<1>1. JobTypes' /\ jobs'[i] = j /\ \A o \in 1..2 : o # i => jobs'[o] = jobs[o]
  BY JobGoesOn
<1>2. SendSane(m) /\ StatusCalm(m) /\ SendTypes /\ TallySane
  BY DEF SendInv
<1>3. \A o \in Out : SameJobs({"apply", "count"}, o)
  BY <1>1 DEF SameJobs
<1>4. \A o \in Out \ {m} : SameJobs({"react"}, o)
  BY <1>1 DEF SameJobs, OnReaction
<1>5. SendSane(m)'
  BY <1>2 DEF SendSane
<1>6. StatusCalm(m)'
  BY <1>2, <1>3, StatusCalmStays
<1>7. ASSUME NEW o \in 1..2  PROVE SendJobSane(jobs[o])'
  <2>1. PICK q \in MessageJob : q = jobs'[o] /\ SendJobSane(q)
    BY <1>1 DEF JobTypes, SendInv
  <2>2. \A x \in Out : /\ row[x].wamid => row'[x].wamid
                       /\ heard[x] \subseteq heard'[x]
                       /\ row[x].by = "campaign" => row'[x].by = "campaign"
                       /\ row[x].st # "none" => row'[x].st # "none"
    BY DEF SameMessage
  <2>3. SendJobSane(q)'
    BY <2>1, <2>2, SendJobStays
  <2> QED  BY <2>1, <2>3 DEF SendJobSane
<1>8. TallySane'
  <2>1. ASSUME NEW s, NEW ss  PROVE Counted(s, ss) \subseteq Counted(s, ss)'
    <3>1. \A o \in Out : Uncounted(o, s)' <=> Uncounted(o, s)
      BY <1>1 DEF Uncounted
    <3>2. \A o \in Out : row'[o].st = row[o].st /\ row'[o].by = row[o].by
      BY DEF SameMessage
    <3> QED  BY <3>1, <3>2 DEF Counted
  <2> QED  BY <1>2, <2>1, TallyStays DEF SendTypes
<1> QED  BY <1>1, <1>3, <1>4, <1>5, <1>6, <1>7, <1>8, MessageStep

LEMMA ReactsKeeps ==
  ASSUME JobTypes, SendInv, NEW m \in Out, NEW who \in Reactors, NEW on \in BOOLEAN, Reacts(m, who, on)
  PROVE  JobTypes' /\ SendInv'
<1> DEFINE new == [k |-> "react", m |-> m, who |-> who, on |-> on, base |-> row[m].react]
<1>1. /\ row[m].st # "none" /\ Starts(new)
      /\ wish' = [wish EXCEPT ![m] = IF on THEN wish[m] \cup {who} ELSE wish[m] \ {who}]
      /\ disturbed' = IF BusyWith({"react"}, m) THEN disturbed \cup {m} ELSE disturbed
      /\ row' = row /\ leg' = leg /\ progress' = progress /\ heard' = heard /\ tally' = tally /\ recipient' = recipient
  BY DEF Reacts
<1>2. SendTypes /\ ReactCalm(m) /\ row[m].react \subseteq Reactors
  BY DEF SendInv, SendTypes, OutRow
<1>3. new \in ReactJob
  BY <1>2 DEF ReactJob
<1>4. /\ new \in MessageJob /\ new.k = "react" /\ new.m = m /\ new.who = who
      /\ (new.on => on) /\ (on => new.on) /\ new.base = row[m].react
  BY <1>3 DEF MessageJob
<1> HIDE DEF new
<1>5. PICK i \in 1..2 : jobs[i].k = "free" /\ Goes(i, new)
  BY <1>1, JobStarts
<1>6. jobs'[i] = new /\ \A o \in 1..2 : o # i => jobs'[o] = jobs[o]
  BY <1>4, <1>5, JobGoesOn
<1>7. SendTypes' /\ wish'[m] = WithReaction(wish[m], who, on) /\ \A o \in Out \ {m} : SameMessage(o)
  <2>1. (IF on THEN wish[m] \cup {who} ELSE wish[m] \ {who}) \in SUBSET Reactors
    BY <1>2 DEF SendTypes
  <2> QED  BY <1>1, <1>2, <2>1 DEF SendTypes, SameMessage, WithReaction
<1>8. ReactCalm(m)'
  <2> SUFFICES ASSUME m \notin disturbed'  PROVE ReactCalm(m)'
    BY DEF ReactCalm
  <2>1. m \notin disturbed /\ \A o \in 1..2 : ~OnReaction(jobs[o], m)
    BY <1>1 DEF BusyWith, OnReaction
  <2>2. row[m].react = wish[m]
    BY <1>2, <2>1 DEF ReactCalm, BusyWith, OnReaction
  <2>3. WithReaction(new.base, new.who, new.on) = wish'[m]
    BY <1>4, <1>7, <2>2 DEF WithReaction
  <2>4. \A o \in 1..2 : OnReaction(jobs'[o], m) => o = i
    BY <1>6, <2>1
  <2>5. BusyWith({"react"}, m)'
    BY <1>4, <1>6 DEF BusyWith
  <2> QED  BY <1>6, <2>3, <2>4, <2>5 DEF ReactCalm
<1>9. SendJobSane(new)
  BY <1>1, <1>4 DEF SendJobSane
<1>10. disturbed \subseteq disturbed'
  BY <1>1
<1> QED  BY <1>1, <1>4, <1>5, <1>7, <1>8, <1>9, <1>10, ReactionStep

LEMMA SaveReactionsKeeps ==
  ASSUME JobTypes, SendInv, NEW i \in 1..2, SaveReactions(i)
  PROVE  JobTypes' /\ SendInv'
<1>1. jobs[i].k = "react" /\ jobs[i] \in ReactJob
  BY JobKinds DEF SaveReactions, JobTypes
<1>2. PICK m \in Out : jobs[i].m = m
  BY <1>1 DEF ReactJob
<1> DEFINE now == WithReaction(jobs[i].base, jobs[i].who, jobs[i].on)
<1>3. /\ row' = [row EXCEPT ![m].react = now]
      /\ wish' = wish /\ leg' = leg /\ progress' = progress /\ heard' = heard /\ tally' = tally
      /\ recipient' = recipient /\ disturbed' = disturbed
  BY <1>2 DEF SaveReactions
<1>4. now \in SUBSET Reactors
  BY <1>1 DEF ReactJob, WithReaction
<1>5. Goes(i, Free0) /\ Free0 \in MessageJob /\ Free0.k = "free"
  BY JobEnds DEF SaveReactions
<1>6. jobs'[i] = Free0 /\ \A o \in 1..2 : o # i => jobs'[o] = jobs[o]
  BY <1>5, JobGoesOn
<1>7. SendTypes /\ ReactCalm(m) /\ SendJobSane(jobs[i]) /\ row[m] \in OutRow
  BY DEF SendInv, SendTypes
<1>8. m \notin disturbed => wish[m] = now /\ \A o \in 1..2 : o # i => ~OnReaction(jobs[o], m)
  BY <1>1, <1>2, <1>7 DEF ReactCalm, OnReaction
<1> HIDE DEF now
<1>9. /\ SendTypes' /\ \A o \in Out \ {m} : SameMessage(o)
      /\ row'[m].st = row[m].st /\ (row'[m].wamid <=> row[m].wamid) /\ row'[m].by = row[m].by /\ row'[m].react = now
  <2>1. [row[m] EXCEPT !.react = now] \in OutRow
    BY <1>4, <1>7 DEF OutRow
  <2>2. row'[m] = [row[m] EXCEPT !.react = now] /\ row' = [row EXCEPT ![m] = [row[m] EXCEPT !.react = now]]
    BY <1>3, <1>7 DEF SendTypes
  <2>3. SendTypes' /\ \A o \in Out \ {m} : SameMessage(o)
    BY <1>3, <1>7, <2>1, <2>2 DEF SendTypes, SameMessage
  <2>4. row'[m].st = row[m].st /\ (row'[m].wamid <=> row[m].wamid) /\ row'[m].by = row[m].by /\ row'[m].react = now
    BY <1>7, <2>2 DEF OutRow
  <2> QED  BY <2>3, <2>4
<1>10. ReactCalm(m)'
  BY <1>3, <1>5, <1>6, <1>8, <1>9 DEF ReactCalm, OnReaction
<1>11. row[m].st # "none" /\ OnReaction(jobs[i], m) /\ SendJobSane(Free0)
  BY <1>1, <1>2, <1>5, <1>7 DEF SendJobSane, OnReaction
<1> QED  BY <1>1, <1>3, <1>5, <1>9, <1>10, <1>11, ReactionStep

LEMMA RestartKeeps ==
  ASSUME JobTypes, SendInv, Restart
  PROVE  JobTypes' /\ SendInv'
<1>1. /\ leg' = [m \in Out |-> IF leg[m] \in {"none", "done"} THEN leg[m] ELSE "lost"]
      /\ jobs' = [i \in 1..2 |-> Free0]
      /\ disturbed' = disturbed \cup {m \in Out : BusyWith({"apply", "count", "react"}, m)}
      /\ row' = row /\ progress' = progress /\ heard' = heard /\ tally' = tally /\ recipient' = recipient /\ wish' = wish
  BY DEF Restart
<1>2. \A i \in 1..2 : jobs'[i] = Free0 /\ jobs'[i].k = "free"
  BY <1>1 DEF Free0
<1>3. JobTypes'
  BY <1>1 DEF JobTypes, MessageJob
<1>4. SendTypes'
  BY <1>1 DEF SendInv, SendTypes
<1>5. ASSUME NEW m \in Out  PROVE SendSane(m)' /\ StatusCalm(m)' /\ ReactCalm(m)'
  <2>1. SendSane(m) /\ StatusCalm(m) /\ ReactCalm(m)
    BY DEF SendInv
  <2>2. leg'[m] \in {"none", "done", "lost"} /\ (leg'[m] = "done" <=> leg[m] = "done")
    BY <1>1 DEF SendInv, SendTypes
  <2>3. SendSane(m)'
    BY <1>1, <2>1, <2>2 DEF SendSane
  <2>4. m \notin disturbed' => m \notin disturbed /\ \A i \in 1..2 : ~OnStatus(jobs[i], m) /\ ~OnReaction(jobs[i], m)
    BY <1>1 DEF BusyWith, OnStatus, OnReaction
  <2>5. StatusCalm(m)'
    <3> SUFFICES ASSUME m \notin disturbed'  PROVE StatusCalm(m)'
      BY DEF StatusCalm
    <3>1. row[m].wamid => Furthest(m, row[m].st)
      BY <2>1, <2>4 DEF StatusCalm, BusyWith, OnStatus
    <3>2. row'[m].wamid => Furthest(m, row[m].st)'
      BY <1>1, <3>1 DEF Furthest
    <3>3. row[m].by = "campaign" /\ leg[m] = "done" => recipient[m] = row[m].st
      BY <2>1, <2>4 DEF StatusCalm, BusyWith, OnStatus
    <3> QED  BY <1>1, <1>2, <2>2, <3>2, <3>3 DEF StatusCalm, OnStatus
  <2>6. ReactCalm(m)'
    <3> SUFFICES ASSUME m \notin disturbed'  PROVE ReactCalm(m)'
      BY DEF ReactCalm
    <3>1. row[m].react = wish[m]
      BY <2>1, <2>4 DEF ReactCalm, BusyWith, OnReaction
    <3> QED  BY <1>1, <1>2, <3>1 DEF ReactCalm, OnReaction
  <2> QED  BY <2>3, <2>5, <2>6
<1>6. ASSUME NEW i \in 1..2  PROVE SendJobSane(jobs[i])'
  BY <1>2 DEF SendJobSane
<1>7. TallySane'
  <2>1. ASSUME NEW s, NEW ss  PROVE Counted(s, ss) \subseteq Counted(s, ss)'
    BY <1>1, <1>2 DEF Counted, Uncounted
  <2>2. disturbed \subseteq disturbed'
    BY <1>1
  <2> QED  BY <1>1, <2>1, <2>2, TallyStays DEF SendInv, SendTypes
<1> QED  BY <1>3, <1>4, <1>5, <1>6, <1>7 DEF SendInv

-----------------------------------------------------------------------------
(* Steps of receiving and reading                                             *)

(* A step in which the stored rows stay: a job of the reading half starts,    *)
(* goes on or ends, the conversation changes hands, or a marker moves.        *)
LEMMA BoxStays ==
  ASSUME JobTypes, ReadInv, NEW i \in 1..2, NEW j \in MessageJob, Goes(i, j),
         box' = box, ReadTypes', opened' = marker', disturbed \subseteq disturbed',
         ReadJobSane(j), j.k # "attribute", origin' = origin, replied' = replied,
         j.k = "save" => j.m \in InIds /\ (j.m \in disturbed' \/ (SavedAs(j.m) = {} /\
            \A o \in 1..2 : o # i => ~(jobs[o].k = "save" /\ jobs[o].m = j.m)))
  PROVE  JobTypes' /\ ReadInv'
<1>1. JobTypes' /\ jobs'[i] = j /\ \A o \in 1..2 : o # i => jobs'[o] = jobs[o]
  BY JobGoesOn
<1>2. \A n \in 1..Len(box') : ReadSane(box[n])'
  BY DEF ReadInv, ReadSane
<1>3. ASSUME NEW o \in 1..2  PROVE ReadJobSane(jobs[o])'
  BY <1>1 DEF ReadInv, ReadJobSane, Incoming
<1>4. ASSUME NEW id \in InIds  PROVE SavesCalm(id)'
  <2> SUFFICES ASSUME id \notin disturbed'  PROVE SavesCalm(id)'
    BY DEF SavesCalm
  <2>1. SavesCalm(id) /\ id \notin disturbed
    BY DEF ReadInv
  <2>2. SavedAs(id)' = SavedAs(id)
    BY DEF SavedAs
  <2>3. \A n, l \in SavedAs(id) : n = l
    BY <2>1 DEF SavesCalm
  <2>4. ASSUME NEW o \in 1..2, jobs'[o].k = "save", jobs'[o].m = id  PROVE SavedAs(id) = {}
    BY <1>1, <2>1, <2>4 DEF SavesCalm
  <2>5. ASSUME NEW o \in 1..2, NEW q \in 1..2, jobs'[o].k = "save", jobs'[o].m = id, jobs'[q].k = "save", jobs'[q].m = id
        PROVE  o = q
    BY <1>1, <2>1, <2>5 DEF SavesCalm
  <2> QED  BY <2>2, <2>3, <2>4, <2>5 DEF SavesCalm
<1>5. RepliesCalm'
  BY <1>1 DEF ReadInv, RepliesCalm
<1> QED  BY <1>1, <1>2, <1>3, <1>4, <1>5 DEF ReadInv

LEMMA NothingRead ==
  ASSUME ReadInv, UNCHANGED readVars
  PROVE  /\ box' = box /\ ReadTypes' /\ opened' = marker' /\ origin' = origin /\ replied' = replied
BY DEF ReadInv, ReadTypes, readVars

LEMMA ProcessingKeeps ==
  ASSUME JobTypes, ReadInv, NEW id \in InIds, ProcessIncomingMessage(id) \/ ProcessMessageEcho(id)
  PROVE  JobTypes' /\ ReadInv'
<1>1. PICK e \in BOOLEAN : Starts([k |-> "save", m |-> id, echo |-> e])
  BY DEF ProcessIncomingMessage, ProcessMessageEcho
<1>2. /\ SavedAs(id) = {} /\ UNCHANGED readVars
      /\ disturbed' = IF Busy({"save"}) /\ \E i \in 1..2 : jobs[i].k = "save" /\ jobs[i].m = id
                      THEN disturbed \cup {id} ELSE disturbed
  BY DEF ProcessIncomingMessage, ProcessMessageEcho
<1> DEFINE new == [k |-> "save", m |-> id, echo |-> e]
<1>3. new \in SaveJob
  BY DEF SaveJob
<1>4. new \in MessageJob /\ new.k = "save" /\ new.m = id
  BY <1>3 DEF MessageJob
<1>5. Starts(new)
  BY <1>1
<1> HIDE DEF new
<1>6. PICK i \in 1..2 : jobs[i].k = "free" /\ Goes(i, new)
  BY <1>5, JobStarts
<1>7. id \in disturbed' \/ \A o \in 1..2 : o # i => ~(jobs[o].k = "save" /\ jobs[o].m = id)
  BY <1>2 DEF Busy
<1>8. ReadJobSane(new) /\ disturbed \subseteq disturbed'
  BY <1>2, <1>4 DEF ReadJobSane
<1> QED  BY <1>2, <1>4, <1>6, <1>7, <1>8, BoxStays, NothingRead

LEMMA MarkContactReadKeeps ==
  ASSUME JobTypes, ReadInv, NEW u \in Agents, MarkContactRead(u)
  PROVE  JobTypes' /\ ReadInv'
<1> DEFINE may == MaySendReadReceipts(u)
           new == [k |-> "mark", u |-> u, at |-> Len(box), may |-> may, from |-> assignee]
<1>1. Starts(new) /\ UNCHANGED readVars /\ disturbed' = disturbed
  BY DEF MarkContactRead
<1>2. may \in BOOLEAN /\ Len(box) \in Nat /\ assignee \in Agents \cup {Nobody}
  BY DEF MaySendReadReceipts, ReadInv, ReadTypes
<1>3. may => assignee \in {u, Nobody}
  BY DEF MaySendReadReceipts
<1> HIDE DEF may
<1>4. new \in MarkJob
  BY <1>2 DEF MarkJob
<1>5. new \in MessageJob /\ new.k = "mark" /\ new.u = u /\ (new.may => may) /\ new.from = assignee
  BY <1>4 DEF MessageJob
<1> HIDE DEF new
<1>6. PICK i \in 1..2 : jobs[i].k = "free" /\ Goes(i, new)
  BY <1>1, JobStarts
<1>7. ReadJobSane(new)
  BY <1>3, <1>5 DEF ReadJobSane
<1> QED  BY <1>1, <1>5, <1>6, <1>7, BoxStays, NothingRead

LEMMA SelectingKeeps ==
  ASSUME JobTypes, ReadInv, NEW why \in Causes, Starts([k |-> "select", why |-> why]),
         UNCHANGED readVars, disturbed' = disturbed
  PROVE  JobTypes' /\ ReadInv'
<1> DEFINE new == [k |-> "select", why |-> why]
<1>1. new \in SelectJob
  BY DEF SelectJob
<1>2. new \in MessageJob /\ new.k = "select" /\ Starts(new)
  BY <1>1 DEF MessageJob
<1> HIDE DEF new
<1>3. PICK i \in 1..2 : jobs[i].k = "free" /\ Goes(i, new)
  BY <1>2, JobStarts
<1>4. ReadJobSane(new)
  BY <1>2 DEF ReadJobSane
<1> QED  BY <1>2, <1>3, <1>4, BoxStays, NothingRead

LEMMA MarkReadKeeps ==
  ASSUME JobTypes, ReadInv, NEW i \in 1..2, MarkRead(i)
  PROVE  JobTypes' /\ ReadInv'
<1> DEFINE j == jobs[i]
           why == CASE j.from = Nobody -> "open" [] j.from = j.u -> "handler" [] OTHER -> "onlooker"
           new == IF j.may THEN [k |-> "select", why |-> why] ELSE Free0
<1>1. /\ j.k = "mark" /\ marker' = [marker EXCEPT ![j.u] = Later(j.u, j.at)]
      /\ opened' = [opened EXCEPT ![j.u] = IF j.at > opened[j.u] THEN j.at ELSE opened[j.u]]
      /\ box' = box /\ origin' = origin /\ replied' = replied /\ assignee' = assignee /\ disturbed' = disturbed
  BY DEF MarkRead
<1>2. Goes(i, new)
  BY DEF MarkRead, Ends, Goes
<1>3. j \in MarkJob /\ ReadJobSane(j) /\ ReadTypes /\ opened = marker
  BY <1>1, JobKinds DEF JobTypes, ReadInv
<1>4. new \in MessageJob /\ new.k \in {"select", "free"}
  <2>1. CASE j.may
    <3>1. j.from \in {j.u, Nobody}
      BY <1>1, <1>3, <2>1 DEF ReadJobSane
    <3>2. why \in Causes
      <4>1. CASE j.from = Nobody
        <5>1. why \in {"open", "handler"}
          BY <4>1
        <5> QED  BY <5>1 DEF Causes
      <4>2. CASE j.from # Nobody
        <5>1. j.from = j.u
          BY <3>1, <4>2
        <5>2. why = "handler"
          BY <4>2, <5>1
        <5> QED  BY <5>2 DEF Causes
      <4> QED  BY <4>1, <4>2
    <3> HIDE DEF why
    <3>3. [k |-> "select", why |-> why] \in SelectJob
      BY <3>2 DEF SelectJob
    <3>4. new = [k |-> "select", why |-> why]
      BY <2>1
    <3> HIDE DEF new
    <3> QED  BY <3>3, <3>4 DEF MessageJob
  <2>2. CASE ~j.may
    <3>1. new = Free0 /\ Free0.k = "free"
      BY <2>2 DEF Free0
    <3> HIDE DEF new
    <3> QED  BY <3>1 DEF MessageJob
  <2> QED  BY <2>1, <2>2
<1> HIDE DEF new
<1>5. ReadTypes' /\ opened' = marker'
  <2>1. j.u \in Agents /\ j.at \in Nat
    BY <1>3 DEF MarkJob
  <2>2. Later(j.u, j.at) \in Nat
    BY <1>3, <2>1 DEF Later, ReadTypes
  <2>3. Later(j.u, j.at) = IF j.at > opened[j.u] THEN j.at ELSE opened[j.u]
    BY <1>3 DEF Later
  <2> QED  BY <1>1, <1>3, <2>1, <2>2, <2>3 DEF ReadTypes
<1>6. ReadJobSane(new)
  BY <1>4 DEF ReadJobSane
<1> QED  BY <1>1, <1>2, <1>4, <1>5, <1>6, BoxStays

LEMMA SelectUnreadKeeps ==
  ASSUME JobTypes, ReadInv, NEW i \in 1..2, SelectUnread(i)
  PROVE  JobTypes' /\ ReadInv'
<1> DEFINE unread == {n \in Incoming : box[n].st # "read"}
           new == [k |-> "update", why |-> jobs[i].why, rows |-> unread, upto |-> Len(box)]
<1>1. jobs[i].k = "select" /\ Goes(i, new) /\ UNCHANGED readVars /\ disturbed' = disturbed
  BY DEF SelectUnread
<1>2. jobs[i].why \in Causes /\ Len(box) \in Nat
  BY <1>1, JobKinds DEF JobTypes, SelectJob, ReadInv, ReadTypes
<1>3. unread \in SUBSET Nat
  BY <1>2 DEF Incoming
<1> HIDE DEF unread
<1>4. new \in UpdateJob
  BY <1>2, <1>3 DEF UpdateJob
<1>5. new \in MessageJob /\ new.k = "update" /\ new.rows = unread /\ new.upto = Len(box)
  BY <1>4 DEF MessageJob
<1> HIDE DEF new
<1>6. ReadJobSane(new)
  BY <1>2, <1>5 DEF ReadJobSane, unread
<1> QED  BY <1>1, <1>5, <1>6, BoxStays, NothingRead

LEMMA ConversationChangesKeeps ==
  ASSUME JobTypes, ReadInv, NEW a \in Agents \cup {Nobody}, NEW b \in BOOLEAN, ConversationChanges(a, b)
  PROVE  JobTypes' /\ ReadInv'
<1>1. /\ assignee' = a /\ box' = box /\ origin' = origin /\ replied' = replied /\ marker' = marker
      /\ opened' = opened /\ jobs' = jobs /\ disturbed' = disturbed
  BY DEF ConversationChanges
<1>2. ReadTypes' /\ opened' = marker' /\ \A n \in 1..Len(box') : ReadSane(box[n])'
  BY <1>1 DEF ReadInv, ReadTypes, ReadSane
<1>3. \A i \in 1..2 : ReadJobSane(jobs[i])'
  BY <1>1 DEF ReadInv, ReadJobSane, Incoming
<1>4. \A id \in InIds : SavesCalm(id)'
  BY <1>1 DEF ReadInv, SavesCalm, SavedAs
<1>5. RepliesCalm'
  BY <1>1 DEF ReadInv, RepliesCalm
<1> QED  BY <1>1, <1>2, <1>3, <1>4, <1>5 DEF ReadInv, JobTypes

LEMMA AttributeKeeps ==
  ASSUME JobTypes, ReadInv, NEW i \in 1..2, AttributeCampaignReply(i)
  PROVE  JobTypes' /\ ReadInv'
<1>1. /\ jobs[i].k = "attribute" /\ origin' = TRUE /\ replied' = replied + 1
      /\ box' = box /\ assignee' = assignee /\ marker' = marker /\ opened' = opened /\ disturbed' = disturbed
  BY DEF AttributeCampaignReply
<1>2. Goes(i, Free0) /\ Free0 \in MessageJob /\ Free0.k = "free"
  BY JobEnds DEF AttributeCampaignReply
<1>3. JobTypes' /\ jobs'[i] = Free0 /\ \A o \in 1..2 : o # i => jobs'[o] = jobs[o]
  BY <1>2, JobGoesOn
<1>4. ReadTypes' /\ opened' = marker' /\ \A n \in 1..Len(box') : ReadSane(box[n])'
  BY <1>1 DEF ReadInv, ReadTypes, ReadSane
<1>5. ASSUME NEW o \in 1..2  PROVE ReadJobSane(jobs[o])'
  BY <1>1, <1>2, <1>3 DEF ReadInv, ReadJobSane, Incoming
<1>6. ASSUME NEW id \in InIds  PROVE SavesCalm(id)'
  BY <1>1, <1>2, <1>3 DEF ReadInv, SavesCalm, SavedAs
<1>7. RepliesCalm'
  BY <1>1, <1>2, <1>3 DEF ReadInv, RepliesCalm
<1> QED  BY <1>3, <1>4, <1>5, <1>6, <1>7 DEF ReadInv

(* A row more. *)
LEMMA SavingKeeps ==
  ASSUME JobTypes, ReadInv, NEW i \in 1..2, NEW j \in MessageJob, Goes(i, j), NEW b \in BoxRow,
         jobs[i].k = "save", jobs[i].m = b.id, box' = Append(box, b), ReadSane(b),
         j.k \in {"attribute", "free"}, disturbed \subseteq disturbed',
         origin' = origin, replied' = replied, assignee' = assignee, marker' = marker, opened' = opened,
         j.k = "attribute" => ~origin /\ ("reply" \in disturbed' \/ \A o \in 1..2 : jobs[o].k # "attribute")
  PROVE  JobTypes' /\ ReadInv'
<1>1. JobTypes' /\ jobs'[i] = j /\ \A o \in 1..2 : o # i => jobs'[o] = jobs[o]
  BY JobGoesOn
<1>2. /\ box \in Seq(BoxRow) /\ Len(box) \in Nat /\ box' \in Seq(BoxRow) /\ Len(box') = Len(box) + 1
      /\ box'[Len(box) + 1] = b /\ \A n \in 1..Len(box) : box'[n] = box[n]
  BY DEF ReadInv, ReadTypes
<1>3. ReadTypes' /\ opened' = marker'
  BY <1>2 DEF ReadInv, ReadTypes
<1>4. \A n \in 1..Len(box') : ReadSane(box[n])'
  <2> SUFFICES ASSUME NEW n \in 1..Len(box')  PROVE ReadSane(box'[n])
    BY DEF ReadSane
  <2>1. CASE n \in 1..Len(box)
    BY <1>2, <2>1 DEF ReadInv
  <2>2. CASE n = Len(box) + 1
    BY <1>2, <2>2
  <2> QED  BY <1>2, <2>1, <2>2
<1>5. ASSUME NEW o \in 1..2  PROVE ReadJobSane(jobs[o])'
  <2>1. CASE o = i
    BY <1>1, <2>1 DEF ReadJobSane
  <2>2. CASE o # i
    <3>1. PICK q \in MessageJob : q = jobs[o] /\ q = jobs'[o] /\ ReadJobSane(q)
      BY <1>1, <2>2 DEF ReadInv, JobTypes
    <3>2. q.k = "update" => q.upto \in Nat
      BY <3>1, JobKinds DEF UpdateJob
    <3>3. ReadJobSane(q)'
      BY <1>2, <3>1, <3>2 DEF ReadJobSane, Incoming
    <3> QED  BY <3>1, <3>3 DEF ReadJobSane
  <2> QED  BY <2>1, <2>2
<1>6. ASSUME NEW id \in InIds  PROVE SavesCalm(id)'
  <2> SUFFICES ASSUME id \notin disturbed'  PROVE SavesCalm(id)'
    BY DEF SavesCalm
  <2>1. SavesCalm(id) /\ id \notin disturbed
    BY DEF ReadInv
  <2>2. \A n \in SavedAs(id)' : n \in SavedAs(id) \/ (n = Len(box) + 1 /\ id = b.id)
    BY <1>2 DEF SavedAs
  <2>3. id = b.id => SavedAs(id) = {} /\ \A o \in 1..2 : o # i => ~(jobs[o].k = "save" /\ jobs[o].m = id)
    BY <2>1 DEF SavesCalm
  <2>4. \A n, l \in SavedAs(id)' : n = l
    BY <2>1, <2>2, <2>3 DEF SavesCalm
  <2>5. ASSUME NEW o \in 1..2, jobs'[o].k = "save", jobs'[o].m = id  PROVE SavedAs(id)' = {} /\ jobs'[o] = jobs[o]
    <3>1. o # i /\ jobs'[o] = jobs[o]
      BY <1>1, <2>5
    <3>2. id # b.id
      BY <2>3, <2>5, <3>1
    <3>3. SavedAs(id) = {}
      BY <2>1, <2>5, <3>1 DEF SavesCalm
    <3> QED  BY <2>2, <3>1, <3>2, <3>3
  <2>6. \A o, q \in 1..2 : jobs'[o].k = "save" /\ jobs'[o].m = id /\ jobs'[q].k = "save" /\ jobs'[q].m = id => o = q
    BY <2>1, <2>5 DEF SavesCalm
  <2> QED  BY <2>4, <2>5, <2>6 DEF SavesCalm
<1>7. RepliesCalm'
  BY <1>1 DEF ReadInv, RepliesCalm
<1> QED  BY <1>1, <1>3, <1>4, <1>5, <1>6, <1>7 DEF ReadInv

LEMMA SaveIncomingMessageKeeps ==
  ASSUME JobTypes, ReadInv, NEW i \in 1..2, SaveIncomingMessage(i)
  PROVE  JobTypes' /\ ReadInv'
<1> DEFINE b == [id |-> jobs[i].m, echo |-> FALSE, st |-> IF bot THEN "read" ELSE "received",
                 tick |-> FALSE, why |-> IF bot THEN "bot" ELSE "none"]
           j == IF origin THEN Free0 ELSE [k |-> "attribute", m |-> jobs[i].m]
<1>1. /\ jobs[i].k = "save" /\ box' = Append(box, b)
      /\ disturbed' = IF Busy({"attribute"}) THEN disturbed \cup {"reply"} ELSE disturbed
      /\ origin' = origin /\ replied' = replied /\ assignee' = assignee /\ marker' = marker /\ opened' = opened
  BY DEF SaveIncomingMessage
<1>2. Goes(i, j)
  BY DEF SaveIncomingMessage, Ends, Goes
<1>3. jobs[i].m \in InIds
  BY <1>1, JobKinds DEF JobTypes, SaveJob
<1>4. b \in BoxRow /\ b.id = jobs[i].m /\ ReadSane(b)
  <2>1. CASE bot
    BY <1>3, <2>1 DEF BoxRow, ReadSane, Causes
  <2>2. CASE ~bot
    BY <1>3, <2>2 DEF BoxRow, ReadSane, Causes
  <2> QED  BY <2>1, <2>2
<1>5. j \in MessageJob /\ j.k \in {"attribute", "free"} /\ (j.k = "attribute" => ~origin)
  <2>1. CASE origin
    <3>1. j = Free0 /\ Free0.k = "free"
      BY <2>1 DEF Free0
    <3> HIDE DEF j
    <3> QED  BY <3>1 DEF MessageJob
  <2>2. CASE ~origin
    <3>1. j = [k |-> "attribute", m |-> jobs[i].m]
      BY <2>2
    <3> HIDE DEF j
    <3>2. j \in AttributeJob
      BY <1>3, <3>1 DEF AttributeJob
    <3> QED  BY <2>2, <3>1, <3>2 DEF MessageJob
  <2> QED  BY <2>1, <2>2
<1>6. disturbed \subseteq disturbed' /\ ("reply" \in disturbed' \/ \A o \in 1..2 : jobs[o].k # "attribute")
  BY <1>1 DEF Busy
<1> HIDE DEF b, j
<1> QED  BY <1>1, <1>2, <1>4, <1>5, <1>6, SavingKeeps

LEMMA SaveEchoKeeps ==
  ASSUME JobTypes, ReadInv, NEW i \in 1..2, SaveEcho(i)
  PROVE  JobTypes' /\ ReadInv'
<1> DEFINE b == [id |-> jobs[i].m, echo |-> TRUE, st |-> "sent", tick |-> FALSE, why |-> "none"]
<1>1. /\ jobs[i].k = "save" /\ box' = Append(box, b) /\ disturbed' = disturbed
      /\ origin' = origin /\ replied' = replied /\ assignee' = assignee /\ marker' = marker /\ opened' = opened
  BY DEF SaveEcho
<1>2. Goes(i, Free0) /\ Free0 \in MessageJob /\ Free0.k = "free"
  BY JobEnds DEF SaveEcho
<1>3. jobs[i].m \in InIds
  BY <1>1, JobKinds DEF JobTypes, SaveJob
<1>4. b \in BoxRow /\ b.id = jobs[i].m /\ ReadSane(b)
  BY <1>3 DEF BoxRow, ReadSane
<1> HIDE DEF b
<1> QED  BY <1>1, <1>2, <1>4, SavingKeeps

LEMMA UpdateUnreadKeeps ==
  ASSUME JobTypes, ReadInv, NEW i \in 1..2, UpdateUnread(i)
  PROVE  JobTypes' /\ ReadInv'
<1> DEFINE j == jobs[i]
           why(n) == IF n \in j.rows /\ box[n].why = "none" THEN j.why
                     ELSE IF box[n].why = "none" /\ n > j.upto THEN "late" ELSE box[n].why
           tick(n) == box[n].tick \/ n \in j.rows
           now(n) == IF box[n].echo THEN box[n]
                     ELSE [box[n] EXCEPT !.st = "read", !.tick = tick(n), !.why = why(n)]
<1>1. /\ j.k = "update" /\ box' = [n \in 1..Len(box) |-> now(n)]
      /\ origin' = origin /\ replied' = replied /\ assignee' = assignee /\ marker' = marker /\ opened' = opened
      /\ disturbed' = disturbed
  BY DEF UpdateUnread
<1>2. Goes(i, Free0) /\ Free0 \in MessageJob /\ Free0.k = "free"
  BY JobEnds DEF UpdateUnread
<1>3. JobTypes' /\ jobs'[i] = Free0 /\ \A o \in 1..2 : o # i => jobs'[o] = jobs[o]
  BY <1>2, JobGoesOn
<1>4. /\ j \in UpdateJob /\ j.why \in Causes /\ j.upto \in Nat /\ ReadJobSane(j)
      /\ box \in Seq(BoxRow) /\ Len(box) \in Nat
  <2>1. j \in MessageJob
    BY DEF JobTypes
  <2> HIDE DEF j
  <2>2. j \in UpdateJob
    BY <1>1, <2>1, JobKinds
  <2>3. j.why \in Causes /\ j.upto \in Nat
    BY <2>2 DEF UpdateJob
  <2>4. ReadJobSane(j)
    BY DEF ReadInv, j
  <2>5. box \in Seq(BoxRow) /\ Len(box) \in Nat
    BY LenProperties DEF ReadInv, ReadTypes
  <2> QED  BY <2>2, <2>3, <2>4, <2>5
<1>5. ASSUME NEW n \in 1..Len(box)
      PROVE  /\ now(n) \in BoxRow /\ now(n).id = box[n].id /\ (now(n).echo <=> box[n].echo)
             /\ ~now(n).echo => now(n).st = "read" /\ (now(n).tick \/ now(n).why \in {"bot", "late"})
  <2>1. box[n] \in BoxRow /\ ReadSane(box[n])
    BY <1>4 DEF ReadInv
  <2>2. CASE box[n].echo
    <3>1. now(n) = box[n]
      BY <2>2
    <3> HIDE DEF now
    <3> QED  BY <2>1, <2>2, <3>1
  <2>3. CASE ~box[n].echo
    <3>1. now(n) = [box[n] EXCEPT !.st = "read", !.tick = tick(n), !.why = why(n)]
      BY <2>3
    <3>2. why(n) \in Causes \cup {"none", "late"} /\ tick(n) \in BOOLEAN
      BY <1>4, <2>1 DEF BoxRow
    <3>3. tick(n) \/ why(n) \in {"bot", "late"}
      <4>1. CASE n \in j.rows
        BY <4>1
      <4>2. CASE n \notin j.rows /\ box[n].st = "read"
        <5>1. box[n].tick \/ box[n].why \in {"bot", "late"}
          BY <2>1, <2>3, <4>2 DEF ReadSane
        <5> QED  BY <4>2, <5>1
      <4>3. CASE n \notin j.rows /\ box[n].st # "read"
        <5>1. box[n].why = "none"
          BY <2>1, <2>3, <4>3 DEF ReadSane
        <5>2. ~(n <= j.upto)
          BY <1>1, <1>4, <2>3, <4>3 DEF ReadJobSane, Incoming
        <5>3. n > j.upto
          BY <1>4, <5>2
        <5> QED  BY <4>3, <5>1, <5>3
      <4> QED  BY <4>1, <4>2, <4>3
    <3> HIDE DEF now, why, tick
    <3>4. now(n) \in BoxRow /\ now(n).id = box[n].id /\ ~now(n).echo /\ now(n).st = "read" /\ now(n).why = why(n)
      BY <2>1, <2>3, <3>1, <3>2 DEF BoxRow
    <3>5. tick(n) => now(n).tick
      BY <2>1, <3>1, <3>2 DEF BoxRow
    <3> QED  BY <2>3, <3>3, <3>4, <3>5
  <2> QED  BY <2>2, <2>3
<1> HIDE DEF now
<1>6. /\ box' \in Seq(BoxRow) /\ Len(box') = Len(box) /\ \A n \in 1..Len(box) : box'[n] = now(n)
  BY <1>1, <1>4, <1>5
<1>7. ReadTypes' /\ opened' = marker'
  BY <1>1, <1>6 DEF ReadInv, ReadTypes
<1>8. \A n \in 1..Len(box') : ReadSane(box[n])'
  <2> SUFFICES ASSUME NEW n \in 1..Len(box)  PROVE ReadSane(now(n))
    BY <1>6 DEF ReadSane
  <2> QED  BY <1>5 DEF ReadSane
<1>9. ASSUME NEW o \in 1..2  PROVE ReadJobSane(jobs[o])'
  <2>1. CASE o = i
    BY <1>2, <1>3, <2>1 DEF ReadJobSane
  <2>2. CASE o # i
    <3>1. jobs'[o] = jobs[o] /\ ReadJobSane(jobs[o])
      BY <1>3, <2>2 DEF ReadInv
    <3>2. \A n \in Incoming' : box'[n].st = "read"
      BY <1>5, <1>6 DEF Incoming
    <3> QED  BY <1>6, <3>1, <3>2 DEF ReadJobSane
  <2> QED  BY <2>1, <2>2
<1>10. ASSUME NEW id \in InIds  PROVE SavesCalm(id)'
  <2>1. SavedAs(id)' = SavedAs(id)
    BY <1>5, <1>6 DEF SavedAs
  <2> QED  BY <1>1, <1>2, <1>3, <2>1 DEF ReadInv, SavesCalm
<1>11. RepliesCalm'
  BY <1>1, <1>2, <1>3 DEF ReadInv, RepliesCalm
<1> QED  BY <1>3, <1>7, <1>8, <1>9, <1>10, <1>11 DEF ReadInv

-----------------------------------------------------------------------------
(* Messages, as a whole                                                       *)

LEMMA MessagesInitInv == MessagesInit => MessagesIInv
<1> SUFFICES ASSUME MessagesInit  PROVE MessagesIInv
  OBVIOUS
<1>1. \A i \in 1..2 : jobs[i] = Free0 /\ jobs[i].k = "free"
  BY DEF MessagesInit, Free0
<1>2. JobTypes
  BY DEF MessagesInit, JobTypes, MessageJob
<1>3. SendTypes
  <2>1. [st |-> "none", wamid |-> FALSE, by |-> "direct", react |-> {}] \in OutRow
    BY DEF OutRow, Statuses
  <2> QED  BY <2>1 DEF MessagesInit, SendTypes
<1>4. ASSUME NEW m \in Out  PROVE SendSane(m) /\ StatusCalm(m) /\ ReactCalm(m)
  <2>1. /\ row[m].st = "none" /\ ~row[m].wamid /\ row[m].by = "direct" /\ row[m].react = {}
        /\ leg[m] = "none" /\ progress[m] = {} /\ heard[m] = {} /\ wish[m] = {}
    BY DEF MessagesInit
  <2> QED  BY <1>1, <2>1 DEF SendSane, StatusCalm, ReactCalm, OnStatus, OnReaction
<1>5. \A i \in 1..2 : SendJobSane(jobs[i]) /\ ReadJobSane(jobs[i])
  BY <1>1 DEF SendJobSane, ReadJobSane
<1>6. TallySane
  <2>1. tally.delivered = 0 /\ tally.read = 0
    BY DEF MessagesInit
  <2>2. \A s, ss : Cardinality(Counted(s, ss)) \in Nat
    BY MessagesAssumption, FS_Subset, FS_CardinalityType DEF Counted
  <2> QED  BY <2>1, <2>2 DEF TallySane
<1>7. ReadTypes /\ opened = marker /\ Len(box) = 0
  <2>1. box = << >> /\ replied = 0 /\ origin = FALSE /\ assignee = Nobody
        /\ marker = [u \in Agents |-> 0] /\ opened = [u \in Agents |-> 0]
    BY DEF MessagesInit
  <2>2. box \in Seq(BoxRow) /\ Len(box) = 0
    BY <2>1
  <2>3. marker \in [Agents -> Nat]
    BY <2>1
  <2> QED  BY <2>1, <2>2, <2>3 DEF ReadTypes
<1>8. \A id \in InIds : SavesCalm(id)
  BY <1>1, <1>7 DEF SavesCalm, SavedAs
<1>9. RepliesCalm
  BY <1>1 DEF RepliesCalm, MessagesInit
<1>10. \A n \in 1..Len(box) : ReadSane(box[n])
  BY <1>7
<1> QED  BY <1>2, <1>3, <1>4, <1>5, <1>6, <1>7, <1>8, <1>9, <1>10 DEF MessagesIInv, SendInv, ReadInv

(* Sending. *)
LEMMA OutNextKeeps ==
  ASSUME MessagesIInv, OutNext  PROVE MessagesIInv'
<1>1. JobTypes /\ SendInv /\ ReadInv
  BY DEF MessagesIInv
<1>2. ASSUME NEW m \in Out, NEW by \in {"direct", "campaign"}, Stored(m, by)
      PROVE  MessagesIInv'
  <2>1. UNCHANGED readVars /\ jobs' = jobs /\ disturbed' = disturbed
    BY <1>2 DEF Stored
  <2> QED  BY <1>1, <1>2, <2>1, StoredKeeps, ReadFrame DEF MessagesIInv, JobTypes
<1>3. ASSUME NEW m \in Out, SendMessage(m) \/ SendMediaMessage(m) \/ CampaignSend(m)
      PROVE  MessagesIInv'
  BY <1>2, <1>3 DEF SendMessage, SendMediaMessage, CampaignSend, SendOutgoingMessage
<1>4. ASSUME NEW m \in Out, NEW b \in BOOLEAN, SendTemplateMessage(m, b)  PROVE MessagesIInv'
  BY <1>2, <1>4 DEF SendTemplateMessage, SendOutgoingMessage
<1>5. ASSUME NEW m \in Out, FinalizeMessageSend(m) \/ \E b \in BOOLEAN : MetaAnswers(m, b)
      PROVE  MessagesIInv'
  <2>1. UNCHANGED readVars /\ jobs' = jobs /\ disturbed' = disturbed
    BY <1>5 DEF FinalizeMessageSend, MetaAnswers
  <2> QED  BY <1>1, <1>5, <2>1, FinalizeMessageSendKeeps, MetaAnswersKeeps, ReadFrame DEF MessagesIInv, JobTypes
<1>6. ASSUME NEW m \in Out, NEW b \in BOOLEAN, NEW who \in Reactors, Reacts(m, who, b)
      PROVE  MessagesIInv'
  <2>1. JobTypes' /\ SendInv'
    BY <1>1, <1>6, ReactsKeeps
  <2>2. UNCHANGED readVars /\ disturbed \subseteq disturbed'
    BY <1>6 DEF Reacts
  <2>3. \A i \in 1..2 : jobs'[i] = jobs[i] \/ jobs'[i].k \notin ReadKinds
    <3>1. PICK j : Starts(j) /\ j.k = "react"
      BY <1>6 DEF Reacts
    <3>2. PICK i \in 1..2 : Goes(i, j)
      BY <3>1, JobStarts
    <3> QED  BY <1>1, <3>1, <3>2 DEF Goes, JobTypes, ReadKinds
  <2> QED  BY <1>1, <2>1, <2>2, <2>3, ReadFrame DEF MessagesIInv
<1>7. ASSUME NEW m \in Out, NEW b \in BOOLEAN, HandleIncomingReaction(m, b) \/ SendReaction(m, b)
      PROVE  MessagesIInv'
  BY <1>6, <1>7 DEF HandleIncomingReaction, SendReaction, Reactors
<1>8. ASSUME NEW m \in Out, NEW s \in Receipts, MetaProgress(m, s)  PROVE MessagesIInv'
  <2>1. UNCHANGED readVars /\ jobs' = jobs /\ disturbed' = disturbed
    BY <1>8 DEF MetaProgress
  <2> QED  BY <1>1, <1>8, <2>1, MetaProgressKeeps, ReadFrame DEF MessagesIInv, JobTypes
<1>9. ASSUME NEW m \in Out, NEW s \in Receipts, UpdateMessageStatus(m, s)  PROVE MessagesIInv'
  <2>1. JobTypes' /\ SendInv'
    BY <1>1, <1>9, UpdateMessageStatusKeeps
  <2>2. UNCHANGED readVars /\ disturbed \subseteq disturbed'
    BY <1>9 DEF UpdateMessageStatus
  <2>3. \A i \in 1..2 : jobs'[i] = jobs[i] \/ jobs'[i].k \notin ReadKinds
    <3>1. CASE jobs' = jobs
      BY <3>1
    <3>2. CASE jobs' # jobs
      <4>1. PICK j : Starts(j) /\ j.k = "apply"
        BY <1>9, <3>2 DEF UpdateMessageStatus
      <4>2. PICK i \in 1..2 : Goes(i, j)
        BY <4>1, JobStarts
      <4> QED  BY <1>1, <4>1, <4>2 DEF Goes, JobTypes, ReadKinds
    <3> QED  BY <3>1, <3>2
  <2> QED  BY <1>1, <2>1, <2>2, <2>3, ReadFrame DEF MessagesIInv
<1>10. ASSUME NEW b \in BOOLEAN, ProcessMarketingPreference(b)  PROVE MessagesIInv'
  <2>1. /\ UNCHANGED <<row, leg, progress, heard, tally, recipient, wish>> /\ UNCHANGED readVars
        /\ jobs' = jobs /\ disturbed' = disturbed
    BY <1>10 DEF ProcessMarketingPreference
  <2> QED  BY <1>1, <2>1, SendFrame, ReadFrame DEF MessagesIInv, JobTypes
<1>11. ASSUME NEW i \in 1..2, ApplyStatus(i) \/ IncrementCampaignStat(i) \/ SaveReactions(i)
       PROVE  MessagesIInv'
  <2>1. JobTypes' /\ SendInv'
    BY <1>1, <1>11, ApplyStatusKeeps, IncrementCampaignStatKeeps, SaveReactionsKeeps
  <2>2. UNCHANGED readVars /\ disturbed' = disturbed
    BY <1>11 DEF ApplyStatus, IncrementCampaignStat, SaveReactions
  <2>3. PICK j \in MessageJob : Goes(i, j) /\ j.k \in {"free", "count"}
    <3>1. CASE Ends(i)
      BY <3>1, JobEnds
    <3>2. CASE ~Ends(i)
      <4>1. jobs[i].k = "apply" /\ Goes(i, [jobs[i] EXCEPT !.k = "count"])
        BY <1>11, <3>2 DEF ApplyStatus, IncrementCampaignStat, SaveReactions
      <4>2. jobs[i] \in StatusJob
        BY <1>1, <4>1, JobKinds DEF JobTypes
      <4> DEFINE new == [jobs[i] EXCEPT !.k = "count"]
      <4>3. new \in StatusJob /\ new.k = "count"
        BY <4>2 DEF StatusJob
      <4>4. Goes(i, new)
        BY <4>1
      <4> HIDE DEF new
      <4> QED  BY <4>3, <4>4 DEF MessageJob
    <3> QED  BY <3>1, <3>2
  <2>4. \A o \in 1..2 : jobs'[o] = jobs[o] \/ jobs'[o].k \notin ReadKinds
    BY <1>1, <2>3, JobGoesOn DEF ReadKinds
  <2> QED  BY <1>1, <2>1, <2>2, <2>4, ReadFrame DEF MessagesIInv
<1>12. ASSUME RecalculateCampaignStats  PROVE MessagesIInv'
  <2>1. UNCHANGED readVars /\ jobs' = jobs /\ disturbed \subseteq disturbed'
    BY <1>12 DEF RecalculateCampaignStats
  <2> QED  BY <1>1, <1>12, <2>1, RecalculateKeeps, ReadFrame DEF MessagesIInv, JobTypes
<1>13. ASSUME Restart  PROVE MessagesIInv'
  <2>1. JobTypes' /\ SendInv'
    BY <1>1, <1>13, RestartKeeps
  <2>2. UNCHANGED readVars /\ disturbed \subseteq disturbed' /\ \A i \in 1..2 : jobs'[i].k \notin ReadKinds
    BY <1>13 DEF Restart, Free0, ReadKinds
  <2> QED  BY <1>1, <2>1, <2>2, ReadFrame DEF MessagesIInv
<1> QED  BY <1>3, <1>4, <1>5, <1>7, <1>8, <1>9, <1>10, <1>11, <1>12, <1>13 DEF OutNext

(* Receiving and reading. *)
LEMMA InNextKeeps ==
  ASSUME MessagesIInv, InNext  PROVE MessagesIInv'
<1>1. JobTypes /\ SendInv /\ ReadInv
  BY DEF MessagesIInv
<1>2. ASSUME NEW i \in 1..2, NEW j, Goes(i, j), jobs[i].k \notin SendKinds, j.k \notin SendKinds,
             UNCHANGED sendVars, disturbed \subseteq disturbed'
      PROVE  SendInv'
  <2>1. \A o \in 1..2 : jobs'[o] = jobs[o] \/ (jobs[o].k \notin SendKinds /\ jobs'[o].k \notin SendKinds)
    BY <1>1, <1>2 DEF Goes, JobTypes
  <2> QED  BY <1>1, <1>2, <2>1, SendFrame DEF sendVars
<1>3. ASSUME NEW j, Starts(j), j.k \notin SendKinds, UNCHANGED sendVars, disturbed \subseteq disturbed'
      PROVE  SendInv'
  <2>1. PICK i \in 1..2 : jobs[i].k = "free" /\ Goes(i, j)
    BY <1>3, JobStarts
  <2> QED  BY <1>2, <1>3, <2>1 DEF SendKinds
<1>4. ASSUME NEW id \in InIds, ProcessMessageEcho(id) \/ ProcessIncomingMessage(id)  PROVE MessagesIInv'
  <2>1. JobTypes' /\ ReadInv'
    BY <1>1, <1>4, ProcessingKeeps
  <2>2. PICK j : Starts(j) /\ j.k = "save"
    BY <1>4 DEF ProcessMessageEcho, ProcessIncomingMessage
  <2>3. UNCHANGED sendVars /\ disturbed \subseteq disturbed'
    BY <1>4 DEF ProcessMessageEcho, ProcessIncomingMessage
  <2> QED  BY <1>3, <2>1, <2>2, <2>3 DEF MessagesIInv, SendKinds
<1>5. ASSUME NEW a \in Agents \cup {Nobody}, NEW b \in BOOLEAN, ConversationChanges(a, b)  PROVE MessagesIInv'
  <2>1. JobTypes' /\ ReadInv'
    BY <1>1, <1>5, ConversationChangesKeeps
  <2>2. UNCHANGED sendVars /\ jobs' = jobs /\ disturbed' = disturbed
    BY <1>5 DEF ConversationChanges
  <2> QED  BY <1>1, <2>1, <2>2, SendFrame DEF MessagesIInv, sendVars
<1>6. ASSUME NEW u \in Agents, MarkContactRead(u)  PROVE MessagesIInv'
  <2>1. JobTypes' /\ ReadInv'
    BY <1>1, <1>6, MarkContactReadKeeps
  <2>2. PICK j : Starts(j) /\ j.k = "mark"
    BY <1>6 DEF MarkContactRead
  <2>3. UNCHANGED sendVars /\ disturbed' = disturbed
    BY <1>6 DEF MarkContactRead
  <2> QED  BY <1>3, <2>1, <2>2, <2>3 DEF MessagesIInv, SendKinds
<1>7. ASSUME (\E u \in Agents : GetMessages(u)) \/ BotReplies  PROVE MessagesIInv'
  <2>1. PICK why \in Causes : Starts([k |-> "select", why |-> why])
    BY <1>7 DEF GetMessages, BotReplies, Causes
  <2>2. UNCHANGED sendVars /\ UNCHANGED readVars /\ disturbed' = disturbed
    BY <1>7 DEF GetMessages, BotReplies
  <2>3. JobTypes' /\ ReadInv'
    BY <1>1, <2>1, <2>2, SelectingKeeps
  <2>4. PICK j : Starts(j) /\ j.k = "select"
    BY <2>1
  <2> QED  BY <1>3, <2>2, <2>3, <2>4 DEF MessagesIInv, SendKinds
<1>8. ASSUME NEW i \in 1..2, SaveIncomingMessage(i) \/ SaveEcho(i) \/ AttributeCampaignReply(i)
             \/ MarkRead(i) \/ SelectUnread(i) \/ UpdateUnread(i)
      PROVE  MessagesIInv'
  <2>1. JobTypes' /\ ReadInv'
    BY <1>1, <1>8, SaveIncomingMessageKeeps, SaveEchoKeeps, AttributeKeeps, MarkReadKeeps, SelectUnreadKeeps,
       UpdateUnreadKeeps
  <2>2. UNCHANGED sendVars /\ disturbed \subseteq disturbed' /\ jobs[i].k \notin SendKinds
    BY <1>8 DEF SaveIncomingMessage, SaveEcho, AttributeCampaignReply, MarkRead, SelectUnread, UpdateUnread, SendKinds
  <2>3. PICK j : Goes(i, j) /\ j.k \in {"free", "attribute", "select", "update"}
    <3>1. CASE Ends(i)
      BY <3>1, JobEnds
    <3>2. CASE ~Ends(i)
      <4>1. \/ Goes(i, [k |-> "attribute", m |-> jobs[i].m])
            \/ \E why : Goes(i, [k |-> "select", why |-> why])
            \/ \E why, rows, upto : Goes(i, [k |-> "update", why |-> why, rows |-> rows, upto |-> upto])
        <5>1. CASE SaveIncomingMessage(i)
          BY <3>2, <5>1 DEF SaveIncomingMessage
        <5>2. CASE MarkRead(i)
          BY <3>2, <5>2 DEF MarkRead
        <5>3. CASE SelectUnread(i)
          BY <5>3 DEF SelectUnread
        <5>4. CASE SaveEcho(i) \/ AttributeCampaignReply(i) \/ UpdateUnread(i)
          BY <3>2, <5>4 DEF SaveEcho, AttributeCampaignReply, UpdateUnread
        <5> QED  BY <1>8, <5>1, <5>2, <5>3, <5>4
      <4>2. ASSUME Goes(i, [k |-> "attribute", m |-> jobs[i].m])
            PROVE  \E j : Goes(i, j) /\ j.k \in {"free", "attribute", "select", "update"}
        <5>1. [k |-> "attribute", m |-> jobs[i].m].k = "attribute"
          OBVIOUS
        <5> WITNESS [k |-> "attribute", m |-> jobs[i].m]
        <5> QED  BY <4>2, <5>1
      <4>3. ASSUME NEW why, Goes(i, [k |-> "select", why |-> why])
            PROVE  \E j : Goes(i, j) /\ j.k \in {"free", "attribute", "select", "update"}
        <5>1. [k |-> "select", why |-> why].k = "select"
          OBVIOUS
        <5> WITNESS [k |-> "select", why |-> why]
        <5> QED  BY <4>3, <5>1
      <4>4. ASSUME NEW why, NEW rows, NEW upto, Goes(i, [k |-> "update", why |-> why, rows |-> rows, upto |-> upto])
            PROVE  \E j : Goes(i, j) /\ j.k \in {"free", "attribute", "select", "update"}
        <5>1. [k |-> "update", why |-> why, rows |-> rows, upto |-> upto].k = "update"
          OBVIOUS
        <5> WITNESS [k |-> "update", why |-> why, rows |-> rows, upto |-> upto]
        <5> QED  BY <4>4, <5>1
      <4> QED  BY <4>1, <4>2, <4>3, <4>4
    <3> QED  BY <3>1, <3>2
  <2> QED  BY <1>2, <2>1, <2>2, <2>3 DEF MessagesIInv, SendKinds
<1> QED  BY <1>4, <1>5, <1>6, <1>7, <1>8 DEF InNext

LEMMA MessagesNextKeeps ==
  ASSUME MessagesIInv, [MessagesNext]_messageVars  PROVE MessagesIInv'
<1>1. ASSUME UNCHANGED messageVars  PROVE MessagesIInv'
  <2>1. /\ UNCHANGED <<row, leg, progress, heard, tally, recipient, wish>> /\ UNCHANGED readVars
        /\ jobs' = jobs /\ disturbed' = disturbed
    BY <1>1 DEF messageVars, readVars
  <2> QED  BY <2>1, SendFrame, ReadFrame DEF MessagesIInv, JobTypes
<1> QED  BY <1>1, OutNextKeeps, InNextKeeps DEF MessagesNext

(* The inductive invariant of messages: one job at a time is about a status,  *)
(* a reaction or a stored row unless that is noted, a receipt under way moves *)
(* its row to the furthest status heard, counters stay below the rows they    *)
(* may count, and what a list of unread rows leaves out had been read.        *)
THEOREM MessagesInvariant == MessagesSpec => []MessagesIInv
BY MessagesInitInv, MessagesNextKeeps, PTL DEF MessagesSpec

(* The largest of a set of numbers. *)
LEMMA MaxIs ==
  ASSUME NEW S, S \subseteq Nat, NEW x \in S, \A y \in S : x >= y
  PROVE  Max(S) = x
<1>1. \A z \in S : (\A y \in S : z >= y) => z = x
  BY SMT
<1> QED  BY <1>1 DEF Max

LEMMA MessagesIInvSound == MessagesIInv => MessagesInv
<1> SUFFICES ASSUME MessagesIInv  PROVE MessagesInv
  OBVIOUS
<1>1. StatusIsBest
  <2> SUFFICES ASSUME NEW m \in Out, row[m].wamid, ~BusyWith({"apply"}, m), m \notin disturbed
               PROVE  StatusPriority(row[m].st) = Max({StatusPriority(s) : s \in heard[m] \cup {"sent"}})
    BY DEF StatusIsBest
  <2> DEFINE S == {StatusPriority(s) : s \in heard[m] \cup {"sent"}}
  <2>1. SendSane(m) /\ StatusCalm(m)
    BY DEF MessagesIInv, SendInv
  <2>2. row[m].st \in heard[m] \cup {"sent"}
    BY <2>1 DEF SendSane
  <2>3. Furthest(m, row[m].st)
    BY <2>1 DEF StatusCalm
  <2>4. S \subseteq Nat
    BY Priorities
  <2>5. StatusPriority(row[m].st) \in S /\ \A y \in S : StatusPriority(row[m].st) >= y
    BY <2>2, <2>3 DEF Furthest
  <2> HIDE DEF S
  <2>6. Max(S) = StatusPriority(row[m].st)
    BY <2>4, <2>5, MaxIs
  <2> QED  BY <2>6 DEF S
<1>2. CountersHonest
  <2> DEFINE told(ss) == {m \in Out : row[m].by = "campaign" /\ heard[m] \cap ss # {}}
  <2> SUFFICES ASSUME disturbed \cap Out = {}
               PROVE  /\ tally.delivered <= Cardinality(told({"delivered", "read"}))
                      /\ tally.read <= Cardinality(told({"read"}))
                      /\ \A m \in Out : row[m].by = "campaign" /\ leg[m] = "done" /\ ~BusyWith({"apply", "count"}, m) =>
                           recipient[m] = row[m].st
    BY DEF CountersHonest
  <2>1. ASSUME NEW s, NEW ss, ss \subseteq {"delivered", "read"}
        PROVE  /\ Counted(s, ss) \subseteq told(ss) /\ IsFiniteSet(told(ss))
               /\ Cardinality(Counted(s, ss)) \in Nat /\ Cardinality(told(ss)) \in Nat
               /\ Cardinality(Counted(s, ss)) <= Cardinality(told(ss))
    <3>1. Counted(s, ss) \subseteq told(ss)
      <4> SUFFICES ASSUME NEW m \in Counted(s, ss)  PROVE heard[m] \cap ss # {}
        BY DEF Counted
      <4>1. m \in Out /\ row[m].st \in ss /\ SendSane(m)
        BY DEF Counted, MessagesIInv, SendInv
      <4>2. row[m].wamid
        BY <2>1, <4>1 DEF SendSane
      <4>3. row[m].st \in heard[m]
        BY <2>1, <4>1, <4>2 DEF SendSane
      <4> QED  BY <4>1, <4>3
    <3>2. IsFiniteSet(told(ss))
      BY MessagesAssumption, FS_Subset
    <3> HIDE DEF told
    <3> QED  BY <3>1, <3>2, FS_Subset, FS_CardinalityType
  <2>2. tally.delivered <= Cardinality(Counted("delivered", {"delivered", "read"})) /\ tally.delivered \in Nat
    BY DEF MessagesIInv, SendInv, TallySane, SendTypes
  <2>3. tally.read <= Cardinality(Counted("read", {"read"})) /\ tally.read \in Nat
    BY DEF MessagesIInv, SendInv, TallySane, SendTypes
  <2>4. \A m \in Out : row[m].by = "campaign" /\ leg[m] = "done" /\ ~BusyWith({"apply", "count"}, m) =>
          recipient[m] = row[m].st
    BY DEF MessagesIInv, SendInv, StatusCalm
  <2> HIDE DEF told
  <2>5. tally.delivered <= Cardinality(told({"delivered", "read"}))
    <3>1. /\ Cardinality(Counted("delivered", {"delivered", "read"})) \in Nat
          /\ Cardinality(told({"delivered", "read"})) \in Nat
          /\ Cardinality(Counted("delivered", {"delivered", "read"})) <= Cardinality(told({"delivered", "read"}))
      BY <2>1
    <3> QED  BY <2>2, <3>1
  <2>6. tally.read <= Cardinality(told({"read"}))
    <3>1. /\ Cardinality(Counted("read", {"read"})) \in Nat /\ Cardinality(told({"read"})) \in Nat
          /\ Cardinality(Counted("read", {"read"})) <= Cardinality(told({"read"}))
      BY <2>1
    <3> QED  BY <2>3, <3>1
  <2> QED  BY <2>4, <2>5, <2>6
<1>3. ReactionsKept
  BY DEF ReactionsKept, MessagesIInv, SendInv, ReactCalm
<1>4. StoredOnce
  <2> SUFFICES ASSUME NEW id \in InIds, id \notin disturbed  PROVE Cardinality(SavedAs(id)) <= 1
    BY DEF StoredOnce
  <2>1. \A n, l \in SavedAs(id) : n = l
    BY DEF MessagesIInv, ReadInv, SavesCalm
  <2> QED  BY <2>1, AtMostOne
<1>5. RepliedOnce
  BY DEF RepliedOnce, MessagesIInv, ReadInv, RepliesCalm
<1>6. BadgeHonest
  BY DEF BadgeHonest, MessagesIInv, ReadInv, UnreadFor
<1>7. ReadIsReceipted
  BY DEF ReadIsReceipted, MessagesIInv, ReadInv, ReadSane, Incoming
<1>8. TicksEarned
  <2> SUFFICES ASSUME NEW n \in Incoming  PROVE box[n].why # "onlooker"
    BY DEF TicksEarned
  <2>1. box[n] \in BoxRow
    BY DEF Incoming, MessagesIInv, ReadInv, ReadTypes
  <2> QED  BY <2>1 DEF BoxRow, Causes
<1> QED  BY <1>1, <1>2, <1>3, <1>4, <1>5, <1>6, <1>7, <1>8 DEF MessagesInv

(* What the product shows of a message is what happened to it (webhook.go,    *)
(* contacts.go), however receipts, deliveries, reactions, readers and         *)
(* restarts interleave, for any messages, people and bounds.                  *)
THEOREM MessagesAreShownRight == MessagesSpec => []MessagesInv
BY MessagesInvariant, MessagesIInvSound, PTL

-----------------------------------------------------------------------------
(* Accounts, call menus and configuration caches: the shape of the state      *)

AccountRow == [st : {No, "live", "gone"}, name : Names \cup {No}, phone : Phones \cup {No},
               dflt : BOOLEAN, ver : {0, 1}]
AccountTable == [Accounts -> AccountRow]
MenuRow == [st : {No, "live", "gone"}, acct : Names, start : BOOLEAN]
MenuTable == [Menus -> MenuRow]

InsertRequest == [do : {"insert"}, a : Accounts, seen : AccountTable, forget : BOOLEAN, row : AccountRow]
SaveRequest == [do : {"update", "save"}, a : Accounts, seen : AccountTable, row : AccountRow]
ForgetRequest == [do : {"forget"}, phone : Phones \cup {No}]
ReferRequest == [do : {"refer"}, t : Tables, name : Names]
MenuRequest == [do : {"menu"}, m : Menus, seen : MenuTable, row : MenuRow]
ConfigRequest ==
  {Resting} \cup InsertRequest \cup SaveRequest \cup ForgetRequest \cup ReferRequest \cup MenuRequest

ConfigTypes ==
  /\ acct \in AccountTable /\ DOMAIN refs = Tables /\ menu \in MenuTable
  /\ DOMAIN acache = Phones /\ DOMAIN afill = Phones
  /\ hreq \in [Handlers -> ConfigRequest]
  /\ crossed \in BOOLEAN /\ dropping \in Nat /\ excuse \in BOOLEAN

(* No account of a table but one is a live default. *)
NoOtherDefault(tab, a) == \A b \in Accounts \ {a} : tab[b].st = "live" => ~tab[b].dflt

(* At most one account is the default, said without counting. *)
OneDefault == \A a, b \in LiveAccounts : acct[a].dflt /\ acct[b].dflt => a = b

(* A row to insert is still free, and was when the request looked; one that   *)
(* is to be the default has cleared the others.                               *)
InsertIsSane(tab, r) ==
  r.do = "insert" =>
    /\ tab[r.a].st = No /\ r.seen[r.a].st = No /\ r.row.st = "live"
    /\ r.row.dflt => NoOtherDefault(r.seen, r.a)

(* A row to save exists, and one that is to be the default had no rival, or   *)
(* will have none, in what the request read.                                  *)
SaveIsSane(tab, over, r) ==
  r.do \in {"update", "save"} =>
    /\ tab[r.a].st # No /\ r.row.st # No
    /\ r.do = "update" => r.row.st = "live" /\ r.seen[r.a].st = "live"
    /\ ~over /\ r.row.st = "live" /\ r.row.dflt /\ (r.do = "save" \/ r.seen[r.a].dflt) =>
         NoOtherDefault(r.seen, r.a)

(* The menu a request will write has no rival in what it left behind, unless  *)
(* it is moved.                                                               *)
NoOtherStart(tab, m, n) ==
  \A o \in Menus \ {m} : tab[o].st = "live" /\ tab[o].acct = n => ~tab[o].start
OneStart ==
  \A m, o \in Menus : menu[m].st = "live" /\ menu[o].st = "live" /\ menu[m].acct = menu[o].acct
                      /\ menu[m].start /\ menu[o].start => m = o
MenuIsSane(over, r) ==
  r.do = "menu" /\ ~over /\ r.row.start
  /\ (r.seen[r.m].st = "live" => r.seen[r.m].acct = r.row.acct) =>
    NoOtherStart(r.seen, r.m, r.row.acct)

(* Two requests never insert the same row. *)
InsertsApart ==
  \A s, o \in Handlers : hreq[s].do = "insert" /\ hreq[o].do = "insert" /\ hreq[s].a = hreq[o].a => s = o

RequestsSane ==
  \A s \in Handlers : 
    InsertIsSane(acct, hreq[s]) /\ SaveIsSane(acct, crossed, hreq[s]) /\ MenuIsSane(crossed, hreq[s])

ConfigIInv ==
  /\ ConfigTypes
  /\ RequestsSane
  /\ InsertsApart
  /\ ~crossed => OneDefault /\ OneStart
  /\ ReferencesResolve /\ AccountCacheFresh /\ CopyIsCurrent

-----------------------------------------------------------------------------
(* Requests                                                                   *)

LEMMA RequestKinds ==
  ASSUME NEW r \in ConfigRequest
  PROVE  /\ r.do = "insert" => r \in InsertRequest
         /\ r.do \in {"update", "save"} => r \in SaveRequest
         /\ r.do = "forget" => r \in ForgetRequest
         /\ r.do = "refer" => r \in ReferRequest
         /\ r.do = "menu" => r \in MenuRequest
<1>1. r \in InsertRequest => r.do = "insert"
  BY DEF InsertRequest
<1>2. r \in SaveRequest => r.do \in {"update", "save"}
  BY DEF SaveRequest
<1>3. r \in ForgetRequest => r.do = "forget"
  BY DEF ForgetRequest
<1>4. r \in ReferRequest => r.do = "refer"
  BY DEF ReferRequest
<1>5. r \in MenuRequest => r.do = "menu"
  BY DEF MenuRequest
<1>6. r = Resting => r.do = "none"
  BY DEF Resting, No
<1> QED  BY <1>1, <1>2, <1>3, <1>4, <1>5, <1>6 DEF ConfigRequest

(* A request goes on, the others stay where they are.                         *)
LEMMA RequestGoesOn ==
  ASSUME ConfigTypes, NEW s \in Handlers, NEW r \in ConfigRequest, Set0(s, r)
  PROVE  /\ hreq' \in [Handlers -> ConfigRequest]
         /\ hreq'[s] = r
         /\ \A o \in Handlers \ {s} : hreq'[o] = hreq[o]
BY DEF ConfigTypes, Set0

(* What the requests under way rely on is left by a step that gives no row    *)
(* back, takes none that is to be inserted, and forgets no overlap.           *)
LEMMA OthersStaySane ==
  ASSUME ConfigIInv, NEW s \in Handlers, NEW r \in ConfigRequest, Set0(s, r),
         crossed => crossed',
         \A a \in Accounts : acct[a].st # No => acct'[a].st # No,
         \A o \in Handlers \ {s} : hreq[o].do = "insert" => acct'[hreq[o].a].st = No,
         InsertIsSane(acct', r), SaveIsSane(acct', crossed', r), MenuIsSane(crossed', r),
         r.do = "insert" => \A o \in Handlers \ {s} : hreq[o].do = "insert" => hreq[o].a # r.a
  PROVE  RequestsSane' /\ InsertsApart'
<1>1. hreq'[s] = r /\ \A o \in Handlers \ {s} : hreq'[o] = hreq[o]
  BY RequestGoesOn DEF ConfigIInv
<1>2. ASSUME NEW o \in Handlers
      PROVE  /\ InsertIsSane(acct', hreq'[o])
             /\ SaveIsSane(acct', crossed', hreq'[o])
             /\ MenuIsSane(crossed', hreq'[o])
  <2>1. CASE o = s
    BY <1>1, <2>1
  <2>2. CASE o # s
    <3> DEFINE q == hreq[o]
    <3>1. hreq'[o] = q /\ q \in ConfigRequest
      BY <1>1, <2>2 DEF ConfigIInv, ConfigTypes
    <3>2. InsertIsSane(acct, q) /\ SaveIsSane(acct, crossed, q) /\ MenuIsSane(crossed, q)
      BY DEF ConfigIInv, RequestsSane
    <3>3. InsertIsSane(acct', q)
      BY <2>2, <3>2 DEF InsertIsSane
    <3>4. SaveIsSane(acct', crossed', q)
      <4>1. q.do \in {"update", "save"} => q.a \in Accounts
        BY <3>1, RequestKinds DEF SaveRequest
      <4> HIDE DEF q
      <4> QED  BY <4>1, <3>2 DEF SaveIsSane
    <3>5. MenuIsSane(crossed', q)
      BY <3>2 DEF MenuIsSane
    <3> QED  BY <3>1, <3>3, <3>4, <3>5
  <2> QED  BY <2>1, <2>2
<1>3. RequestsSane'
  BY <1>2 DEF RequestsSane
<1>4. InsertsApart'
  BY <1>1 DEF InsertsApart, ConfigIInv
<1> QED  BY <1>3, <1>4

LEMMA RestingIsSane ==
  ASSUME NEW tab, NEW over
  PROVE  Resting \in ConfigRequest /\ Resting.do = "none"
         /\ InsertIsSane(tab, Resting) /\ SaveIsSane(tab, over, Resting) /\ MenuIsSane(over, Resting)
BY DEF Resting, No, ConfigRequest, InsertIsSane, SaveIsSane, MenuIsSane

LEMMA ForgetIsSane ==
  ASSUME NEW tab, NEW over, NEW p \in Phones \cup {No}
  PROVE  LET r == [do |-> "forget", phone |-> p] IN
         /\ r \in ConfigRequest /\ r.do = "forget"
         /\ InsertIsSane(tab, r) /\ SaveIsSane(tab, over, r) /\ MenuIsSane(over, r)
BY DEF ConfigRequest, ForgetRequest, InsertIsSane, SaveIsSane, MenuIsSane

-----------------------------------------------------------------------------
(* Accounts                                                                   *)

LEMMA UndefaultedClears ==
  ASSUME acct \in AccountTable
  PROVE  /\ Undefaulted \in AccountTable
         /\ \A a \in Accounts :
              /\ Undefaulted[a].st = acct[a].st /\ Undefaulted[a].name = acct[a].name
              /\ Undefaulted[a].phone = acct[a].phone /\ Undefaulted[a].ver = acct[a].ver
              /\ Undefaulted[a].st = "live" => ~Undefaulted[a].dflt
<1>1. ASSUME NEW a \in Accounts
      PROVE  /\ Undefaulted[a] \in AccountRow
             /\ Undefaulted[a].st = acct[a].st /\ Undefaulted[a].name = acct[a].name
             /\ Undefaulted[a].phone = acct[a].phone /\ Undefaulted[a].ver = acct[a].ver
             /\ Undefaulted[a].st = "live" => ~Undefaulted[a].dflt
  <2>1. acct[a] \in AccountRow
    BY DEF AccountTable
  <2>2. CASE acct[a].st = "live"
    <3>1. Undefaulted[a] = [acct[a] EXCEPT !.dflt = FALSE]
      BY <2>2 DEF Undefaulted
    <3> QED  BY <2>1, <3>1 DEF AccountRow
  <2>3. CASE acct[a].st # "live"
    <3>1. Undefaulted[a] = [acct[a] EXCEPT !.dflt = acct[a].dflt]
      BY <2>3 DEF Undefaulted
    <3> QED  BY <2>1, <2>3, <3>1 DEF AccountRow
  <2> QED  BY <2>2, <2>3
<1>2. Undefaulted \in AccountTable
  BY <1>1 DEF AccountTable, Undefaulted
<1> QED  BY <1>1, <1>2

(* What the webhook uses of the accounts is not touched by clearing defaults. *)
SameRows == \A a \in Accounts :
  /\ acct'[a].st = acct[a].st /\ acct'[a].name = acct[a].name
  /\ acct'[a].phone = acct[a].phone /\ acct'[a].ver = acct[a].ver

(* The copies of the webhook stay as fresh as they were if no account with    *)
(* the number changed and no invalidation was dropped.                        *)
LEMMA CopiesStayFresh ==
  ASSUME ConfigIInv, acache' = acache, astale \subseteq astale',
         NEW s \in Handlers, NEW r \in ConfigRequest, Set0(s, r), hreq[s].do # "forget",
         \A p \in Phones : p \notin astale' =>
           \/ \A a \in Accounts : acct[a].st = "live" /\ acct[a].phone = p =>
                /\ acct'[a].st = "live" /\ acct'[a].phone = p
                /\ acct'[a].name = acct[a].name /\ acct'[a].ver = acct[a].ver
           \/ r = [do |-> "forget", phone |-> p]
  PROVE  AccountCacheFresh'
<1>1. hreq'[s] = r /\ \A o \in Handlers \ {s} : hreq'[o] = hreq[o]
  BY RequestGoesOn DEF ConfigIInv
<1> SUFFICES ASSUME NEW p \in Phones, acache[p] # Resting, p \notin astale'
             PROVE  acache[p] \in Row(p)' \/ \E o \in Handlers : hreq'[o] = [do |-> "forget", phone |-> p]
  BY DEF AccountCacheFresh
<1>2. acache[p] \in Row(p) \/ \E o \in Handlers : hreq[o] = [do |-> "forget", phone |-> p]
  BY DEF ConfigIInv, AccountCacheFresh
<1>3. ASSUME NEW o \in Handlers, hreq[o] = [do |-> "forget", phone |-> p]
      PROVE  hreq'[o] = [do |-> "forget", phone |-> p]
  BY <1>1, <1>3
<1>4. CASE r = [do |-> "forget", phone |-> p]
  BY <1>1, <1>4
<1>5. CASE acache[p] \in Row(p) /\ r # [do |-> "forget", phone |-> p]
  <2>1. PICK a \in Accounts : /\ acct[a].st = "live" /\ acct[a].phone = p
                              /\ acache[p] = [do |-> "row", name |-> acct[a].name, ver |-> acct[a].ver]
    BY <1>5 DEF Row, LiveAccounts
  <2>2. /\ acct'[a].st = "live" /\ acct'[a].phone = p
        /\ acct'[a].name = acct[a].name /\ acct'[a].ver = acct[a].ver
    BY <1>5, <2>1
  <2>3. acache[p] = [do |-> "row", name |-> acct'[a].name, ver |-> acct'[a].ver]
    BY <2>1, <2>2
  <2> QED  BY <2>2, <2>3 DEF Row, LiveAccounts
<1> QED  BY <1>2, <1>3, <1>4, <1>5

(* What is left to show of a step about accounts.                             *)
LEMMA AccountStepKeeps ==
  ASSUME ConfigIInv, NEW s \in Handlers, NEW r \in ConfigRequest, Set0(s, r),
         crossed => crossed', crossed' \in BOOLEAN, UNCHANGED <<menuVars, cacheVars>>,
         acct' \in AccountTable, DOMAIN refs' = Tables, DOMAIN acache' = Phones, DOMAIN afill' = Phones,
         RequestsSane', InsertsApart', ~crossed' => OneDefault', ReferencesResolve', AccountCacheFresh'
  PROVE  ConfigIInv'
<1>1. ConfigTypes'
  BY RequestGoesOn DEF ConfigIInv, ConfigTypes, menuVars, cacheVars
<1>2. CopyIsCurrent'
  BY DEF ConfigIInv, CopyIsCurrent, cacheVars
<1>3. ~crossed' => OneStart'
  BY DEF ConfigIInv, OneStart, menuVars
<1> QED  BY <1>1, <1>2, <1>3 DEF ConfigIInv

(* A step that writes no account: a request asks, or a menu is written.       *)
LEMMA AskingKeeps ==
  ASSUME ConfigIInv, NEW s \in Handlers, NEW r \in ConfigRequest, Set0(s, r), hreq[s].do # "forget",
         crossed => crossed', crossed' \in BOOLEAN, UNCHANGED <<accountVars, cacheVars>>,
         menu' \in MenuTable, ~crossed' => OneStart',
         InsertIsSane(acct, r), SaveIsSane(acct, crossed', r), MenuIsSane(crossed', r),
         r.do = "insert" => \A o \in Handlers \ {s} : hreq[o].do = "insert" => hreq[o].a # r.a
  PROVE  ConfigIInv'
<1>0. acct' = acct /\ refs' = refs /\ acache' = acache /\ afill' = afill /\ astale' = astale
  BY DEF accountVars
<1>1. ConfigTypes'
  BY <1>0, RequestGoesOn DEF ConfigIInv, ConfigTypes, cacheVars
<1>2. CopyIsCurrent'
  BY DEF ConfigIInv, CopyIsCurrent, cacheVars
<1>3. ~crossed' => OneDefault'
  BY <1>0 DEF ConfigIInv, OneDefault, LiveAccounts
<1>4. ReferencesResolve'
  BY <1>0 DEF ConfigIInv, ReferencesResolve
<1>5. AccountCacheFresh'
  BY <1>0, CopiesStayFresh
<1>6. RequestsSane' /\ InsertsApart'
  <2>1. \A o \in Handlers \ {s} : hreq[o].do = "insert" => acct'[hreq[o].a].st = No
    BY <1>0 DEF ConfigIInv, RequestsSane, InsertIsSane
  <2> QED  BY <1>0, <2>1, OthersStaySane
<1> QED  BY <1>1, <1>2, <1>3, <1>4, <1>5, <1>6 DEF ConfigIInv

LEMMA CreateAccountKeeps ==
  ASSUME ConfigIInv, NEW s \in Handlers, CreateAccount(s)  PROVE ConfigIInv'
<1>1. PICK a \in Accounts, n \in Names, p \in Phones, d \in BOOLEAN :
        /\ acct[a].st = No /\ \A o \in Handlers : hreq[o].do = "insert" => hreq[o].a # a
        /\ acct' = IF d THEN Undefaulted ELSE acct
        /\ Set0(s, [do |-> "insert", a |-> a, seen |-> acct', forget |-> FALSE,
                    row |-> [st |-> "live", name |-> n, phone |-> p, dflt |-> d, ver |-> 0]])
  BY DEF CreateAccount
<1> DEFINE line == [st |-> "live", name |-> n, phone |-> p, dflt |-> d, ver |-> 0]
           r == [do |-> "insert", a |-> a, seen |-> acct', forget |-> FALSE, row |-> line]
<1>2. acct \in AccountTable
  BY DEF ConfigIInv, ConfigTypes
<1>3. /\ acct' \in AccountTable /\ SameRows
      /\ d => \A b \in Accounts : acct'[b].st = "live" => ~acct'[b].dflt
      /\ ~d => acct' = acct
  <2>1. CASE d
    BY <1>1, <1>2, <2>1, UndefaultedClears DEF SameRows
  <2>2. CASE ~d
    BY <1>1, <1>2, <2>2 DEF SameRows
  <2> QED  BY <2>1, <2>2
<1>4. r \in ConfigRequest /\ r.do = "insert"
  <2>1. line \in AccountRow
    BY DEF AccountRow, No
  <2> HIDE DEF line
  <2>2. r \in InsertRequest
    BY <1>3, <2>1 DEF InsertRequest
  <2> QED  BY <2>2 DEF ConfigRequest
<1>5. InsertIsSane(acct', r)
  <2>1. r.row.dflt => d
    OBVIOUS
  <2>2. r.a = a /\ r.seen = acct' /\ r.row.st = "live" /\ acct'[a].st = No
    BY <1>1, <1>3 DEF SameRows
  <2> HIDE DEF r
  <2> QED  BY <1>3, <2>1, <2>2 DEF InsertIsSane, NoOtherDefault
<1>6. SaveIsSane(acct', crossed', r) /\ MenuIsSane(crossed', r)
  BY DEF SaveIsSane, MenuIsSane
<1>7. hreq[s].do = "none" /\ crossed' = crossed /\ refs' = refs /\ acache' = acache /\ afill' = afill
      /\ astale' = astale /\ UNCHANGED <<menuVars, cacheVars>>
  BY DEF CreateAccount, Resting, No
<1>8. r.a = a
  OBVIOUS
<1> HIDE DEF r
<1>9. Set0(s, r)
  BY <1>1 DEF r
<1>10. RequestsSane' /\ InsertsApart'
  <2>1. \A o \in Handlers \ {s} : hreq[o].do = "insert" => acct'[hreq[o].a].st = No
    <3> SUFFICES ASSUME NEW o \in Handlers \ {s}, hreq[o].do = "insert"  PROVE acct'[hreq[o].a].st = No
      OBVIOUS
    <3>1. hreq[o].a \in Accounts
      BY RequestKinds DEF ConfigIInv, ConfigTypes, InsertRequest
    <3>2. acct[hreq[o].a].st = No
      BY DEF ConfigIInv, RequestsSane, InsertIsSane
    <3> QED  BY <3>1, <3>2, <1>3 DEF SameRows
  <2>2. \A b \in Accounts : acct[b].st # No => acct'[b].st # No
    BY <1>3 DEF SameRows
  <2> QED  BY <1>1, <1>4, <1>5, <1>6, <1>7, <1>8, <1>9, <2>1, <2>2, OthersStaySane
<1>11. ~crossed' => OneDefault'
  <2>1. CASE d
    BY <1>3, <2>1 DEF OneDefault, LiveAccounts
  <2>2. CASE ~d
    BY <1>3, <1>7, <2>2 DEF ConfigIInv, OneDefault, LiveAccounts
  <2> QED  BY <2>1, <2>2
<1>12. ReferencesResolve'
  BY <1>3, <1>7 DEF ConfigIInv, ReferencesResolve, SameRows
<1>13. AccountCacheFresh'
  BY <1>3, <1>4, <1>7, <1>9, CopiesStayFresh DEF SameRows
<1> QED
  <2>1. crossed' \in BOOLEAN /\ DOMAIN refs' = Tables /\ DOMAIN acache' = Phones /\ DOMAIN afill' = Phones
    BY <1>7 DEF ConfigIInv, ConfigTypes
  <2> QED  BY <1>3, <1>4, <1>7, <1>9, <1>10, <1>11, <1>12, <1>13, <2>1, AccountStepKeeps

(* A request that ends without writing. *)
LEMMA GivingUpKeeps ==
  ASSUME ConfigIInv, NEW s \in Handlers, Set0(s, Resting), hreq[s].do # "forget",
         UNCHANGED <<accountVars, crossed, menuVars, cacheVars>>
  PROVE  ConfigIInv'
<1>1. /\ Resting \in ConfigRequest /\ Resting.do = "none"
      /\ InsertIsSane(acct, Resting) /\ SaveIsSane(acct, crossed', Resting) /\ MenuIsSane(crossed', Resting)
  BY RestingIsSane
<1>2. menu' \in MenuTable /\ (~crossed' => OneStart') /\ crossed' \in BOOLEAN
  BY DEF ConfigIInv, ConfigTypes, OneStart, menuVars
<1> QED  BY <1>1, <1>2, AskingKeeps

(* A request under way has the shape of its kind. *)
LEMMA InsertShape ==
  ASSUME ConfigIInv, NEW s \in Handlers, hreq[s].do = "insert"
  PROVE  /\ hreq[s] \in InsertRequest /\ hreq[s].a \in Accounts /\ hreq[s].row \in AccountRow
         /\ hreq[s].seen \in AccountTable /\ InsertIsSane(acct, hreq[s])
BY RequestKinds DEF ConfigIInv, ConfigTypes, RequestsSane, InsertRequest

LEMMA SaveShape ==
  ASSUME ConfigIInv, NEW s \in Handlers, hreq[s].do \in {"update", "save"}
  PROVE  /\ hreq[s] \in SaveRequest /\ hreq[s].a \in Accounts /\ hreq[s].row \in AccountRow
         /\ hreq[s].seen \in AccountTable /\ SaveIsSane(acct, crossed, hreq[s])
BY RequestKinds DEF ConfigIInv, ConfigTypes, RequestsSane, SaveRequest

LEMMA InsertAccountKeeps ==
  ASSUME ConfigIInv, NEW s \in Handlers, InsertAccount(s)  PROVE ConfigIInv'
<1> DEFINE r == hreq[s]
<1>1. /\ r.do = "insert" /\ acache' = acache /\ afill' = afill /\ astale' = astale /\ refs' = refs
      /\ UNCHANGED <<menuVars, cacheVars>>
  BY DEF InsertAccount
<1>2. CASE Taken(r.row.name, r.row.phone, r.a)
  <2>1. UNCHANGED <<acct, crossed>> /\ Set0(s, Resting)
    BY <1>2 DEF InsertAccount
  <2> QED  BY <1>1, <2>1, GivingUpKeeps DEF accountVars
<1>3. CASE ~Taken(r.row.name, r.row.phone, r.a)
  <2> DEFINE q == IF r.forget THEN [do |-> "forget", phone |-> r.row.phone] ELSE Resting
  <2>1. acct' = [acct EXCEPT ![r.a] = r.row] /\ Set0(s, q)
    BY <1>3 DEF InsertAccount
  <2>2. crossed' = (crossed \/ acct # r.seen)
    BY <1>3 DEF InsertAccount
  <2>3. crossed' \in BOOLEAN /\ (crossed => crossed') /\ (~crossed' => ~crossed /\ acct = r.seen)
    BY <2>2 DEF ConfigIInv, ConfigTypes
  <2>4. r.a \in Accounts /\ r.row \in AccountRow /\ InsertIsSane(acct, r) /\ acct \in AccountTable
    BY <1>1, InsertShape DEF ConfigIInv, ConfigTypes
  <2>5. acct[r.a].st = No /\ r.row.st = "live" /\ (r.row.dflt => NoOtherDefault(r.seen, r.a))
    BY <1>1, <2>4 DEF InsertIsSane
  <2>6. /\ q \in ConfigRequest /\ q.do \in {"none", "forget"}
        /\ InsertIsSane(acct', q) /\ SaveIsSane(acct', crossed', q) /\ MenuIsSane(crossed', q)
    <3>1. r.row.phone \in Phones \cup {No}
      BY <2>4 DEF AccountRow
    <3>2. CASE r.forget
      <4>1. q = [do |-> "forget", phone |-> r.row.phone]
        BY <3>2
      <4> HIDE DEF q
      <4> QED  BY <3>1, <4>1, ForgetIsSane
    <3>3. CASE ~r.forget
      BY <3>3, RestingIsSane
    <3> QED  BY <3>2, <3>3
  <2>7. acct' \in AccountTable /\ acct'[r.a] = r.row /\ \A b \in Accounts \ {r.a} : acct'[b] = acct[b]
    BY <2>1, <2>4 DEF AccountTable
  <2> HIDE DEF q
  <2>8. RequestsSane' /\ InsertsApart'
    <3>1. \A b \in Accounts : acct[b].st # No => acct'[b].st # No
      BY <2>5, <2>7
    <3>2. \A o \in Handlers \ {s} : hreq[o].do = "insert" => acct'[hreq[o].a].st = No
      <4> SUFFICES ASSUME NEW o \in Handlers \ {s}, hreq[o].do = "insert"  PROVE acct'[hreq[o].a].st = No
        OBVIOUS
      <4>1. hreq[o].a \in Accounts /\ acct[hreq[o].a].st = No
        BY InsertShape DEF InsertIsSane
      <4>2. hreq[o].a # r.a
        BY <1>1 DEF ConfigIInv, InsertsApart
      <4> QED  BY <2>7, <4>1, <4>2
    <3> QED  BY <2>1, <2>3, <2>6, <3>1, <3>2, OthersStaySane
  <2>9. ~crossed' => OneDefault'
    <3> SUFFICES ASSUME ~crossed'  PROVE OneDefault'
      OBVIOUS
    <3>1. OneDefault /\ (r.row.dflt => NoOtherDefault(acct, r.a))
      BY <2>3, <2>5 DEF ConfigIInv
    <3> QED  BY <2>7, <3>1 DEF OneDefault, LiveAccounts, NoOtherDefault
  <2>10. ReferencesResolve'
    <3> SUFFICES ASSUME NEW t \in Tables, refs[t] # No, ~crossed'
                 PROVE  \E a \in Accounts : acct'[a].st # No /\ acct'[a].name = refs[t]
      BY <1>1 DEF ReferencesResolve
    <3>1. PICK a \in Accounts : acct[a].st # No /\ acct[a].name = refs[t]
      BY <2>3 DEF ConfigIInv, ReferencesResolve
    <3> QED  BY <2>5, <2>7, <3>1
  <2>11. AccountCacheFresh'
    <3>1. \A a \in Accounts : acct[a].st = "live" => acct'[a] = acct[a]
      BY <2>5, <2>7 DEF No
    <3> QED  BY <1>1, <2>1, <2>6, <3>1, CopiesStayFresh
  <2> QED
    <3>1. DOMAIN refs' = Tables /\ DOMAIN acache' = Phones /\ DOMAIN afill' = Phones
      BY <1>1 DEF ConfigIInv, ConfigTypes
    <3> QED  BY <1>1, <2>1, <2>3, <2>6, <2>7, <2>8, <2>9, <2>10, <2>11, <3>1, AccountStepKeeps
<1> QED  BY <1>2, <1>3

LEMMA UpdateAccountKeeps ==
  ASSUME ConfigIInv, NEW s \in Handlers, UpdateAccount(s)  PROVE ConfigIInv'
<1>1. PICK a \in LiveAccounts, n \in Names, p \in Phones, d \in BOOLEAN :
        Set0(s, [do |-> "update", a |-> a, seen |-> acct,
                 row |-> [acct[a] EXCEPT !.name = n, !.phone = p, !.dflt = d, !.ver = 1]])
  BY DEF UpdateAccount
<1> DEFINE line == [acct[a] EXCEPT !.name = n, !.phone = p, !.dflt = d, !.ver = 1]
           r == [do |-> "update", a |-> a, seen |-> acct, row |-> line]
<1>2. acct \in AccountTable /\ a \in Accounts /\ acct[a] \in AccountRow /\ acct[a].st = "live"
  BY DEF ConfigIInv, ConfigTypes, AccountTable, LiveAccounts
<1>3. line \in AccountRow /\ line.st = "live"
  BY <1>2 DEF AccountRow
<1> HIDE DEF line
<1>4. r \in SaveRequest
  BY <1>2, <1>3 DEF SaveRequest
<1>5. r \in ConfigRequest /\ r.do = "update" /\ r.row = line /\ r.a = a /\ r.seen = acct
  BY <1>4 DEF ConfigRequest
<1>6. Set0(s, r)
  BY <1>1 DEF line
<1>7. hreq[s].do = "none" /\ UNCHANGED <<accountVars, crossed, menuVars, cacheVars>>
  BY DEF UpdateAccount, Resting, No
<1> HIDE DEF r
<1>8. SaveIsSane(acct, crossed', r)
  <2>1. ~crossed' /\ acct[a].dflt => NoOtherDefault(acct, a)
    BY <1>2, <1>7 DEF ConfigIInv, OneDefault, LiveAccounts, NoOtherDefault
  <2> QED  BY <1>2, <1>3, <1>5, <2>1 DEF SaveIsSane, No
<1>9. InsertIsSane(acct, r) /\ MenuIsSane(crossed', r)
  BY <1>5 DEF InsertIsSane, MenuIsSane
<1>10. menu' \in MenuTable /\ (~crossed' => OneStart') /\ crossed' \in BOOLEAN
  BY <1>7 DEF ConfigIInv, ConfigTypes, OneStart, menuVars
<1> QED  BY <1>5, <1>6, <1>7, <1>8, <1>9, <1>10, AskingKeeps

LEMMA ClearDefaultsKeeps ==
  ASSUME ConfigIInv, NEW s \in Handlers, ClearDefaults(s)  PROVE ConfigIInv'
<1> DEFINE r == hreq[s]
           q == [r EXCEPT !.do = "save", !.seen = [acct' EXCEPT ![r.a] = r.seen[r.a]]]
<1>1. /\ r.do = "update" /\ acache' = acache /\ afill' = afill /\ astale' = astale /\ refs' = refs
      /\ UNCHANGED <<menuVars, cacheVars>> /\ Set0(s, q)
      /\ acct' = IF r.row.dflt /\ ~r.seen[r.a].dflt THEN Undefaulted ELSE acct
  BY DEF ClearDefaults
<1>2. crossed' = (crossed \/ acct # r.seen)
  BY DEF ClearDefaults
<1>3. crossed' \in BOOLEAN /\ (crossed => crossed') /\ (~crossed' => ~crossed /\ acct = r.seen)
  BY <1>2 DEF ConfigIInv, ConfigTypes
<1>4. /\ r \in SaveRequest /\ r.a \in Accounts /\ r.row \in AccountRow /\ r.seen \in AccountTable
      /\ SaveIsSane(acct, crossed, r) /\ acct \in AccountTable
  BY <1>1, SaveShape DEF ConfigIInv, ConfigTypes
<1>5. /\ acct[r.a].st # No /\ r.row.st = "live" /\ r.seen[r.a].st = "live"
      /\ ~crossed /\ r.row.dflt /\ r.seen[r.a].dflt => NoOtherDefault(r.seen, r.a)
  BY <1>1, <1>4 DEF SaveIsSane
<1>6. /\ acct' \in AccountTable /\ SameRows
      /\ acct' = acct \/ \A b \in Accounts : acct'[b].st = "live" => ~acct'[b].dflt
      /\ r.row.dflt /\ ~r.seen[r.a].dflt => \A b \in Accounts : acct'[b].st = "live" => ~acct'[b].dflt
      /\ r.row.dflt /\ r.seen[r.a].dflt => acct' = acct
  <2>1. CASE r.row.dflt /\ ~r.seen[r.a].dflt
    BY <1>1, <1>4, <2>1, UndefaultedClears DEF SameRows
  <2>2. CASE ~(r.row.dflt /\ ~r.seen[r.a].dflt)
    BY <1>1, <1>4, <2>2 DEF SameRows
  <2> QED  BY <2>1, <2>2
<1>7. /\ q \in SaveRequest /\ q.do = "save" /\ q.a = r.a /\ q.row = r.row
      /\ \A b \in Accounts \ {r.a} : q.seen[b] = acct'[b]
  <2> DEFINE tab == [acct' EXCEPT ![r.a] = r.seen[r.a]]
  <2>1. r.seen[r.a] \in AccountRow
    BY <1>4 DEF AccountTable
  <2>2. tab \in AccountTable /\ \A b \in Accounts \ {r.a} : tab[b] = acct'[b]
    BY <1>4, <1>6, <2>1 DEF AccountTable
  <2> HIDE DEF tab
  <2>3. q = [r EXCEPT !.do = "save", !.seen = tab]
    BY DEF tab
  <2> HIDE DEF q
  <2> QED  BY <1>4, <2>2, <2>3 DEF SaveRequest
<1> HIDE DEF q
<1>8. SaveIsSane(acct', crossed', q)
  <2>1. acct'[r.a].st # No
    BY <1>4, <1>5, <1>6 DEF SameRows
  <2>2. ASSUME ~crossed', r.row.dflt  PROVE NoOtherDefault(q.seen, r.a)
    <3>1. CASE r.seen[r.a].dflt
      BY <1>3, <1>5, <1>6, <1>7, <2>2, <3>1 DEF NoOtherDefault
    <3>2. CASE ~r.seen[r.a].dflt
      BY <1>6, <1>7, <2>2, <3>2 DEF NoOtherDefault
    <3> QED  BY <3>1, <3>2
  <2> QED  BY <1>5, <1>7, <2>1, <2>2 DEF SaveIsSane, No
<1>9. q \in ConfigRequest /\ InsertIsSane(acct', q) /\ MenuIsSane(crossed', q)
  BY <1>7 DEF ConfigRequest, InsertIsSane, MenuIsSane
<1>10. RequestsSane' /\ InsertsApart'
  <2>1. \A o \in Handlers \ {s} : hreq[o].do = "insert" => acct'[hreq[o].a].st = No
    <3> SUFFICES ASSUME NEW o \in Handlers \ {s}, hreq[o].do = "insert"  PROVE acct'[hreq[o].a].st = No
      OBVIOUS
    <3>1. hreq[o].a \in Accounts /\ acct[hreq[o].a].st = No
      BY InsertShape DEF InsertIsSane
    <3> QED  BY <3>1, <1>6 DEF SameRows
  <2>2. \A b \in Accounts : acct[b].st # No => acct'[b].st # No
    BY <1>6 DEF SameRows
  <2> QED  BY <1>1, <1>3, <1>7, <1>8, <1>9, <2>1, <2>2, OthersStaySane
<1>11. ~crossed' => OneDefault'
  BY <1>3, <1>6 DEF ConfigIInv, OneDefault, LiveAccounts
<1>12. ReferencesResolve'
  BY <1>1, <1>3, <1>6 DEF ConfigIInv, ReferencesResolve, SameRows
<1>13. AccountCacheFresh'
  BY <1>1, <1>6, <1>9, CopiesStayFresh DEF SameRows
<1> QED
  <2>1. DOMAIN refs' = Tables /\ DOMAIN acache' = Phones /\ DOMAIN afill' = Phones
    BY <1>1 DEF ConfigIInv, ConfigTypes
  <2> QED  BY <1>1, <1>3, <1>6, <1>9, <1>10, <1>11, <1>12, <1>13, <2>1, AccountStepKeeps

LEMMA SaveAccountKeeps ==
  ASSUME ConfigIInv, NEW s \in Handlers, SaveAccount(s)  PROVE ConfigIInv'
<1> DEFINE r == hreq[s]
           old == r.seen[r.a]
<1>1. r.do = "save" /\ acache' = acache /\ afill' = afill /\ UNCHANGED <<menuVars, cacheVars>>
  BY DEF SaveAccount
<1>2. CASE Taken(r.row.name, r.row.phone, r.a)
  <2>1. UNCHANGED <<acct, refs, crossed, astale>> /\ Set0(s, Resting)
    BY <1>2 DEF SaveAccount
  <2> QED  BY <1>1, <2>1, GivingUpKeeps DEF accountVars
<1>3. CASE ~Taken(r.row.name, r.row.phone, r.a)
  <2> DEFINE q == [do |-> "forget", phone |-> r.row.phone]
  <2>1. /\ acct' = [acct EXCEPT ![r.a] = r.row] /\ Set0(s, q)
        /\ refs' = RenameAccount(old.name, r.row.name)
        /\ astale' = astale \cup ({old.phone, acct[r.a].phone} \ {r.row.phone})
    BY <1>3 DEF SaveAccount
  <2>2. crossed' = (crossed \/ [acct EXCEPT ![r.a].dflt = old.dflt] # r.seen)
    BY <1>3 DEF SaveAccount
  <2>3. /\ crossed' \in BOOLEAN /\ (crossed => crossed')
        /\ ~crossed' => ~crossed /\ r.seen = [acct EXCEPT ![r.a].dflt = old.dflt]
    BY <2>2 DEF ConfigIInv, ConfigTypes
  <2>4. /\ r.a \in Accounts /\ r.row \in AccountRow /\ SaveIsSane(acct, crossed, r) /\ acct \in AccountTable
        /\ acct[r.a] \in AccountRow
    BY <1>1, SaveShape DEF ConfigIInv, ConfigTypes, AccountTable
  <2>5. /\ acct[r.a].st # No /\ r.row.st # No
        /\ ~crossed /\ r.row.st = "live" /\ r.row.dflt => NoOtherDefault(r.seen, r.a)
    BY <1>1, <2>4 DEF SaveIsSane
  <2>6. ~crossed' => old.name = acct[r.a].name /\ \A b \in Accounts \ {r.a} : r.seen[b] = acct[b]
    <3> SUFFICES ASSUME ~crossed'
                 PROVE  old.name = acct[r.a].name /\ \A b \in Accounts \ {r.a} : r.seen[b] = acct[b]
      OBVIOUS
    <3>1. PICK d : d = old.dflt
      OBVIOUS
    <3>2. r.seen = [acct EXCEPT ![r.a].dflt = d]
      BY <2>3, <3>1
    <3>3. r.seen[r.a] = [acct[r.a] EXCEPT !.dflt = d]
      BY <2>4, <3>2 DEF AccountTable
    <3>4. old.name = acct[r.a].name
      BY <2>4, <3>3 DEF AccountRow
    <3>5. \A b \in Accounts \ {r.a} : r.seen[b] = acct[b]
      BY <2>4, <3>2 DEF AccountTable
    <3> QED  BY <3>4, <3>5
  <2>7. /\ q \in ConfigRequest /\ q.do = "forget"
        /\ InsertIsSane(acct', q) /\ SaveIsSane(acct', crossed', q) /\ MenuIsSane(crossed', q)
    <3>1. r.row.phone \in Phones \cup {No}
      BY <2>4 DEF AccountRow
    <3> QED  BY <3>1, ForgetIsSane
  <2>8. acct' \in AccountTable /\ acct'[r.a] = r.row /\ \A b \in Accounts \ {r.a} : acct'[b] = acct[b]
    BY <2>1, <2>4 DEF AccountTable
  <2>9. q.phone = r.row.phone
    OBVIOUS
  <2>10. RequestsSane' /\ InsertsApart'
    <3>1. \A b \in Accounts : acct[b].st # No => acct'[b].st # No
      BY <2>5, <2>8
    <3>2. \A o \in Handlers \ {s} : hreq[o].do = "insert" => acct'[hreq[o].a].st = No
      <4> SUFFICES ASSUME NEW o \in Handlers \ {s}, hreq[o].do = "insert"  PROVE acct'[hreq[o].a].st = No
        OBVIOUS
      <4>1. hreq[o].a \in Accounts /\ acct[hreq[o].a].st = No
        BY InsertShape DEF InsertIsSane
      <4> QED  BY <2>5, <2>8, <4>1
    <3> HIDE DEF q
    <3> QED  BY <2>1, <2>3, <2>7, <3>1, <3>2, OthersStaySane
  <2>11. ~crossed' => OneDefault'
    <3> SUFFICES ASSUME ~crossed'  PROVE OneDefault'
      OBVIOUS
    <3>1. OneDefault /\ (r.row.st = "live" /\ r.row.dflt => NoOtherDefault(acct, r.a))
      BY <2>3, <2>5, <2>6 DEF ConfigIInv, NoOtherDefault
    <3> QED  BY <2>8, <3>1 DEF OneDefault, LiveAccounts, NoOtherDefault
  <2>12. ReferencesResolve'
    <3> SUFFICES ASSUME NEW t \in Tables, refs'[t] # No, ~crossed'
                 PROVE  \E a \in Accounts : acct'[a].st # No /\ acct'[a].name = refs'[t]
      BY DEF ReferencesResolve
    <3>1. CASE refs[t] = old.name
      <4>1. refs'[t] = r.row.name
        BY <2>1, <3>1 DEF RenameAccount
      <4> QED  BY <2>4, <2>5, <2>8, <4>1
    <3>2. CASE refs[t] # old.name
      <4>1. refs'[t] = refs[t]
        BY <2>1, <3>2 DEF RenameAccount
      <4>2. PICK a \in Accounts : acct[a].st # No /\ acct[a].name = refs[t]
        BY <2>3, <4>1 DEF ConfigIInv, ReferencesResolve
      <4> QED  BY <2>6, <2>8, <3>2, <4>1, <4>2
    <3> QED  BY <3>1, <3>2
  <2>13. AccountCacheFresh'
    <3>1. ASSUME NEW p \in Phones, p \notin astale', p # r.row.phone, NEW a \in Accounts,
                 acct[a].st = "live", acct[a].phone = p
          PROVE  acct'[a] = acct[a]
      <4>1. p # acct[r.a].phone
        BY <2>1, <3>1
      <4> QED  BY <2>8, <3>1, <4>1
    <3>2. \A p \in Phones : p = r.row.phone => q = [do |-> "forget", phone |-> p]
      OBVIOUS
    <3>3. astale \subseteq astale'
      BY <2>1
    <3> HIDE DEF q
    <3>4. \A p \in Phones : p \notin astale' =>
           \/ \A a \in Accounts : acct[a].st = "live" /\ acct[a].phone = p =>
                /\ acct'[a].st = "live" /\ acct'[a].phone = p
                /\ acct'[a].name = acct[a].name /\ acct'[a].ver = acct[a].ver
           \/ q = [do |-> "forget", phone |-> p]
      BY <3>1, <3>2
    <3> QED  BY <1>1, <2>1, <2>7, <3>3, <3>4, CopiesStayFresh
  <2> QED
    <3>1. DOMAIN refs' = Tables /\ DOMAIN acache' = Phones /\ DOMAIN afill' = Phones
      BY <1>1, <2>1 DEF ConfigIInv, ConfigTypes, RenameAccount
    <3> HIDE DEF q
    <3> QED  BY <1>1, <2>1, <2>3, <2>7, <2>8, <2>10, <2>11, <2>12, <2>13, <3>1, AccountStepKeeps
<1> QED  BY <1>2, <1>3

(* A request to save the row as it was read, changed in what no other row     *)
(* depends on.                                                                *)
LEMMA RereadKeeps ==
  ASSUME ConfigIInv, NEW s \in Handlers, NEW a \in Accounts, NEW line \in AccountRow, hreq[s] = Resting,
         acct[a].st # No, line.st = acct[a].st, line.dflt => acct[a].dflt,
         Set0(s, [do |-> "save", a |-> a, seen |-> acct, row |-> line]),
         UNCHANGED <<accountVars, crossed, menuVars, cacheVars>>
  PROVE  ConfigIInv'
<1> DEFINE r == [do |-> "save", a |-> a, seen |-> acct, row |-> line]
<1>1. r \in SaveRequest
  BY DEF ConfigIInv, ConfigTypes, SaveRequest
<1>2. /\ r \in ConfigRequest /\ r.do = "save" /\ r.row = line /\ r.a = a /\ r.seen = acct
      /\ Set0(s, r) /\ hreq[s].do = "none"
  BY <1>1 DEF ConfigRequest, Resting, No
<1> HIDE DEF r
<1>3. SaveIsSane(acct, crossed', r)
  <2>1. ~crossed' /\ acct[a].st = "live" /\ acct[a].dflt => NoOtherDefault(acct, a)
    BY DEF ConfigIInv, OneDefault, LiveAccounts, NoOtherDefault
  <2> QED  BY <1>2, <2>1 DEF SaveIsSane
<1>4. InsertIsSane(acct, r) /\ MenuIsSane(crossed', r)
  BY <1>2 DEF InsertIsSane, MenuIsSane
<1>5. menu' \in MenuTable /\ (~crossed' => OneStart') /\ crossed' \in BOOLEAN
  BY DEF ConfigIInv, ConfigTypes, OneStart, menuVars
<1> QED  BY <1>2, <1>3, <1>4, <1>5, AskingKeeps

LEMMA ExchangeTokenKeeps ==
  ASSUME ConfigIInv, NEW s \in Handlers, ExchangeToken(s)  PROVE ConfigIInv'
<1>1. hreq[s] = Resting /\ UNCHANGED <<accountVars, crossed, menuVars, cacheVars>> /\ acct \in AccountTable
  BY DEF ExchangeToken, ConfigIInv, ConfigTypes
<1>2. ASSUME NEW a \in Accounts, NEW n \in Names, acct[a].st # No,
             Set0(s, [do |-> "save", a |-> a, seen |-> acct, row |-> Reconnected(a, n)])
      PROVE  ConfigIInv'
  <2>1. acct[a] \in AccountRow
    BY <1>1 DEF AccountTable
  <2>2. Reconnected(a, n) \in AccountRow /\ Reconnected(a, n).st = acct[a].st
        /\ (Reconnected(a, n).dflt => acct[a].dflt)
    BY <2>1 DEF Reconnected, AccountRow
  <2> QED  BY <1>1, <1>2, <2>2, RereadKeeps
<1>3. ASSUME NEW a \in Accounts, NEW n \in Names, NEW p \in Phones,
             acct[a].st = No, \A o \in Handlers : hreq[o].do = "insert" => hreq[o].a # a,
             Set0(s, [do |-> "insert", a |-> a, seen |-> acct, forget |-> TRUE,
                      row |-> [st |-> "live", name |-> n, phone |-> p, dflt |-> FALSE, ver |-> 0]])
      PROVE  ConfigIInv'
  <2> DEFINE line == [st |-> "live", name |-> n, phone |-> p, dflt |-> FALSE, ver |-> 0]
             r == [do |-> "insert", a |-> a, seen |-> acct, forget |-> TRUE, row |-> line]
  <2>1. line \in AccountRow /\ line.st = "live" /\ ~line.dflt
    BY DEF AccountRow
  <2>2. Set0(s, r)
    BY <1>3
  <2> HIDE DEF line
  <2>3. r \in InsertRequest
    BY <1>1, <2>1 DEF InsertRequest
  <2>4. r \in ConfigRequest /\ r.do = "insert" /\ r.row = line /\ r.a = a /\ r.seen = acct /\ hreq[s].do = "none"
    BY <1>1, <2>3 DEF ConfigRequest, Resting, No
  <2> HIDE DEF r
  <2>5. InsertIsSane(acct, r) /\ MenuIsSane(crossed', r) /\ SaveIsSane(acct, crossed', r)
    BY <1>3, <2>1, <2>4 DEF InsertIsSane, MenuIsSane, SaveIsSane
  <2>6. menu' \in MenuTable /\ (~crossed' => OneStart') /\ crossed' \in BOOLEAN
    BY <1>1 DEF ConfigIInv, ConfigTypes, OneStart, menuVars
  <2> QED  BY <1>1, <1>3, <2>2, <2>4, <2>5, <2>6, AskingKeeps
<1> QED  BY <1>2, <1>3 DEF ExchangeToken

LEMMA RegisterPhoneNumberKeeps ==
  ASSUME ConfigIInv, NEW s \in Handlers, RegisterPhoneNumber(s)  PROVE ConfigIInv'
<1>1. hreq[s] = Resting /\ UNCHANGED <<accountVars, crossed, menuVars, cacheVars>>
  BY DEF RegisterPhoneNumber
<1>2. PICK a \in LiveAccounts :
        Set0(s, [do |-> "save", a |-> a, seen |-> acct, row |-> [acct[a] EXCEPT !.ver = 1]])
  BY DEF RegisterPhoneNumber
<1> DEFINE line == [acct[a] EXCEPT !.ver = 1]
<1>3. a \in Accounts /\ acct[a].st # No /\ acct[a] \in AccountRow
  BY DEF LiveAccounts, No, ConfigIInv, ConfigTypes, AccountTable
<1>4. line \in AccountRow /\ line.st = acct[a].st /\ (line.dflt => acct[a].dflt)
  BY <1>3 DEF AccountRow
<1>5. Set0(s, [do |-> "save", a |-> a, seen |-> acct, row |-> line])
  BY <1>2
<1> HIDE DEF line
<1> QED  BY <1>1, <1>3, <1>4, <1>5, RereadKeeps

LEMMA DeleteAccountKeeps ==
  ASSUME ConfigIInv, NEW s \in Handlers, DeleteAccount(s)  PROVE ConfigIInv'
<1>1. PICK a \in LiveAccounts :
        acct' = [acct EXCEPT ![a].st = "gone"] /\ Set0(s, [do |-> "forget", phone |-> acct[a].phone])
  BY DEF DeleteAccount
<1>2. /\ acache' = acache /\ afill' = afill /\ astale' = astale /\ refs' = refs /\ crossed' = crossed
      /\ UNCHANGED <<menuVars, cacheVars>> /\ hreq[s].do = "none"
  BY DEF DeleteAccount, Resting, No
<1> DEFINE q == [do |-> "forget", phone |-> acct[a].phone]
<1>3. a \in Accounts /\ acct[a].st = "live" /\ acct[a] \in AccountRow /\ acct \in AccountTable
  BY DEF LiveAccounts, ConfigIInv, ConfigTypes, AccountTable
<1>4. /\ acct' \in AccountTable /\ acct'[a].st = "gone" /\ acct'[a].name = acct[a].name
      /\ \A b \in Accounts \ {a} : acct'[b] = acct[b]
  <2>1. [acct[a] EXCEPT !.st = "gone"] \in AccountRow
    BY <1>3 DEF AccountRow
  <2> QED  BY <1>1, <1>3, <2>1 DEF AccountTable, AccountRow
<1>5. /\ q \in ConfigRequest /\ q.do = "forget"
      /\ InsertIsSane(acct', q) /\ SaveIsSane(acct', crossed', q) /\ MenuIsSane(crossed', q)
  <2>1. acct[a].phone \in Phones \cup {No}
    BY <1>3 DEF AccountRow
  <2> QED  BY <2>1, ForgetIsSane
<1>6. \A p \in Phones : p = acct[a].phone => q = [do |-> "forget", phone |-> p]
  OBVIOUS
<1>7. Set0(s, q)
  BY <1>1
<1> HIDE DEF q
<1>8. RequestsSane' /\ InsertsApart'
  <2>1. \A b \in Accounts : acct[b].st # No => acct'[b].st # No
    BY <1>4 DEF No
  <2>2. \A o \in Handlers \ {s} : hreq[o].do = "insert" => acct'[hreq[o].a].st = No
    <3> SUFFICES ASSUME NEW o \in Handlers \ {s}, hreq[o].do = "insert"  PROVE acct'[hreq[o].a].st = No
      OBVIOUS
    <3>1. hreq[o].a \in Accounts /\ acct[hreq[o].a].st = No
      BY InsertShape DEF InsertIsSane
    <3> QED  BY <1>3, <1>4, <3>1 DEF No
  <2> QED  BY <1>2, <1>5, <1>7, <2>1, <2>2, OthersStaySane
<1>9. ~crossed' => OneDefault'
  BY <1>2, <1>4 DEF ConfigIInv, OneDefault, LiveAccounts
<1>10. ReferencesResolve'
  <2> SUFFICES ASSUME NEW t \in Tables, refs[t] # No, ~crossed
               PROVE  \E b \in Accounts : acct'[b].st # No /\ acct'[b].name = refs[t]
    BY <1>2 DEF ReferencesResolve
  <2>1. PICK b \in Accounts : acct[b].st # No /\ acct[b].name = refs[t]
    BY DEF ConfigIInv, ReferencesResolve
  <2> QED  BY <1>4, <2>1 DEF No
<1>11. AccountCacheFresh'
  <2>1. \A p \in Phones :
           \/ \A b \in Accounts : acct[b].st = "live" /\ acct[b].phone = p =>
                /\ acct'[b].st = "live" /\ acct'[b].phone = p
                /\ acct'[b].name = acct[b].name /\ acct'[b].ver = acct[b].ver
           \/ q = [do |-> "forget", phone |-> p]
    BY <1>4, <1>6
  <2> QED  BY <1>2, <1>5, <1>7, <2>1, CopiesStayFresh
<1> QED
  <2>1. DOMAIN refs' = Tables /\ DOMAIN acache' = Phones /\ DOMAIN afill' = Phones /\ crossed' \in BOOLEAN
    BY <1>2 DEF ConfigIInv, ConfigTypes
  <2> QED  BY <1>2, <1>4, <1>5, <1>7, <1>8, <1>9, <1>10, <1>11, <2>1, AccountStepKeeps

LEMMA InvalidateKeeps ==
  ASSUME ConfigIInv, NEW s \in Handlers, InvalidateWhatsAppAccountCache(s)  PROVE ConfigIInv'
<1> DEFINE p0 == hreq[s].phone
<1>1. /\ hreq[s].do = "forget" /\ acache' = [acache EXCEPT ![p0] = Resting] /\ astale' = astale \ {p0}
      /\ Set0(s, Resting)
      /\ acct' = acct /\ afill' = afill /\ refs' = refs /\ crossed' = crossed /\ UNCHANGED <<menuVars, cacheVars>>
  BY DEF InvalidateWhatsAppAccountCache
<1>2. /\ Resting \in ConfigRequest /\ Resting.do = "none"
      /\ InsertIsSane(acct', Resting) /\ SaveIsSane(acct', crossed', Resting) /\ MenuIsSane(crossed', Resting)
  BY RestingIsSane
<1>3. RequestsSane' /\ InsertsApart'
  <2>1. \A o \in Handlers \ {s} : hreq[o].do = "insert" => acct'[hreq[o].a].st = No
    BY <1>1 DEF ConfigIInv, RequestsSane, InsertIsSane
  <2> QED  BY <1>1, <1>2, <2>1, OthersStaySane
<1>4. ~crossed' => OneDefault'
  BY <1>1 DEF ConfigIInv, OneDefault, LiveAccounts
<1>5. ReferencesResolve'
  BY <1>1 DEF ConfigIInv, ReferencesResolve
<1>6. AccountCacheFresh'
  <2> SUFFICES ASSUME NEW p \in Phones, acache'[p] # Resting, p \notin astale'
               PROVE  acache'[p] \in Row(p)' \/ \E o \in Handlers : hreq'[o] = [do |-> "forget", phone |-> p]
    BY DEF AccountCacheFresh
  <2>1. p # p0 /\ acache'[p] = acache[p] /\ p \notin astale
    BY <1>1 DEF ConfigIInv, ConfigTypes
  <2>2. Row(p)' = Row(p)
    BY <1>1 DEF Row, LiveAccounts
  <2>3. ASSUME NEW o \in Handlers, hreq[o] = [do |-> "forget", phone |-> p]
        PROVE  hreq'[o] = hreq[o]
    <3>1. o # s
      BY <2>1, <2>3
    <3> QED  BY <1>1, <1>2, <3>1, RequestGoesOn DEF ConfigIInv
  <2> QED  BY <2>1, <2>2, <2>3 DEF ConfigIInv, AccountCacheFresh
<1> QED
  <2>1. /\ DOMAIN refs' = Tables /\ DOMAIN acache' = Phones /\ DOMAIN afill' = Phones /\ crossed' \in BOOLEAN
        /\ acct' \in AccountTable
    BY <1>1 DEF ConfigIInv, ConfigTypes
  <2> QED  BY <1>1, <1>2, <1>3, <1>4, <1>5, <1>6, <2>1, AccountStepKeeps

(* Readers write the copies only. *)
LEMMA ReadersKeep ==
  ASSUME ConfigIInv, NEW p \in Phones, LoadAccount(p) \/ StoreAccount(p)  PROVE ConfigIInv'
<1>1. /\ acct' = acct /\ refs' = refs /\ hreq' = hreq /\ crossed' = crossed /\ UNCHANGED <<menuVars, cacheVars>>
      /\ DOMAIN acache' = Phones /\ DOMAIN afill' = Phones
  BY DEF LoadAccount, StoreAccount, ConfigIInv, ConfigTypes
<1>2. ConfigTypes'
  BY <1>1 DEF ConfigIInv, ConfigTypes, menuVars, cacheVars
<1>3. RequestsSane' /\ InsertsApart'
  BY <1>1 DEF ConfigIInv, RequestsSane, InsertsApart
<1>4. ~crossed' => OneDefault' /\ OneStart'
  BY <1>1 DEF ConfigIInv, OneDefault, LiveAccounts, OneStart, menuVars
<1>5. ReferencesResolve' /\ CopyIsCurrent'
  BY <1>1 DEF ConfigIInv, ReferencesResolve, CopyIsCurrent, cacheVars
<1>6. AccountCacheFresh'
  <2> SUFFICES ASSUME NEW n \in Phones, acache'[n] # Resting, n \notin astale'
               PROVE  acache'[n] \in Row(n)' \/ \E o \in Handlers : hreq'[o] = [do |-> "forget", phone |-> n]
    BY DEF AccountCacheFresh
  <2>1. Row(n)' = Row(n)
    BY <1>1 DEF Row, LiveAccounts
  <2>2. (acache'[n] = acache[n] /\ n \notin astale) \/ acache'[n] \in Row(n)
    <3>1. CASE LoadAccount(p)
      BY <3>1 DEF LoadAccount
    <3>2. CASE StoreAccount(p)
      BY <3>2 DEF StoreAccount, ConfigIInv, ConfigTypes
    <3> QED  BY <3>1, <3>2
  <2> QED  BY <1>1, <2>1, <2>2 DEF ConfigIInv, AccountCacheFresh
<1> QED  BY <1>2, <1>3, <1>4, <1>5, <1>6 DEF ConfigIInv

LEMMA ReferencesKeep ==
  ASSUME ConfigIInv, NEW s \in Handlers, ResolveWhatsAppAccount(s) \/ InsertReference(s)  PROVE ConfigIInv'
<1>1. CASE ResolveWhatsAppAccount(s)
  <2>1. PICK t \in Tables, n \in Names : Set0(s, [do |-> "refer", t |-> t, name |-> n])
    BY <1>1 DEF ResolveWhatsAppAccount
  <2> DEFINE r == [do |-> "refer", t |-> t, name |-> n]
  <2>2. r \in ReferRequest
    BY DEF ReferRequest
  <2>3. r \in ConfigRequest /\ r.do = "refer" /\ Set0(s, r)
    BY <2>1, <2>2 DEF ConfigRequest
  <2> HIDE DEF r
  <2>4. InsertIsSane(acct, r) /\ SaveIsSane(acct, crossed', r) /\ MenuIsSane(crossed', r)
    BY <2>3 DEF InsertIsSane, SaveIsSane, MenuIsSane
  <2>5. UNCHANGED <<accountVars, crossed, menuVars, cacheVars>> /\ hreq[s].do = "none"
    BY <1>1 DEF ResolveWhatsAppAccount, Resting, No
  <2>6. menu' \in MenuTable /\ (~crossed' => OneStart') /\ crossed' \in BOOLEAN
    BY <2>5 DEF ConfigIInv, ConfigTypes, OneStart, menuVars
  <2> QED  BY <2>3, <2>4, <2>5, <2>6, AskingKeeps
<1>2. CASE InsertReference(s)
  <2> DEFINE r == hreq[s]
  <2>1. /\ r.do = "refer" /\ refs' = [refs EXCEPT ![r.t] = r.name] /\ Set0(s, Resting)
        /\ acct' = acct /\ acache' = acache /\ afill' = afill /\ astale' = astale
        /\ UNCHANGED <<menuVars, cacheVars>>
    BY <1>2 DEF InsertReference
  <2>2. crossed' = (crossed \/ ByName(r.name) = {})
    BY <1>2 DEF InsertReference
  <2>3. crossed' \in BOOLEAN /\ (crossed => crossed') /\ (~crossed' => ~crossed /\ ByName(r.name) # {})
    BY <2>2 DEF ConfigIInv, ConfigTypes
  <2>4. /\ Resting \in ConfigRequest /\ Resting.do = "none"
        /\ InsertIsSane(acct', Resting) /\ SaveIsSane(acct', crossed', Resting) /\ MenuIsSane(crossed', Resting)
    BY RestingIsSane
  <2>5. RequestsSane' /\ InsertsApart'
    <3>1. \A o \in Handlers \ {s} : hreq[o].do = "insert" => acct'[hreq[o].a].st = No
      BY <2>1 DEF ConfigIInv, RequestsSane, InsertIsSane
    <3> QED  BY <2>1, <2>3, <2>4, <3>1, OthersStaySane
  <2>6. ~crossed' => OneDefault'
    BY <2>1, <2>3 DEF ConfigIInv, OneDefault, LiveAccounts
  <2>7. ReferencesResolve'
    <3> SUFFICES ASSUME NEW t \in Tables, refs'[t] # No, ~crossed'
                 PROVE  \E a \in Accounts : acct[a].st # No /\ acct[a].name = refs'[t]
      BY <2>1 DEF ReferencesResolve
    <3>1. CASE refs'[t] = refs[t]
      BY <2>3, <3>1 DEF ConfigIInv, ReferencesResolve
    <3>2. CASE refs'[t] = r.name
      BY <2>3, <3>2 DEF ByName, LiveAccounts, No
    <3> QED  BY <2>1, <3>1, <3>2 DEF ConfigIInv, ConfigTypes
  <2>8. AccountCacheFresh'
    BY <2>1, <2>4, CopiesStayFresh
  <2> QED
    <3>1. DOMAIN refs' = Tables /\ DOMAIN acache' = Phones /\ DOMAIN afill' = Phones /\ acct' \in AccountTable
      BY <2>1 DEF ConfigIInv, ConfigTypes
    <3> QED  BY <2>1, <2>3, <2>4, <2>5, <2>6, <2>7, <2>8, <3>1, AccountStepKeeps
<1> QED  BY <1>1, <1>2

-----------------------------------------------------------------------------
(* Call menus                                                                 *)

LEMMA ClearedStarts ==
  ASSUME menu \in MenuTable, NEW n, NEW but
  PROVE  /\ StartsCleared(n, but) \in MenuTable
         /\ \A m \in Menus :
              /\ StartsCleared(n, but)[m].st = menu[m].st /\ StartsCleared(n, but)[m].acct = menu[m].acct
              /\ StartsCleared(n, but)[m].start => menu[m].start
         /\ NoOtherStart(StartsCleared(n, but), but, n)
<1> DEFINE tab == StartsCleared(n, but)
<1>1. ASSUME NEW m \in Menus
      PROVE  /\ tab[m] \in MenuRow /\ tab[m].st = menu[m].st /\ tab[m].acct = menu[m].acct
             /\ (tab[m].start => menu[m].start)
             /\ (menu[m].st = "live" /\ menu[m].acct = n /\ m # but => ~tab[m].start)
  <2>1. menu[m] \in MenuRow
    BY DEF MenuTable
  <2>2. CASE menu[m].st = "live" /\ menu[m].acct = n /\ m # but
    <3>1. tab[m] = [menu[m] EXCEPT !.start = FALSE]
      BY <2>2 DEF StartsCleared
    <3> HIDE DEF tab
    <3> QED  BY <2>1, <3>1 DEF MenuRow
  <2>3. CASE ~(menu[m].st = "live" /\ menu[m].acct = n /\ m # but)
    <3>1. tab[m] = menu[m]
      BY <2>3 DEF StartsCleared
    <3> HIDE DEF tab
    <3> QED  BY <2>1, <2>3, <3>1
  <2> QED  BY <2>2, <2>3
<1>2. tab \in MenuTable
  BY <1>1 DEF MenuTable, StartsCleared
<1> HIDE DEF tab
<1>3. NoOtherStart(tab, but, n)
  BY <1>1 DEF NoOtherStart
<1> QED  BY <1>1, <1>2, <1>3 DEF tab

(* Clearing call starts never makes a second one. *)
LEMMA FewerStarts ==
  ASSUME OneStart,
         \A m \in Menus : /\ menu'[m].st = menu[m].st /\ menu'[m].acct = menu[m].acct
                          /\ menu'[m].start => menu[m].start
  PROVE  OneStart'
BY DEF OneStart

(* A request that cleared what its menu will replace, and waits to write it.  *)
LEMMA MenuAskKeeps ==
  ASSUME ConfigIInv, NEW s \in Handlers, NEW m \in Menus, NEW n \in Names, NEW start \in BOOLEAN, hreq[s] = Resting,
         Set0(s, [do |-> "menu", m |-> m, seen |-> menu', row |-> [st |-> "live", acct |-> n, start |-> start]]),
         UNCHANGED <<accountVars, crossed, cacheVars>>, menu' \in MenuTable, ~crossed => OneStart',
         ~crossed /\ start /\ (menu'[m].st = "live" => menu'[m].acct = n) => NoOtherStart(menu', m, n)
  PROVE  ConfigIInv'
<1> DEFINE line == [st |-> "live", acct |-> n, start |-> start]
           r == [do |-> "menu", m |-> m, seen |-> menu', row |-> line]
<1>1. line \in MenuRow /\ (line.start => start) /\ line.acct = n
  BY DEF MenuRow
<1>2. Set0(s, r)
  OBVIOUS
<1> HIDE DEF line
<1>3. r \in MenuRequest
  BY <1>1 DEF MenuRequest
<1>4. r \in ConfigRequest /\ r.do = "menu" /\ r.row = line /\ r.m = m /\ r.seen = menu' /\ hreq[s].do = "none"
  BY <1>3 DEF ConfigRequest, Resting, No
<1> HIDE DEF r
<1>5. InsertIsSane(acct, r) /\ SaveIsSane(acct, crossed', r)
  BY <1>4 DEF InsertIsSane, SaveIsSane
<1>6. MenuIsSane(crossed', r)
  BY <1>1, <1>4 DEF MenuIsSane
<1>7. crossed' \in BOOLEAN
  BY DEF ConfigIInv, ConfigTypes
<1> QED  BY <1>2, <1>4, <1>5, <1>6, <1>7, AskingKeeps

LEMMA MenuRequestsKeep ==
  ASSUME ConfigIInv, NEW s \in Handlers, CreateIVRFlow(s) \/ UpdateIVRFlow(s)  PROVE ConfigIInv'
<1>1. hreq[s] = Resting /\ UNCHANGED <<accountVars, crossed, cacheVars>>
  BY DEF CreateIVRFlow, UpdateIVRFlow
<1>2. menu \in MenuTable /\ (~crossed => OneStart)
  BY DEF ConfigIInv, ConfigTypes
<1>3. CASE CreateIVRFlow(s)
  <2>1. PICK m \in Menus, n \in Names, start \in BOOLEAN :
          /\ menu' = IF start THEN StartsCleared(n, m) ELSE menu
          /\ Set0(s, [do |-> "menu", m |-> m, seen |-> menu', row |-> [st |-> "live", acct |-> n, start |-> start]])
    BY <1>3 DEF CreateIVRFlow
  <2>2. CASE start
    <3>1. menu' = StartsCleared(n, m)
      BY <2>1, <2>2
    <3>2. menu' \in MenuTable /\ (~crossed => OneStart') /\ NoOtherStart(menu', m, n)
      BY <1>2, <3>1, ClearedStarts, FewerStarts
    <3> QED  BY <1>1, <2>1, <3>2, MenuAskKeeps
  <2>3. CASE ~start
    <3>1. menu' = menu
      BY <2>1, <2>3
    <3>2. menu' \in MenuTable /\ (~crossed => OneStart')
      BY <1>2, <3>1 DEF OneStart
    <3> QED  BY <1>1, <2>1, <2>3, <3>2, MenuAskKeeps
  <2> QED  BY <2>2, <2>3
<1>4. CASE UpdateIVRFlow(s)
  <2>1. PICK m \in Menus, n \in Names, start \in BOOLEAN :
          /\ menu[m].st = "live"
          /\ menu' = IF start /\ ~menu[m].start THEN StartsCleared(menu[m].acct, m) ELSE menu
          /\ Set0(s, [do |-> "menu", m |-> m, seen |-> menu', row |-> [st |-> "live", acct |-> n, start |-> start]])
    BY <1>4 DEF UpdateIVRFlow
  <2>2. CASE start /\ ~menu[m].start
    <3>1. menu' = StartsCleared(menu[m].acct, m)
      BY <2>1, <2>2
    <3>2. /\ menu' \in MenuTable /\ (~crossed => OneStart') /\ NoOtherStart(menu', m, menu[m].acct)
          /\ menu'[m].st = "live" /\ menu'[m].acct = menu[m].acct
      BY <1>2, <2>1, <3>1, ClearedStarts, FewerStarts
    <3> QED  BY <1>1, <2>1, <3>2, MenuAskKeeps
  <2>3. CASE ~(start /\ ~menu[m].start)
    <3>1. menu' = menu
      BY <2>1, <2>3
    <3>2. menu' \in MenuTable /\ (~crossed => OneStart')
      BY <1>2, <3>1 DEF OneStart
    <3>3. ~crossed /\ start /\ menu'[m].acct = n => NoOtherStart(menu', m, n)
      BY <1>2, <2>1, <2>3, <3>1 DEF OneStart, NoOtherStart
    <3> QED  BY <1>1, <2>1, <3>1, <3>2, <3>3, MenuAskKeeps
  <2> QED  BY <2>2, <2>3
<1> QED  BY <1>3, <1>4

LEMMA WriteIVRFlowKeeps ==
  ASSUME ConfigIInv, NEW s \in Handlers, WriteIVRFlow(s)  PROVE ConfigIInv'
<1> DEFINE r == hreq[s]
           moved == menu[r.m].st = "live" /\ menu[r.m].acct # r.row.acct
<1>1. /\ r.do = "menu" /\ menu' = [menu EXCEPT ![r.m] = r.row] /\ Set0(s, Resting)
      /\ UNCHANGED <<accountVars, cacheVars>>
  BY DEF WriteIVRFlow
<1>2. crossed' = (crossed \/ menu # r.seen \/ (moved /\ r.row.start))
  BY DEF WriteIVRFlow
<1>3. /\ crossed' \in BOOLEAN /\ (crossed => crossed')
      /\ ~crossed' => ~crossed /\ menu = r.seen /\ (r.row.start => ~moved)
  BY <1>2 DEF ConfigIInv, ConfigTypes
<1>4. r.m \in Menus /\ r.row \in MenuRow /\ MenuIsSane(crossed, r) /\ menu \in MenuTable
  BY <1>1, RequestKinds DEF ConfigIInv, ConfigTypes, RequestsSane, MenuRequest
<1>5. menu' \in MenuTable /\ menu'[r.m] = r.row /\ \A o \in Menus \ {r.m} : menu'[o] = menu[o]
  BY <1>1, <1>4 DEF MenuTable
<1>6. ~crossed' => OneStart'
  <2> SUFFICES ASSUME ~crossed'  PROVE OneStart'
    OBVIOUS
  <2>1. OneStart
    BY <1>3 DEF ConfigIInv
  <2>2. r.row.start => NoOtherStart(menu, r.m, r.row.acct)
    BY <1>1, <1>3, <1>4 DEF MenuIsSane
  <2> HIDE DEF r
  <2> QED  BY <1>5, <2>1, <2>2 DEF OneStart, NoOtherStart
<1>7. /\ Resting \in ConfigRequest /\ Resting.do = "none"
      /\ InsertIsSane(acct, Resting) /\ SaveIsSane(acct, crossed', Resting) /\ MenuIsSane(crossed', Resting)
  BY RestingIsSane
<1> QED  BY <1>1, <1>3, <1>5, <1>6, <1>7, AskingKeeps

(* A menu is deleted, or a cache filled, dropped or outdated: no request and  *)
(* no account takes part.                                                     *)
LEMMA ElsewhereKeeps ==
  ASSUME ConfigIInv, UNCHANGED <<accountVars, hreq, crossed>>, menu' \in MenuTable,
         ~crossed => OneStart', CopyIsCurrent', dropping' \in Nat, excuse' \in BOOLEAN
  PROVE  ConfigIInv'
<1>1. ConfigTypes'
  BY DEF ConfigIInv, ConfigTypes, accountVars
<1>2. RequestsSane' /\ InsertsApart'
  BY DEF ConfigIInv, RequestsSane, InsertsApart, accountVars
<1>3. ~crossed' => OneDefault'
  BY DEF ConfigIInv, OneDefault, LiveAccounts, accountVars
<1>4. ReferencesResolve'
  BY DEF ConfigIInv, ReferencesResolve, accountVars
<1>5. AccountCacheFresh'
  BY DEF ConfigIInv, AccountCacheFresh, accountVars, Row, LiveAccounts
<1> QED  BY <1>1, <1>2, <1>3, <1>4, <1>5 DEF ConfigIInv

LEMMA DeleteIVRFlowKeeps ==
  ASSUME ConfigIInv, DeleteIVRFlow  PROVE ConfigIInv'
<1>1. PICK m \in Menus : menu' = [menu EXCEPT ![m].st = "gone"]
  BY DEF DeleteIVRFlow
<1>2. UNCHANGED <<accountVars, hreq, crossed, cacheVars>> /\ menu \in MenuTable /\ menu[m] \in MenuRow
  BY DEF DeleteIVRFlow, ConfigIInv, ConfigTypes, MenuTable
<1>3. menu' \in MenuTable /\ menu'[m].st = "gone" /\ \A o \in Menus \ {m} : menu'[o] = menu[o]
  <2>1. [menu[m] EXCEPT !.st = "gone"] \in MenuRow
    BY <1>2 DEF MenuRow
  <2> QED  BY <1>1, <1>2, <2>1 DEF MenuTable, MenuRow
<1>4. ~crossed => OneStart'
  BY <1>3 DEF ConfigIInv, OneStart
<1>5. CopyIsCurrent' /\ dropping' \in Nat /\ excuse' \in BOOLEAN
  BY <1>2 DEF ConfigIInv, ConfigTypes, CopyIsCurrent, cacheVars
<1> QED  BY <1>2, <1>3, <1>4, <1>5, ElsewhereKeeps

-----------------------------------------------------------------------------
(* Caches                                                                     *)

LEMMA CommitsKeep ==
  ASSUME ConfigIInv, NEW subjects, Commits(subjects), Announced \/ Unannounced
  PROVE  CopyIsCurrent' /\ dropping' \in Nat /\ excuse' \in BOOLEAN
<1>1. CASE Announced
  BY <1>1 DEF Announced, ConfigIInv, ConfigTypes, CopyIsCurrent
<1>2. CASE Unannounced
  BY <1>2 DEF Unannounced, ConfigIInv, ConfigTypes, CopyIsCurrent
<1> QED  BY <1>1, <1>2

LEMMA LoadKeeps ==
  ASSUME ConfigIInv, NEW subjects, Load(subjects)
  PROVE  CopyIsCurrent' /\ dropping' \in Nat /\ excuse' \in BOOLEAN
BY DEF Load, ConfigIInv, ConfigTypes, CopyIsCurrent

LEMMA CacheStepKeeps ==
  ASSUME ConfigIInv, CacheStep  PROVE ConfigIInv'
<1>1. /\ UNCHANGED <<accountVars, hreq, crossed>> /\ menu' = menu
      /\ dropping \in Nat /\ excuse \in BOOLEAN
  BY DEF CacheStep, menuVars, ConfigIInv, ConfigTypes
<1>2. menu' \in MenuTable /\ (~crossed => OneStart')
  BY <1>1 DEF ConfigIInv, ConfigTypes, OneStart
<1>3. CopyIsCurrent' /\ dropping' \in Nat /\ excuse' \in BOOLEAN
  <2>1. CASE WriteChatbotSettings \/ WriteKeywordRule \/ WriteChatbotFlow \/ CreateAIContext \/ UpdateAIContext
    BY <2>1, CommitsKeep
    DEF WriteChatbotSettings, WriteKeywordRule, WriteChatbotFlow, CreateAIContext, UpdateAIContext
  <2>2. CASE DeleteAIContext \/ CreateWebhook \/ UpdateWebhook \/ DeleteWebhook \/ WriteTag
             \/ UpdateOrganizationSettings \/ AccountRenamed
    BY <2>2, CommitsKeep
    DEF DeleteAIContext, CreateWebhook, UpdateWebhook, DeleteWebhook, WriteTag, UpdateOrganizationSettings,
        AccountRenamed
  <2>3. CASE Invalidate
    BY <1>1, <2>3 DEF Invalidate, CopyIsCurrent
  <2>4. CASE InvalidationLost
    BY <1>1, <2>4 DEF InvalidationLost, CopyIsCurrent
  <2>5. CASE LoadNothing
    BY <1>1, <2>5 DEF LoadNothing, CopyIsCurrent
  <2>6. CASE StoreCopy
    BY <1>1, <2>6 DEF StoreCopy, CopyIsCurrent
  <2>7. CASE ExpireCopy
    BY <1>1, <2>7 DEF ExpireCopy, CopyIsCurrent
  <2>8. CASE GetChatbotSettingsCached \/ GetSLAEnabledSettingsCached \/ GetKeywordRulesCached \/ GetFlowsCached
             \/ GetAIContextsCached \/ GetWebhooksCached \/ GetTagsCached \/ GetOrgSettingsCached
    BY <2>8, LoadKeeps
    DEF GetChatbotSettingsCached, GetSLAEnabledSettingsCached, GetKeywordRulesCached, GetFlowsCached,
        GetAIContextsCached, GetWebhooksCached, GetTagsCached, GetOrgSettingsCached
  <2> QED  BY <2>1, <2>2, <2>3, <2>4, <2>5, <2>6, <2>7, <2>8 DEF CacheStep
<1> QED  BY <1>1, <1>2, <1>3, ElsewhereKeeps

-----------------------------------------------------------------------------
(* The configuration of an organization, as a whole                           *)

LEMMA ConfigInitInv == ConfigInit => ConfigIInv
<1> SUFFICES ASSUME ConfigInit  PROVE ConfigIInv
  OBVIOUS
<1>1. PICK a \in Accounts, n \in Names, p \in Phones, t \in Tables :
        /\ acct = [b \in Accounts |-> IF b = a THEN [st |-> "live", name |-> n, phone |-> p, dflt |-> TRUE, ver |-> 0]
                                               ELSE Unused]
        /\ refs = [u \in Tables |-> IF u = t THEN No ELSE n]
        /\ menu = [m \in Menus |-> [st |-> No, acct |-> n, start |-> FALSE]]
  BY DEF ConfigInit
<1>2. /\ acache = [x \in Phones |-> Resting] /\ afill = [x \in Phones |-> Resting]
      /\ hreq = [s \in Handlers |-> Resting] /\ crossed = FALSE
      /\ copy0 = Miss0 /\ dropping = 0 /\ excuse = FALSE
  BY DEF ConfigInit
<1>3. acct \in AccountTable
  <2>1. [st |-> "live", name |-> n, phone |-> p, dflt |-> TRUE, ver |-> 0] \in AccountRow
    BY DEF AccountRow
  <2>2. Unused \in AccountRow
    BY DEF AccountRow, Unused
  <2> QED  BY <1>1, <2>1, <2>2 DEF AccountTable
<1>4. menu \in MenuTable
  <2>1. [st |-> No, acct |-> n, start |-> FALSE] \in MenuRow
    BY DEF MenuRow
  <2> QED  BY <1>1, <2>1 DEF MenuTable
<1>5. \A s \in Handlers : hreq[s] = Resting
  BY <1>2
<1>6. ConfigTypes
  BY <1>1, <1>2, <1>3, <1>4, RestingIsSane DEF ConfigTypes
<1>7. RequestsSane
  BY <1>5, RestingIsSane DEF RequestsSane
<1>8. InsertsApart
  BY <1>5, RestingIsSane DEF InsertsApart
<1>9. OneDefault
  BY <1>1 DEF OneDefault, LiveAccounts, Unused, No
<1>10. OneStart
  BY <1>1 DEF OneStart, No
<1>11. ReferencesResolve
  <2>1. acct[a].st # No /\ acct[a].name = n
    BY <1>1 DEF No
  <2> QED  BY <1>1, <2>1 DEF ReferencesResolve
<1>12. AccountCacheFresh /\ CopyIsCurrent
  BY <1>2 DEF AccountCacheFresh, CopyIsCurrent
<1> QED  BY <1>6, <1>7, <1>8, <1>9, <1>10, <1>11, <1>12 DEF ConfigIInv

LEMMA ConfigStuttersKeep ==
  ASSUME ConfigIInv, UNCHANGED configVars  PROVE ConfigIInv'
<1>1. UNCHANGED <<accountVars, hreq, crossed>> /\ menu' = menu /\ UNCHANGED cacheVars
  BY DEF configVars, menuVars
<1>2. menu' \in MenuTable /\ (~crossed => OneStart')
  BY <1>1 DEF ConfigIInv, ConfigTypes, OneStart
<1>3. CopyIsCurrent' /\ dropping' \in Nat /\ excuse' \in BOOLEAN
  BY <1>1 DEF ConfigIInv, ConfigTypes, CopyIsCurrent, cacheVars
<1> QED  BY <1>1, <1>2, <1>3, ElsewhereKeeps

LEMMA ConfigNextKeeps ==
  ASSUME ConfigIInv, [ConfigNext]_configVars  PROVE ConfigIInv'
<1>1. ASSUME NEW s \in Handlers,
             \/ CreateAccount(s) \/ InsertAccount(s) \/ UpdateAccount(s) \/ ClearDefaults(s) \/ SaveAccount(s)
             \/ ExchangeToken(s) \/ RegisterPhoneNumber(s) \/ DeleteAccount(s)
             \/ InvalidateWhatsAppAccountCache(s) \/ ResolveWhatsAppAccount(s) \/ InsertReference(s)
      PROVE  ConfigIInv'
  BY <1>1, CreateAccountKeeps, InsertAccountKeeps, UpdateAccountKeeps, ClearDefaultsKeeps, SaveAccountKeeps,
     ExchangeTokenKeeps, RegisterPhoneNumberKeeps, DeleteAccountKeeps, InvalidateKeeps, ReferencesKeep
<1>2. ASSUME AccountStep  PROVE ConfigIInv'
  BY <1>1, <1>2, ReadersKeep DEF AccountStep
<1>3. ASSUME NEW s \in Handlers, ValidateFlowGraph(s)  PROVE ConfigIInv'
  <2>1. hreq[s].do # "forget" /\ Set0(s, Resting) /\ UNCHANGED <<accountVars, crossed, menuVars, cacheVars>>
    BY <1>3 DEF ValidateFlowGraph
  <2> QED  BY <2>1, GivingUpKeeps
<1>4. ASSUME MenuStep  PROVE ConfigIInv'
  BY <1>3, <1>4, MenuRequestsKeep, WriteIVRFlowKeeps, DeleteIVRFlowKeeps DEF MenuStep
<1> QED  BY <1>2, <1>4, CacheStepKeeps, ConfigStuttersKeep DEF ConfigNext

(* The inductive invariant of the configuration: a row to insert is free and  *)
(* nobody else's to insert, a row to save exists, a request about to write a  *)
(* default or a menu that answers has no rival in what it read, and while no  *)
(* two requests overlapped there is one default and one menu that answers.    *)
THEOREM ConfigInvariant == ConfigSpec => []ConfigIInv
BY ConfigInitInv, ConfigNextKeeps, PTL DEF ConfigSpec

LEMMA ConfigIInvSound == ConfigIInv => ConfigInv
<1> SUFFICES ASSUME ConfigIInv  PROVE ConfigInv
  OBVIOUS
<1>1. OneDefaultAccount
  <2>1. CASE ~crossed
    <3>1. \A x, y \in {a \in LiveAccounts : acct[a].dflt} : x = y
      BY <2>1 DEF ConfigIInv, OneDefault
    <3> QED  BY <3>1, AtMostOne DEF OneDefaultAccount
  <2>2. CASE crossed
    BY <2>2 DEF OneDefaultAccount
  <2> QED  BY <2>1, <2>2
<1>2. OneCallStart
  <2>1. CASE ~crossed
    <3> SUFFICES ASSUME NEW n \in Names
                 PROVE  Cardinality({m \in Menus : menu[m].st = "live" /\ menu[m].acct = n /\ menu[m].start}) <= 1
      BY DEF OneCallStart
    <3>1. \A x, y \in {m \in Menus : menu[m].st = "live" /\ menu[m].acct = n /\ menu[m].start} : x = y
      BY <2>1 DEF ConfigIInv, OneStart
    <3> QED  BY <3>1, AtMostOne
  <2>2. CASE crossed
    BY <2>2 DEF OneCallStart
  <2> QED  BY <2>1, <2>2
<1> QED  BY <1>1, <1>2 DEF ConfigIInv, ConfigInv

(* Accounts, menus and settings: one default account, names that resolve,     *)
(* one menu that answers, copies that are current (accounts.go, ivr_flows.go, *)
(* cache.go), for any accounts, tables, overlapping requests and bounds.      *)
THEOREM ConfigIsSound == ConfigSpec => []ConfigInv
BY ConfigInvariant, ConfigIInvSound, PTL

-----------------------------------------------------------------------------
(* The shape of the state                                                     *)

Address == [org : Companies, user : People \cup {None},
            chat : Chats \cup {None}, topic : Topics \cup {None}]
Message == [n : Nat, to : Address]
Item == {Notice, Pong} \cup [k : {"msg"}, n : Nat, to : Address]
Connection == [st : {"off", "anon", "joining", "in", "leaving", "gone"},
               view : Chats \cup {None}, topics : SUBSET Topics, buf : Seq(Item),
               pump : BOOLEAN, ponged : BOOLEAN]
Handing == [k : {"send", "full", "evict", "retry"}, n : Nat, to : Address,
            todo : SUBSET Tabs, tab : Tabs \cup {None}]
NoticeRow == [user : People, at : Nat, id : Nat, read : BOOLEAN]
Page == [user : People \cup {None}, cursor : NoticeRow \cup {Closed}, goal : SUBSET Nat,
         seen : SUBSET Nat, missed : SUBSET Nat]

StreamTypes ==
  /\ conn \in [Tabs -> Connection] /\ clients \subseteq Tabs
  /\ channel \in Seq(Message)
  /\ work = Idle \/ work \in Handing
  /\ due \in [Tabs -> SUBSET Nat] /\ unannounced \subseteq Tabs
  /\ counted \in [msgs : Nat, pings : Nat, reads : Nat]

(* Buffers, topics and the channel stay within their limits. *)
LimitsKept ==
  /\ \A t \in Tabs : /\ Len(conn[t].buf) =< BufferSize
                     /\ IsFiniteSet(conn[t].topics) /\ Cardinality(conn[t].topics) =< MaxTopics
  /\ Len(channel) =< ChannelSize

(* Messages are numbered in the order of the channel, the one in hand first.  *)
NumbersOK ==
  /\ \A i \in 1..Len(channel) : channel[i].n >= 1 /\ channel[i].n =< counted.msgs
  /\ \A i, j \in 1..Len(channel) : i < j => channel[i].n < channel[j].n
  /\ work # Idle => /\ work.n >= 1 /\ work.n =< counted.msgs
                    /\ \A i \in 1..Len(channel) : work.n < channel[i].n
  /\ \A t \in Tabs : due[t] \subseteq 1..counted.msgs

(* Whoever waits for a message that is still in the channel is among those    *)
(* the hub will go through, and who is not registered waits for nothing.      *)
Reaches(t, a) == Org(t) = a.org /\ a.user \in {None, Person[t]}
DueOK ==
  /\ \A t \in Tabs, i \in 1..Len(channel) : channel[i].n \in due[t] => Reaches(t, channel[i].to)
  /\ \A t \in Tabs : t \notin clients => due[t] = {}

(* The hub goes through registered tabs it has found by their address; a tab  *)
(* whose buffer was full is one of them, and after the eviction there is room *)
(* unless a pong has come in between.                                         *)
HandOK ==
  work # Idle =>
    /\ \A t \in work.todo : t \in clients /\ Reaches(t, work.to)
    /\ work.k = "send" => work.tab = None
    /\ work.k # "send" => work.tab \in work.todo
    /\ work.k = "retry" => ~ Full(work.tab) \/ conn[work.tab].ponged

StreamInv == StreamTypes /\ LimitsKept /\ NumbersOK /\ DueOK /\ HandOK
             /\ RegistryMatches /\ HoleAnnounced /\ OnlyAddressed

(* Rows are numbered by their ids, and pay for their pushes. *)
NotesOK ==
  /\ note \subseteq NoticeRow /\ IsFiniteSet(note) /\ Cardinality(note) =< MaxNotes
  /\ \A m, n \in note : m.id = n.id => m = n
  /\ counted.msgs =< MaxBroadcasts + Cardinality(note)

(* Whoever is half way through has seen what was there, or has it before them. *)
WalkOK ==
  /\ page \in Page /\ page.missed = {}
  /\ page.user = None => page.cursor = Closed /\ page.seen = {}
  /\ page.goal \subseteq {n.id : n \in note}
  /\ page.user # None => \A n \in Unread(page.user) :
       n.id \in page.goal => n.id \in page.seen \/ n \in Rest(page.user, page.cursor)

HubIInv == StreamInv /\ NotesOK /\ WalkOK

-----------------------------------------------------------------------------
(* Messages and buffers                                                       *)

LEMMA Items ==
  /\ Notice \in Item /\ Pong \in Item
  /\ \A n \in Nat, a \in Address : Push(n, a) \in Item
  BY DEF Item, Notice, Pong, Push

LEMMA ItemFields ==
  ASSUME NEW x \in Item
  PROVE  /\ x.n \in Nat
         /\ x.k # "msg" => x.n = 0
         /\ x.k = "notice" <=> x = Notice
  BY DEF Item, Notice, Pong

LEMMA Buffers ==
  ASSUME StreamTypes, NEW t \in Tabs
  PROVE  /\ conn[t] \in Connection /\ conn[t].buf \in Seq(Item)
         /\ Len(conn[t].buf) \in Nat /\ conn[t].buf \in [1..Len(conn[t].buf) -> Item]
<1>1. conn[t] \in Connection
  BY DEF StreamTypes
<1>2. conn[t].buf \in Seq(Item)
  BY <1>1 DEF Connection
<1> QED  BY <1>1, <1>2, LenProperties

LEMMA ChannelTypes ==
  ASSUME StreamTypes
  PROVE  /\ channel \in Seq(Message) /\ Len(channel) \in Nat
         /\ channel \in [1..Len(channel) -> Message]
         /\ \A i \in 1..Len(channel) : channel[i].n \in Nat /\ channel[i].to \in Address
<1>1. channel \in Seq(Message)
  BY DEF StreamTypes
<1>2. Len(channel) \in Nat /\ channel \in [1..Len(channel) -> Message]
  BY <1>1, LenProperties
<1>3. \A i \in 1..Len(channel) : channel[i] \in Message
  BY <1>2
<1> QED  BY <1>1, <1>2, <1>3 DEF Message

LEMMA Addresses ==
  /\ \A o \in Companies, c \in Chats, x \in Topics :
       ToOrg(o) \in Address /\ ToContact(o, c) \in Address /\ ToTopic(o, x) \in Address
  /\ \A p \in People : ToUser(p) \in Address
  BY DEF ToOrg, ToContact, ToTopic, ToUser, Address, Companies

(* Something is added at the end of one buffer. *)
Added(t, x) ==
  /\ conn' = Put(t, x)
  /\ conn' \in [Tabs -> Connection]
  /\ conn'[t].buf = Append(conn[t].buf, x) /\ Len(conn'[t].buf) = Len(conn[t].buf) + 1
  /\ conn'[t].buf[Len(conn[t].buf) + 1] = x
  /\ \A i \in 1..Len(conn[t].buf) : conn'[t].buf[i] = conn[t].buf[i]
  /\ \A s \in Tabs : s # t => conn'[s] = conn[s]
  /\ \A s \in Tabs : /\ conn'[s].st = conn[s].st /\ conn'[s].topics = conn[s].topics
                     /\ conn'[s].view = conn[s].view

LEMMA PutAdds ==
  ASSUME StreamTypes, NEW t \in Tabs, NEW x \in Item, conn' = Put(t, x)
  PROVE  Added(t, x)
<1>1. /\ conn[t].buf \in Seq(Item) /\ Append(conn[t].buf, x) \in Seq(Item)
      /\ Len(Append(conn[t].buf, x)) = Len(conn[t].buf) + 1
      /\ \A i \in 1..Len(conn[t].buf) : Append(conn[t].buf, x)[i] = conn[t].buf[i]
      /\ Append(conn[t].buf, x)[Len(conn[t].buf) + 1] = x
  BY Buffers, AppendProperties
<1>2. conn' = [conn EXCEPT ![t].buf = Append(conn[t].buf, x)]
  BY DEF Put
<1> DEFINE b == Append(conn[t].buf, x)
<1>3. conn' = [conn EXCEPT ![t].buf = b]
  BY <1>2
<1>4. b \in Seq(Item)
  BY <1>1
<1> HIDE DEF b
<1>5. /\ conn' \in [Tabs -> Connection] /\ conn'[t].buf = b
      /\ \A s \in Tabs : s # t => conn'[s] = conn[s]
      /\ \A s \in Tabs : /\ conn'[s].st = conn[s].st /\ conn'[s].topics = conn[s].topics
                         /\ conn'[s].view = conn[s].view
  <2>1. conn[t] \in Connection
    BY Buffers
  <2>2. [conn[t] EXCEPT !.buf = b] \in Connection
    BY <1>4, <2>1 DEF Connection
  <2>3. conn' = [conn EXCEPT ![t] = [conn[t] EXCEPT !.buf = b]]
    BY <1>3
  <2>4. conn' \in [Tabs -> Connection] /\ \A s \in Tabs : s # t => conn'[s] = conn[s]
    BY <2>2, <2>3 DEF StreamTypes
  <2>5. conn'[t] = [conn[t] EXCEPT !.buf = b]
    BY <2>3 DEF StreamTypes
  <2>6. /\ conn'[t].buf = b /\ conn'[t].st = conn[t].st /\ conn'[t].topics = conn[t].topics
        /\ conn'[t].view = conn[t].view
    BY <2>1, <2>5 DEF Connection
  <2> QED  BY <2>4, <2>6
<1>6. conn'[t].buf = Append(conn[t].buf, x)
  BY <1>5 DEF b
<1> QED  BY <1>1, <1>5, <1>6 DEF Added

LEMMA RowWrite ==
  ASSUME StreamTypes, NEW t \in Tabs, NEW r \in Connection, conn' = [conn EXCEPT ![t] = r]
  PROVE  /\ conn' \in [Tabs -> Connection] /\ conn'[t] = r
         /\ \A s \in Tabs : s # t => conn'[s] = conn[s]
  BY DEF StreamTypes

(* What is on its way depends on the channel, the hub's hand and one buffer. *)
LEMMA ComingFrame ==
  ASSUME NEW t \in Tabs, UNCHANGED <<channel, work>>, conn'[t].buf = conn[t].buf
  PROVE  Coming(t)' = Coming(t)
  BY DEF Coming

-----------------------------------------------------------------------------
(* Steps that leave messages alone                                            *)

LEMMA HubQuietStep ==
  ASSUME StreamInv, conn' \in [Tabs -> Connection],
         \A s \in Tabs : /\ conn'[s].buf = conn[s].buf
                         /\ conn[s].ponged => conn'[s].ponged
                         /\ IsFiniteSet(conn'[s].topics) /\ Cardinality(conn'[s].topics) =< MaxTopics,
         UNCHANGED <<channel, work, due, unannounced>>,
         counted' \in [msgs : Nat, pings : Nat, reads : Nat], counted'.msgs = counted.msgs,
         clients \subseteq clients', clients' \subseteq Tabs, RegistryMatches'
  PROVE  StreamInv'
<1>1. StreamTypes'
  BY DEF StreamInv, StreamTypes
<1>2. LimitsKept'
  BY DEF StreamInv, LimitsKept
<1>3. NumbersOK'
  BY DEF StreamInv, NumbersOK
<1>4. DueOK'
  BY DEF StreamInv, DueOK
<1>5. HandOK'
  <2> SUFFICES ASSUME work' # Idle
               PROVE  /\ \A t \in work'.todo : t \in clients' /\ Reaches(t, work'.to)
                      /\ work'.k = "send" => work'.tab = None
                      /\ work'.k # "send" => work'.tab \in work'.todo
                      /\ work'.k = "retry" => ~ Full(work.tab)' \/ conn'[work'.tab].ponged
    BY DEF HandOK
  <2>1. /\ \A t \in work.todo : t \in clients /\ Reaches(t, work.to)
        /\ work.k = "send" => work.tab = None
        /\ work.k # "send" => work.tab \in work.todo
        /\ work.k = "retry" => ~ Full(work.tab) \/ conn[work.tab].ponged
    BY DEF HandOK, StreamInv
  <2>2. work.todo \subseteq Tabs
    BY <2>1 DEF StreamInv, StreamTypes
  <2>3. work.k = "retry" => work.tab \in Tabs
    BY <2>1, <2>2
  <2>4. work.k = "retry" => ~ Full(work.tab)' \/ conn'[work.tab].ponged
    BY <2>1, <2>3 DEF Full
  <2> QED  BY <2>1, <2>4
<1>6. HoleAnnounced'
  <2> SUFFICES ASSUME NEW t \in clients'
               PROVE  \/ due'[t] \subseteq Coming(t)'
                      \/ Contains(conn'[t].buf, Notice)
                      \/ work' # Idle /\ work'.tab = t
                      \/ t \in unannounced'
    BY DEF HoleAnnounced
  <2>1. t \in Tabs /\ Coming(t)' = Coming(t)
    BY ComingFrame
  <2>2. CASE t \in clients
    <3>1. \/ due[t] \subseteq Coming(t)
          \/ Contains(conn[t].buf, Notice)
          \/ work # Idle /\ work.tab = t
          \/ t \in unannounced
      BY <2>2 DEF StreamInv, HoleAnnounced
    <3>2. conn'[t].buf = conn[t].buf
      BY <2>1
    <3> QED  BY <2>1, <3>1, <3>2
  <2>3. CASE t \notin clients
    <3>1. due[t] = {}
      BY <2>1, <2>3 DEF StreamInv, DueOK
    <3> QED  BY <3>1
  <2> QED  BY <2>2, <2>3
<1>7. OnlyAddressed'
  BY DEF StreamInv, OnlyAddressed
<1> QED  BY <1>1, <1>2, <1>3, <1>4, <1>5, <1>6, <1>7 DEF StreamInv

(* One connection changes its state, its view, its topics or its pump. *)
LEMMA ConnectionStep ==
  ASSUME StreamInv, NEW t \in Tabs, NEW r \in Connection,
         conn' = [conn EXCEPT ![t] = r],
         r.buf = conn[t].buf, conn[t].ponged => r.ponged,
         IsFiniteSet(r.topics), Cardinality(r.topics) =< MaxTopics,
         UNCHANGED <<channel, work, due, unannounced>>,
         counted' \in [msgs : Nat, pings : Nat, reads : Nat], counted'.msgs = counted.msgs,
         \/ UNCHANGED clients /\ (r.st \in {"in", "leaving"} <=> conn[t].st \in {"in", "leaving"})
         \/ clients' = clients \cup {t} /\ r.st = "in"
  PROVE  StreamInv'
<1>1. /\ conn' \in [Tabs -> Connection] /\ conn'[t] = r
      /\ \A s \in Tabs : s # t => conn'[s] = conn[s]
  BY RowWrite DEF StreamInv
<1>2. \A s \in Tabs : /\ conn'[s].buf = conn[s].buf
                      /\ conn[s].ponged => conn'[s].ponged
                      /\ IsFiniteSet(conn'[s].topics) /\ Cardinality(conn'[s].topics) =< MaxTopics
  <2> SUFFICES ASSUME NEW s \in Tabs
               PROVE  /\ conn'[s].buf = conn[s].buf
                      /\ conn[s].ponged => conn'[s].ponged
                      /\ IsFiniteSet(conn'[s].topics) /\ Cardinality(conn'[s].topics) =< MaxTopics
    OBVIOUS
  <2>1. CASE s = t
    BY <1>1, <2>1
  <2>2. CASE s # t
    <3>1. conn'[s] = conn[s]
      BY <1>1, <2>2
    <3> QED  BY <3>1 DEF StreamInv, LimitsKept
  <2> QED  BY <2>1, <2>2
<1>3. RegistryMatches'
  <2>1. \A s \in Tabs : s \in clients <=> conn[s].st \in {"in", "leaving"}
    BY DEF StreamInv, RegistryMatches
  <2>2. \A s \in Tabs : s \in clients' <=> conn'[s].st \in {"in", "leaving"}
    BY <1>1, <2>1
  <2> QED  BY <2>2 DEF RegistryMatches
<1>4. clients \subseteq clients' /\ clients' \subseteq Tabs
  BY DEF StreamInv, StreamTypes
<1> QED  BY <1>1, <1>2, <1>3, <1>4, HubQuietStep

(* WebSocketHandler, handleAuthMessage, registerClient and the ends of pumps. *)
LEMMA LifecycleInv ==
  ASSUME StreamInv, NEW t \in Tabs,
         \/ Open(t) \/ Authenticate(t) \/ AuthFails(t) \/ RegisterClient(t)
         \/ ReadPumpEnds(t) \/ WriteFails(t)
  PROVE  StreamInv'
<1>1. conn[t] \in Connection
  BY Buffers DEF StreamInv
<1>2. IsFiniteSet(conn[t].topics) /\ Cardinality(conn[t].topics) =< MaxTopics
  BY DEF StreamInv, LimitsKept
<1>3. PICK l \in {"anon", "joining", "gone", "in", "leaving"}, p \in BOOLEAN :
        /\ conn' = [conn EXCEPT ![t] = [conn[t] EXCEPT !.st = l, !.pump = p]]
        /\ \/ UNCHANGED clients /\ (l \in {"in", "leaving"} <=> conn[t].st \in {"in", "leaving"})
           \/ clients' = clients \cup {t} /\ l = "in"
  <2>0. conn[t].pump \in BOOLEAN
    BY <1>1 DEF Connection
  <2>1. CASE Open(t)
    BY <1>1, <2>1 DEF Open, Connection, StreamInv, StreamTypes
  <2>2. CASE Authenticate(t)
    <3>1. conn' = [conn EXCEPT ![t] = [conn[t] EXCEPT !.st = "joining", !.pump = conn[t].pump]]
      BY <1>1, <2>2 DEF Authenticate, Connection, StreamInv, StreamTypes
    <3> QED  BY <2>0, <2>2, <3>1 DEF Authenticate
  <2>3. CASE AuthFails(t)
    BY <1>1, <2>3 DEF AuthFails, Connection, StreamInv, StreamTypes
  <2>4. CASE RegisterClient(t)
    <3>1. conn' = [conn EXCEPT ![t] = [conn[t] EXCEPT !.st = "in", !.pump = conn[t].pump]]
      BY <1>1, <2>4 DEF RegisterClient, Connection, StreamInv, StreamTypes
    <3> QED  BY <2>0, <2>4, <3>1 DEF RegisterClient
  <2>5. CASE ReadPumpEnds(t)
    <3>1. conn' = [conn EXCEPT ![t] = [conn[t] EXCEPT !.st = "leaving", !.pump = conn[t].pump]]
      BY <1>1, <2>5 DEF ReadPumpEnds, Connection, StreamInv, StreamTypes
    <3> QED  BY <2>0, <2>5, <3>1 DEF ReadPumpEnds
  <2>6. CASE WriteFails(t)
    <3>1. conn' = [conn EXCEPT ![t] = [conn[t] EXCEPT !.st = conn[t].st, !.pump = FALSE]]
      BY <1>1, <2>6 DEF WriteFails, Connection, StreamInv, StreamTypes
    <3> QED  BY <2>6, <3>1 DEF WriteFails
  <2> QED  BY <2>1, <2>2, <2>3, <2>4, <2>5, <2>6
<1> DEFINE r == [conn[t] EXCEPT !.st = l, !.pump = p]
<1>4. /\ r \in Connection /\ r.buf = conn[t].buf /\ r.topics = conn[t].topics /\ r.st = l
  BY <1>1, <1>3 DEF Connection
<1>5. conn[t].ponged => r.ponged
  BY <1>1 DEF Connection
<1>6. UNCHANGED <<channel, work, due, unannounced, counted>>
  BY DEF Open, Authenticate, AuthFails, RegisterClient, ReadPumpEnds, WriteFails
<1>7. conn' = [conn EXCEPT ![t] = r]
  BY <1>3
<1>8. counted' \in [msgs : Nat, pings : Nat, reads : Nat] /\ counted'.msgs = counted.msgs
  BY <1>6 DEF StreamInv, StreamTypes
<1> HIDE DEF r
<1> QED  BY <1>2, <1>3, <1>4, <1>5, <1>6, <1>7, <1>8, ConnectionStep

(* handleSetContact and handleSubscribe. *)
LEMMA SubscriptionInv ==
  ASSUME StreamInv, NEW t \in Tabs,
         \/ \E c \in Chats \cup {None} : SetContact(t, c)
         \/ \E x \in Topics : Subscribe(t, x) \/ Unsubscribe(t, x)
  PROVE  StreamInv'
<1>1. conn[t] \in Connection
  BY Buffers DEF StreamInv
<1>2. IsFiniteSet(conn[t].topics) /\ Cardinality(conn[t].topics) =< MaxTopics
      /\ Cardinality(conn[t].topics) \in Nat
  BY FS_CardinalityType DEF StreamInv, LimitsKept
<1>3. PICK v \in Chats \cup {None}, s \in SUBSET Topics :
        /\ conn' = [conn EXCEPT ![t] = [conn[t] EXCEPT !.view = v, !.topics = s]]
        /\ IsFiniteSet(s) /\ Cardinality(s) =< MaxTopics
  <2>0. conn[t].view \in Chats \cup {None} /\ conn[t].topics \in SUBSET Topics
    BY <1>1 DEF Connection
  <2>1. ASSUME NEW c \in Chats \cup {None}, SetContact(t, c)
        PROVE  conn' = [conn EXCEPT ![t] = [conn[t] EXCEPT !.view = c, !.topics = conn[t].topics]]
    BY <1>1, <2>1 DEF SetContact, Connection, StreamInv, StreamTypes
  <2>2. ASSUME NEW x \in Topics, Subscribe(t, x) \/ Unsubscribe(t, x)
        PROVE  \E s \in SUBSET Topics :
                 /\ conn' = [conn EXCEPT ![t] = [conn[t] EXCEPT !.view = conn[t].view, !.topics = s]]
                 /\ IsFiniteSet(s) /\ Cardinality(s) =< MaxTopics
    <3>1. PICK s \in {conn[t].topics, conn[t].topics \cup {x}, conn[t].topics \ {x}} :
            /\ conn' = [conn EXCEPT ![t].topics = s]
            /\ s = conn[t].topics \cup {x} => Cardinality(conn[t].topics) < MaxTopics \/ x \in conn[t].topics
      <4>1. CASE Subscribe(t, x)
        <5>1. conn' = [conn EXCEPT ![t].topics = IF Cardinality(conn[t].topics) >= MaxTopics
                                                   THEN conn[t].topics ELSE conn[t].topics \cup {x}]
          BY <4>1 DEF Subscribe
        <5>2. x \notin conn[t].topics /\ MaxTopics \in Nat
          BY <4>1, HubAssumption DEF Subscribe
        <5>3. CASE Cardinality(conn[t].topics) >= MaxTopics
          BY <5>1, <5>2, <5>3
        <5>4. CASE Cardinality(conn[t].topics) < MaxTopics
          BY <1>2, <5>1, <5>2, <5>4
        <5> QED  BY <1>2, <5>2, <5>3, <5>4
      <4>2. CASE Unsubscribe(t, x)
        BY <4>2 DEF Unsubscribe
      <4> QED  BY <2>2, <4>1, <4>2
    <3>2. conn' = [conn EXCEPT ![t] = [conn[t] EXCEPT !.view = conn[t].view, !.topics = s]]
      BY <1>1, <3>1 DEF Connection, StreamInv, StreamTypes
    <3>3. s \in SUBSET Topics
      BY <2>0, <3>1
    <3>4. IsFiniteSet(s) /\ Cardinality(s) =< MaxTopics
      <4> DEFINE T == conn[t].topics
      <4>1. /\ IsFiniteSet(T \cup {x})
            /\ Cardinality(T \cup {x}) = IF x \in T THEN Cardinality(T) ELSE Cardinality(T) + 1
        BY <1>2, FS_AddElement
      <4>2. /\ IsFiniteSet(T \ {x})
            /\ Cardinality(T \ {x}) = IF x \in T THEN Cardinality(T) - 1 ELSE Cardinality(T)
        BY <1>2, FS_RemoveElement
      <4>3. Cardinality(T) =< MaxTopics /\ Cardinality(T) \in Nat /\ IsFiniteSet(T) /\ MaxTopics \in Nat
        BY <1>2, HubAssumption
      <4>4. /\ s = T \/ s = T \cup {x} \/ s = T \ {x}
            /\ s = T \cup {x} => Cardinality(T) < MaxTopics \/ x \in T
        BY <3>1
      <4> HIDE DEF T
      <4>5. CASE s = T
        BY <4>3, <4>5
      <4>6. CASE s = T \cup {x}
        <5>1. Cardinality(T \cup {x}) =< MaxTopics
          BY <4>1, <4>3, <4>4, <4>6
        <5> QED  BY <4>1, <4>6, <5>1
      <4>7. CASE s = T \ {x}
        <5>1. Cardinality(T \ {x}) =< MaxTopics
          BY <4>2, <4>3
        <5> QED  BY <4>2, <4>7, <5>1
      <4> QED  BY <4>4, <4>5, <4>6, <4>7
    <3> QED  BY <3>2, <3>3, <3>4
  <2> QED  BY <1>2, <2>0, <2>1, <2>2
<1> DEFINE r == [conn[t] EXCEPT !.view = v, !.topics = s]
<1>4. r \in Connection /\ r.buf = conn[t].buf /\ r.topics = s /\ r.st = conn[t].st
  BY <1>1, <1>3 DEF Connection
<1>5. conn[t].ponged => r.ponged
  BY <1>1 DEF Connection
<1>6. UNCHANGED <<clients, channel, work, due, unannounced>> /\ Asks
  BY DEF SetContact, Subscribe, Unsubscribe
<1>7. conn' = [conn EXCEPT ![t] = r]
  BY <1>3
<1>8. counted' \in [msgs : Nat, pings : Nat, reads : Nat] /\ counted'.msgs = counted.msgs
  BY <1>6 DEF StreamInv, StreamTypes, Asks
<1> HIDE DEF r
<1> QED  BY <1>2, <1>3, <1>4, <1>5, <1>6, <1>7, <1>8, ConnectionStep

-----------------------------------------------------------------------------
(* Steps that move messages                                                   *)

(* The tab lacks nothing that is not on its way, or it will be told. *)
Told(t) == \/ due[t] \subseteq Coming(t)
           \/ Contains(conn[t].buf, Notice)
           \/ work # Idle /\ work.tab = t
           \/ t \in unannounced

LEMMA HolesAreTold == HoleAnnounced <=> \A t \in clients : Told(t)
  BY DEF HoleAnnounced, Told

(* One buffer changes; what is in it is for that tab. *)
LEMMA BufferStep ==
  ASSUME StreamInv, NEW t \in Tabs, NEW r \in Connection,
         conn' = [conn EXCEPT ![t] = r],
         r.st = conn[t].st, r.topics = conn[t].topics, Len(r.buf) =< BufferSize,
         \A i \in 1..Len(r.buf) : r.buf[i].k = "msg" => Reaches(t, r.buf[i].to),
         UNCHANGED <<clients, channel>>
  PROVE  /\ conn' \in [Tabs -> Connection] /\ conn'[t] = r
         /\ \A s \in Tabs : s # t => conn'[s] = conn[s]
         /\ LimitsKept' /\ RegistryMatches' /\ OnlyAddressed'
<1>1. /\ conn' \in [Tabs -> Connection] /\ conn'[t] = r
      /\ \A s \in Tabs : s # t => conn'[s] = conn[s]
  BY RowWrite DEF StreamInv
<1>2. LimitsKept'
  BY <1>1 DEF StreamInv, LimitsKept
<1>3. RegistryMatches'
  <2>1. \A s \in Tabs : conn'[s].st = conn[s].st
    BY <1>1
  <2> QED  BY <2>1 DEF StreamInv, RegistryMatches
<1>4. OnlyAddressed'
  <2> SUFFICES ASSUME NEW s \in Tabs, NEW i \in 1..Len(conn'[s].buf), conn'[s].buf[i].k = "msg"
               PROVE  Reaches(s, conn'[s].buf[i].to)
    BY DEF OnlyAddressed, Reaches
  <2>1. CASE s = t
    BY <1>1, <2>1
  <2>2. CASE s # t
    BY <1>1, <2>2 DEF StreamInv, OnlyAddressed, Reaches
  <2> QED  BY <2>1, <2>2
<1> QED  BY <1>1, <1>2, <1>3, <1>4

(* What one tab waits for changes, by the message in hand at most. *)
LEMMA DueStep ==
  ASSUME StreamInv, NEW t \in Tabs, NEW D, due' = [due EXCEPT ![t] = D],
         \A n \in D : n \in due[t] \/ (work # Idle /\ t \in work.todo /\ n = work.n),
         UNCHANGED <<clients, channel>>
  PROVE  /\ due' \in [Tabs -> SUBSET Nat] /\ DueOK' /\ due'[t] = D
         /\ \A s \in Tabs : s # t => due'[s] = due[s]
         /\ \A s \in Tabs : due'[s] \subseteq 1..counted.msgs
<1>1. /\ due'[t] = D /\ \A s \in Tabs : s # t => due'[s] = due[s]
  BY DEF StreamInv, StreamTypes
<1>2. work # Idle => work.n \in 1..counted.msgs /\ \A i \in 1..Len(channel) : channel[i].n # work.n
  <2> SUFFICES ASSUME work # Idle
               PROVE  work.n \in 1..counted.msgs /\ \A i \in 1..Len(channel) : channel[i].n # work.n
    OBVIOUS
  <2>1. work.n \in Nat /\ counted.msgs \in Nat
    BY DEF StreamInv, StreamTypes, Handing
  <2>2. work.n >= 1 /\ work.n =< counted.msgs /\ \A i \in 1..Len(channel) : work.n < channel[i].n
    BY DEF StreamInv, NumbersOK
  <2>3. \A i \in 1..Len(channel) : channel[i].n \in Nat
    BY ChannelTypes DEF StreamInv
  <2> QED  BY <2>1, <2>2, <2>3
<1>3. D \subseteq 1..counted.msgs
  BY <1>2 DEF StreamInv, NumbersOK
<1>4. due' \in [Tabs -> SUBSET Nat]
  <2>1. D \in SUBSET Nat
    BY <1>3 DEF StreamInv, StreamTypes
  <2> QED  BY <2>1 DEF StreamInv, StreamTypes
<1>5. \A s \in Tabs : due'[s] \subseteq 1..counted.msgs
  BY <1>1, <1>3 DEF StreamInv, NumbersOK
<1>6. \A s \in Tabs, i \in 1..Len(channel) : channel[i].n \in due'[s] => Reaches(s, channel[i].to)
  <2> SUFFICES ASSUME NEW s \in Tabs, NEW i \in 1..Len(channel), channel[i].n \in due'[s]
               PROVE  channel[i].n \in due[s]
    BY DEF StreamInv, DueOK
  <2>1. CASE s # t
    BY <1>1, <2>1
  <2>2. CASE s = t
    BY <1>1, <1>2, <2>2
  <2> QED  BY <2>1, <2>2
<1>7. \A s \in Tabs : s \notin clients => due'[s] = {}
  <2> SUFFICES ASSUME NEW s \in Tabs, s \notin clients  PROVE due'[s] = {}
    OBVIOUS
  <2>1. due[s] = {} /\ (work # Idle => s \notin work.todo)
    BY DEF StreamInv, DueOK, HandOK
  <2>2. CASE s = t
    BY <1>1, <2>1, <2>2
  <2>3. CASE s # t
    BY <1>1, <2>1, <2>3
  <2> QED  BY <2>2, <2>3
<1> QED  BY <1>1, <1>4, <1>5, <1>6, <1>7 DEF DueOK

(* The hub goes on to the next tab. *)
LEMMA GoesOn ==
  ASSUME work \in Handing, NEW t \in work.todo
  PROVE  /\ Next1(t) = Idle \/ Next1(t) \in Handing
         /\ Next1(t) = Idle <=> work.todo = {t}
         /\ Next1(t) # Idle => /\ Next1(t).n = work.n /\ Next1(t).to = work.to
                               /\ Next1(t).todo = work.todo \ {t}
                               /\ Next1(t).k = "send" /\ Next1(t).tab = None
<1>1. CASE work.todo = {t}
  BY <1>1 DEF Next1
<1>2. CASE work.todo # {t}
  <2> DEFINE w == [work EXCEPT !.k = "send", !.tab = None, !.todo = work.todo \ {t}]
  <2>1. Next1(t) = w
    BY <1>2 DEF Next1
  <2>2. w \in Handing /\ w.n = work.n /\ w.to = work.to /\ w.todo = work.todo \ {t}
        /\ w.k = "send" /\ w.tab = None
    BY DEF Handing
  <2>3. w # Idle
    BY <2>2 DEF Idle
  <2> HIDE DEF w
  <2> QED  BY <1>2, <2>1, <2>2, <2>3
<1> QED  BY <1>1, <1>2

LEMMA BusyIsHanding ==
  ASSUME StreamInv, work.k # "idle"
  PROVE  work \in Handing /\ work # Idle
  BY DEF StreamInv, StreamTypes, Idle

(* What the hub's dealing with one tab does to the others. *)
LEMMA OthersStayTold ==
  ASSUME StreamInv, work \in Handing, NEW t \in Tabs, work.tab \in {None, t},
         NEW s \in clients, s # t,
         conn'[s] = conn[s], due'[s] = due[s], channel' = channel,
         unannounced \subseteq unannounced',
         s \in work.todo => work' # Idle /\ s \in work'.todo /\ work'.n = work.n
  PROVE  Told(s)'
<1>1. s \in Tabs /\ s # None
  BY HubAssumption DEF StreamInv, StreamTypes, None
<1>2. Told(s) /\ work.tab # s
  BY <1>1, HolesAreTold DEF StreamInv
<1>3. Coming(s) \subseteq Coming(s)'
  BY DEF Coming
<1> QED  BY <1>2, <1>3 DEF Told

(* The hub is done with one tab. *)
LEMMA HandedOver ==
  ASSUME StreamInv, work \in Handing, NEW t \in work.todo, work.tab \in {None, t},
         work' = Next1(t),
         NEW r \in Connection, conn' = [conn EXCEPT ![t] = r],
         r.st = conn[t].st, r.topics = conn[t].topics, Len(r.buf) =< BufferSize,
         \A i \in 1..Len(r.buf) : r.buf[i].k = "msg" => Reaches(t, r.buf[i].to),
         NEW D, due' = [due EXCEPT ![t] = D], D \subseteq due[t] \cup {work.n},
         UNCHANGED <<clients, channel, counted>>,
         unannounced \subseteq unannounced', unannounced' \subseteq Tabs,
         Told(t)'
  PROVE  StreamInv'
<1>1. t \in Tabs /\ work # Idle
  BY DEF Handing, Idle
<1>2. /\ conn' \in [Tabs -> Connection] /\ conn'[t] = r
      /\ \A s \in Tabs : s # t => conn'[s] = conn[s]
      /\ LimitsKept' /\ RegistryMatches' /\ OnlyAddressed'
  BY <1>1, BufferStep
<1>3. \A n \in D : n \in due[t] \/ (work # Idle /\ t \in work.todo /\ n = work.n)
  BY <1>1
<1>4. /\ due' \in [Tabs -> SUBSET Nat] /\ DueOK' /\ due'[t] = D
      /\ \A s \in Tabs : s # t => due'[s] = due[s]
      /\ \A s \in Tabs : due'[s] \subseteq 1..counted.msgs
  BY <1>1, <1>3, DueStep
<1>5. /\ work' = Idle \/ work' \in Handing
      /\ work' = Idle <=> work.todo = {t}
      /\ work' # Idle => /\ work'.n = work.n /\ work'.to = work.to
                         /\ work'.todo = work.todo \ {t}
                         /\ work'.k = "send" /\ work'.tab = None
  BY GoesOn
<1>6. StreamTypes'
  BY <1>2, <1>4, <1>5 DEF StreamInv, StreamTypes
<1>7. NumbersOK'
  BY <1>1, <1>4, <1>5 DEF StreamInv, NumbersOK
<1>8. HandOK'
  <2>1. \A s \in work.todo : s \in clients /\ Reaches(s, work.to)
    BY <1>1 DEF StreamInv, HandOK
  <2> QED  BY <1>5, <2>1 DEF HandOK
<1>9. HoleAnnounced'
  <2> SUFFICES ASSUME NEW s \in clients, s # t  PROVE Told(s)'
    BY HolesAreTold DEF HoleAnnounced, Told
  <2>1. s \in Tabs
    BY DEF StreamInv, StreamTypes
  <2>2. s \in work.todo => work' # Idle /\ s \in work'.todo /\ work'.n = work.n
    BY <1>5
  <2> QED  BY <1>1, <1>2, <1>4, <2>1, <2>2, OthersStayTold
<1> QED  BY <1>2, <1>4, <1>6, <1>7, <1>8, <1>9 DEF StreamInv

(* The hub stays with a tab whose buffer was full. *)
LEMMA KeptInHand ==
  ASSUME StreamInv, work \in Handing, NEW t \in work.todo, work.tab \in {None, t},
         NEW l \in {"full", "evict", "retry"},
         work' = [work EXCEPT !.k = l, !.tab = t],
         NEW r \in Connection, conn' = [conn EXCEPT ![t] = r],
         r.st = conn[t].st, r.topics = conn[t].topics, Len(r.buf) =< BufferSize,
         \A i \in 1..Len(r.buf) : r.buf[i].k = "msg" => Reaches(t, r.buf[i].to),
         l = "retry" => Len(r.buf) < BufferSize,
         NEW D, due' = [due EXCEPT ![t] = D], D \subseteq due[t] \cup {work.n},
         UNCHANGED <<clients, channel, counted, unannounced>>
  PROVE  StreamInv'
<1>1. t \in Tabs /\ work # Idle
  BY DEF Handing, Idle
<1>2. /\ conn' \in [Tabs -> Connection] /\ conn'[t] = r
      /\ \A s \in Tabs : s # t => conn'[s] = conn[s]
      /\ LimitsKept' /\ RegistryMatches' /\ OnlyAddressed'
  BY <1>1, BufferStep
<1>3. \A n \in D : n \in due[t] \/ (work # Idle /\ t \in work.todo /\ n = work.n)
  BY <1>1
<1>4. /\ due' \in [Tabs -> SUBSET Nat] /\ DueOK' /\ due'[t] = D
      /\ \A s \in Tabs : s # t => due'[s] = due[s]
      /\ \A s \in Tabs : due'[s] \subseteq 1..counted.msgs
  BY <1>1, <1>3, DueStep
<1>5. /\ work' \in Handing /\ work'.n = work.n /\ work'.to = work.to
      /\ work'.todo = work.todo /\ work'.k = l /\ work'.tab = t
  BY <1>1 DEF Handing
<1>6. work' # Idle
  BY <1>5 DEF Idle
<1>7. StreamTypes'
  BY <1>2, <1>4, <1>5 DEF StreamInv, StreamTypes
<1>8. NumbersOK'
  BY <1>1, <1>4, <1>5 DEF StreamInv, NumbersOK
<1>9. HandOK'
  <2>1. \A s \in work.todo : s \in clients /\ Reaches(s, work.to)
    BY <1>1 DEF StreamInv, HandOK
  <2>2. l = "retry" => ~ (Len(conn'[t].buf) >= BufferSize)
    <3>1. Len(r.buf) \in Nat /\ BufferSize \in Nat
      BY HubAssumption, LenProperties DEF Connection
    <3> QED  BY <1>2, <3>1
  <2>3. l = "retry" => ~ (Len(conn'[work'.tab].buf) >= BufferSize)
    BY <1>5, <2>2
  <2>4. \A s \in work'.todo : s \in clients' /\ Reaches(s, work'.to)
    BY <1>5, <2>1
  <2> QED  BY <1>5, <2>3, <2>4 DEF HandOK, Full
<1>10. HoleAnnounced'
  <2>1. Told(t)'
    BY <1>5, <1>6 DEF Told
  <2> SUFFICES ASSUME NEW s \in clients, s # t  PROVE Told(s)'
    BY <2>1, HolesAreTold DEF HoleAnnounced, Told
  <2>2. s \in Tabs
    BY DEF StreamInv, StreamTypes
  <2>3. s \in work.todo => work' # Idle /\ s \in work'.todo /\ work'.n = work.n
    BY <1>5, <1>6
  <2> QED  BY <1>1, <1>2, <1>4, <2>2, <2>3, OthersStayTold
<1> QED  BY <1>2, <1>4, <1>7, <1>8, <1>9, <1>10 DEF StreamInv

(* A row whose buffer a step may leave behind: the tab's own. *)
Proper(t, r) ==
  /\ r \in Connection /\ r.st = conn[t].st /\ r.topics = conn[t].topics
  /\ Len(r.buf) =< BufferSize
  /\ \A i \in 1..Len(r.buf) : r.buf[i].k = "msg" => Reaches(t, r.buf[i].to)

LEMMA SameRow ==
  ASSUME StreamInv, NEW t \in Tabs
  PROVE  Proper(t, conn[t]) /\ [conn EXCEPT ![t] = conn[t]] = conn
<1>1. conn[t] \in Connection
  BY Buffers DEF StreamInv
<1>2. Len(conn[t].buf) =< BufferSize
  BY DEF StreamInv, LimitsKept
<1>3. \A i \in 1..Len(conn[t].buf) : conn[t].buf[i].k = "msg" => Reaches(t, conn[t].buf[i].to)
  BY DEF StreamInv, OnlyAddressed, Reaches
<1>4. [conn EXCEPT ![t] = conn[t]] = conn
  BY DEF StreamInv, StreamTypes
<1> QED  BY <1>1, <1>2, <1>3, <1>4 DEF Proper

LEMMA PutRow ==
  ASSUME StreamInv, NEW t \in Tabs, NEW x \in Item, ~ Full(t),
         x.k = "msg" => Reaches(t, x.to), conn' = Put(t, x)
  PROVE  \E r : /\ Proper(t, r) /\ conn' = [conn EXCEPT ![t] = r]
                /\ r.buf = Append(conn[t].buf, x) /\ r.buf[Len(conn[t].buf) + 1] = x
                /\ Len(r.buf) = Len(conn[t].buf) + 1
                /\ \A i \in 1..Len(conn[t].buf) : r.buf[i] = conn[t].buf[i]
<1>1. Added(t, x)
  BY PutAdds DEF StreamInv
<1> DEFINE r == conn'[t]
<1>2. r \in Connection /\ r.st = conn[t].st /\ r.topics = conn[t].topics
  BY <1>1 DEF Added
<1>3. conn' = [conn EXCEPT ![t] = r]
  BY <1>1 DEF Added, StreamInv, StreamTypes
<1>4. /\ r.buf = Append(conn[t].buf, x) /\ Len(r.buf) = Len(conn[t].buf) + 1
      /\ r.buf[Len(conn[t].buf) + 1] = x
      /\ \A i \in 1..Len(conn[t].buf) : r.buf[i] = conn[t].buf[i]
  BY <1>1 DEF Added
<1>5. Len(conn[t].buf) \in Nat /\ BufferSize \in Nat
  BY Buffers, HubAssumption DEF StreamInv
<1> HIDE DEF r
<1>6. Len(r.buf) =< BufferSize
  BY <1>4, <1>5 DEF Full
<1>7. ASSUME NEW i \in 1..Len(r.buf), r.buf[i].k = "msg"  PROVE Reaches(t, r.buf[i].to)
  <2>1. CASE i = Len(conn[t].buf) + 1
    BY <1>4, <1>7, <2>1
  <2>2. CASE i \in 1..Len(conn[t].buf)
    BY <1>4, <1>7, <2>2, SameRow DEF Proper
  <2> QED  BY <1>4, <1>5, <2>1, <2>2
<1> QED  BY <1>2, <1>3, <1>4, <1>6, <1>7 DEF Proper

(* What the row of the tab that is dealt with leaves on its way. *)
LEMMA ComingAfter ==
  ASSUME NEW t \in Tabs, channel' = channel, work' = Idle \/ t \notin work'.todo
  PROVE  Coming(t)' = {channel[i].n : i \in 1..Len(channel)}
                      \cup {conn'[t].buf[i].n : i \in 1..Len(conn'[t].buf)}
  BY DEF Coming

(* broadcastMessage at one tab. *)
LEMMA DeliverInv ==
  ASSUME StreamInv, NEW t \in Tabs, Deliver(t)
  PROVE  StreamInv'
<1>1. work \in Handing /\ work # Idle /\ work.k = "send" /\ t \in work.todo /\ work.tab = None
  BY BusyIsHanding DEF Deliver, StreamInv, HandOK
<1> DEFINE wanted == t \in Addressed(work.to)
           D == IF wanted THEN due[t] \cup {work.n} ELSE due[t] \ {work.n}
<1>2. due' = [due EXCEPT ![t] = D] /\ D \subseteq due[t] \cup {work.n}
  BY DEF Deliver
<1>3. UNCHANGED <<clients, channel, counted, unannounced>>
  BY DEF Deliver
<1>4. t \in clients /\ Reaches(t, work.to) /\ unannounced \subseteq Tabs
  BY <1>1 DEF StreamInv, HandOK, StreamTypes
<1>5. work.n \in Nat /\ work.to \in Address
  BY <1>1 DEF Handing
<1>6. due'[t] = D
  BY <1>2 DEF StreamInv, StreamTypes
<1>7. CASE ~ wanted
  <2>1. work' = Next1(t) /\ conn' = [conn EXCEPT ![t] = conn[t]]
    BY <1>7, SameRow DEF Deliver
  <2>2. work' = Idle \/ t \notin work'.todo
    BY <1>1, <2>1, GoesOn
  <2>3. conn' = conn
    BY <2>1, SameRow
  <2>4. Told(t)'
    <3>1. Told(t)
      BY <1>4, HolesAreTold DEF StreamInv
    <3>2. work.tab # t
      BY <1>1, HubAssumption DEF None
    <3>3. CASE due[t] \subseteq Coming(t)
      <4>1. due'[t] \subseteq Coming(t) \ {work.n}
        BY <1>6, <1>7, <3>3
      <4>2. Coming(t)' = {channel[i].n : i \in 1..Len(channel)}
                         \cup {conn[t].buf[i].n : i \in 1..Len(conn[t].buf)}
        BY <1>3, <2>2, <2>3, ComingAfter
      <4>3. Coming(t) \ {work.n} \subseteq Coming(t)'
        BY <4>2 DEF Coming
      <4> QED  BY <4>1, <4>3 DEF Told
    <3> QED  BY <1>3, <2>3, <3>1, <3>2, <3>3 DEF Told
  <2>5. Proper(t, conn[t])
    BY SameRow
  <2> HIDE DEF D
  <2> QED  BY <1>1, <1>2, <1>3, <1>4, <2>1, <2>4, <2>5, HandedOver DEF Proper
<1>8. CASE wanted /\ Full(t)
  <2>1. work' = [work EXCEPT !.k = "full", !.tab = t] /\ conn' = [conn EXCEPT ![t] = conn[t]]
    BY <1>8, SameRow DEF Deliver
  <2>2. Proper(t, conn[t])
    BY SameRow
  <2> HIDE DEF D
  <2> QED  BY <1>1, <1>2, <1>3, <2>1, <2>2, KeptInHand DEF Proper
<1>9. CASE wanted /\ ~ Full(t)
  <2> DEFINE x == Push(work.n, work.to)
  <2>1. conn' = Put(t, x) /\ work' = Next1(t)
    BY <1>9 DEF Deliver
  <2>2. x \in Item /\ x.n = work.n /\ x.to = work.to
    BY <1>5, Items DEF Push
  <2> HIDE DEF x
  <2>3. PICK r : /\ Proper(t, r) /\ conn' = [conn EXCEPT ![t] = r]
                 /\ r.buf[Len(conn[t].buf) + 1] = x
                 /\ Len(r.buf) = Len(conn[t].buf) + 1
                 /\ \A i \in 1..Len(conn[t].buf) : r.buf[i] = conn[t].buf[i]
    BY <1>4, <1>9, <2>1, <2>2, PutRow
  <2>4. conn'[t] = r
    BY <2>3 DEF StreamInv, StreamTypes
  <2>5. work' = Idle \/ t \notin work'.todo
    BY <1>1, <2>1, GoesOn
  <2>6. Len(conn[t].buf) \in Nat
    BY Buffers DEF StreamInv
  <2>7. Told(t)'
    <3>1. Told(t)
      BY <1>4, HolesAreTold DEF StreamInv
    <3>2. work.tab # t
      BY <1>1, HubAssumption DEF None
    <3>3. Coming(t)' = {channel[i].n : i \in 1..Len(channel)} \cup {r.buf[i].n : i \in 1..Len(r.buf)}
      BY <1>3, <2>4, <2>5, ComingAfter
    <3>4. work.n \in Coming(t)'
      BY <2>2, <2>3, <2>6, <3>3
    <3>5. \A n \in Coming(t) : n \in Coming(t)'
      <4> SUFFICES ASSUME NEW i \in 1..Len(conn[t].buf)
                   PROVE  conn[t].buf[i].n \in {r.buf[j].n : j \in 1..Len(r.buf)}
        BY <3>3, <3>4 DEF Coming
      <4>1. i \in 1..Len(r.buf) /\ r.buf[i] = conn[t].buf[i]
        BY <2>3, <2>6
      <4> QED  BY <4>1
    <3>6. CASE due[t] \subseteq Coming(t)
      BY <1>6, <1>9, <3>4, <3>5, <3>6 DEF Told
    <3>7. CASE Contains(conn[t].buf, Notice)
      <4>1. PICK i \in 1..Len(conn[t].buf) : conn[t].buf[i] = Notice
        BY <3>7 DEF Contains
      <4>2. i \in 1..Len(r.buf) /\ r.buf[i] = Notice
        BY <2>3, <2>6, <4>1
      <4> QED  BY <2>4, <4>2 DEF Told, Contains
    <3> QED  BY <1>3, <3>1, <3>2, <3>6, <3>7 DEF Told
  <2> HIDE DEF D
  <2> QED  BY <1>1, <1>2, <1>3, <1>4, <2>1, <2>3, <2>7, HandedOver DEF Proper
<1> QED  BY <1>7, <1>8, <1>9

(* A notice reaches the buffer: whatever is missing will be fetched. *)
LEMMA NoticeInv ==
  ASSUME StreamInv, work.k \in {"full", "retry"}, ~ Full(work.tab),
         conn' = Put(work.tab, Notice), work' = Next1(work.tab),
         UNCHANGED <<clients, channel, due, unannounced, counted>>
  PROVE  StreamInv'
<1>1. work \in Handing /\ work # Idle
  BY BusyIsHanding
<1>2. PICK t \in work.todo : t = work.tab
  BY <1>1 DEF StreamInv, HandOK
<1>3. t \in Tabs /\ work.tab \in {None, t}
  BY <1>1, <1>2 DEF Handing
<1>4. ~ Full(t) /\ conn' = Put(t, Notice) /\ work' = Next1(t)
  BY <1>2
<1>5. Notice \in Item /\ Notice.k # "msg"
  BY Items DEF Notice
<1>6. PICK r : /\ Proper(t, r) /\ conn' = [conn EXCEPT ![t] = r]
               /\ r.buf[Len(conn[t].buf) + 1] = Notice
               /\ Len(r.buf) = Len(conn[t].buf) + 1
  BY <1>3, <1>4, <1>5, PutRow
<1>7. conn'[t] = r /\ Len(conn[t].buf) \in Nat
  BY <1>3, <1>6, Buffers DEF StreamInv, StreamTypes
<1>8. Len(r.buf) \in 1..Len(r.buf)
  BY <1>6, <1>7
<1>9. Told(t)'
  BY <1>6, <1>7, <1>8 DEF Told, Contains
<1>10. due' = [due EXCEPT ![t] = due[t]] /\ unannounced \subseteq Tabs
  BY <1>3 DEF StreamInv, StreamTypes
<1> QED  BY <1>1, <1>2, <1>3, <1>4, <1>6, <1>9, <1>10, HandedOver DEF Proper

LEMMA DroppedNoticeInv ==
  ASSUME StreamInv, DroppedNotice
  PROVE  StreamInv'
<1>1. work.k = "full" /\ work \in Handing /\ work # Idle
  BY BusyIsHanding DEF DroppedNotice
<1>2. CASE ~ Full(work.tab)
  BY <1>1, <1>2, NoticeInv DEF DroppedNotice
<1>3. CASE Full(work.tab)
  <2>1. PICK t \in work.todo : t = work.tab
    BY <1>1 DEF StreamInv, HandOK
  <2>2. t \in Tabs /\ work.tab \in {None, t}
    BY <1>1, <2>1 DEF Handing
  <2>3. conn' = [conn EXCEPT ![t] = conn[t]] /\ due' = [due EXCEPT ![t] = due[t]]
    BY <1>3, <2>1, <2>2, SameRow DEF DroppedNotice, StreamInv, StreamTypes
  <2>4. work' = [work EXCEPT !.k = "evict", !.tab = t]
    BY <1>1, <1>3, <2>1 DEF DroppedNotice, Handing
  <2>5. Proper(t, conn[t])
    BY <2>2, SameRow
  <2>6. UNCHANGED <<clients, channel, counted, unannounced>>
    BY DEF DroppedNotice
  <2> QED  BY <1>1, <2>1, <2>2, <2>3, <2>4, <2>5, <2>6, KeptInHand DEF Proper
<1> QED  BY <1>2, <1>3

(* The eviction makes room: the buffer holds one less than its size. *)
LEMMA DroppedEvictInv ==
  ASSUME StreamInv, DroppedEvict
  PROVE  StreamInv'
<1>1. work.k = "evict" /\ work \in Handing /\ work # Idle
  BY BusyIsHanding DEF DroppedEvict
<1>2. PICK t \in work.todo : t = work.tab
  BY <1>1 DEF StreamInv, HandOK
<1>3. t \in Tabs /\ work.tab \in {None, t}
  BY <1>1, <1>2 DEF Handing
<1> DEFINE b == IF conn[t].buf = <<>> THEN conn[t].buf ELSE Tail(conn[t].buf)
           r == [conn[t] EXCEPT !.buf = b]
<1>4. conn' = [conn EXCEPT ![t].buf = b]
  BY <1>2 DEF DroppedEvict
<1>5. Proper(t, conn[t]) /\ conn[t].buf \in Seq(Item) /\ Len(conn[t].buf) \in Nat
      /\ BufferSize \in Nat \ {0}
  BY <1>3, SameRow, Buffers, HubAssumption DEF StreamInv
<1>6. b \in Seq(Item) /\ Len(b) < BufferSize
      /\ \A i \in 1..Len(b) : b[i].k = "msg" => Reaches(t, b[i].to)
  <2>1. CASE conn[t].buf = <<>>
    <3>1. b = <<>>
      BY <2>1
    <3> HIDE DEF b, r
    <3> QED  BY <1>5, <3>1, EmptySeq
  <2>2. CASE conn[t].buf # <<>>
    <3>1. /\ b \in Seq(Item) /\ Len(b) = Len(conn[t].buf) - 1
          /\ \A i \in 1..Len(b) : b[i] = conn[t].buf[i + 1]
      BY <1>5, <2>2, HeadTailProperties
    <3>2. Len(b) \in Nat
      BY <3>1, LenProperties
    <3> HIDE DEF b
    <3>3. \A i \in 1..Len(b) : i + 1 \in 1..Len(conn[t].buf)
      BY <1>5, <3>1, <3>2
    <3>4. \A i \in 1..Len(b) : b[i].k = "msg" => Reaches(t, b[i].to)
      BY <1>5, <3>1, <3>3 DEF Proper
    <3>5. Len(b) < BufferSize
      BY <1>5, <3>1 DEF Proper
    <3> QED  BY <3>1, <3>4, <3>5
  <2> QED  BY <2>1, <2>2
<1> HIDE DEF b
<1>7. Proper(t, r) /\ Len(r.buf) < BufferSize
  <2>1. r \in Connection /\ r.buf = b /\ r.st = conn[t].st /\ r.topics = conn[t].topics
    BY <1>5, <1>6 DEF Proper, Connection
  <2>2. Len(b) \in Nat
    BY <1>6, LenProperties
  <2> HIDE DEF r
  <2> QED  BY <1>5, <1>6, <2>1, <2>2 DEF Proper
<1>8. conn' = [conn EXCEPT ![t] = r] /\ due' = [due EXCEPT ![t] = due[t]]
  BY <1>3, <1>4, <1>5 DEF Proper, Connection, DroppedEvict, StreamInv, StreamTypes
<1>9. work' = [work EXCEPT !.k = "retry", !.tab = t]
  BY <1>1, <1>2 DEF DroppedEvict, Handing
<1>10. UNCHANGED <<clients, channel, counted, unannounced>>
  BY DEF DroppedEvict
<1> HIDE DEF r
<1> QED  BY <1>1, <1>2, <1>3, <1>7, <1>8, <1>9, <1>10, KeptInHand DEF Proper

LEMMA DroppedRetryInv ==
  ASSUME StreamInv, DroppedRetry
  PROVE  StreamInv'
<1>1. work.k = "retry" /\ work \in Handing /\ work # Idle
  BY BusyIsHanding DEF DroppedRetry
<1>2. CASE ~ Full(work.tab)
  BY <1>1, <1>2, NoticeInv DEF DroppedRetry
<1>3. CASE Full(work.tab)
  <2>1. PICK t \in work.todo : t = work.tab /\ conn[t].ponged
    BY <1>1, <1>3 DEF StreamInv, HandOK
  <2>2. t \in Tabs /\ work.tab \in {None, t}
    BY <1>1, <2>1 DEF Handing
  <2>3. conn' = [conn EXCEPT ![t] = conn[t]] /\ due' = [due EXCEPT ![t] = due[t]]
    BY <1>3, <2>1, <2>2, SameRow DEF DroppedRetry, StreamInv, StreamTypes
  <2>4. work' = Next1(t) /\ unannounced' = unannounced \cup {t}
    BY <1>3, <2>1 DEF DroppedRetry
  <2>5. Told(t)' /\ unannounced' \subseteq Tabs
    BY <2>2, <2>4 DEF Told, StreamInv, StreamTypes
  <2>6. UNCHANGED <<clients, channel, counted>>
    BY DEF DroppedRetry
  <2>7. Proper(t, conn[t])
    BY <2>2, SameRow
  <2> QED  BY <1>1, <2>1, <2>2, <2>3, <2>4, <2>5, <2>6, <2>7, HandedOver DEF Proper
<1> QED  BY <1>2, <1>3

(* One row changes while the hub's hand and the channel stay. *)
LEMMA PumpStep ==
  ASSUME StreamInv, NEW t \in Tabs, NEW r, Proper(t, r), conn' = [conn EXCEPT ![t] = r],
         NEW D, due' = [due EXCEPT ![t] = D], D \subseteq due[t],
         UNCHANGED <<clients, channel, work>>,
         unannounced' \subseteq Tabs, \A s \in unannounced : s # t => s \in unannounced',
         ~ (Len(r.buf) >= BufferSize) \/ r.ponged,
         counted' \in [msgs : Nat, pings : Nat, reads : Nat], counted'.msgs = counted.msgs,
         t \in clients => Told(t)'
  PROVE  StreamInv'
<1>2. /\ conn' \in [Tabs -> Connection] /\ conn'[t] = r
      /\ \A s \in Tabs : s # t => conn'[s] = conn[s]
      /\ LimitsKept' /\ RegistryMatches' /\ OnlyAddressed'
  BY BufferStep DEF Proper
<1>3. \A n \in D : n \in due[t] \/ (work # Idle /\ t \in work.todo /\ n = work.n)
  OBVIOUS
<1>4. /\ due' \in [Tabs -> SUBSET Nat] /\ DueOK' /\ due'[t] = D
      /\ \A s \in Tabs : s # t => due'[s] = due[s]
      /\ \A s \in Tabs : due'[s] \subseteq 1..counted.msgs
  BY <1>3, DueStep
<1>5. StreamTypes'
  BY <1>2, <1>4 DEF StreamInv, StreamTypes
<1>6. NumbersOK'
  BY <1>4 DEF StreamInv, NumbersOK
<1>7. HandOK'
  <2> SUFFICES ASSUME work # Idle
               PROVE  /\ \A s \in work.todo : s \in clients /\ Reaches(s, work.to)
                      /\ work.k = "send" => work.tab = None
                      /\ work.k # "send" => work.tab \in work.todo
                      /\ work.k = "retry" => ~ (Len(conn'[work.tab].buf) >= BufferSize) \/ conn'[work.tab].ponged
    BY DEF HandOK, Full
  <2>1. /\ \A s \in work.todo : s \in clients /\ Reaches(s, work.to)
        /\ work.k = "send" => work.tab = None
        /\ work.k # "send" => work.tab \in work.todo
        /\ work.k = "retry" => ~ (Len(conn[work.tab].buf) >= BufferSize) \/ conn[work.tab].ponged
    BY DEF HandOK, StreamInv, Full
  <2>2. work.todo \subseteq Tabs
    BY <2>1 DEF StreamInv, StreamTypes
  <2>3. ASSUME work.k = "retry"
        PROVE  ~ (Len(conn'[work.tab].buf) >= BufferSize) \/ conn'[work.tab].ponged
    <3>1. work.tab \in Tabs
      BY <2>1, <2>2, <2>3
    <3>2. CASE work.tab = t
      BY <1>2, <3>2
    <3>3. CASE work.tab # t
      <4>1. conn'[work.tab] = conn[work.tab]
        BY <1>2, <3>1, <3>3
      <4> QED  BY <2>1, <2>3, <4>1
    <3> QED  BY <3>2, <3>3
  <2> QED  BY <2>1, <2>3
<1>8. HoleAnnounced'
  <2> SUFFICES ASSUME NEW s \in clients, s # t  PROVE Told(s)'
    BY HolesAreTold DEF HoleAnnounced, Told
  <2>1. s \in Tabs
    BY DEF StreamInv, StreamTypes
  <2>2. conn'[s] = conn[s] /\ due'[s] = due[s]
    BY <1>2, <1>4, <2>1
  <2>3. Coming(s)' = Coming(s)
    BY <2>1, <2>2, ComingFrame
  <2>4. Told(s)
    BY HolesAreTold DEF StreamInv
  <2> QED  BY <2>2, <2>3, <2>4 DEF Told
<1> QED  BY <1>2, <1>4, <1>5, <1>6, <1>7, <1>8 DEF StreamInv

(* sendPong. *)
LEMMA SendPongInv ==
  ASSUME StreamInv, NEW t \in Tabs, SendPong(t)
  PROVE  StreamInv'
<1> DEFINE b == Append(conn[t].buf, Pong)
           r == [conn[t] EXCEPT !.buf = b, !.ponged = TRUE]
<1>1. conn[t] \in Connection /\ conn[t].buf \in Seq(Item) /\ Len(conn[t].buf) \in Nat
      /\ BufferSize \in Nat /\ Pong \in Item
  BY Buffers, HubAssumption, Items DEF StreamInv
<1>2. /\ b \in Seq(Item) /\ Len(b) = Len(conn[t].buf) + 1
      /\ \A i \in 1..Len(conn[t].buf) : b[i] = conn[t].buf[i]
      /\ b[Len(conn[t].buf) + 1] = Pong
  BY <1>1, AppendProperties
<1>3. [Put(t, Pong) EXCEPT ![t].ponged = TRUE] = [conn EXCEPT ![t] = r]
  BY <1>1 DEF Put, Connection, StreamInv, StreamTypes
<1> HIDE DEF b
<1>4. r \in Connection /\ r.buf = b /\ r.st = conn[t].st /\ r.topics = conn[t].topics
  BY <1>1, <1>2 DEF Connection
<1>5. r.ponged
  BY <1>1 DEF Connection
<1>6. conn' = [conn EXCEPT ![t] = r]
  BY <1>3 DEF SendPong
<1> HIDE DEF r
<1>7. Proper(t, r)
  <2>1. ~ (Len(conn[t].buf) >= BufferSize)
    BY DEF SendPong, Full
  <2>2. Len(r.buf) =< BufferSize
    BY <1>1, <1>2, <1>4, <2>1
  <2>3. ASSUME NEW i \in 1..Len(r.buf), r.buf[i].k = "msg"  PROVE Reaches(t, r.buf[i].to)
    <3>1. CASE i = Len(conn[t].buf) + 1
      BY <1>2, <1>4, <2>3, <3>1 DEF Pong
    <3>2. CASE i \in 1..Len(conn[t].buf)
      BY <1>2, <1>4, <2>3, <3>2, SameRow DEF Proper
    <3> QED  BY <1>1, <1>2, <1>4, <3>1, <3>2
  <2> QED  BY <1>4, <2>2, <2>3 DEF Proper
<1>8. conn'[t] = r
  BY <1>6 DEF StreamInv, StreamTypes
<1>9. ASSUME t \in clients  PROVE Told(t)'
  <2>1. Told(t)
    BY <1>9, HolesAreTold DEF StreamInv
  <2>2. \A i \in 1..Len(conn[t].buf) : i \in 1..Len(conn'[t].buf) /\ conn'[t].buf[i] = conn[t].buf[i]
    BY <1>1, <1>2, <1>4, <1>8
  <2>3. Coming(t) \subseteq Coming(t)'
    BY <2>2 DEF Coming, SendPong
  <2>4. Contains(conn[t].buf, Notice) => Contains(conn'[t].buf, Notice)
    BY <2>2 DEF Contains
  <2> QED  BY <2>1, <2>3, <2>4 DEF Told, SendPong
<1>10. due' = [due EXCEPT ![t] = due[t]] /\ unannounced' = unannounced /\ unannounced \subseteq Tabs
       /\ UNCHANGED <<clients, channel, work>>
  BY DEF SendPong, StreamInv, StreamTypes
<1>11. counted' \in [msgs : Nat, pings : Nat, reads : Nat] /\ counted'.msgs = counted.msgs
  BY DEF SendPong, Asks, StreamInv, StreamTypes
<1> QED  BY <1>5, <1>6, <1>7, <1>9, <1>10, <1>11, PumpStep

(* WritePump: what leaves the buffer is known; a notice makes the rest known. *)
LEMMA WritePumpInv ==
  ASSUME StreamInv, NEW t \in Tabs, WritePump(t)
  PROVE  StreamInv'
<1> DEFINE b == Tail(conn[t].buf)
           x == Head(conn[t].buf)
           r == [conn[t] EXCEPT !.buf = b, !.ponged = FALSE]
           D == IF x.k = "notice" THEN due[t] \cap Coming(t) ELSE due[t] \ {x.n}
<1>1. conn[t] \in Connection /\ conn[t].buf \in Seq(Item) /\ Len(conn[t].buf) \in Nat
      /\ BufferSize \in Nat
  BY Buffers, HubAssumption DEF StreamInv
<1>2. /\ b \in Seq(Item) /\ Len(b) = Len(conn[t].buf) - 1 /\ Len(b) \in Nat
      /\ \A i \in 1..Len(b) : b[i] = conn[t].buf[i + 1]
      /\ x \in Item /\ x = conn[t].buf[1]
  <2>1. conn[t].buf # <<>>
    BY DEF WritePump
  <2> QED  BY <1>1, <2>1, HeadTailProperties, LenProperties
<1>3. conn' = [conn EXCEPT ![t] = r] /\ due' = [due EXCEPT ![t] = D]
      /\ unannounced' = IF x.k = "notice" THEN unannounced \ {t} ELSE unannounced
  BY <1>1 DEF WritePump, Connection, StreamInv, StreamTypes
<1> HIDE DEF b, x
<1>4. r \in Connection /\ r.buf = b /\ r.st = conn[t].st /\ r.topics = conn[t].topics
  BY <1>1, <1>2 DEF Connection
<1> HIDE DEF r
<1>5. Len(conn[t].buf) =< BufferSize
  BY DEF StreamInv, LimitsKept
<1>6. ~ (Len(r.buf) >= BufferSize) /\ Len(r.buf) =< BufferSize
  BY <1>1, <1>2, <1>4, <1>5
<1>7. \A i \in 1..Len(b) : i + 1 \in 1..Len(conn[t].buf)
  BY <1>1, <1>2
<1>8. Proper(t, r)
  <2>1. \A i \in 1..Len(b) : b[i].k = "msg" => Reaches(t, b[i].to)
    BY <1>2, <1>7, SameRow DEF Proper
  <2> QED  BY <1>4, <1>6, <2>1 DEF Proper
<1>9. conn'[t] = r /\ due'[t] = D
  BY <1>3 DEF StreamInv, StreamTypes
<1>10. UNCHANGED <<clients, channel, work, counted>>
  BY DEF WritePump
<1>11. \A n \in Coming(t) : n = x.n \/ n \in Coming(t)'
  <2>1. ASSUME NEW i \in 1..Len(conn[t].buf), i # 1
        PROVE  \E j \in 1..Len(conn'[t].buf) : conn'[t].buf[j] = conn[t].buf[i]
    <3>1. i - 1 \in 1..Len(b) /\ b[i - 1] = conn[t].buf[i]
      BY <1>1, <1>2, <2>1
    <3> QED  BY <1>4, <1>9, <3>1
  <2>2. \A i \in 1..Len(conn[t].buf) :
          conn[t].buf[i].n = x.n \/ conn[t].buf[i].n \in {conn'[t].buf[j].n : j \in 1..Len(conn'[t].buf)}
    BY <1>2, <2>1
  <2>3. \A n \in {conn[t].buf[i].n : i \in 1..Len(conn[t].buf)} :
          n = x.n \/ n \in {conn'[t].buf[j].n : j \in 1..Len(conn'[t].buf)}
    BY <2>2
  <2> QED  BY <1>10, <2>3 DEF Coming
<1>12. ASSUME t \in clients  PROVE Told(t)'
  <2>1. Told(t)
    BY <1>12, HolesAreTold DEF StreamInv
  <2>2. CASE x.k = "notice"
    <3>1. x.n = 0
      BY <1>2, <2>2, ItemFields
    <3>2. 0 \notin due[t]
      BY DEF StreamInv, NumbersOK
    <3> QED  BY <1>9, <1>11, <2>2, <3>1, <3>2 DEF Told
  <2>3. CASE x.k # "notice"
    <3>1. CASE due[t] \subseteq Coming(t)
      BY <1>9, <1>11, <2>3, <3>1 DEF Told
    <3>2. CASE Contains(conn[t].buf, Notice)
      <4>1. PICK i \in 1..Len(conn[t].buf) : conn[t].buf[i] = Notice
        BY <3>2 DEF Contains
      <4>2. i # 1
        BY <1>2, <2>3, <4>1 DEF Notice
      <4>3. i - 1 \in 1..Len(b) /\ b[i - 1] = Notice
        BY <1>1, <1>2, <4>1, <4>2
      <4> QED  BY <1>4, <1>9, <4>3 DEF Told, Contains
    <3>3. unannounced' = unannounced
      BY <1>3, <2>3
    <3> QED  BY <1>10, <2>1, <3>1, <3>2, <3>3 DEF Told
  <2> QED  BY <2>2, <2>3
<1>13. D \subseteq due[t]
  OBVIOUS
<1>14. unannounced' \subseteq Tabs /\ \A s \in unannounced : s # t => s \in unannounced'
  BY <1>3 DEF StreamInv, StreamTypes
<1>15. counted' \in [msgs : Nat, pings : Nat, reads : Nat] /\ counted'.msgs = counted.msgs
  BY <1>10 DEF StreamInv, StreamTypes
<1> HIDE DEF D
<1> QED  BY <1>3, <1>6, <1>8, <1>10, <1>12, <1>13, <1>14, <1>15, PumpStep

(* unregisterClient: the tab waits for nothing any more. *)
LEMMA UnregisterInv ==
  ASSUME StreamInv, NEW t \in Tabs, UnregisterClient(t)
  PROVE  StreamInv'
<1> DEFINE r == [conn[t] EXCEPT !.st = "gone", !.pump = FALSE, !.buf = <<>>]
<1>1. conn[t] \in Connection
  BY Buffers DEF StreamInv
<1>2. conn' = [conn EXCEPT ![t] = r] /\ due' = [due EXCEPT ![t] = {}]
      /\ clients' = clients \ {t} /\ unannounced' = unannounced \ {t}
      /\ UNCHANGED <<channel, work, counted>> /\ work = Idle
  BY DEF UnregisterClient
<1>3. <<>> \in Seq(Item) /\ Len(<<>>) = 0
  BY EmptySeq
<1>4. r \in Connection /\ r.buf = <<>> /\ r.st = "gone" /\ r.topics = conn[t].topics
  BY <1>1, <1>3 DEF Connection
<1> HIDE DEF r
<1>5. /\ conn' \in [Tabs -> Connection] /\ conn'[t] = r
      /\ \A s \in Tabs : s # t => conn'[s] = conn[s]
  BY <1>2, <1>4, RowWrite DEF StreamInv
<1>6. due'[t] = {} /\ \A s \in Tabs : s # t => due'[s] = due[s]
  BY <1>2 DEF StreamInv, StreamTypes
<1>7. StreamTypes'
  BY <1>2, <1>5 DEF StreamInv, StreamTypes
<1>8. LimitsKept'
  <2>1. BufferSize \in Nat
    BY HubAssumption
  <2>2. Len(conn'[t].buf) =< BufferSize
    BY <1>3, <1>4, <1>5, <2>1
  <2> QED  BY <1>2, <1>4, <1>5, <2>2 DEF StreamInv, LimitsKept
<1>9. NumbersOK'
  BY <1>2, <1>6 DEF StreamInv, NumbersOK
<1>10. DueOK'
  BY <1>2, <1>6 DEF StreamInv, DueOK
<1>11. HandOK'
  BY <1>2 DEF HandOK
<1>12. RegistryMatches'
  <2> SUFFICES ASSUME NEW s \in Tabs
               PROVE  s \in clients' <=> conn'[s].st \in {"in", "leaving"}
    BY DEF RegistryMatches
  <2>1. CASE s = t
    BY <1>2, <1>4, <1>5, <2>1
  <2>2. CASE s # t
    BY <1>2, <1>5, <2>2 DEF StreamInv, RegistryMatches
  <2> QED  BY <2>1, <2>2
<1>13. HoleAnnounced'
  <2> SUFFICES ASSUME NEW s \in clients, s # t  PROVE Told(s)'
    BY <1>2 DEF HoleAnnounced, Told
  <2>1. s \in Tabs
    BY DEF StreamInv, StreamTypes
  <2>2. conn'[s] = conn[s] /\ due'[s] = due[s]
    BY <1>5, <1>6, <2>1
  <2>3. Coming(s)' = Coming(s)
    BY <1>2, <2>1, <2>2, ComingFrame
  <2>4. Told(s)
    BY HolesAreTold DEF StreamInv
  <2> QED  BY <1>2, <2>2, <2>3, <2>4 DEF Told
<1>14. OnlyAddressed'
  <2> SUFFICES ASSUME NEW s \in Tabs, NEW i \in 1..Len(conn'[s].buf), conn'[s].buf[i].k = "msg"
               PROVE  Reaches(s, conn'[s].buf[i].to)
    BY DEF OnlyAddressed, Reaches
  <2>1. CASE s = t
    BY <1>3, <1>4, <1>5, <2>1
  <2>2. CASE s # t
    BY <1>5, <2>2 DEF StreamInv, OnlyAddressed, Reaches
  <2> QED  BY <2>1, <2>2
<1> QED  BY <1>7, <1>8, <1>9, <1>10, <1>11, <1>12, <1>13, <1>14 DEF StreamInv

(* Run takes a message: whoever waits for it is among those it goes through. *)
LEMMA TakeMessageInv ==
  ASSUME StreamInv, TakeMessage
  PROVE  StreamInv'
<1> DEFINE m == Head(channel)
           w == [k |-> "send", n |-> m.n, to |-> m.to, todo |-> Walked(m.to), tab |-> None]
<1>1. channel \in Seq(Message) /\ Len(channel) \in Nat /\ channel # <<>>
      /\ \A i \in 1..Len(channel) : channel[i].n \in Nat /\ channel[i].to \in Address
  BY ChannelTypes DEF TakeMessage, StreamInv
<1>2. /\ channel' \in Seq(Message) /\ Len(channel') = Len(channel) - 1 /\ Len(channel') \in Nat
      /\ \A i \in 1..Len(channel') : channel'[i] = channel[i + 1]
      /\ m = channel[1]
  <2>1. channel' = Tail(channel)
    BY DEF TakeMessage
  <2> QED  BY <1>1, <2>1, HeadTailProperties, LenProperties
<1>3. 1 \in 1..Len(channel) /\ \A i \in 1..Len(channel') : i + 1 \in 1..Len(channel) /\ 1 < i + 1
  BY <1>1, <1>2
<1>4. m.n \in Nat /\ m.to \in Address
  BY <1>1, <1>2, <1>3
<1>5. /\ work = Idle /\ work' = IF Walked(m.to) = {} THEN Idle ELSE w
      /\ UNCHANGED <<conn, clients, due, unannounced, counted>>
  BY DEF TakeMessage
<1> HIDE DEF m
<1>6. Walked(m.to) \subseteq clients /\ clients \subseteq Tabs
      /\ \A t \in Walked(m.to) : Reaches(t, m.to)
  BY DEF Walked, Reaches, StreamInv, StreamTypes
<1>7. w \in Handing /\ w.n = m.n /\ w.to = m.to /\ w.todo = Walked(m.to) /\ w.k = "send" /\ w.tab = None
  BY <1>4, <1>6 DEF Handing
<1>8. w # Idle
  BY <1>7 DEF Idle
<1> HIDE DEF w
<1>9. StreamTypes'
  BY <1>2, <1>5, <1>7 DEF StreamInv, StreamTypes
<1>10. LimitsKept'
  <2>1. Len(channel) =< ChannelSize /\ ChannelSize \in Nat
    BY HubAssumption DEF StreamInv, LimitsKept
  <2>2. Len(channel') =< ChannelSize
    BY <1>1, <1>2, <2>1
  <2> QED  BY <1>5, <2>2 DEF StreamInv, LimitsKept
<1>11. NumbersOK'
  <2>1. \A i \in 1..Len(channel) : channel[i].n >= 1 /\ channel[i].n =< counted.msgs
    BY DEF StreamInv, NumbersOK
  <2>2. \A i, j \in 1..Len(channel) : i < j => channel[i].n < channel[j].n
    BY DEF StreamInv, NumbersOK
  <2>3. \A i \in 1..Len(channel') : channel'[i].n >= 1 /\ channel'[i].n =< counted'.msgs
    BY <1>2, <1>3, <1>5, <2>1
  <2>4. \A i, j \in 1..Len(channel') : i < j => channel'[i].n < channel'[j].n
    <3> SUFFICES ASSUME NEW i \in 1..Len(channel'), NEW j \in 1..Len(channel'), i < j
                 PROVE  channel[i + 1].n < channel[j + 1].n
      BY <1>2
    <3>1. i + 1 < j + 1 /\ i + 1 \in 1..Len(channel) /\ j + 1 \in 1..Len(channel)
      BY <1>2, <1>3
    <3> QED  BY <2>2, <3>1
  <2>5. m.n >= 1 /\ m.n =< counted'.msgs
    BY <1>2, <1>3, <1>5, <2>1
  <2>6. \A i \in 1..Len(channel') : m.n < channel'[i].n
    BY <1>2, <1>3, <2>2
  <2>7. work' # Idle => work'.n = m.n
    BY <1>5, <1>7
  <2>8. \A t \in Tabs : due'[t] \subseteq 1..counted'.msgs
    BY <1>5 DEF StreamInv, NumbersOK
  <2> QED  BY <2>3, <2>4, <2>5, <2>6, <2>7, <2>8 DEF NumbersOK
<1>12. DueOK'
  <2>1. ASSUME NEW t \in Tabs, NEW i \in 1..Len(channel'), channel'[i].n \in due'[t]
        PROVE  Reaches(t, channel'[i].to)
    <3>1. i + 1 \in 1..Len(channel) /\ channel'[i] = channel[i + 1] /\ channel[i + 1].n \in due[t]
      BY <1>2, <1>3, <1>5, <2>1
    <3> QED  BY <3>1 DEF StreamInv, DueOK
  <2>2. \A t \in Tabs : t \notin clients' => due'[t] = {}
    BY <1>5 DEF StreamInv, DueOK
  <2> QED  BY <2>1, <2>2 DEF DueOK
<1>13. HandOK'
  <2>1. CASE Walked(m.to) = {}
    BY <1>5, <2>1 DEF HandOK
  <2>2. CASE Walked(m.to) # {}
    <3>1. work' = w
      BY <1>5, <2>2
    <3>2. \A t \in work'.todo : t \in clients' /\ Reaches(t, work'.to)
      BY <1>5, <1>6, <1>7, <3>1
    <3>3. work'.k = "send" /\ work'.tab = None
      BY <1>7, <3>1
    <3> QED  BY <3>2, <3>3 DEF HandOK
  <2> QED  BY <2>1, <2>2
<1>14. RegistryMatches' /\ OnlyAddressed'
  BY <1>5 DEF StreamInv, RegistryMatches, OnlyAddressed
<1>15. HoleAnnounced'
  <2> SUFFICES ASSUME NEW t \in clients  PROVE Told(t)'
    BY <1>5 DEF HoleAnnounced, Told
  <2>1. t \in Tabs
    BY DEF StreamInv, StreamTypes
  <2>2. Told(t)
    BY HolesAreTold DEF StreamInv
  <2>3. ASSUME due[t] \subseteq Coming(t), NEW n \in due[t]  PROVE n \in Coming(t)'
    <3>1. CASE \E i \in 1..Len(channel) : n = channel[i].n
      <4>1. PICK i \in 1..Len(channel) : n = channel[i].n
        BY <3>1
      <4>2. CASE i = 1
        <5>1. Reaches(t, m.to)
          BY <1>2, <1>3, <2>1, <2>3, <4>1, <4>2 DEF StreamInv, DueOK
        <5>2. t \in Walked(m.to)
          BY <5>1 DEF Walked, Reaches
        <5>3. work' = w /\ n = m.n
          BY <1>2, <1>5, <4>1, <4>2, <5>2
        <5> QED  BY <1>7, <1>8, <5>2, <5>3 DEF Coming
      <4>3. CASE i # 1
        <5>1. i - 1 \in 1..Len(channel') /\ channel'[i - 1] = channel[i]
          BY <1>1, <1>2, <4>1, <4>3
        <5>2. n \in {channel'[j].n : j \in 1..Len(channel')}
          BY <4>1, <5>1
        <5> QED  BY <5>2 DEF Coming
      <4> QED  BY <4>2, <4>3
    <3>2. CASE n \in {conn[t].buf[i].n : i \in 1..Len(conn[t].buf)}
      BY <1>5, <3>2 DEF Coming
    <3> QED  BY <1>5, <2>3, <3>1, <3>2 DEF Coming
  <2> QED  BY <1>5, <2>2, <2>3 DEF Told
<1> QED  BY <1>9, <1>10, <1>11, <1>12, <1>13, <1>14, <1>15 DEF StreamInv

-----------------------------------------------------------------------------
(* Broadcasts                                                                 *)

LEMMA FunIsSeq ==
  ASSUME NEW n \in Nat, NEW S, NEW f \in [1..n -> S]
  PROVE  f \in Seq(S) /\ Len(f) = n
<1>1. f \in Seq(S)
  BY SeqDef
<1>2. DOMAIN f = 1..n /\ DOMAIN f = 1..Len(f) /\ Len(f) \in Nat
  BY <1>1, LenProperties
<1> QED  BY <1>1, <1>2

(* What Broadcast takes into the channel and what it loses. *)
LEMMA BroadcastTakes ==
  ASSUME StreamInv, NEW ads \in Seq(Address), Broadcast(ads)
  PROVE  \E k \in Nat :
           /\ k =< Len(ads) /\ Len(channel) + k =< ChannelSize
           /\ channel' \in Seq(Message) /\ Len(channel') = Len(channel) + k
           /\ \A i \in 1..Len(channel) : channel'[i] = channel[i]
           /\ \A j \in 1..k : /\ channel'[Len(channel) + j].n = counted.msgs + j
                              /\ channel'[Len(channel) + j].to = ads[j]
           /\ unannounced' = unannounced \cup UNION {Addressed(ads[i]) : i \in (k + 1)..Len(ads)}
<1> DEFINE room == ChannelSize - Len(channel)
           k == IF Len(ads) < room THEN Len(ads) ELSE room
           taken == SubSeq(ads, 1, k)
           new == [i \in 1..Len(taken) |-> [n |-> counted.msgs + i, to |-> taken[i]]]
<1>1. /\ Len(ads) \in Nat /\ Len(channel) \in Nat /\ ChannelSize \in Nat /\ Len(channel) =< ChannelSize
      /\ ads \in [1..Len(ads) -> Address] /\ channel \in Seq(Message)
  BY LenProperties, ChannelTypes, HubAssumption DEF StreamInv, LimitsKept
<1>2. k \in Nat /\ k =< Len(ads) /\ Len(channel) + k =< ChannelSize
  <2>1. CASE Len(ads) < room
    <3>1. k = Len(ads) /\ Len(ads) < ChannelSize - Len(channel)
      BY <2>1
    <3> HIDE DEF k
    <3> QED  BY <1>1, <3>1
  <2>2. CASE ~ (Len(ads) < room)
    <3>1. k = ChannelSize - Len(channel) /\ ~ (Len(ads) < ChannelSize - Len(channel))
      BY <2>2
    <3> HIDE DEF k
    <3> QED  BY <1>1, <3>1
  <2> QED  BY <2>1, <2>2
<1>3. /\ channel' = channel \o new
      /\ unannounced' = unannounced \cup UNION {Addressed(ads[i]) : i \in (Len(taken) + 1)..Len(ads)}
  BY DEF Broadcast
<1> HIDE DEF k
<1>4. Len(taken) = k /\ \A i \in 1..k : taken[i] = ads[i]
  <2>0. \A i \in 1..k : i \in 1..Len(ads)
    BY <1>1, <1>2
  <2>1. \A i \in 1..k : ads[i] \in Address
    BY <1>1, <2>0
  <2>2. /\ Len(taken) = IF 1 =< k THEN k - 1 + 1 ELSE 0
        /\ \A i \in 1..(k - 1 + 1) : taken[i] = ads[1 + i - 1]
    <3>1. 1 \in Int /\ k \in Int
      BY <1>2
    <3> HIDE DEF room
    <3> QED  BY <2>1, <3>1, SubSeqProperties
  <2> HIDE DEF taken
  <2> QED  BY <1>2, <2>2
<1> HIDE DEF taken
<1>5. new \in Seq(Message) /\ Len(new) = k /\ \A i \in 1..k : new[i].n = counted.msgs + i /\ new[i].to = ads[i]
  <2>0. counted.msgs \in Nat /\ \A i \in 1..k : i \in 1..Len(ads)
    BY <1>1, <1>2 DEF StreamInv, StreamTypes
  <2>1. \A i \in 1..k : counted.msgs + i \in Nat /\ taken[i] \in Address
    BY <1>1, <1>4, <2>0
  <2>2. new \in [1..k -> Message]
    BY <1>4, <2>1 DEF Message
  <2>3. \A i \in 1..k : new[i].n = counted.msgs + i /\ new[i].to = ads[i]
    BY <1>4
  <2> HIDE DEF new
  <2> QED  BY <1>2, <2>2, <2>3, FunIsSeq
<1> HIDE DEF new
<1>6. /\ channel' \in Seq(Message) /\ Len(channel') = Len(channel) + k
      /\ \A i \in 1..(Len(channel) + k) :
           channel'[i] = IF i =< Len(channel) THEN channel[i] ELSE new[i - Len(channel)]
  BY <1>1, <1>3, <1>5, ConcatProperties
<1>7. \A i \in 1..Len(channel) : channel'[i] = channel[i]
  BY <1>1, <1>2, <1>6
<1>8. \A j \in 1..k : channel'[Len(channel) + j] = new[j]
  <2> SUFFICES ASSUME NEW j \in 1..k  PROVE channel'[Len(channel) + j] = new[j]
    OBVIOUS
  <2>1. Len(channel) + j \in 1..(Len(channel) + k) /\ ~ (Len(channel) + j =< Len(channel))
        /\ (Len(channel) + j) - Len(channel) = j
    BY <1>1, <1>2
  <2> QED  BY <1>6, <2>1
<1>9. /\ \A j \in 1..k : /\ channel'[Len(channel) + j].n = counted.msgs + j
                         /\ channel'[Len(channel) + j].to = ads[j]
      /\ unannounced' = unannounced \cup UNION {Addressed(ads[i]) : i \in (k + 1)..Len(ads)}
  BY <1>3, <1>4, <1>5, <1>8
<1> QED  BY <1>2, <1>6, <1>7, <1>9

(* Broadcast: a message of the channel is on its way to all it is addressed   *)
(* to, and a lost one is accounted for.                                       *)
LEMMA BroadcastInv ==
  ASSUME StreamInv, NEW ads \in Seq(Address), Broadcast(ads)
  PROVE  StreamInv' /\ counted'.msgs = counted.msgs + Len(ads)
<1>1. PICK k \in Nat :
           /\ k =< Len(ads) /\ Len(channel) + k =< ChannelSize
           /\ channel' \in Seq(Message) /\ Len(channel') = Len(channel) + k
           /\ \A i \in 1..Len(channel) : channel'[i] = channel[i]
           /\ \A j \in 1..k : /\ channel'[Len(channel) + j].n = counted.msgs + j
                              /\ channel'[Len(channel) + j].to = ads[j]
           /\ unannounced' = unannounced \cup UNION {Addressed(ads[i]) : i \in (k + 1)..Len(ads)}
  BY BroadcastTakes
<1> DEFINE M == counted.msgs
           C == Len(channel)
           L == Len(ads)
           A(t) == {M + i : i \in {j \in 1..L : t \in Addressed(ads[j])}}
<1>2. M \in Nat /\ C \in Nat /\ L \in Nat
  BY LenProperties, ChannelTypes DEF StreamInv, StreamTypes
<1>3. counted' = [counted EXCEPT !.msgs = M + L] /\ UNCHANGED <<conn, clients, work>>
      /\ due' = [t \in Tabs |-> due[t] \cup A(t)]
  BY DEF Broadcast
<1>4. counted' \in [msgs : Nat, pings : Nat, reads : Nat] /\ counted'.msgs = M + L
  <2>1. M + L \in Nat
    BY <1>2
  <2>2. counted \in [msgs : Nat, pings : Nat, reads : Nat]
    BY DEF StreamInv, StreamTypes
  <2> HIDE DEF M, L
  <2> QED  BY <1>3, <2>1, <2>2
<1>5. \A t \in Tabs : due'[t] = due[t] \cup A(t)
  BY <1>3
<1>6. \A a : Addressed(a) \subseteq clients /\ \A t \in Addressed(a) : Reaches(t, a)
  BY DEF Addressed, Walked, Reaches
<1>7. \A t \in Tabs : A(t) \subseteq (M + 1)..(M + L)
  <2> HIDE DEF M, L
  <2> QED  BY <1>2
<1>8. /\ \A i \in 1..C : channel[i].n \in Nat /\ channel[i].n >= 1 /\ channel[i].n =< M
      /\ \A t \in Tabs : due[t] \subseteq 1..M
  BY ChannelTypes DEF StreamInv, NumbersOK
<1>9. \A i \in 1..Len(channel') : i \in 1..C \/ \E j \in 1..k : i = C + j
  <2> SUFFICES ASSUME NEW i \in 1..(C + k), i \notin 1..C  PROVE \E j \in 1..k : i = C + j
    BY <1>1
  <2>1. i - C \in 1..k /\ i = C + (i - C)
    BY <1>2
  <2> QED  BY <2>1
<1> HIDE DEF A
<1>10. StreamTypes'
  <2>1. due' \in [Tabs -> SUBSET Nat]
    <3>1. \A t \in Tabs : due[t] \cup A(t) \in SUBSET Nat
      <4> HIDE DEF M, L
      <4> QED  BY <1>2, <1>7, <1>8
    <3> QED  BY <1>3, <3>1
  <2>2. unannounced' \subseteq Tabs
    <3>1. UNION {Addressed(ads[i]) : i \in (k + 1)..Len(ads)} \subseteq clients
      BY <1>6
    <3> QED  BY <1>1, <3>1 DEF StreamInv, StreamTypes
  <2> QED  BY <1>1, <1>3, <1>4, <2>1, <2>2 DEF StreamInv, StreamTypes
<1>11. LimitsKept'
  BY <1>1, <1>3 DEF StreamInv, LimitsKept
<1>12. NumbersOK'
  <2> HIDE DEF M, C, L
  <2>0. counted.msgs = M /\ Len(channel) = C /\ Len(ads) = L
    BY DEF M, C, L
  <2>1. \A i \in 1..Len(channel') : channel'[i].n >= 1 /\ channel'[i].n =< M + L
    <3> SUFFICES ASSUME NEW i \in 1..Len(channel')
                 PROVE  channel'[i].n >= 1 /\ channel'[i].n =< M + L
      OBVIOUS
    <3>1. CASE i \in 1..C
      <4>1. channel'[i] = channel[i]
        BY <1>1, <2>0, <3>1
      <4> QED  BY <1>2, <1>8, <3>1, <4>1
    <3>2. CASE \E j \in 1..k : i = C + j
      <4>1. PICK j \in 1..k : i = C + j
        BY <3>2
      <4>2. channel'[i].n = M + j /\ k =< L
        BY <1>1, <2>0, <4>1
      <4> QED  BY <1>2, <4>1, <4>2
    <3> QED  BY <1>9, <3>1, <3>2
  <2>2. \A i, j \in 1..Len(channel') : i < j => channel'[i].n < channel'[j].n
    <3> SUFFICES ASSUME NEW i \in 1..Len(channel'), NEW j \in 1..Len(channel'), i < j
                 PROVE  channel'[i].n < channel'[j].n
      OBVIOUS
    <3>1. CASE i \in 1..C /\ j \in 1..C
      <4>1. channel'[i] = channel[i] /\ channel'[j] = channel[j]
        BY <1>1, <2>0, <3>1
      <4>2. channel[i].n < channel[j].n
        BY <2>0, <3>1 DEF StreamInv, NumbersOK
      <4> QED  BY <4>1, <4>2
    <3>2. CASE i \in 1..C /\ \E l \in 1..k : j = C + l
      <4>1. PICK l \in 1..k : j = C + l
        BY <3>2
      <4>2. channel'[i] = channel[i] /\ channel'[j].n = M + l
        BY <1>1, <2>0, <3>2, <4>1
      <4> QED  BY <1>2, <1>8, <3>2, <4>1, <4>2
    <3>3. CASE (\E h \in 1..k : i = C + h) /\ \E l \in 1..k : j = C + l
      <4>1. PICK h \in 1..k, l \in 1..k : i = C + h /\ j = C + l
        BY <3>3
      <4>2. channel'[i].n = M + h /\ channel'[j].n = M + l
        BY <1>1, <2>0, <4>1
      <4> QED  BY <1>2, <4>1, <4>2
    <3>4. CASE (\E h \in 1..k : i = C + h) /\ j \in 1..C
      BY <1>2, <3>4
    <3> QED  BY <1>9, <3>1, <3>2, <3>3, <3>4
  <2>3. work' # Idle => /\ work'.n >= 1 /\ work'.n =< M + L
                        /\ \A i \in 1..Len(channel') : work'.n < channel'[i].n
    <3> SUFFICES ASSUME work # Idle
                 PROVE  /\ work.n >= 1 /\ work.n =< M + L
                        /\ \A i \in 1..Len(channel') : work.n < channel'[i].n
      BY <1>3
    <3>1. work.n \in Nat /\ work.n >= 1 /\ work.n =< M /\ \A i \in 1..C : work.n < channel[i].n
      BY <2>0 DEF StreamInv, NumbersOK, StreamTypes, Handing
    <3>2. ASSUME NEW i \in 1..Len(channel')  PROVE work.n < channel'[i].n
      <4>1. CASE i \in 1..C
        BY <1>1, <2>0, <3>1, <4>1
      <4>2. CASE \E j \in 1..k : i = C + j
        <5>1. PICK j \in 1..k : i = C + j
          BY <4>2
        <5>2. channel'[i].n = M + j
          BY <1>1, <2>0, <5>1
        <5> QED  BY <1>2, <3>1, <5>1, <5>2
      <4> QED  BY <1>9, <4>1, <4>2
    <3> QED  BY <1>2, <3>1, <3>2
  <2>4. \A t \in Tabs : due'[t] \subseteq 1..(M + L)
    BY <1>2, <1>5, <1>7, <1>8
  <2> QED  BY <1>4, <2>1, <2>2, <2>3, <2>4 DEF NumbersOK
<1>13. DueOK'
  <2>1. ASSUME NEW t \in Tabs, NEW i \in 1..Len(channel'), channel'[i].n \in due'[t]
        PROVE  Reaches(t, channel'[i].to)
    <3>1. CASE i \in 1..C
      <4>1. channel'[i] = channel[i]
        BY <1>1, <3>1
      <4>2. channel[i].n \notin A(t)
        <5> HIDE DEF M, L, C
        <5> QED  BY <1>2, <1>7, <1>8, <3>1
      <4>3. channel[i].n \in due[t]
        BY <1>5, <2>1, <4>1, <4>2
      <4> QED  BY <3>1, <4>1, <4>3 DEF StreamInv, DueOK
    <3>2. CASE \E j \in 1..k : i = C + j
      <4>1. PICK j \in 1..k : i = C + j
        BY <3>2
      <4>2. channel'[i].n = M + j /\ channel'[i].to = ads[j]
        BY <1>1, <4>1
      <4>3. M + j \notin due[t]
        BY <1>2, <1>8
      <4>4. M + j \in A(t)
        BY <1>5, <2>1, <4>2, <4>3
      <4>5. PICK l \in 1..L : t \in Addressed(ads[l]) /\ M + j = M + l
        BY <4>4 DEF A
      <4>6. l = j
        BY <1>2, <4>5
      <4> QED  BY <1>6, <4>2, <4>5, <4>6
    <3> QED  BY <1>9, <3>1, <3>2
  <2>2. ASSUME NEW t \in Tabs, t \notin clients'  PROVE due'[t] = {}
    <3>1. due[t] = {}
      BY <1>3, <2>2 DEF StreamInv, DueOK
    <3>2. A(t) = {}
      BY <1>3, <1>6, <2>2 DEF A
    <3> QED  BY <1>5, <3>1, <3>2
  <2> QED  BY <2>1, <2>2 DEF DueOK
<1>14. HandOK' /\ RegistryMatches' /\ OnlyAddressed'
  BY <1>3 DEF StreamInv, HandOK, RegistryMatches, OnlyAddressed, Full
<1>15. HoleAnnounced'
  <2> SUFFICES ASSUME NEW t \in clients  PROVE Told(t)'
    BY <1>3 DEF HoleAnnounced, Told
  <2>1. t \in Tabs
    BY DEF StreamInv, StreamTypes
  <2>2. Told(t)
    BY HolesAreTold DEF StreamInv
  <2>3. unannounced \subseteq unannounced'
    BY <1>1
  <2>4. CASE due[t] \subseteq Coming(t) /\ t \notin unannounced'
    <3>1. Coming(t) \subseteq Coming(t)'
      <4>1. \A i \in 1..Len(channel) : i \in 1..Len(channel') /\ channel'[i] = channel[i]
        BY <1>1, <1>2
      <4> QED  BY <1>3, <4>1 DEF Coming
    <3>2. ASSUME NEW n \in A(t)  PROVE n \in Coming(t)'
      <4>1. PICK j \in 1..L : t \in Addressed(ads[j]) /\ n = M + j
        BY <3>2 DEF A
      <4>2. j \notin (k + 1)..L
        BY <1>1, <2>4, <4>1
      <4>3. j \in 1..k
        <5> HIDE DEF L
        <5> QED  BY <1>2, <4>1, <4>2
      <4>4. C + j \in 1..Len(channel')
        BY <1>1, <1>2, <4>3
      <4>5. n = channel'[C + j].n
        BY <1>1, <4>1, <4>3
      <4>6. n \in {channel'[i].n : i \in 1..Len(channel')}
        BY <4>4, <4>5
      <4> QED  BY <4>6 DEF Coming
    <3> QED  BY <1>5, <2>1, <2>4, <3>1, <3>2 DEF Told
  <2> QED  BY <1>3, <2>2, <2>3, <2>4 DEF Told
<1> QED  BY <1>4, <1>10, <1>11, <1>12, <1>13, <1>14, <1>15 DEF StreamInv

-----------------------------------------------------------------------------
(* Finite sets                                                                *)

LEMMA LeastNumber ==
  ASSUME NEW S, S \subseteq Nat, S # {}
  PROVE  \E x \in S : \A y \in S : x =< y
<1> DEFINE R == OpToRel(<, Nat)
<1>1. \E x \in S : \A y \in S : ~ (<<y, x>> \in R)
  <2> HIDE DEF R
  <2>1. IsWellFoundedOn(R, Nat)
    BY NatLessThanWellFounded DEF R
  <2> QED  BY <2>1, WFMin
<1>2. \A x, y \in Nat : <<y, x>> \in R <=> y < x
  BY DEF OpToRel
<1>3. PICK x \in S : \A y \in S : ~ (<<y, x>> \in R)
  BY <1>1
<1>4. ASSUME NEW y \in S  PROVE x =< y
  <2> HIDE DEF R
  <2>1. ~ (y < x)
    BY <1>2, <1>3
  <2> QED  BY <2>1
<1> QED  BY <1>4

(* A finite set has an element that nothing of it precedes. *)
LEMMA FirstOfOrder ==
  ASSUME NEW S, IsFiniteSet(S), S # {}, NEW R,
         \A x \in S : <<x, x>> \notin R,
         \A x, y, z \in S : <<x, y>> \in R /\ <<y, z>> \in R => <<x, z>> \in R
  PROVE  \E x \in S : \A y \in S : <<y, x>> \notin R
<1> DEFINE W(x) == {y \in S : <<y, x>> \in R}
           N == {Cardinality(W(x)) : x \in S}
<1>1. \A x \in S : IsFiniteSet(W(x)) /\ Cardinality(W(x)) \in Nat
  <2> SUFFICES ASSUME NEW x \in S  PROVE IsFiniteSet(W(x)) /\ Cardinality(W(x)) \in Nat
    OBVIOUS
  <2>1. W(x) \in SUBSET S
    OBVIOUS
  <2> HIDE DEF W
  <2> QED  BY <2>1, FS_Subset, FS_CardinalityType
<1>2. N \subseteq Nat /\ N # {}
  <2> HIDE DEF W
  <2> QED  BY <1>1
<1>3. PICK c \in N : \A d \in N : c =< d
  <2> HIDE DEF N
  <2> QED  BY <1>2, LeastNumber
<1>4. PICK x \in S : c = Cardinality(W(x))
  BY <1>3
<1>5. ASSUME NEW y \in S, <<y, x>> \in R  PROVE FALSE
  <2>1. W(y) \in SUBSET W(x) /\ y \in W(x) /\ y \notin W(y)
    BY <1>5
  <2>2. Cardinality(W(y)) \in N
    OBVIOUS
  <2>3. Cardinality(W(x)) =< Cardinality(W(y))
    BY <1>3, <1>4, <2>2
  <2>4. Cardinality(W(y)) =< Cardinality(W(x)) /\ W(y) # W(x)
        /\ (Cardinality(W(x)) = Cardinality(W(y)) => W(x) = W(y))
    <3> HIDE DEF W
    <3> QED  BY <1>1, <2>1, FS_Subset
  <2>5. Cardinality(W(x)) \in Nat /\ Cardinality(W(y)) \in Nat
    BY <1>1
  <2> HIDE DEF W
  <2> QED  BY <2>3, <2>4, <2>5
<1> QED  BY <1>5

LEMMA SetAsSeq ==
  ASSUME NEW A, NEW S, IsFiniteSet(S), S \subseteq A
  PROVE  SetToSeq(S) \in Seq(A) /\ Len(SetToSeq(S)) = Cardinality(S)
<1>1. Cardinality(S) \in Nat /\ ExistsBijection(1..Cardinality(S), S)
  BY FS_CardinalityType
<1>2. \E f \in [1..Cardinality(S) -> S] : IsInjective(f)
  BY <1>1 DEF ExistsBijection, Bijection, Injection
<1>3. SetToSeq(S) \in [1..Cardinality(S) -> S]
  BY <1>2 DEF SetToSeq
<1>4. SetToSeq(S) \in [1..Cardinality(S) -> A]
  BY <1>3
<1> QED  BY <1>1, <1>4, FunIsSeq

(* One push for each of some people. *)
LEMMA Pushes ==
  ASSUME NEW ps \in SUBSET People
  PROVE  /\ IsFiniteSet(ps) /\ Cardinality(ps) \in Nat
         /\ SetToSeq({ToUser(p) : p \in ps}) \in Seq(Address)
         /\ Len(SetToSeq({ToUser(p) : p \in ps})) =< Cardinality(ps)
<1> DEFINE T == {ToUser(p) : p \in ps}
           f == [p \in ps |-> ToUser(p)]
<1>1. IsFiniteSet(ps) /\ Cardinality(ps) \in Nat
  BY HubAssumption, FS_Subset, FS_CardinalityType
<1>2. f \in Surjection(ps, T)
  <2>1. f \in [ps -> T] /\ \A t \in T : \E p \in ps : f[p] = t
    OBVIOUS
  <2> HIDE DEF f, T
  <2> QED  BY <2>1 DEF Surjection
<1>3. IsFiniteSet(T) /\ Cardinality(T) =< Cardinality(ps)
  <2> HIDE DEF f, T
  <2> QED  BY <1>1, <1>2, FS_Surjection
<1>4. T \subseteq Address
  BY Addresses
<1>5. SetToSeq(T) \in Seq(Address) /\ Len(SetToSeq(T)) = Cardinality(T)
  <2> HIDE DEF T
  <2> QED  BY <1>3, <1>4, SetAsSeq
<1> QED  BY <1>1, <1>3, <1>5

-----------------------------------------------------------------------------
(* Broadcasts other than notifications                                        *)

LEMMA NotesFrame ==
  ASSUME NotesOK, WalkOK, UNCHANGED <<note, page>>, counted'.msgs = counted.msgs
  PROVE  NotesOK' /\ WalkOK'
<1>1. NotesOK'
  BY DEF NotesOK
<1>2. WalkOK'
  BY DEF WalkOK, Unread, Rest
<1> QED  BY <1>1, <1>2

LEMMA SignalInv ==
  ASSUME HubIInv, NEW ads \in Seq(Address), Signal(ads)
  PROVE  HubIInv'
<1>1. StreamInv' /\ counted'.msgs = counted.msgs + Len(ads)
  BY BroadcastInv DEF HubIInv, Signal
<1>2. UNCHANGED <<note, page>>
  BY DEF Signal
<1>3. NotesOK'
  <2>1. Cardinality(note) \in Nat
    BY FS_CardinalityType DEF HubIInv, NotesOK
  <2>2. counted'.msgs =< MaxBroadcasts /\ MaxBroadcasts \in Nat
    BY <1>1, HubAssumption DEF Signal
  <2>3. counted'.msgs \in Nat
    BY <1>1 DEF StreamInv, StreamTypes
  <2>4. counted'.msgs =< MaxBroadcasts + Cardinality(note)
    BY <2>1, <2>2, <2>3
  <2> QED  BY <1>2, <2>4 DEF HubIInv, NotesOK
<1>4. WalkOK'
  BY <1>2 DEF HubIInv, WalkOK, Unread, Rest
<1> QED  BY <1>1, <1>3, <1>4 DEF HubIInv

LEMMA OneAddress ==
  ASSUME NEW a \in Address
  PROVE  <<a>> \in Seq(Address)
  OBVIOUS

LEMMA BroadcastsInv ==
  ASSUME HubIInv,
         \/ \E o \in Companies : \/ BroadcastToOrg(o)
                                 \/ \E c \in Chats : BroadcastToContact(o, c)
                                 \/ \E x \in Topics : BroadcastToTopic(o, x)
         \/ \E ps \in SUBSET People : BroadcastToUsers(ps)
         \/ \E p \in People : BroadcastToUser(p)
  PROVE  HubIInv'
<1>1. PICK ads \in Seq(Address) : Signal(ads)
  <2>1. ASSUME NEW o \in Companies, BroadcastToOrg(o)  PROVE \E ads \in Seq(Address) : Signal(ads)
    <3>1. ToOrg(o) \in Address
      BY DEF ToOrg, Address
    <3> QED  BY <2>1, <3>1, OneAddress DEF BroadcastToOrg
  <2>2. ASSUME NEW o \in Companies, NEW c \in Chats, BroadcastToContact(o, c)
        PROVE  \E ads \in Seq(Address) : Signal(ads)
    <3>1. ToContact(o, c) \in Address
      BY DEF ToOrg, ToContact, Address
    <3> QED  BY <2>2, <3>1, OneAddress DEF BroadcastToContact
  <2>3. ASSUME NEW o \in Companies, NEW x \in Topics, BroadcastToTopic(o, x)
        PROVE  \E ads \in Seq(Address) : Signal(ads)
    <3>1. ToTopic(o, x) \in Address
      BY DEF ToOrg, ToTopic, Address
    <3> QED  BY <2>3, <3>1, OneAddress DEF BroadcastToTopic
  <2>4. ASSUME NEW ps \in SUBSET People, BroadcastToUsers(ps)
        PROVE  \E ads \in Seq(Address) : Signal(ads)
    <3>1. Online(ps) \in SUBSET People
      BY DEF Online
    <3>2. SetToSeq({ToUser(p) : p \in Online(ps)}) \in Seq(Address)
      BY <3>1, Pushes
    <3> QED  BY <2>4, <3>2 DEF BroadcastToUsers
  <2>5. ASSUME NEW p \in People, BroadcastToUser(p)  PROVE \E ads \in Seq(Address) : Signal(ads)
    BY <2>5, Addresses, OneAddress DEF BroadcastToUser
  <2> QED  BY <2>1, <2>2, <2>3, <2>4, <2>5
<1> QED  BY <1>1, SignalInv

-----------------------------------------------------------------------------
(* Notifications                                                              *)

LEMMA RowFields ==
  ASSUME NEW n \in NoticeRow
  PROVE  n.user \in People /\ n.at \in Nat /\ n.id \in Nat
  BY DEF NoticeRow

(* The newest instant is one of the rows' or the first. *)
LEMMA LatestIsInstant ==
  ASSUME NotesOK
  PROVE  Latest \in Nat
<1> DEFINE f == [n \in note |-> n.at]
           T == {n.at : n \in note}
           R == {q \in Nat \X Nat : q[1] > q[2]}
<1>1. T \subseteq Nat
  BY RowFields DEF NotesOK
<1>2. f \in Surjection(note, T)
  <2>1. f \in [note -> T] /\ \A t \in T : \E n \in note : f[n] = t
    OBVIOUS
  <2> HIDE DEF f, T
  <2> QED  BY <2>1 DEF Surjection
<1>3. IsFiniteSet(T \cup {0})
  <2> HIDE DEF f, T
  <2>1. IsFiniteSet(T)
    BY <1>2, FS_Surjection DEF NotesOK
  <2> QED  BY <2>1, FS_AddElement
<1>4. Instants = T \cup {0}
  BY DEF Instants
<1> HIDE DEF f, T
<1>5. Instants \subseteq Nat /\ Instants # {}
  BY <1>1, <1>4
<1>6. \A x, y \in Nat : <<x, y>> \in R <=> x > y
  OBVIOUS
<1> HIDE DEF R
<1>7. \A x \in Instants : <<x, x>> \notin R
  BY <1>5, <1>6
<1>8. \A x, y, z \in Instants : <<x, y>> \in R /\ <<y, z>> \in R => <<x, z>> \in R
  BY <1>5, <1>6
<1>9. PICK i \in Instants : \A j \in Instants : <<j, i>> \notin R
  <2>1. IsFiniteSet(Instants)
    BY <1>3, <1>4
  <2> HIDE DEF Instants
  <2> QED  BY <1>5, <1>7, <1>8, <2>1, FirstOfOrder
<1>10. \A j \in Instants : j =< i
  <2> SUFFICES ASSUME NEW j \in Instants  PROVE j =< i
    OBVIOUS
  <2>1. i \in Nat /\ j \in Nat
    BY <1>5, <1>9
  <2>2. ~ (j > i)
    BY <1>6, <1>9, <2>1
  <2> QED  BY <2>1, <2>2
<1>11. Latest \in Instants
  BY <1>9, <1>10 DEF Latest
<1> QED  BY <1>5, <1>11

(* The rows a Send stores. *)
NewRows(ps, now, ids) == {[user |-> p, at |-> now, id |-> ids[p], read |-> FALSE] : p \in ps}

LEMMA NewRowFacts ==
  ASSUME NEW ps \in SUBSET People, NEW now \in Nat, NEW ids \in [ps -> Nat],
         \A p, q \in ps : ids[p] = ids[q] => p = q
  PROVE  /\ NewRows(ps, now, ids) \subseteq NoticeRow
         /\ IsFiniteSet(NewRows(ps, now, ids))
         /\ Cardinality(NewRows(ps, now, ids)) = Cardinality(ps)
         /\ \A n \in NewRows(ps, now, ids) : \E p \in ps : n.id = ids[p]
         /\ \A m, n \in NewRows(ps, now, ids) : m.id = n.id => m = n
<1> DEFINE entry(p) == [user |-> p, at |-> now, id |-> ids[p], read |-> FALSE]
           f == [p \in ps |-> entry(p)]
           S == NewRows(ps, now, ids)
<1>0. S = {entry(p) : p \in ps}
  BY DEF NewRows
<1>1. \A p \in ps : entry(p) \in NoticeRow /\ entry(p).id = ids[p]
  BY DEF NoticeRow
<1> HIDE DEF entry, S
<1>2. \A n \in S : \E p \in ps : n = entry(p)
  BY <1>0
<1>3. S \subseteq NoticeRow /\ \A p \in ps : entry(p) \in S /\ entry(p).id = ids[p]
  BY <1>0, <1>1
<1>4. \A n \in S : \E p \in ps : n.id = ids[p]
  BY <1>2, <1>3
<1>5. \A m, n \in S : m.id = n.id => m = n
  BY <1>2, <1>3
<1>6. f \in [ps -> S] /\ (\A t \in S : \E p \in ps : f[p] = t)
      /\ \A p, q \in ps : f[p] = f[q] => p = q
  BY <1>2, <1>3
<1> HIDE DEF f
<1>7. f \in Bijection(ps, S)
  BY <1>6 DEF Bijection, Injection, Surjection, IsInjective
<1>8. IsFiniteSet(S) /\ Cardinality(S) = Cardinality(ps)
  BY <1>7, Pushes, FS_Bijection DEF ExistsBijection
<1> QED  BY <1>3, <1>4, <1>5, <1>8 DEF S

(* Send: the rows pay for their pushes. *)
LEMMA HubSendInv ==
  ASSUME HubIInv, NEW ps \in SUBSET People, NEW later \in BOOLEAN, NEW ids, Send(ps, later, ids)
  PROVE  HubIInv'
<1> DEFINE now == IF later THEN Latest + 1 ELSE Latest
           S == NewRows(ps, now, ids)
           ads == SetToSeq({ToUser(p) : p \in ps})
<1>1. NotesOK /\ WalkOK /\ StreamInv
  BY DEF HubIInv
<1>2. now \in Nat
  <2>1. Latest \in Nat
    BY <1>1, LatestIsInstant
  <2> QED  BY <2>1
<1>3. note' = note \cup S /\ Broadcast(ads) /\ UNCHANGED page
      /\ Cardinality(note) + Cardinality(ps) =< MaxNotes
  BY DEF Send, NewRows
<1>4. /\ ids \in [ps -> Nat] /\ \A p, q \in ps : ids[p] = ids[q] => p = q
      /\ \A p \in ps : ids[p] \notin {n.id : n \in note}
  BY DEF Send
<1> HIDE DEF now
<1>5. /\ S \subseteq NoticeRow /\ IsFiniteSet(S) /\ Cardinality(S) = Cardinality(ps)
      /\ \A n \in S : \E p \in ps : n.id = ids[p]
      /\ \A m, n \in S : m.id = n.id => m = n
  BY <1>2, <1>4, NewRowFacts
<1>6. ads \in Seq(Address) /\ Len(ads) =< Cardinality(ps) /\ Cardinality(ps) \in Nat
  BY Pushes
<1> HIDE DEF S, ads
<1>7. StreamInv' /\ counted'.msgs = counted.msgs + Len(ads) /\ Len(ads) \in Nat
  BY <1>1, <1>3, <1>6, BroadcastInv, LenProperties
<1>8. \A n \in S, m \in note : n.id # m.id
  BY <1>4, <1>5
<1>9. S \cap note = {}
  BY <1>8
<1>10. NotesOK'
  <2>1. IsFiniteSet(note) /\ Cardinality(note) \in Nat
    BY <1>1, FS_CardinalityType DEF NotesOK
  <2>2. IsFiniteSet(note') /\ Cardinality(note') = Cardinality(note) + Cardinality(ps)
    <3>1. IsFiniteSet(note') /\ Cardinality(note') = Cardinality(note) + Cardinality(S) - Cardinality(note \cap S)
      BY <1>3, <1>5, <2>1, FS_Union
    <3>2. Cardinality(note \cap S) = 0
      BY <1>9, FS_EmptySet
    <3> QED  BY <1>5, <1>6, <2>1, <3>1, <3>2
  <2>3. note' \subseteq NoticeRow /\ \A m, n \in note' : m.id = n.id => m = n
    BY <1>1, <1>3, <1>5, <1>8 DEF NotesOK
  <2>4. counted'.msgs =< MaxBroadcasts + Cardinality(note')
    <3>1. counted.msgs \in Nat /\ counted.msgs =< MaxBroadcasts + Cardinality(note) /\ MaxBroadcasts \in Nat
      BY <1>1, HubAssumption DEF NotesOK, StreamInv, StreamTypes
    <3> QED  BY <1>6, <1>7, <2>1, <2>2, <3>1
  <2> QED  BY <1>3, <2>2, <2>3, <2>4 DEF NotesOK
<1>11. WalkOK'
  <2>1. page' \in Page /\ page'.missed = {}
        /\ (page'.user = None => page'.cursor = Closed /\ page'.seen = {})
    BY <1>1, <1>3 DEF WalkOK
  <2>2. page'.goal \subseteq {n.id : n \in note'}
    BY <1>1, <1>3 DEF WalkOK
  <2>3. ASSUME page.user # None, NEW n \in Unread(page.user)', n.id \in page.goal
        PROVE  n.id \in page.seen \/ n \in Rest(page.user, page.cursor)'
    <3>1. n \in note' /\ n.user = page.user /\ ~ n.read
      BY <1>3, <2>3 DEF Unread
    <3>2. n.id \in {m.id : m \in note}
      BY <1>1, <2>3 DEF WalkOK
    <3>3. n \in note
      BY <1>3, <1>8, <3>1, <3>2
    <3>4. n \in Unread(page.user)
      BY <3>1, <3>3 DEF Unread
    <3>5. n.id \in page.seen \/ n \in Rest(page.user, page.cursor)
      BY <1>1, <2>3, <3>4 DEF WalkOK
    <3>6. n \in Rest(page.user, page.cursor) => n \in Rest(page.user, page.cursor)'
      BY <1>3, <2>3 DEF Rest
    <3> QED  BY <3>5, <3>6
  <2> QED  BY <1>3, <2>1, <2>2, <2>3 DEF WalkOK
<1> QED  BY <1>7, <1>10, <1>11 DEF HubIInv

(* A request counts, and leaves the stream of messages alone. *)
LEMMA ReadsInv ==
  ASSUME StreamInv, Reads, UNCHANGED <<conn, clients, channel, work, due, unannounced>>
  PROVE  StreamInv' /\ counted'.msgs = counted.msgs
<1>1. counted' \in [msgs : Nat, pings : Nat, reads : Nat] /\ counted'.msgs = counted.msgs
  BY DEF Reads, StreamInv, StreamTypes
<1>2. \A s \in Tabs : /\ conn'[s].buf = conn[s].buf
                      /\ conn[s].ponged => conn'[s].ponged
                      /\ IsFiniteSet(conn'[s].topics) /\ Cardinality(conn'[s].topics) =< MaxTopics
  BY DEF StreamInv, LimitsKept
<1>3. conn' \in [Tabs -> Connection] /\ clients \subseteq clients' /\ clients' \subseteq Tabs /\ RegistryMatches'
  BY DEF StreamInv, StreamTypes, RegistryMatches
<1> QED  BY <1>1, <1>2, <1>3, HubQuietStep

(* Rows marked as read keep their ids. *)
Marked(n) == [n EXCEPT !.read = TRUE]

LEMMA MarkRow ==
  ASSUME NEW n \in NoticeRow
  PROVE  Marked(n) \in NoticeRow /\ Marked(n).id = n.id /\ Marked(n).read = TRUE
  BY DEF Marked, NoticeRow

LEMMA MarksInv ==
  ASSUME HubIInv, NEW X, X \subseteq note, note' = (note \ X) \cup {Marked(n) : n \in X},
         Reads, UNCHANGED <<conn, clients, channel, work, due, unannounced, page>>
  PROVE  HubIInv'
<1> DEFINE f == [n \in note |-> IF n \in X THEN Marked(n) ELSE n]
<1>1. StreamInv' /\ counted'.msgs = counted.msgs
  BY ReadsInv DEF HubIInv
<1>2. NotesOK /\ WalkOK
  BY DEF HubIInv
<1>3. /\ \A n \in note : f[n] \in NoticeRow /\ f[n].id = n.id /\ f[n] \in note'
      /\ \A n \in note' : \E m \in note : f[m] = n
  <2>1. \A n \in note : n \in NoticeRow
    BY <1>2 DEF NotesOK
  <2> QED  BY <2>1, MarkRow
<1>4. \A n \in note' : (n \in note /\ n \notin X) \/ n.read = TRUE
  <2>1. \A n \in X : Marked(n).read = TRUE
    BY <1>2, MarkRow DEF NotesOK
  <2> QED  BY <2>1
<1>5. f \in [note -> note']
  BY <1>3
<1> HIDE DEF f
<1>6. \A m, n \in note : f[m] = f[n] => m = n
  BY <1>2, <1>3 DEF NotesOK
<1>7. f \in Bijection(note, note')
  BY <1>3, <1>5, <1>6 DEF Bijection, Injection, Surjection, IsInjective
<1>8. IsFiniteSet(note') /\ Cardinality(note') = Cardinality(note)
  BY <1>2, <1>7, FS_Bijection DEF ExistsBijection, NotesOK
<1>9. note' \subseteq NoticeRow /\ \A m, n \in note' : m.id = n.id => m = n
  BY <1>2, <1>3 DEF NotesOK
<1>10. NotesOK'
  BY <1>1, <1>2, <1>8, <1>9 DEF NotesOK
<1>11. WalkOK'
  <2>1. page' \in Page /\ page'.missed = {}
        /\ (page'.user = None => page'.cursor = Closed /\ page'.seen = {})
    BY <1>2 DEF WalkOK
  <2>2. page'.goal \subseteq {n.id : n \in note'}
    <3> SUFFICES ASSUME NEW i \in page.goal  PROVE i \in {n.id : n \in note'}
      OBVIOUS
    <3>1. PICK n \in note : i = n.id
      BY <1>2 DEF WalkOK
    <3>2. f[n] \in note' /\ f[n].id = i
      BY <1>3, <3>1
    <3> QED  BY <3>2
  <2>3. ASSUME page.user # None, NEW n \in Unread(page.user)', n.id \in page.goal
        PROVE  n.id \in page.seen \/ n \in Rest(page.user, page.cursor)'
    <3>1. n \in note' /\ n.user = page.user /\ ~ n.read
      BY <2>3 DEF Unread
    <3>2. n \in note
      BY <1>4, <3>1
    <3>4. n \in Unread(page.user)
      BY <3>1, <3>2 DEF Unread
    <3>5. n.id \in page.seen \/ n \in Rest(page.user, page.cursor)
      BY <1>2, <2>3, <3>4 DEF WalkOK
    <3>6. n \in Rest(page.user, page.cursor) => n \in Rest(page.user, page.cursor)'
      BY <2>3 DEF Rest
    <3> QED  BY <3>5, <3>6
  <2> QED  BY <2>1, <2>2, <2>3 DEF WalkOK
<1> QED  BY <1>1, <1>10, <1>11 DEF HubIInv

LEMMA MarkReadInv ==
  ASSUME HubIInv, NEW p \in People,
         MarkAllRead(p) \/ \E n \in note : MarkNotificationRead(p, n)
  PROVE  HubIInv'
<1>1. CASE MarkAllRead(p)
  <2>1. Unread(p) \subseteq note
    BY DEF Unread
  <2> QED  BY <1>1, <2>1, MarksInv DEF MarkAllRead, Marked
<1>2. ASSUME NEW n \in note, MarkNotificationRead(p, n)  PROVE HubIInv'
  <2> DEFINE X == {n}
  <2>1. note' = (note \ X) \cup {Marked(m) : m \in X}
    BY <1>2 DEF MarkNotificationRead, Marked
  <2>2. X \subseteq note /\ Reads /\ UNCHANGED <<conn, clients, channel, work, due, unannounced, page>>
    BY <1>2 DEF MarkNotificationRead
  <2> HIDE DEF X
  <2> QED  BY <2>1, <2>2, MarksInv
<1> QED  BY <1>1, <1>2

-----------------------------------------------------------------------------
(* Paging                                                                     *)

(* Rows are in one order, newest first. *)
LEMMA RowOrder ==
  ASSUME NotesOK
  PROVE  /\ \A a \in note : ~ Before(a, a)
         /\ \A a, b, c \in note : Before(a, b) /\ Before(b, c) => Before(a, c)
         /\ \A a, b \in note : a = b \/ Before(a, b) \/ Before(b, a)
<1>1. \A a \in note : a.at \in Nat /\ a.id \in Nat
  BY RowFields DEF NotesOK
<1>2. \A a, b \in note : a.id = b.id => a = b
  BY DEF NotesOK
<1> QED  BY <1>1, <1>2 DEF Before

(* A page of a rest that has rows has rows, and an oldest one. *)
LEMMA PageHasRows ==
  ASSUME NotesOK, NEW rest, rest \subseteq note, rest # {}
  PROVE  LET rows == Newest(rest, PageSize)
         IN /\ rows # {} /\ rows \subseteq rest
            /\ (CHOOSE n \in rows : \A m \in rows : ~ Before(m, n)) \in rows
            /\ \A l \in rows, n \in rest \ rows : Before(n, l)
<1> DEFINE rows == Newest(rest, PageSize)
           newer(n) == {m \in rest : Before(n, m)}
           R == {q \in note \X note : Before(q[1], q[2])}
           Q == {q \in note \X note : Before(q[2], q[1])}
<1>1. IsFiniteSet(rest) /\ \A n \in rest : IsFiniteSet(newer(n)) /\ Cardinality(newer(n)) \in Nat
  <2>1. IsFiniteSet(rest)
    BY FS_Subset DEF NotesOK
  <2>2. \A n \in rest : newer(n) \in SUBSET rest
    OBVIOUS
  <2> HIDE DEF newer
  <2> QED  BY <2>1, <2>2, FS_Subset, FS_CardinalityType
<1>2. PageSize \in Nat \ {0}
  BY HubAssumption
<1>3. \A a, b \in note : (<<a, b>> \in R <=> Before(a, b)) /\ (<<a, b>> \in Q <=> Before(b, a))
  OBVIOUS
<1>4. rows = {n \in rest : Cardinality(newer(n)) < PageSize}
  BY DEF Newest
<1> HIDE DEF R, Q
<1>5. rows # {}
  <2>1. /\ \A x \in rest : <<x, x>> \notin Q
        /\ \A x, y, z \in rest : <<x, y>> \in Q /\ <<y, z>> \in Q => <<x, z>> \in Q
    BY <1>3, RowOrder
  <2>2. PICK x \in rest : \A y \in rest : <<y, x>> \notin Q
    BY <1>1, <2>1, FirstOfOrder
  <2>3. newer(x) = {}
    BY <1>3, <2>2
  <2>4. Cardinality(newer(x)) = 0
    BY <2>3, FS_EmptySet
  <2>5. Cardinality(newer(x)) < PageSize
    BY <1>2, <2>4
  <2> QED  BY <1>4, <2>2, <2>5
<1>6. rows \subseteq rest
  BY <1>4
<1>7. (CHOOSE n \in rows : \A m \in rows : ~ Before(m, n)) \in rows
  <2> HIDE DEF rows
  <2>1. /\ \A x \in rows : <<x, x>> \notin R
        /\ \A x, y, z \in rows : <<x, y>> \in R /\ <<y, z>> \in R => <<x, z>> \in R
    BY <1>3, <1>6, RowOrder
  <2>2. IsFiniteSet(rows)
    BY <1>1, <1>6, FS_Subset
  <2>3. PICK x \in rows : \A y \in rows : <<y, x>> \notin R
    BY <1>5, <2>1, <2>2, FirstOfOrder
  <2>4. \A y \in rows : ~ Before(y, x)
    BY <1>3, <1>6, <2>3
  <2> QED  BY <2>3, <2>4
<1>8. ASSUME NEW l \in rows, NEW n \in rest \ rows  PROVE Before(n, l)
  <2>1. l \in note /\ n \in note /\ n # l /\ l \in rest
    BY <1>6
  <2>2. CASE Before(l, n)
    <3>1. newer(n) \in SUBSET newer(l)
      BY <2>1, <2>2, RowOrder
    <3>2. Cardinality(newer(n)) =< Cardinality(newer(l))
      <4> HIDE DEF newer
      <4> QED  BY <1>1, <2>1, <3>1, FS_Subset
    <3>3. Cardinality(newer(l)) < PageSize /\ ~ (Cardinality(newer(n)) < PageSize)
      BY <1>4
    <3>4. Cardinality(newer(l)) \in Nat /\ Cardinality(newer(n)) \in Nat
      BY <1>1, <2>1
    <3> HIDE DEF newer
    <3> QED  BY <1>2, <3>2, <3>3, <3>4
  <2> QED  BY <2>1, <2>2, RowOrder
<1> QED  BY <1>5, <1>6, <1>7, <1>8

(* ListNotifications: what the page leaves out is older than its last row. *)
LEMMA ListInv ==
  ASSUME HubIInv, NEW p \in People, ListNotifications(p)
  PROVE  HubIInv'
<1> DEFINE rest == Rest(p, page.cursor)
           rows == Newest(rest, PageSize)
           last == CHOOSE n \in rows : \A m \in rows : ~ Before(m, n)
           goal == IF page.user = None THEN {n.id : n \in Unread(p)} ELSE page.goal
           unread == {n.id : n \in Unread(p)}
           shown == {n.id : n \in rows}
<1>1. StreamInv' /\ counted'.msgs = counted.msgs /\ note' = note
  BY ReadsInv DEF HubIInv, ListNotifications
<1>2. NotesOK /\ WalkOK
  BY DEF HubIInv
<1>3. NotesOK'
  BY <1>1, <1>2 DEF NotesOK
<1>4. page.user \in {None, p} /\ p # None
  BY HubAssumption DEF ListNotifications, None
<1>5. page' = IF rest = rows
              THEN [user |-> None, cursor |-> Closed, goal |-> {},
                    seen |-> {}, missed |-> (goal \cap unread) \ (page.seen \cup shown)]
              ELSE [user |-> p, cursor |-> last, goal |-> goal,
                    seen |-> page.seen \cup shown, missed |-> {}]
  BY DEF ListNotifications
<1>6. Unread(p) \subseteq note /\ rest \subseteq note /\ rest \subseteq Unread(p)
  BY DEF Unread, Rest
<1>7. \A n \in Unread(p) : n.id \in goal => n.id \in page.seen \/ n \in rest
  <2>1. CASE page.user = None
    BY <1>2, <2>1 DEF WalkOK, Rest
  <2>2. CASE page.user = p
    BY <1>2, <1>4, <2>2 DEF WalkOK
  <2> QED  BY <1>4, <2>1, <2>2
<1>8. goal \subseteq {n.id : n \in note} /\ goal \in SUBSET Nat /\ page.seen \in SUBSET Nat
  <2>1. \A n \in note : n.id \in Nat
    BY <1>2, RowFields DEF NotesOK
  <2>2. page.goal \subseteq {n.id : n \in note} /\ page.seen \in SUBSET Nat
    BY <1>2 DEF WalkOK, Page
  <2> QED  BY <1>6, <2>1, <2>2
<1>9. CASE rest = rows
  <2>1. (goal \cap unread) \ (page.seen \cup shown) = {}
    <3> SUFFICES ASSUME NEW n \in Unread(p), n.id \in goal, n.id \notin page.seen
                 PROVE  n.id \in shown
      OBVIOUS
    <3>1. n \in rows
      BY <1>7, <1>9
    <3> QED  BY <3>1
  <2>2. page' = [user |-> None, cursor |-> Closed, goal |-> {}, seen |-> {}, missed |-> {}]
    BY <1>5, <1>9, <2>1
  <2> HIDE DEF rest, rows, last, goal, unread, shown
  <2>3. page' \in Page /\ page'.missed = {} /\ page'.user = None /\ page'.cursor = Closed
        /\ page'.seen = {} /\ page'.goal = {}
    BY <2>2 DEF Page
  <2>4. WalkOK'
    BY <2>3 DEF WalkOK
  <2> QED  BY <1>1, <1>3, <2>4 DEF HubIInv
<1>10. CASE rest # rows
  <2>1. rows \subseteq rest
    BY DEF Newest
  <2>2. rest # {}
    BY <1>10, <2>1
  <2>3. last \in rows /\ \A n \in rest \ rows : Before(n, last)
    <3>1. /\ rows \subseteq rest
          /\ (CHOOSE n \in rows : \A m \in rows : ~ Before(m, n)) \in rows
          /\ \A l \in rows, n \in rest \ rows : Before(n, l)
      <4> HIDE DEF rest
      <4> QED  BY <1>2, <1>6, <2>2, PageHasRows
    <3> HIDE DEF rows, rest
    <3> QED  BY <3>1
  <2>4. page' = [user |-> p, cursor |-> last, goal |-> goal, seen |-> page.seen \cup shown, missed |-> {}]
    BY <1>5, <1>10
  <2>5. last \in NoticeRow /\ shown \in SUBSET Nat
    <3>1. rows \subseteq NoticeRow
      BY <1>2, <1>6, <2>1 DEF NotesOK
    <3> HIDE DEF rows, last
    <3> QED  BY <2>3, <3>1, RowFields
  <2>6. last # Closed
    BY <2>5 DEF NoticeRow, Closed
  <2>7. /\ page' \in Page /\ page'.missed = {} /\ page'.user = p /\ page'.cursor = last
        /\ page'.goal = goal /\ page'.seen = page.seen \cup shown
    <3> HIDE DEF rest, rows, last, goal, shown
    <3> QED  BY <1>8, <2>4, <2>5 DEF Page
  <2>8. ASSUME NEW n \in Unread(p), n.id \in goal
        PROVE  n.id \in page.seen \cup shown \/ n \in Rest(p, last)
    <3>1. CASE n.id \in page.seen
      BY <3>1
    <3>2. CASE n \in rows
      BY <3>2
    <3>3. CASE n \in rest \ rows
      <4>1. Before(n, last)
        BY <2>3, <3>3
      <4> HIDE DEF last
      <4> QED  BY <4>1 DEF Rest
    <3> QED  BY <1>7, <2>8, <3>1, <3>2, <3>3
  <2>9. WalkOK'
    <3> HIDE DEF rest, rows, last, goal, shown
    <3>1. \A n \in Unread(page.user)' : n.id \in page'.goal =>
             n.id \in page'.seen \/ n \in Rest(page.user, page.cursor)'
      BY <1>1, <2>7, <2>8 DEF Unread, Rest
    <3>2. page'.goal \subseteq {n.id : n \in note'}
      BY <1>1, <1>8, <2>7
    <3>3. page'.user # None
      BY <1>4, <2>7
    <3> QED  BY <2>7, <3>1, <3>2, <3>3 DEF WalkOK
  <2> QED  BY <1>1, <1>3, <2>9 DEF HubIInv
<1> QED  BY <1>9, <1>10

-----------------------------------------------------------------------------
(* The theorems                                                               *)

LEMMA HubInitInv == HubInit => HubIInv
<1> SUFFICES ASSUME HubInit  PROVE HubIInv
  OBVIOUS
<1> DEFINE entry(t) == [st |-> IF t \in Connected THEN "in" ELSE "off", view |-> None,
                      topics |-> IF t \in Connected THEN Watching ELSE {},
                      buf |-> <<>>, pump |-> t \in Connected, ponged |-> FALSE]
<1>1. conn = [t \in Tabs |-> entry(t)]
  BY DEF HubInit
<1>2. \A t \in Tabs : /\ entry(t) \in Connection /\ entry(t).buf = <<>>
                      /\ entry(t).topics = IF t \in Connected THEN Watching ELSE {}
                      /\ entry(t).st = IF t \in Connected THEN "in" ELSE "off"
  BY HubAssumption, EmptySeq DEF Connection
<1> HIDE DEF entry
<1>3. /\ conn \in [Tabs -> Connection]
      /\ \A t \in Tabs : /\ conn[t].buf = <<>>
                         /\ conn[t].topics = IF t \in Connected THEN Watching ELSE {}
                         /\ conn[t].st = IF t \in Connected THEN "in" ELSE "off"
  BY <1>1, <1>2
<1>4. <<>> \in Seq(Message) /\ Len(<<>>) = 0
  BY EmptySeq
<1>5. /\ channel = <<>> /\ work = Idle /\ due = [t \in Tabs |-> {}] /\ unannounced = {}
      /\ clients = Connected /\ counted = [msgs |-> 0, pings |-> 0, reads |-> 0]
      /\ note = {} /\ page = [user |-> None, cursor |-> Closed, goal |-> {}, seen |-> {}, missed |-> {}]
  BY DEF HubInit
<1>6. counted \in [msgs : Nat, pings : Nat, reads : Nat] /\ counted.msgs = 0
  BY <1>5
<1>7. StreamTypes
  BY <1>3, <1>4, <1>5, <1>6, HubAssumption DEF StreamTypes
<1>8. LimitsKept
  <2>1. /\ IsFiniteSet(Watching) /\ Cardinality(Watching) =< MaxTopics
        /\ IsFiniteSet({}) /\ Cardinality({}) = 0
    BY HubAssumption, FS_EmptySet
  <2>2. BufferSize \in Nat /\ ChannelSize \in Nat /\ MaxTopics \in Nat
    BY HubAssumption
  <2>3. \A t \in Tabs : Len(conn[t].buf) =< BufferSize
    BY <1>3, <1>4, <2>2
  <2>4. \A t \in Tabs : IsFiniteSet(conn[t].topics) /\ Cardinality(conn[t].topics) =< MaxTopics
    <3> SUFFICES ASSUME NEW t \in Tabs
                 PROVE  IsFiniteSet(conn[t].topics) /\ Cardinality(conn[t].topics) =< MaxTopics
      OBVIOUS
    <3>1. CASE t \in Connected
      BY <1>3, <2>1, <3>1
    <3>2. CASE t \notin Connected
      <4>1. conn[t].topics = {} /\ 0 =< MaxTopics
        BY <1>3, <2>2, <3>2
      <4> QED  BY <2>1, <4>1
    <3> QED  BY <3>1, <3>2
  <2>5. Len(channel) =< ChannelSize
    BY <1>4, <1>5, <2>2
  <2> QED  BY <2>3, <2>4, <2>5 DEF LimitsKept
<1>9. Len(channel) = 0 /\ \A t \in Tabs : due[t] = {} /\ Len(conn[t].buf) = 0
  BY <1>3, <1>4, <1>5
<1>10. NumbersOK /\ DueOK /\ HandOK
  BY <1>5, <1>9 DEF NumbersOK, DueOK, HandOK
<1>11. RegistryMatches
  BY <1>3, <1>5 DEF RegistryMatches
<1>12. HoleAnnounced
  <2>1. \A t \in clients : due[t] \subseteq Coming(t)
    BY <1>7, <1>9 DEF StreamTypes
  <2> QED  BY <2>1 DEF HoleAnnounced
<1>13. OnlyAddressed
  BY <1>9 DEF OnlyAddressed
<1>14. NotesOK
  <2>1. IsFiniteSet(note) /\ Cardinality(note) = 0
    BY <1>5, FS_EmptySet
  <2>2. MaxNotes \in Nat /\ MaxBroadcasts \in Nat
    BY HubAssumption
  <2>3. 0 =< MaxNotes /\ 0 =< MaxBroadcasts + 0
    BY <2>2
  <2> QED  BY <1>5, <1>6, <2>1, <2>3 DEF NotesOK
<1>15. WalkOK
  <2>1. page \in Page
    BY <1>5 DEF Page
  <2> QED  BY <1>5, <2>1 DEF WalkOK
<1> QED  BY <1>7, <1>8, <1>10, <1>11, <1>12, <1>13, <1>14, <1>15 DEF HubIInv, StreamInv

LEMMA HubNextInv == HubIInv /\ [HubNext]_hubVars => HubIInv'
<1> SUFFICES ASSUME HubIInv, [HubNext]_hubVars  PROVE HubIInv'
  OBVIOUS
<1>1. StreamInv /\ NotesOK /\ WalkOK
  BY DEF HubIInv
<1>2. CASE UNCHANGED hubVars
  <2>1. NotesOK' /\ WalkOK'
    BY <1>1, <1>2, NotesFrame DEF hubVars
  <2>2. StreamInv'
    BY <1>1, <1>2 DEF hubVars, StreamInv, StreamTypes, LimitsKept, NumbersOK, DueOK, HandOK,
                      RegistryMatches, HoleAnnounced, OnlyAddressed, Coming, Full
  <2> QED  BY <2>1, <2>2 DEF HubIInv
<1>3. ASSUME StreamInv', UNCHANGED <<note, page>>, counted'.msgs = counted.msgs  PROVE HubIInv'
  BY <1>1, <1>3, NotesFrame DEF HubIInv
<1>4. CASE TakeMessage
  BY <1>1, <1>3, <1>4, TakeMessageInv DEF TakeMessage
<1>5. CASE DroppedNotice
  BY <1>1, <1>3, <1>5, DroppedNoticeInv DEF DroppedNotice
<1>6. CASE DroppedEvict
  BY <1>1, <1>3, <1>6, DroppedEvictInv DEF DroppedEvict
<1>7. CASE DroppedRetry
  BY <1>1, <1>3, <1>7, DroppedRetryInv DEF DroppedRetry
<1>8. ASSUME NEW t \in Tabs, Deliver(t)  PROVE HubIInv'
  BY <1>1, <1>3, <1>8, DeliverInv DEF Deliver
<1>9. ASSUME NEW t \in Tabs,
             \/ Open(t) \/ Authenticate(t) \/ AuthFails(t) \/ RegisterClient(t)
             \/ ReadPumpEnds(t) \/ WriteFails(t)
      PROVE  HubIInv'
  <2>1. StreamInv'
    BY <1>1, <1>9, LifecycleInv
  <2>2. UNCHANGED <<note, page, counted>>
    BY <1>9 DEF Open, Authenticate, AuthFails, RegisterClient, ReadPumpEnds, WriteFails
  <2> QED  BY <1>3, <2>1, <2>2
<1>10. ASSUME NEW t \in Tabs, UnregisterClient(t)  PROVE HubIInv'
  BY <1>1, <1>3, <1>10, UnregisterInv DEF UnregisterClient
<1>11. ASSUME NEW t \in Tabs, WritePump(t)  PROVE HubIInv'
  BY <1>1, <1>3, <1>11, WritePumpInv DEF WritePump
<1>12. ASSUME Asks  PROVE counted'.msgs = counted.msgs
  BY <1>1, <1>12 DEF Asks, StreamInv, StreamTypes
<1>13. ASSUME NEW t \in Tabs, SendPong(t)  PROVE HubIInv'
  <2>1. StreamInv'
    BY <1>1, <1>13, SendPongInv
  <2>2. UNCHANGED <<note, page>> /\ Asks
    BY <1>13 DEF SendPong
  <2> QED  BY <1>3, <1>12, <2>1, <2>2
<1>14. ASSUME NEW t \in Tabs, \/ \E c \in Chats \cup {None} : SetContact(t, c)
                              \/ \E x \in Topics : Subscribe(t, x) \/ Unsubscribe(t, x)
       PROVE  HubIInv'
  <2>1. StreamInv'
    BY <1>1, <1>14, SubscriptionInv
  <2>2. UNCHANGED <<note, page>> /\ Asks
    BY <1>14 DEF SetContact, Subscribe, Unsubscribe
  <2> QED  BY <1>3, <1>12, <2>1, <2>2
<1>15. CASE StreamNext
  <2>1. CASE \E t \in Tabs :
               \/ Deliver(t) \/ Open(t) \/ Authenticate(t) \/ AuthFails(t) \/ RegisterClient(t)
               \/ ReadPumpEnds(t) \/ UnregisterClient(t) \/ WritePump(t) \/ WriteFails(t) \/ SendPong(t)
               \/ \E c \in Chats \cup {None} : SetContact(t, c)
               \/ \E x \in Topics : Subscribe(t, x) \/ Unsubscribe(t, x)
    BY <1>8, <1>9, <1>10, <1>11, <1>13, <1>14, <2>1
  <2>2. CASE TakeMessage \/ DroppedNotice \/ DroppedEvict \/ DroppedRetry
    BY <1>4, <1>5, <1>6, <1>7, <2>2
  <2>3. CASE \/ \E o \in Companies : \/ BroadcastToOrg(o)
                                     \/ \E c \in Chats : BroadcastToContact(o, c)
                                     \/ \E x \in Topics : BroadcastToTopic(o, x)
             \/ \E ps \in SUBSET People : BroadcastToUsers(ps)
             \/ \E p \in People : BroadcastToUser(p)
    BY <2>3, BroadcastsInv
  <2> QED  BY <1>15, <2>1, <2>2, <2>3 DEF StreamNext
<1>16. CASE NotesNext
  <2>1. ASSUME NEW asked \in SUBSET People, NEW muted \in SUBSET People, NEW later \in BOOLEAN,
               NEW ids, Send(Eligible(asked, muted), later, ids)
        PROVE  HubIInv'
    <3>1. Eligible(asked, muted) \in SUBSET People
      BY DEF Eligible
    <3> QED  BY <2>1, <3>1, HubSendInv
  <2>2. ASSUME NEW p \in People,
               MarkAllRead(p) \/ ListNotifications(p) \/ \E n \in note : MarkNotificationRead(p, n)
        PROVE  HubIInv'
    BY <2>2, MarkReadInv, ListInv
  <2> QED  BY <1>4, <1>16, <2>1, <2>2 DEF NotesNext
<1> QED  BY <1>2, <1>15, <1>16 DEF HubNext

(* The hub keeps its messages numbered, its hand on registered tabs and its   *)
(* holes announced; notifications keep their ids, and whoever pages through   *)
(* them has seen or will see all that were there.                             *)
THEOREM HubInvariant == HubSpec => []HubIInv
<1>1. HubInit => HubIInv
  BY HubInitInv
<1>2. HubIInv /\ [HubNext]_hubVars => HubIInv'
  BY HubNextInv
<1> QED  BY <1>1, <1>2, PTL DEF HubSpec

LEMMA HubInvFollows ==
  ASSUME HubIInv
  PROVE  HubInv
<1>1. StreamInv /\ NotesOK /\ WalkOK
  BY DEF HubIInv
<1>2. HubTypeOK
  <2>1. clients \subseteq Tabs
    BY <1>1 DEF StreamInv, StreamTypes
  <2>2. \A t \in Tabs : /\ Len(conn[t].buf) <= BufferSize
                        /\ conn[t].topics \subseteq Topics /\ Cardinality(conn[t].topics) <= MaxTopics
    BY <1>1, Buffers DEF StreamInv, LimitsKept, Connection
  <2>3. \A t \in Tabs : due[t] \subseteq 1..(MaxBroadcasts + MaxNotes)
    <3>1. Cardinality(note) \in Nat /\ Cardinality(note) =< MaxNotes /\ MaxNotes \in Nat /\ MaxBroadcasts \in Nat
          /\ counted.msgs =< MaxBroadcasts + Cardinality(note) /\ counted.msgs \in Nat
      BY <1>1, HubAssumption, FS_CardinalityType DEF NotesOK, StreamInv, StreamTypes
    <3>2. counted.msgs =< MaxBroadcasts + MaxNotes
      BY <3>1
    <3>3. \A t \in Tabs : due[t] \subseteq 1..counted.msgs
      BY <1>1 DEF StreamInv, NumbersOK
    <3> QED  BY <3>1, <3>2, <3>3
  <2>4. Len(channel) <= ChannelSize
    BY <1>1 DEF StreamInv, LimitsKept
  <2>5. Cardinality({n.id : n \in note}) = Cardinality(note)
    <3> DEFINE T == {n.id : n \in note}
               f == [n \in note |-> n.id]
    <3>1. f \in [note -> T] /\ (\A t \in T : \E n \in note : f[n] = t)
          /\ \A m, n \in note : f[m] = f[n] => m = n
      BY <1>1 DEF NotesOK
    <3> HIDE DEF f, T
    <3>2. f \in Bijection(note, T)
      BY <3>1 DEF Bijection, Injection, Surjection, IsInjective
    <3>3. Cardinality(T) = Cardinality(note)
      BY <1>1, <3>2, FS_Bijection DEF ExistsBijection, NotesOK
    <3> QED  BY <3>3 DEF T
  <2> QED  BY <2>1, <2>2, <2>3, <2>4, <2>5 DEF HubTypeOK
<1>3. PagesMissNothing
  BY <1>1 DEF WalkOK, PagesMissNothing
<1> QED  BY <1>1, <1>2, <1>3 DEF HubInv, StreamInv

(* The registry is exactly the tabs that are signed in, a buffer holds only   *)
(* what is addressed to its tab, a tab that lacks a message has it on its way *)
(* or will be told to fetch everything, and paging misses no notification     *)
(* (hub.go, client.go, notify.go).                                            *)
THEOREM HubIsSound == HubSpec => []HubInv
<1>1. HubIInv => HubInv
  BY HubInvFollows
<1> QED  BY <1>1, HubInvariant, PTL

-----------------------------------------------------------------------------
(* The job scheduler                                                          *)

(* A replica that is at a job within its lock's life holds the lock, and the  *)
(* lock lives exactly as long as the run has time left; a run has an age only *)
(* while it lasts.                                                            *)
Lease == \A r \in Replicas, j \in Jobs :
           /\ Leads(r, j) => lock[j] = r /\ ttl[j] = Timeout[j] - age[r][j]
           /\ pc[r][j] = "idle" => age[r][j] = 0
           /\ age[r][j] =< Timeout[j]

(* Until a run overruns, whoever is at a job is within its lock's life.       *)
Punctual == \A r \in Replicas, j \in Jobs :
              pc[r][j] # "idle" /\ ~ overran[j] => Leads(r, j)

SchedulerInv == TypeOK /\ Lease /\ Punctual

-----------------------------------------------------------------------------
LEMMA InitInv == Init => SchedulerInv
  BY SchedulerAssumption DEF Init, SchedulerInv, TypeOK, Lease, Punctual, Leads, Pcs

(* What the parts of the invariant need to know of a step at one table entry. *)
Elsewhere(r, j) == \A s \in Replicas, k \in Jobs :
  <<s, k>> # <<r, j>> => pc'[s][k] = pc[s][k] /\ age'[s][k] = age[s][k]

LEMMA BoundsHold ==
  ASSUME TypeOK, NoFault \/ Error
  PROVE  crashes' \in 0..MaxCrashes /\ errors' \in 0..MaxErrors
  BY SchedulerAssumption DEF TypeOK, NoFault, Error

(* SETNX finds the lock free and takes it for the job's timeout. *)
LEMMA AcquireInv ==
  ASSUME SchedulerInv, NEW r \in Replicas, NEW j \in Jobs, Acquire(r, j) \/ AcquireFails(r, j)
  PROVE  SchedulerInv'
<1> USE SchedulerAssumption DEF SchedulerInv
<1>1. /\ pc[r][j] = "idle" /\ lock[j] = Free /\ (NoFault \/ Error)
      /\ lock' = [lock EXCEPT ![j] = r] /\ ttl' = [ttl EXCEPT ![j] = Timeout[j]]
      /\ (pc' = [pc EXCEPT ![r][j] = "run"] \/ pc' = pc)
      /\ UNCHANGED <<age, failed, lastErr, lastRun, overran>>
  BY DEF Acquire, AcquireFails, SetNX, Goto
<1>2. pc \in [Replicas -> [Jobs -> Pcs]] /\ "run" \in Pcs
  BY DEF TypeOK, Pcs
<1>3. /\ pc' \in [Replicas -> [Jobs -> Pcs]] /\ Elsewhere(r, j)
      /\ pc'[r][j] \in {"run", "idle"}
  BY <1>1, <1>2 DEF Elsewhere
<1>4. /\ lock'[j] = r /\ ttl'[j] = Timeout[j]
      /\ \A k \in Jobs : k # j => lock'[k] = lock[k] /\ ttl'[k] = ttl[k]
  BY <1>1 DEF TypeOK
<1>5. TypeOK'
  BY <1>1, <1>3, <1>4, BoundsHold DEF TypeOK
<1>6. \A s \in Replicas : ~ Leads(s, j)
  BY <1>1 DEF Lease
<1>7. Lease'
  BY <1>1, <1>3, <1>4, <1>6 DEF Lease, Leads, Elsewhere, TypeOK
<1>8. Punctual'
  BY <1>1, <1>3, <1>6 DEF Punctual, Lease, Leads, Elsewhere
<1> QED  BY <1>5, <1>7, <1>8

(* The run ends and its outcome is recorded, under the lock or without it. *)
LEMMA RecordInv ==
  ASSUME SchedulerInv, NEW r \in Replicas, NEW j \in Jobs, EndRun(r, j) \/ Stamp(r, j) \/ Note(r, j)
  PROVE  SchedulerInv'
<1> USE SchedulerAssumption DEF SchedulerInv
<1>1. /\ pc[r][j] # "idle" /\ (NoFault \/ Error)
      /\ UNCHANGED <<lock, ttl, age, overran>>
      /\ \E l \in Pcs \ {"idle"} : pc' = [pc EXCEPT ![r][j] = l]
  BY DEF EndRun, Stamp, Note, Goto, Pcs
<1>2. /\ pc' \in [Replicas -> [Jobs -> Pcs]] /\ Elsewhere(r, j)
      /\ pc'[r][j] # "idle"
  <2>1. PICK l \in Pcs \ {"idle"} : pc' = [pc EXCEPT ![r][j] = l]
    BY <1>1
  <2> QED  BY <1>1, <2>1 DEF Elsewhere, TypeOK
<1>3. failed' \in [Replicas -> [Jobs -> BOOLEAN]]
  <2>1. CASE EndRun(r, j)
    <3>1. PICK f \in BOOLEAN : failed' = [failed EXCEPT ![r][j] = f]
      BY <2>1 DEF EndRun
    <3> QED  BY <3>1 DEF TypeOK
  <2>2. CASE Stamp(r, j) \/ Note(r, j)
    BY <2>2 DEF Stamp, Note, TypeOK
  <2> QED  BY <2>1, <2>2
<1>4. lastErr' \in [Jobs -> BOOLEAN] /\ lastRun' \in [Jobs -> BOOLEAN]
  <2>1. failed[r][j] \in BOOLEAN
    BY DEF TypeOK
  <2> QED  BY <2>1 DEF EndRun, Stamp, Note, TypeOK
<1>5. TypeOK'
  BY <1>1, <1>2, <1>3, <1>4, BoundsHold DEF TypeOK
<1>6. \A s \in Replicas, k \in Jobs :
        /\ (pc[s][k] = "idle") = (pc'[s][k] = "idle")
        /\ age'[s][k] = age[s][k]
  BY <1>1, <1>2 DEF Elsewhere
<1>7. Lease' /\ Punctual'
  BY <1>1, <1>6 DEF Lease, Punctual, Leads
<1> QED  BY <1>5, <1>7

(* The release script spares a lock that another replica holds by now. *)
LEMMA ReleaseInv ==
  ASSUME SchedulerInv, NEW r \in Replicas, NEW j \in Jobs, Release(r, j)
  PROVE  SchedulerInv'
<1> USE SchedulerAssumption DEF SchedulerInv
<1>1. /\ (DeleteOwn(r, j) \/ UNCHANGED <<lock, ttl>>)
      /\ pc' = [pc EXCEPT ![r][j] = "idle"] /\ age' = [age EXCEPT ![r][j] = 0]
      /\ failed' = [failed EXCEPT ![r][j] = FALSE]
      /\ (NoFault \/ Error)
      /\ UNCHANGED <<lastErr, lastRun, overran>>
  BY DEF Release, Goto
<1>2. "idle" \in Pcs /\ 0 \in Nat /\ FALSE \in BOOLEAN
  BY DEF Pcs
<1>3. /\ pc' \in [Replicas -> [Jobs -> Pcs]] /\ age' \in [Replicas -> [Jobs -> Nat]]
      /\ pc'[r][j] = "idle" /\ age'[r][j] = 0
      /\ Elsewhere(r, j)
  BY <1>1, <1>2 DEF TypeOK, Elsewhere
<1>4. failed' \in [Replicas -> [Jobs -> BOOLEAN]]
  BY <1>1, <1>2 DEF TypeOK
<1>5. \A k \in Jobs :
        \/ (lock'[k] = lock[k] /\ ttl'[k] = ttl[k])
        \/ (k = j /\ lock[j] = r /\ lock'[j] = Free /\ ttl'[j] = 0)
  BY <1>1 DEF DeleteOwn, TypeOK
<1>6. lock' \in [Jobs -> Replicas \cup {Free, Gone}] /\ ttl' \in [Jobs -> Nat]
  BY <1>1 DEF DeleteOwn, TypeOK
<1>7. TypeOK'
  BY <1>1, <1>3, <1>4, <1>5, <1>6, BoundsHold DEF TypeOK
<1>8. Lease'
  BY <1>3, <1>5 DEF Lease, Leads, Elsewhere
<1>9. Punctual'
  BY <1>1, <1>3 DEF Punctual, Leads, Elsewhere
<1> QED  BY <1>7, <1>8, <1>9

(* The lock and the run it protects grow old together. *)
LEMMA TickInv ==
  ASSUME SchedulerInv, Tick
  PROVE  SchedulerInv'
<1> USE SchedulerAssumption DEF SchedulerInv
<1>1. \A j \in Jobs :
        /\ lock'[j] = IF ttl[j] = 1 THEN Free ELSE lock[j]
        /\ ttl'[j] = IF ttl[j] = 0 THEN 0 ELSE ttl[j] - 1
  BY DEF Tick, Expires
<1>2. \A r \in Replicas, j \in Jobs :
        age'[r][j] = IF Leads(r, j) THEN age[r][j] + 1 ELSE age[r][j]
  BY DEF Tick, Leads
<1>3. TypeOK'
  <2>1. lock' \in [Jobs -> Replicas \cup {Free, Gone}]
    BY DEF Tick, TypeOK
  <2>6. ttl' \in [Jobs -> Nat]
    <3>1. ASSUME NEW j \in Jobs  PROVE (IF ttl[j] = 0 THEN 0 ELSE ttl[j] - 1) \in Nat
      <4>1. ttl[j] \in Nat
        BY DEF TypeOK
      <4> QED  BY <4>1
    <3> QED  BY <3>1 DEF Tick
  <2>2. \A j \in Jobs : lock'[j] = Free <=> ttl'[j] = 0
    BY <1>1 DEF TypeOK
  <2>3. age' \in [Replicas -> [Jobs -> Nat]]
    BY DEF Tick, TypeOK
  <2>4. overran' \in [Jobs -> BOOLEAN]
    BY Zenon DEF Tick
  <2>5. UNCHANGED <<pc, failed, lastErr, lastRun>> /\ NoFault
    BY DEF Tick
  <2> QED  BY <2>1, <2>2, <2>3, <2>4, <2>5, <2>6, BoundsHold DEF TypeOK
<1>4. Lease'
  <2> SUFFICES ASSUME NEW r \in Replicas, NEW j \in Jobs
               PROVE  /\ pc'[r][j] # "idle" /\ age'[r][j] < Timeout[j]
                           => lock'[j] = r /\ ttl'[j] = Timeout[j] - age'[r][j]
                      /\ pc'[r][j] = "idle" => age'[r][j] = 0
                      /\ age'[r][j] =< Timeout[j]
    BY DEF Lease, Leads
  <2>1. pc' = pc /\ age[r][j] \in Nat /\ ttl[j] \in Nat /\ Timeout[j] \in Nat
    BY DEF Tick, TypeOK
  <2> QED  BY <1>1, <1>2, <2>1 DEF Lease, Leads
<1>5. Punctual'
  <2> SUFFICES ASSUME NEW r \in Replicas, NEW j \in Jobs, pc'[r][j] # "idle", ~ overran'[j]
               PROVE  age'[r][j] < Timeout[j]
    BY DEF Punctual, Leads
  <2>1. pc' = pc /\ age[r][j] \in Nat /\ Timeout[j] \in Nat
    BY DEF Tick, TypeOK
  <2>2. ~ overran[j] /\ ~ (ttl[j] = 1 /\ lock[j] = r /\ pc[r][j] # "idle")
    BY DEF Tick, Expires
  <2>3. lock[j] = r /\ ttl[j] = Timeout[j] - age[r][j] /\ Leads(r, j)
    BY <2>1, <2>2 DEF Punctual, Lease
  <2> QED  BY <1>2, <2>1, <2>2, <2>3 DEF Leads
<1> QED  BY <1>3, <1>4, <1>5

(* A dead replica leaves its lock behind, in nobody's name. *)
LEMMA CrashInv ==
  ASSUME SchedulerInv, NEW r \in Replicas, Crash(r)
  PROVE  SchedulerInv'
<1> USE SchedulerAssumption DEF SchedulerInv
<1>1. \A j \in Jobs : /\ pc'[r][j] = "idle" /\ age'[r][j] = 0
                      /\ \A s \in Replicas : s # r => pc'[s] = pc[s] /\ age'[s] = age[s]
                      /\ lock'[j] = IF lock[j] = r THEN Gone ELSE lock[j]
  BY DEF Crash, TypeOK
<1>2. UNCHANGED <<ttl, lastErr, lastRun, overran>>
  BY DEF Crash
<1>3. TypeOK'
  <2>1. lock' \in [Jobs -> Replicas \cup {Free, Gone}]
    BY DEF Crash, TypeOK
  <2>2. pc' \in [Replicas -> [Jobs -> Pcs]] /\ age' \in [Replicas -> [Jobs -> Nat]]
    BY DEF Crash, TypeOK, Pcs
  <2>3. failed' \in [Replicas -> [Jobs -> BOOLEAN]]
    <3>1. [j \in Jobs |-> FALSE] \in [Jobs -> BOOLEAN]
      OBVIOUS
    <3> QED  BY <3>1, Zenon DEF Crash, TypeOK
  <2>4. crashes' \in 0..MaxCrashes /\ errors' \in 0..MaxErrors
    BY DEF Crash, TypeOK
  <2> QED  BY <1>1, <1>2, <2>1, <2>2, <2>3, <2>4 DEF TypeOK
<1>4. Lease' /\ Punctual'
  BY <1>1, <1>2 DEF Lease, Punctual, Leads
<1> QED  BY <1>3, <1>4

LEMMA NextInv == SchedulerInv /\ [Next]_vars => SchedulerInv'
<1> SUFFICES ASSUME SchedulerInv, [Next]_vars  PROVE SchedulerInv'
  OBVIOUS
<1>1. ASSUME NEW r \in Replicas, NEW j \in Jobs, RunOnce(r, j)  PROVE SchedulerInv'
  BY <1>1, AcquireInv, RecordInv, ReleaseInv DEF RunOnce
<1>2. ASSUME NEW r \in Replicas, Crash(r)  PROVE SchedulerInv'
  BY <1>2, CrashInv
<1>3. CASE Tick
  BY <1>3, TickInv
<1>4. CASE UNCHANGED vars
  BY <1>4 DEF vars, SchedulerInv, TypeOK, Lease, Punctual, Leads
<1> QED  BY <1>1, <1>2, <1>3, <1>4 DEF Next

(* The lease of a job and the age of its run agree at all times. *)
THEOREM SchedulerInvariant == Spec => []SchedulerInv
<1> QED  BY InitInv, NextInv, PTL DEF Spec

(* scheduler.RunOnce: at most one replica is at a job within its lock's life, *)
(* and it holds the lock.                                                     *)
THEOREM LeadersAreUnique == Spec => []OneLeader
<1>1. SchedulerInv => OneLeader
  BY DEF SchedulerInv, Lease, OneLeader
<1> QED  BY <1>1, SchedulerInvariant, PTL

(* scheduler.RunOnce: two replicas at one job means that some run overran.    *)
THEOREM OverlapsAreOverruns == Spec => []OverlapNeedsOverrun
<1>1. SchedulerInv => OverlapNeedsOverrun
  BY DEF SchedulerInv, Lease, Punctual, OverlapNeedsOverrun
<1> QED  BY <1>1, SchedulerInvariant, PTL

-----------------------------------------------------------------------------
(* The two outcome keys.                                                      *)

(* Nothing has gone wrong with the job so far. *)
Smooth(j) == ~ overran[j] /\ crashes + errors = 0

(* Between the two writes the first key is of the run that makes them; before *)
(* and after, the keys are of one run.                                        *)
OutcomesOK ==
  \A j \in Jobs : Smooth(j) =>
    /\ \A r \in Replicas : pc[r][j] = "note" => lastRun[j] = failed[r][j]
    /\ lastErr[j] = lastRun[j] \/ \E r \in Replicas : pc[r][j] = "note"

(* Once a job has met a fault or an overrun it stays so marked. *)
LEMMA SmoothBefore ==
  ASSUME SchedulerInv, Next, NEW k \in Jobs, Smooth(k)'
  PROVE  Smooth(k) /\ UNCHANGED <<crashes, errors>>
<1>1. crashes \in Nat /\ errors \in Nat
  BY SchedulerAssumption DEF SchedulerInv, TypeOK
<1>2. UNCHANGED <<crashes, errors>>
  BY <1>1 DEF Smooth, Next, RunOnce, Acquire, AcquireFails, EndRun, Stamp, Note, Release,
              Tick, Crash, NoFault, Error
<1>3. ~ overran[k]
  <2>1. CASE Tick
    BY <2>1, Zenon DEF Smooth, Tick
  <2>2. CASE ~ Tick
    BY <2>2 DEF Smooth, Next, RunOnce, Acquire, AcquireFails, EndRun, Stamp, Note, Release, Crash
  <2> QED  BY <2>1, <2>2
<1> QED  BY <1>2, <1>3 DEF Smooth

(* A step at one job leaves the outcome of the others alone. *)
Aside(k) == /\ \A s \in Replicas : pc'[s][k] = pc[s][k] /\ failed'[s][k] = failed[s][k]
            /\ lastErr'[k] = lastErr[k] /\ lastRun'[k] = lastRun[k]

LEMMA OutcomesInit == Init => OutcomesOK
  BY DEF Init, OutcomesOK

LEMMA OutcomesNext == SchedulerInv /\ OutcomesOK /\ [Next]_vars => OutcomesOK'
<1> SUFFICES ASSUME SchedulerInv, OutcomesOK, [Next]_vars, NEW k \in Jobs, Smooth(k)'
             PROVE  /\ \A s \in Replicas : pc'[s][k] = "note" => lastRun'[k] = failed'[s][k]
                    /\ lastErr'[k] = lastRun'[k] \/ \E s \in Replicas : pc'[s][k] = "note"
  BY DEF OutcomesOK, Smooth
<1>1. CASE UNCHANGED vars
  BY <1>1 DEF vars, OutcomesOK, Smooth
<1>2. CASE Next
  <2>1. Smooth(k) /\ UNCHANGED <<crashes, errors>>
    BY <1>2, SmoothBefore
  <2>2. /\ \A s \in Replicas : pc[s][k] = "note" => lastRun[k] = failed[s][k]
        /\ lastErr[k] = lastRun[k] \/ \E s \in Replicas : pc[s][k] = "note"
    BY <2>1 DEF OutcomesOK
  <2>3. /\ pc \in [Replicas -> [Jobs -> Pcs]] /\ failed \in [Replicas -> [Jobs -> BOOLEAN]]
        /\ lastErr \in [Jobs -> BOOLEAN] /\ lastRun \in [Jobs -> BOOLEAN]
        /\ crashes \in Nat /\ errors \in Nat
    BY SchedulerAssumption DEF SchedulerInv, TypeOK
  <2>4. \A r, s \in Replicas : pc[r][k] # "idle" /\ pc[s][k] # "idle" => r = s
    BY <2>1 DEF SchedulerInv, Lease, Punctual, Smooth
  <2>5. CASE Aside(k)
    BY <2>2, <2>5 DEF Aside
  <2>6. CASE Tick
    BY <2>2, <2>6 DEF Tick
  <2>7. ASSUME NEW r \in Replicas, Crash(r)  PROVE FALSE
    BY <2>1, <2>3, <2>7 DEF Crash
  <2>8. ASSUME NEW r \in Replicas, NEW j \in Jobs, RunOnce(r, j), ~ Aside(k)
        PROVE  /\ \A s \in Replicas : pc'[s][k] = "note" => lastRun'[k] = failed'[s][k]
               /\ lastErr'[k] = lastRun'[k] \/ \E s \in Replicas : pc'[s][k] = "note"
    <3>0. ~ Error
      BY <2>1, <2>3 DEF Error
    <3>1. j = k
      <4> SUFFICES ASSUME j # k  PROVE FALSE
        OBVIOUS
      <4>1. \A s \in Replicas : pc'[s][k] = pc[s][k]
        BY <2>3, <2>8 DEF RunOnce, Acquire, AcquireFails, EndRun, Stamp, Note, Release, Goto
      <4>2. \A s \in Replicas : failed'[s][k] = failed[s][k]
        <5>1. CASE EndRun(r, j)
          <6>1. PICK f \in BOOLEAN : failed' = [failed EXCEPT ![r][j] = f]
            BY <5>1 DEF EndRun
          <6> QED  BY <2>3, <6>1
        <5>2. CASE Release(r, j)
          BY <2>3, <5>2 DEF Release
        <5>3. CASE failed' = failed
          BY <5>3
        <5> QED  BY <2>8, <5>1, <5>2, <5>3 DEF RunOnce, Acquire, AcquireFails, Stamp, Note
      <4>3. lastErr'[k] = lastErr[k] /\ lastRun'[k] = lastRun[k]
        BY <2>3, <2>8 DEF RunOnce, Acquire, AcquireFails, EndRun, Stamp, Note, Release
      <4> QED  BY <2>8, <4>1, <4>2, <4>3 DEF Aside
    <3>2. CASE Acquire(r, j)
      BY <2>2, <2>3, <3>1, <3>2 DEF Acquire, Goto
    <3>3. CASE EndRun(r, j)
      <4>1. PICK f \in BOOLEAN : failed' = [failed EXCEPT ![r][j] = f]
        BY <3>3 DEF EndRun
      <4>2. /\ \A s \in Replicas : pc'[s][k] # "note" /\ pc[s][k] # "note"
            /\ UNCHANGED <<lastErr, lastRun>>
        BY <2>3, <2>4, <3>1, <3>3 DEF EndRun, Goto
      <4> QED  BY <2>2, <4>2
    <3>4. CASE Stamp(r, j)
      <4>1. /\ pc'[r][k] = "note" /\ lastRun'[k] = failed[r][k] /\ failed' = failed
        BY <2>3, <3>0, <3>1, <3>4 DEF Stamp, Goto
      <4>2. \A s \in Replicas : pc'[s][k] = "note" => s = r
        BY <2>3, <2>4, <3>1, <3>4 DEF Stamp, Goto
      <4> QED  BY <4>1, <4>2
    <3>5. CASE Note(r, j)
      <4>1. /\ lastErr'[k] = failed[r][k] /\ lastRun' = lastRun /\ lastRun[k] = failed[r][k]
        BY <2>2, <2>3, <3>0, <3>1, <3>5 DEF Note, Goto
      <4>2. \A s \in Replicas : pc'[s][k] # "note"
        BY <2>3, <2>4, <3>1, <3>5 DEF Note, Goto
      <4> QED  BY <4>1, <4>2
    <3>6. CASE Release(r, j)
      <4>1. /\ \A s \in Replicas : pc'[s][k] # "note" /\ pc[s][k] # "note"
            /\ UNCHANGED <<lastErr, lastRun>>
        BY <2>3, <2>4, <3>1, <3>6 DEF Release, Goto
      <4> QED  BY <2>2, <4>1
    <3>7. ~ AcquireFails(r, j)
      BY <3>0 DEF AcquireFails
    <3> QED  BY <2>8, <3>2, <3>3, <3>4, <3>5, <3>6, <3>7 DEF RunOnce
  <2> QED  BY <1>2, <2>5, <2>6, <2>7, <2>8 DEF Next
<1> QED  BY <1>1, <1>2

(* scheduler.RunOnce and recordOutcome: while no run of a job has overrun, one *)
(* replica at most is at it, and, while no call failed either, the two keys    *)
(* that are written in two calls tell of the same run.                         *)
THEOREM RunsStayOrderly == Spec => []RunsAreOrderly
<1>1. OutcomesOK => LastErrorIsOfLastRun
  BY DEF OutcomesOK, Smooth, LastErrorIsOfLastRun
<1>2. Spec => []LastErrorIsOfLastRun
  BY <1>1, OutcomesInit, OutcomesNext, SchedulerInvariant, PTL DEF Spec
<1>3. OverlapNeedsOverrun /\ LastErrorIsOfLastRun => RunsAreOrderly
  BY DEF RunsAreOrderly
<1> QED  BY <1>2, <1>3, OverlapsAreOverruns, PTL

-----------------------------------------------------------------------------
(* The event outbox                                                           *)

(* A relay's cursor stays inside the rows it has locked. *)
CursorOK ==
  \A r \in Relays :
    /\ unsent[r] \subseteq claimed[r]
    /\ errs[r] \subseteq claimed[r]
    /\ (cur[r] = NoEvent) <=> (unsent[r] = {})
    /\ cur[r] # NoEvent => cur[r] \in unsent[r]

(* What an open transaction has already fanned out. *)
Passed(r, s, e) ==
  /\ e \in claimed[r]
  /\ \/ e \notin unsent[r]
     \/ e = cur[r] /\ s < stage[r]

(* Every sink a relay has passed for a row has it, or has failed. *)
FannedOutSoFar ==
  \A r \in Relays, s \in Sinks, e \in Events :
    Passed(r, s, e) /\ SinkWants(s, e) => effects[s][e] > 0 \/ e \in errs[r]

(* A sink that no open transaction has passed has seen the event only in     *)
(* transactions that rolled back.                                            *)
UnpassedOnlyByFaults ==
  \A s \in Sinks, e \in Events :
    ~ Settled(e) /\ (\A r \in Relays : ~ Passed(r, s, e)) => effects[s][e] =< faults

(* A row exists only for a committed change, so it is inserted at most once.  *)
RowNeedsChange == \A e \in Events : eventRow[e] # "none" => e \in committed

OutboxInv ==
  /\ OutboxTypeOK
  /\ RowNeedsChange
  /\ ClaimsExclusive
  /\ CursorOK
  /\ FannedOutSoFar
  /\ SettledWasFannedOut
  /\ UnpassedOnlyByFaults
  /\ RepeatsNeedFaults

-----------------------------------------------------------------------------
(* The proof treats Settled, Unpublished, Passed, SinkWants as opaque where    *)
(* it can: most actions leave all four alone.                                 *)

(* The initial state: no rows, no locks, no deliveries. *)
LEMMA OutboxInitInv == OutboxInit => OutboxInv
  BY OutboxAssumption
  DEF OutboxInit, OutboxInv, OutboxTypeOK, RowNeedsChange, ClaimsExclusive, CursorOK,
      FannedOutSoFar, SettledWasFannedOut, UnpassedOnlyByFaults,
      RepeatsNeedFaults, Passed, Settled, Unpublished, SinkWants, RowStates, Sinks,
      ActivitySink, StreamSink, WSFanoutSink, WebhookSink

(* A producer touches one row that no relay can have locked, and only to turn *)
(* "none" into something unsettled.                                           *)
LEMMA ProduceInv ==
  ASSUME OutboxInv, NEW e \in Events, Produce(e)
  PROVE  OutboxInv'
<1> USE DEF OutboxInv
<1>1. eventRow[e] = "none"
  BY DEF Produce, PublishTx, Change, Publish, LosePublish, RowNeedsChange, OutboxTypeOK
<1>2. /\ UNCHANGED <<lastError, relayVars, effects>>
      /\ faults' \in 0..MaxFaults
      /\ faults =< faults'
  BY OutboxAssumption
  DEF Produce, PublishTx, Change, Publish, LosePublish, OutboxTypeOK, relayVars
<1>3. \E st \in {"none", "unpublished", "lost"} : eventRow' = [eventRow EXCEPT ![e] = st]
  <2>1. CASE Change(e)
    BY <2>1, <1>1 DEF Change, OutboxTypeOK
  <2>2. CASE PublishTx(e) \/ Publish(e) \/ LosePublish(e)
    BY <2>2 DEF PublishTx, Publish, LosePublish
  <2> QED  BY <2>1, <2>2 DEF Produce
<1>4. committed \subseteq committed' /\ committed' \in SUBSET Events /\ e \in committed'
  BY DEF Produce, PublishTx, Change, Publish, LosePublish, OutboxTypeOK
<1>5. /\ \A f \in Events : Settled(f)' <=> Settled(f)
      /\ Unpublished \subseteq Unpublished'
  BY <1>1, <1>3 DEF Settled, Unpublished, OutboxTypeOK
<1>6. \A r \in Relays, s \in Sinks, f \in Events : Passed(r, s, f)' <=> Passed(r, s, f)
  BY <1>2 DEF Passed, relayVars
<1>7. OutboxTypeOK'
  BY <1>2, <1>3, <1>4 DEF OutboxTypeOK, RowStates, relayVars
<1>8. RowNeedsChange'
  BY <1>3, <1>4 DEF RowNeedsChange, OutboxTypeOK
<1>9. ClaimsExclusive' /\ CursorOK'
  BY <1>2, <1>5 DEF ClaimsExclusive, CursorOK, relayVars
<1>10. FannedOutSoFar'
  BY <1>2, <1>6 DEF FannedOutSoFar, relayVars, SinkWants
<1>11. SettledWasFannedOut'
  BY <1>2, <1>5 DEF SettledWasFannedOut, SinkWants
<1>12. UnpassedOnlyByFaults' /\ RepeatsNeedFaults'
  BY <1>2, <1>5, <1>6 DEF UnpassedOnlyByFaults, RepeatsNeedFaults, OutboxTypeOK
<1> QED  BY <1>7, <1>8, <1>9, <1>10, <1>11, <1>12

(* Claiming locks only rows nobody holds, and passes no sink. *)
LEMMA ClaimInv ==
  ASSUME OutboxInv, NEW r \in Relays, Claim(r)
  PROVE  OutboxInv'
<1> USE DEF OutboxInv
<1>1. PICK B \in Batches(Claimable) : \E e \in Earliest(B) :
                 /\ claimed' = [claimed EXCEPT ![r] = B]
                 /\ unsent' = [unsent EXCEPT ![r] = B]
                 /\ cur' = [cur EXCEPT ![r] = e]
  BY DEF Claim
<1>2. PICK e \in Earliest(B) :
                 /\ claimed' = [claimed EXCEPT ![r] = B]
                 /\ unsent' = [unsent EXCEPT ![r] = B]
                 /\ cur' = [cur EXCEPT ![r] = e]
  BY <1>1
<1>3. /\ B \subseteq Claimable
      /\ e \in B
  BY DEF Batches, Earliest
<1>4. /\ B \subseteq Events
      /\ B \subseteq Unpublished
      /\ \A q \in Relays : B \cap claimed[q] = {}
  BY <1>3 DEF Claimable, Unpublished
<1>5. /\ claimed[r] = {} /\ unsent[r] = {} /\ errs[r] = {}
  BY DEF Claim, RelayIdle, CursorOK
<1>6. /\ stage' = [stage EXCEPT ![r] = ActivitySink]
      /\ UNCHANGED <<eventRow, committed, lastError, errs, effects, faults>>
  BY DEF Claim
<1>7. /\ \A f \in Events : Settled(f)' <=> Settled(f)
      /\ Unpublished' = Unpublished
  BY <1>6 DEF Settled, Unpublished
<1>8. \A q \in Relays, s \in Sinks, f \in Events : Passed(q, s, f)' <=> Passed(q, s, f)
  BY <1>2, <1>5, <1>6 DEF Passed, OutboxTypeOK, Sinks, ActivitySink
<1>9. OutboxTypeOK'
  BY <1>2, <1>3, <1>4, <1>6 DEF OutboxTypeOK, Sinks, ActivitySink
<1>10. RowNeedsChange'
  BY <1>6 DEF RowNeedsChange
<1>11. ClaimsExclusive'
  BY <1>2, <1>4, <1>7 DEF ClaimsExclusive, OutboxTypeOK
<1>12. CursorOK'
  BY <1>2, <1>3, <1>4, <1>5, <1>6, OutboxAssumption DEF CursorOK, OutboxTypeOK
<1>13. FannedOutSoFar'
  BY <1>6, <1>8 DEF FannedOutSoFar, SinkWants
<1>14. SettledWasFannedOut'
  BY <1>6, <1>7 DEF SettledWasFannedOut, SinkWants
<1>15. UnpassedOnlyByFaults' /\ RepeatsNeedFaults'
  BY <1>6, <1>7, <1>8 DEF UnpassedOnlyByFaults, RepeatsNeedFaults
<1> QED  BY <1>9, <1>10, <1>11, <1>12, <1>13, <1>14, <1>15

(* A relay moves to the next sink, or from the last sink to the next row. *)
LEMMA AdvanceFacts ==
  ASSUME OutboxInv, NEW r \in Relays, cur[r] # NoEvent, Advance(r), UNCHANGED claimed
  PROVE  /\ unsent' \in [Relays -> SUBSET Events]
         /\ cur' \in [Relays -> Events \cup {NoEvent}]
         /\ stage' \in [Relays -> Sinks]
         /\ \A q \in Relays \ {r} : unsent'[q] = unsent[q] /\ cur'[q] = cur[q] /\ stage'[q] = stage[q]
         /\ unsent'[r] \subseteq claimed[r]
         /\ (cur'[r] = NoEvent) <=> (unsent'[r] = {})
         /\ cur'[r] # NoEvent => cur'[r] \in unsent'[r]
         /\ \A s \in Sinks, f \in Events :
              Passed(r, s, f)' <=> Passed(r, s, f) \/ (s = stage[r] /\ f = cur[r])
<1> USE DEF OutboxInv
<1>1. /\ cur[r] \in unsent[r] /\ unsent[r] \subseteq claimed[r] /\ claimed[r] \subseteq Events
      /\ stage[r] \in Sinks
  BY DEF CursorOK, OutboxTypeOK
<1>2. CASE stage[r] # WebhookSink
  BY <1>1, <1>2 DEF Advance, Passed, OutboxTypeOK, CursorOK, Sinks, WebhookSink
<1>3. CASE stage[r] = WebhookSink
  <2> DEFINE rest == unsent[r] \ {cur[r]}
  <2>1. /\ stage' = [stage EXCEPT ![r] = ActivitySink]
        /\ unsent' = [unsent EXCEPT ![r] = rest]
    BY <1>3 DEF Advance
  <2>2. PICK e \in IF rest = {} THEN {NoEvent} ELSE Earliest(rest) :
               cur' = [cur EXCEPT ![r] = e]
    BY <1>3 DEF Advance
  <2>3. /\ rest = {} => e = NoEvent
        /\ rest # {} => e \in rest
    BY <2>2 DEF Earliest
  <2>4. (e = NoEvent) <=> (rest = {})
    BY <2>3, <1>1, OutboxAssumption
  <2> QED
    BY <1>1, <1>3, <2>1, <2>2, <2>3, <2>4
    DEF Passed, OutboxTypeOK, Sinks, WebhookSink, ActivitySink
<1> QED  BY <1>2, <1>3

(* Running one sink for one row, with or without an error. *)
LEMMA SinkInv ==
  ASSUME OutboxInv, NEW r \in Relays, Handle(r) \/ HandleFails(r)
  PROVE  OutboxInv'
<1> USE DEF OutboxInv
<1> DEFINE s0 == stage[r]
           e0 == cur[r]
<1>1. /\ e0 \in Events /\ e0 \in unsent[r] /\ e0 \in claimed[r] /\ s0 \in Sinks
      /\ cur[r] # NoEvent
      /\ eventRow[e0] = "unpublished"
  BY DEF Handle, HandleFails, CursorOK, OutboxTypeOK, ClaimsExclusive, Unpublished
<1>2. /\ Advance(r)
      /\ UNCHANGED <<eventRow, committed, lastError, claimed, faults>>
  BY DEF Handle, HandleFails
<1>3. \E n \in {0, 1} :
         /\ effects' = [effects EXCEPT ![s0][e0] = @ + n]
         /\ \/ errs' = errs /\ (SinkWants(s0, e0) => n = 1)
            \/ errs' = [errs EXCEPT ![r] = @ \cup {e0}]
  <2>1. CASE Handle(r)
    BY <2>1 DEF Handle, Effect
  <2>2. CASE HandleFails(r)
    BY <2>2 DEF HandleFails, Effect
  <2> QED  BY <2>1, <2>2
<1>4. PICK n \in {0, 1} :
         /\ effects' = [effects EXCEPT ![s0][e0] = @ + n]
         /\ \/ errs' = errs /\ (SinkWants(s0, e0) => n = 1)
            \/ errs' = [errs EXCEPT ![r] = @ \cup {e0}]
  BY <1>3
<1>5. /\ effects' \in [Sinks -> [Events -> Nat]]
      /\ effects'[s0][e0] = effects[s0][e0] + n
      /\ \A s \in Sinks, e \in Events : effects'[s][e] >= effects[s][e]
      /\ \A s \in Sinks, e \in Events : s # s0 \/ e # e0 => effects'[s][e] = effects[s][e]
  BY <1>1, <1>4 DEF OutboxTypeOK
<1>6. /\ errs' \in [Relays -> SUBSET Events]
      /\ \A q \in Relays : errs[q] \subseteq errs'[q]
      /\ \A q \in Relays : errs'[q] \subseteq claimed[q]
      /\ SinkWants(s0, e0) => n = 1 \/ e0 \in errs'[r]
  <2>1. errs \in [Relays -> SUBSET Events] /\ \A q \in Relays : errs[q] \subseteq claimed[q]
    BY DEF OutboxTypeOK, CursorOK
  <2>2. CASE errs' = errs /\ (SinkWants(s0, e0) => n = 1)
    BY <2>1, <2>2
  <2>3. CASE errs' = [errs EXCEPT ![r] = @ \cup {e0}]
    <3> HIDE DEF s0, e0
    <3> QED  BY <1>1, <2>1, <2>3
  <2> QED  BY <1>4, <2>2, <2>3
<1>7. /\ \A f \in Events : Settled(f)' <=> Settled(f)
      /\ Unpublished' = Unpublished
  BY <1>2 DEF Settled, Unpublished
<1>8. /\ unsent' \in [Relays -> SUBSET Events]
      /\ cur' \in [Relays -> Events \cup {NoEvent}]
      /\ stage' \in [Relays -> Sinks]
      /\ \A q \in Relays \ {r} : unsent'[q] = unsent[q] /\ cur'[q] = cur[q] /\ stage'[q] = stage[q]
      /\ unsent'[r] \subseteq claimed[r]
      /\ (cur'[r] = NoEvent) <=> (unsent'[r] = {})
      /\ cur'[r] # NoEvent => cur'[r] \in unsent'[r]
      /\ \A s \in Sinks, f \in Events :
              Passed(r, s, f)' <=> Passed(r, s, f) \/ (s = s0 /\ f = e0)
  BY <1>1, <1>2, AdvanceFacts
<1>9. \A q \in Relays \ {r}, s \in Sinks, f \in Events : Passed(q, s, f)' <=> Passed(q, s, f)
  BY <1>2, <1>8 DEF Passed
<1>10. /\ ~ Passed(r, s0, e0)
       /\ \A q \in Relays \ {r} : ~ Passed(q, s0, e0)
  BY <1>1 DEF Passed, ClaimsExclusive, Sinks, OutboxTypeOK
<1>11. OutboxTypeOK'
  BY <1>2, <1>5, <1>6, <1>8 DEF OutboxTypeOK
<1>12. RowNeedsChange' /\ ClaimsExclusive'
  BY <1>2, <1>7 DEF RowNeedsChange, ClaimsExclusive
<1>13. CursorOK'
  BY <1>2, <1>6, <1>8 DEF CursorOK
<1>14. FannedOutSoFar'
  <2> SUFFICES ASSUME NEW q \in Relays, NEW s \in Sinks, NEW e \in Events,
                      Passed(q, s, e)', SinkWants(s, e)
               PROVE  effects'[s][e] > 0 \/ e \in errs'[q]
    BY DEF FannedOutSoFar, SinkWants
  <2>1. CASE q = r /\ s = s0 /\ e = e0
    BY <2>1, <1>1, <1>5, <1>6 DEF OutboxTypeOK
  <2>2. CASE ~ (q = r /\ s = s0 /\ e = e0)
    <3>1. Passed(q, s, e)
      BY <2>2, <1>8, <1>9
    <3>2. effects[s][e] > 0 \/ e \in errs[q]
      BY <3>1 DEF FannedOutSoFar
    <3> QED  BY <3>2, <1>5, <1>6 DEF OutboxTypeOK
  <2> QED  BY <2>1, <2>2
<1>15. SettledWasFannedOut'
  BY <1>2, <1>5, <1>7 DEF SettledWasFannedOut, SinkWants, OutboxTypeOK
<1>16. effects[s0][e0] =< faults
  BY <1>1, <1>10 DEF UnpassedOnlyByFaults, Settled
<1>17. UnpassedOnlyByFaults'
  <2> SUFFICES ASSUME NEW s \in Sinks, NEW e \in Events,
                      ~ Settled(e)', \A q \in Relays : ~ Passed(q, s, e)'
               PROVE  effects'[s][e] =< faults'
    BY DEF UnpassedOnlyByFaults
  <2>1. s # s0 \/ e # e0
    BY <1>8
  <2>2. \A q \in Relays : ~ Passed(q, s, e)
    BY <1>8, <1>9
  <2> QED  BY <2>1, <2>2, <1>2, <1>5, <1>7 DEF UnpassedOnlyByFaults
<1>18. RepeatsNeedFaults'
  BY <1>1, <1>2, <1>4, <1>5, <1>16 DEF RepeatsNeedFaults, OutboxTypeOK
<1> QED  BY <1>11, <1>12, <1>13, <1>14, <1>15, <1>17, <1>18

(* Ending a transaction gives the relay an empty batch. *)
LEMMA UnlockFacts ==
  ASSUME OutboxInv, NEW r \in Relays, Unlock(r)
  PROVE  /\ claimed' \in [Relays -> SUBSET Events]
         /\ unsent' \in [Relays -> SUBSET Events]
         /\ cur' \in [Relays -> Events \cup {NoEvent}]
         /\ stage' \in [Relays -> Sinks]
         /\ errs' \in [Relays -> SUBSET Events]
         /\ CursorOK'
         /\ claimed'[r] = {}
         /\ \A q \in Relays \ {r} : claimed'[q] = claimed[q] /\ errs'[q] = errs[q]
         /\ \A s \in Sinks, e \in Events : ~ Passed(r, s, e)'
         /\ \A q \in Relays \ {r}, s \in Sinks, e \in Events :
               Passed(q, s, e)' <=> Passed(q, s, e)
  BY DEF Unlock, OutboxInv, OutboxTypeOK, CursorOK, Passed, Sinks, ActivitySink

(* Committing a batch settles rows that every sink has passed. *)
LEMMA MarkPublishedInv ==
  ASSUME OutboxInv, NEW r \in Relays, MarkPublished(r)
  PROVE  OutboxInv'
<1> USE DEF OutboxInv
<1>1. /\ unsent[r] = {}
      /\ eventRow' = [e \in Events |-> IF e \in claimed[r] THEN "published" ELSE eventRow[e]]
      /\ lastError' = lastError \cup errs[r]
      /\ Unlock(r)
      /\ UNCHANGED <<committed, effects, faults>>
  BY DEF MarkPublished
<1>2. \A e \in Events : Settled(e)' <=> Settled(e) \/ e \in claimed[r]
  BY <1>1 DEF Settled
<1>3. claimed[r] \subseteq Events
  BY DEF OutboxTypeOK
<1>4. \A e \in claimed[r], s \in Sinks : SinkWants(s, e) => effects[s][e] > 0 \/ e \in errs[r]
  BY <1>1, <1>3 DEF FannedOutSoFar, Passed
<1>5. OutboxTypeOK'
  BY <1>1, UnlockFacts DEF OutboxTypeOK, RowStates
<1>6. RowNeedsChange'
  BY <1>1 DEF RowNeedsChange, ClaimsExclusive, Unpublished
<1>7. ClaimsExclusive'
  BY <1>1, UnlockFacts DEF ClaimsExclusive, Unpublished
<1>8. FannedOutSoFar'
  BY <1>1, UnlockFacts DEF FannedOutSoFar, SinkWants
<1>9. SettledWasFannedOut'
  BY <1>1, <1>2, <1>4 DEF SettledWasFannedOut, SinkWants
<1>10. UnpassedOnlyByFaults'
  <2> SUFFICES ASSUME NEW s \in Sinks, NEW e \in Events,
                      ~ Settled(e)', \A q \in Relays : ~ Passed(q, s, e)'
               PROVE  effects'[s][e] =< faults'
    BY DEF UnpassedOnlyByFaults
  <2>1. ~ Settled(e) /\ e \notin claimed[r]
    BY <1>2
  <2>2. \A q \in Relays : ~ Passed(q, s, e)
    BY <2>1, <1>1, UnlockFacts DEF Passed
  <2> QED  BY <2>1, <2>2, <1>1 DEF UnpassedOnlyByFaults
<1>11. RepeatsNeedFaults'
  BY <1>1 DEF RepeatsNeedFaults
<1> QED  BY <1>1, <1>5, <1>6, <1>7, <1>8, <1>9, <1>10, <1>11, UnlockFacts

(* A rollback keeps the deliveries and counts as a fault. *)
LEMMA RollbackInv ==
  ASSUME OutboxInv, NEW r \in Relays, Rollback(r)
  PROVE  OutboxInv'
<1> USE DEF OutboxInv
<1>1. /\ faults < MaxFaults /\ faults' = faults + 1
      /\ Unlock(r)
      /\ UNCHANGED <<eventRow, committed, lastError, effects>>
  BY DEF Rollback
<1>2. /\ \A e \in Events : Settled(e)' <=> Settled(e)
      /\ Unpublished' = Unpublished
  BY <1>1 DEF Settled, Unpublished
<1>3. OutboxTypeOK'
  BY <1>1, UnlockFacts, OutboxAssumption DEF OutboxTypeOK
<1>4. RowNeedsChange' /\ SettledWasFannedOut'
  BY <1>1, <1>2 DEF RowNeedsChange, SettledWasFannedOut, SinkWants
<1>5. ClaimsExclusive'
  BY <1>1, <1>2, UnlockFacts DEF ClaimsExclusive
<1>6. FannedOutSoFar'
  BY <1>1, UnlockFacts DEF FannedOutSoFar, SinkWants
<1>7. UnpassedOnlyByFaults' /\ RepeatsNeedFaults'
  BY <1>1, OutboxAssumption DEF UnpassedOnlyByFaults, RepeatsNeedFaults, OutboxTypeOK
<1> QED  BY <1>1, <1>3, <1>4, <1>5, <1>6, <1>7, UnlockFacts

(* Pruning only takes settled rows, which no relay holds. *)
LEMMA PruneInv ==
  ASSUME OutboxInv, NEW r \in Relays, Prune(r)
  PROVE  OutboxInv'
<1> USE DEF OutboxInv
<1>1. PICK S \in SUBSET {e \in Events : eventRow[e] = "published"} :
         eventRow' = [e \in Events |-> IF e \in S THEN "pruned" ELSE eventRow[e]]
  BY DEF Prune
<1>2. UNCHANGED <<committed, lastError, claimed, unsent, cur, stage, errs, effects, faults>>
  BY DEF Prune, relayVars
<1>3. /\ \A e \in Events : Settled(e)' <=> Settled(e)
      /\ Unpublished' = Unpublished
  BY <1>1 DEF Settled, Unpublished
<1>4. OutboxTypeOK'
  BY <1>1, <1>2 DEF OutboxTypeOK, RowStates
<1>5. RowNeedsChange'
  BY <1>1, <1>2 DEF RowNeedsChange
<1>6. ClaimsExclusive' /\ CursorOK'
  BY <1>2, <1>3 DEF ClaimsExclusive, CursorOK
<1>7. FannedOutSoFar' /\ SettledWasFannedOut'
  BY <1>2, <1>3 DEF FannedOutSoFar, SettledWasFannedOut, Passed, SinkWants
<1>8. UnpassedOnlyByFaults' /\ RepeatsNeedFaults'
  BY <1>2, <1>3 DEF UnpassedOnlyByFaults, RepeatsNeedFaults, Passed
<1> QED  BY <1>4, <1>5, <1>6, <1>7, <1>8

(* The inductive invariant of the outbox. *)
THEOREM OutboxInvariant == OutboxSpec => []OutboxInv
<1>1. OutboxInv /\ [OutboxNext]_outboxVars => OutboxInv'
  <2> SUFFICES ASSUME OutboxInv, [OutboxNext]_outboxVars PROVE OutboxInv'
    OBVIOUS
  <2>1. CASE UNCHANGED outboxVars
    BY <2>1
    DEF outboxVars, OutboxInv, OutboxTypeOK, RowNeedsChange, ClaimsExclusive, CursorOK,
        FannedOutSoFar, SettledWasFannedOut, UnpassedOnlyByFaults,
        RepeatsNeedFaults, Passed, Settled, Unpublished, SinkWants
  <2>2. CASE \E e \in Events : Produce(e)
    BY <2>2, ProduceInv
  <2>3. CASE \E r \in Relays : RelayStep(r) \/ Rollback(r) \/ Prune(r)
    BY <2>3, ClaimInv, SinkInv, MarkPublishedInv, RollbackInv, PruneInv DEF RelayStep
  <2> QED  BY <2>1, <2>2, <2>3 DEF OutboxNext
<1> QED  BY <1>1, OutboxInitInv, PTL DEF OutboxSpec

(* Relays never share an event (FOR UPDATE SKIP LOCKED is enough). *)
THEOREM RelaysAreExclusive == OutboxSpec => []ClaimsExclusive
<1>1. OutboxInv => ClaimsExclusive
  BY DEF OutboxInv
<1> QED  BY <1>1, OutboxInvariant, PTL

(* A row is marked published only after every sink was tried for it. *)
THEOREM SettledRowsAreFannedOut == OutboxSpec => []SettledWasFannedOut
<1>1. OutboxInv => SettledWasFannedOut
  BY DEF OutboxInv
<1> QED  BY <1>1, OutboxInvariant, PTL

(* Without a crash or a rollback every sink sees an event at most once. *)
THEOREM RepeatsAreFaults == OutboxSpec => []RepeatsNeedFaults
<1>1. OutboxInv => RepeatsNeedFaults
  BY DEF OutboxInv
<1> QED  BY <1>1, OutboxInvariant, PTL

(* The outbox implements EventDelivery: at least once while pending, settled  *)
(* once, silent afterwards.                                                   *)
THEOREM OutboxImplementsPromise == OutboxSpec => ImplementsPromise
<1> DEFINE got == {p \in Sinks \X Events : effects[p[1]][p[2]] > 0}
           settled == {e \in Events : Settled(e)}
<1>1. OutboxInit => Promise!Init
  BY DEF OutboxInit, Promise!Init, Unpublished, Settled, Sinks
<1>2. OutboxInv /\ [OutboxNext]_outboxVars => [Promise!Next]_(Promise!vars)
  <2> SUFFICES ASSUME OutboxInv, [OutboxNext]_outboxVars
               PROVE  [Promise!Next]_(Promise!vars)
    OBVIOUS
  <2> USE DEF OutboxInv
  <2>1. CASE UNCHANGED outboxVars
    BY <2>1 DEF outboxVars, Promise!vars, Unpublished, Settled
  <2>2. ASSUME NEW e \in Events, Produce(e) PROVE [Promise!Next]_(Promise!vars)
    <3>1. eventRow[e] = "none"
      BY <2>2 DEF Produce, PublishTx, Change, Publish, LosePublish, RowNeedsChange, OutboxTypeOK
    <3>2. UNCHANGED <<lastError, effects>>
      BY <2>2 DEF Produce, PublishTx, Change, Publish, LosePublish
    <3>3. CASE eventRow' = [eventRow EXCEPT ![e] = "unpublished"]
      <4>1. Unpublished' = Unpublished \cup {e} /\ settled' = settled /\ got' = got
        BY <3>1, <3>2, <3>3 DEF Unpublished, Settled, OutboxTypeOK
      <4>2. e \notin Unpublished \cup settled
        BY <3>1 DEF Unpublished, Settled
      <4>3. Promise!Record(e)
        BY <3>2, <4>1, <4>2 DEF Promise!Record
      <4> QED  BY <4>3 DEF Promise!Next
    <3>4. CASE eventRow' = eventRow \/ eventRow' = [eventRow EXCEPT ![e] = "lost"]
      <4>1. Unpublished' = Unpublished /\ settled' = settled /\ got' = got
        BY <3>1, <3>2, <3>4 DEF Unpublished, Settled, OutboxTypeOK
      <4> QED  BY <3>2, <4>1 DEF Promise!vars
    <3> QED  BY <2>2, <3>3, <3>4 DEF Produce, PublishTx, Change, Publish, LosePublish
  <2>3. ASSUME NEW r \in Relays, Claim(r) PROVE [Promise!Next]_(Promise!vars)
    BY <2>3 DEF Claim, Promise!vars, Unpublished, Settled
  <2>4. ASSUME NEW r \in Relays, Handle(r) \/ HandleFails(r)
        PROVE  [Promise!Next]_(Promise!vars)
    <3>1. stage[r] \in Sinks /\ cur[r] \in Events /\ cur[r] \in Unpublished
      BY <2>4 DEF Handle, HandleFails, CursorOK, OutboxTypeOK, ClaimsExclusive, Unpublished
    <3>2. PICK s0 \in Sinks, e0 \in Events : s0 = stage[r] /\ e0 = cur[r]
      BY <3>1
    <3>3. /\ s0 \in Sinks /\ e0 \in Events /\ e0 \in Unpublished
          /\ UNCHANGED <<eventRow, lastError>>
      BY <2>4, <3>1, <3>2 DEF Handle, HandleFails
    <3>4. PICK n \in {0, 1} : /\ effects' = [effects EXCEPT ![s0][e0] = @ + n]
                              /\ n = 1 => SinkWants(s0, e0)
      BY <2>4, <3>2 DEF Handle, HandleFails, Effect
    <3>5. Unpublished' = Unpublished /\ settled' = settled
      BY <3>3 DEF Unpublished, Settled
    <3>6. /\ \A s \in Sinks, e \in Events : s # s0 \/ e # e0 => effects'[s][e] = effects[s][e]
          /\ effects'[s0][e0] = effects[s0][e0] + n
          /\ effects[s0][e0] \in Nat
      BY <3>3, <3>4 DEF OutboxTypeOK
    <3>7. CASE n = 0
      <4>1. got' = got
        BY <3>6, <3>7
      <4> QED  BY <3>3, <3>5, <4>1 DEF Promise!vars
    <3>8. CASE n = 1
      <4>1. got' = got \cup {<<s0, e0>>}
        BY <3>3, <3>6, <3>8
      <4>2. Promise!Deliver(s0, e0)
        BY <3>3, <3>4, <3>5, <3>8, <4>1 DEF Promise!Deliver
      <4> QED  BY <4>2 DEF Promise!Next
    <3> QED  BY <3>7, <3>8
  <2>5. ASSUME NEW r \in Relays, MarkPublished(r) PROVE [Promise!Next]_(Promise!vars)
    <3> DEFINE S == claimed[r]
               F == errs[r]
    <3>1. /\ S \in SUBSET Events /\ F \in SUBSET Events /\ F \subseteq S
          /\ S \subseteq Unpublished
      BY DEF OutboxTypeOK, CursorOK, ClaimsExclusive
    <3>2. /\ eventRow' = [e \in Events |-> IF e \in S THEN "published" ELSE eventRow[e]]
          /\ lastError' = lastError \cup F /\ effects' = effects /\ unsent[r] = {}
      BY <2>5 DEF MarkPublished
    <3>3. /\ Unpublished' = Unpublished \ S
          /\ settled' = settled \cup S
          /\ got' = got
      BY <3>1, <3>2 DEF Unpublished, Settled
    <3>4. \A e \in S \ F : \A s \in {t \in Sinks : SinkWants(t, e)} : <<s, e>> \in got
      BY <3>1, <3>2 DEF FannedOutSoFar, Passed
    <3>5. Promise!Settle(S, F)
      BY <3>1, <3>2, <3>3, <3>4 DEF Promise!Settle
    <3> QED  BY <3>1, <3>5 DEF Promise!Next
  <2>6. ASSUME NEW r \in Relays, Rollback(r) PROVE [Promise!Next]_(Promise!vars)
    BY <2>6 DEF Rollback, Promise!vars, Unpublished, Settled
  <2>7. ASSUME NEW r \in Relays, Prune(r) PROVE [Promise!Next]_(Promise!vars)
    <3>1. Unpublished' = Unpublished /\ settled' = settled /\ got' = got
      BY <2>7 DEF Prune, Unpublished, Settled
    <3> QED  BY <2>7, <3>1 DEF Prune, Promise!vars
  <2> QED  BY <2>1, <2>2, <2>3, <2>4, <2>5, <2>6, <2>7 DEF OutboxNext, RelayStep
<1> QED
  BY <1>1, <1>2, OutboxInvariant, PTL DEF OutboxSpec, Promise!Spec, ImplementsPromise

=============================================================================
