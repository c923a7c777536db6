------------------------------- MODULE Outbox -------------------------------
(***************************************************************************)
(* The transactional outbox of internal/crmevents: producers write events  *)
(* to crm_event_outbox, and one relay per server replica claims rows with  *)
(* FOR UPDATE SKIP LOCKED, runs the four sinks of NewEventRelay for each   *)
(* row and marks the batch published, all in one database transaction.     *)
(*                                                                         *)
(* The effects of the sinks are NOT part of that transaction: Redis is     *)
(* not, a webhook is a goroutine, and ActivitySink writes through its own  *)
(* database handle.  A rollback therefore undoes the claim and the         *)
(* bookkeeping but none of the deliveries.                                 *)
(***************************************************************************)
EXTENDS Integers, FiniteSets

CONSTANTS Events,          \* identities of the domain events of a behaviour
          Relays,          \* one relay per server replica
          BatchSize,       \* Relay.BatchSize
          OccurredAt,      \* [Events -> Nat]: occurred_at, set before the commit
          Transactional,   \* events written with PublishTx in the change's transaction
          RecordActivity, Automatable, Webhook,  \* catalog flags (contact set)
          MaxFaults,       \* bound on crashes, rollbacks and lost publishes
          NoEvent          \* no event

(* The sinks in the order NewEventRelay lists them. *)
ActivitySink == 1
StreamSink   == 2
WSFanoutSink == 3
WebhookSink  == 4
Sinks == 1..4

ASSUME OutboxAssumption ==
  /\ IsFiniteSet(Events)
  /\ NoEvent \notin Events
  /\ BatchSize \in Nat \ {0}
  /\ MaxFaults \in Nat
  /\ OccurredAt \in [Events -> Nat]
  /\ Transactional \subseteq Events

VARIABLES eventRow,  \* [Events -> row state]: the event's outbox row
          committed, \* events whose domain change is committed
          lastError, \* events whose committed row carries attempts > 0, last_error
          claimed,   \* [Relays -> SUBSET Events]: row locks of the open transaction
          unsent,    \* [Relays -> SUBSET Events]: claimed rows not yet fanned out
          cur,       \* [Relays -> Events \cup {NoEvent}]: the row being fanned out
          stage,     \* [Relays -> Sinks]: the sink about to run for cur
          errs,      \* [Relays -> SUBSET Events]: uncommitted attempts/last_error
          effects,   \* [Sinks -> [Events -> Nat]]: how often a sink took effect
          faults     \* failures so far

relayVars == <<claimed, unsent, cur, stage, errs>>
outboxVars == <<eventRow, committed, lastError, claimed, unsent, cur, stage, errs, effects, faults>>

RowStates == {"none", "unpublished", "published", "pruned", "lost"}

(* Each sink skips the events its catalog flag does not cover; the fan-out *)
(* to browsers takes every event.                                          *)
SinkWants(s, e) ==
  \/ s = ActivitySink /\ e \in RecordActivity
  \/ s = StreamSink /\ e \in Automatable
  \/ s = WSFanoutSink
  \/ s = WebhookSink /\ e \in Webhook

Earliest(S) == {e \in S : \A f \in S : OccurredAt[e] =< OccurredAt[f]}

Unpublished == {e \in Events : eventRow[e] = "unpublished"}

(* Mutant: a plain SELECT, which sees the rows other relays hold. *)
ClaimableWithoutSkipLocked == Unpublished

(* What SKIP LOCKED leaves visible to a relay's SELECT. *)
Claimable == Unpublished \ UNION {claimed[r] : r \in Relays}

(* ORDER BY occurred_at LIMIT BatchSize *)
Batches(S) ==
  {B \in SUBSET S :
     /\ Cardinality(B) = IF Cardinality(S) < BatchSize THEN Cardinality(S)
                                                       ELSE BatchSize
     /\ \A e \in B, f \in S \ B : OccurredAt[e] =< OccurredAt[f]}

RelayIdle(r) == claimed[r] = {}

-----------------------------------------------------------------------------
OutboxInit ==
  /\ eventRow = [e \in Events |-> "none"]
  /\ committed = {}
  /\ lastError = {}
  /\ claimed = [r \in Relays |-> {}]
  /\ unsent = [r \in Relays |-> {}]
  /\ cur = [r \in Relays |-> NoEvent]
  /\ stage = [r \in Relays |-> ActivitySink]
  /\ errs = [r \in Relays |-> {}]
  /\ effects = [s \in Sinks |-> [e \in Events |-> 0]]
  /\ faults = 0

(* Mutant: the change commits without its row. *)
PublishTxOutsideTransaction(e) ==
  /\ e \in Transactional
  /\ e \notin committed
  /\ committed' = committed \cup {e}
  /\ UNCHANGED <<eventRow, lastError, relayVars, effects, faults>>

(* PublishTx: the row commits with the change that caused it. *)
PublishTx(e) ==
  /\ e \in Transactional
  /\ e \notin committed
  /\ committed' = committed \cup {e}
  /\ eventRow' = [eventRow EXCEPT ![e] = "unpublished"]
  /\ UNCHANGED <<lastError, relayVars, effects, faults>>

(* A change whose handler publishes after its own commit ... *)
Change(e) ==
  /\ e \notin Transactional
  /\ e \notin committed
  /\ committed' = committed \cup {e}
  /\ UNCHANGED <<eventRow, lastError, relayVars, effects, faults>>

(* ... with PublishEvent, *)
Publish(e) ==
  /\ e \in committed
  /\ eventRow[e] = "none"
  /\ eventRow' = [eventRow EXCEPT ![e] = "unpublished"]
  /\ UNCHANGED <<committed, lastError, relayVars, effects, faults>>

(* which only logs a failed insert, and which a crash skips. *)
LosePublish(e) ==
  /\ e \in committed
  /\ eventRow[e] = "none"
  /\ faults < MaxFaults
  /\ eventRow' = [eventRow EXCEPT ![e] = "lost"]
  /\ faults' = faults + 1
  /\ UNCHANGED <<committed, lastError, relayVars, effects>>

(* ProcessBatch opens its transaction and locks a batch. *)
Claim(r) ==
  /\ RelayIdle(r)
  /\ Claimable # {}
  /\ \E B \in Batches(Claimable) : \E e \in Earliest(B) :
       /\ claimed' = [claimed EXCEPT ![r] = B]
       /\ unsent' = [unsent EXCEPT ![r] = B]
       /\ cur' = [cur EXCEPT ![r] = e]
  /\ stage' = [stage EXCEPT ![r] = ActivitySink]
  /\ UNCHANGED <<eventRow, committed, lastError, errs, effects, faults>>

(* fanOut's loop: after the last sink, the batch's next row. *)
Advance(r) ==
  IF stage[r] # WebhookSink
  THEN /\ stage' = [stage EXCEPT ![r] = @ + 1]
       /\ UNCHANGED <<unsent, cur>>
  ELSE LET rest == unsent[r] \ {cur[r]}
       IN  /\ stage' = [stage EXCEPT ![r] = ActivitySink]
           /\ unsent' = [unsent EXCEPT ![r] = rest]
           /\ \E e \in IF rest = {} THEN {NoEvent} ELSE Earliest(rest) :
                cur' = [cur EXCEPT ![r] = e]

Effect(s, e, n) == effects' = [effects EXCEPT ![s][e] = @ + n]

(* A sink returns nil: it skipped the event or took effect. *)
Handle(r) ==
  /\ cur[r] # NoEvent
  /\ Effect(stage[r], cur[r], IF SinkWants(stage[r], cur[r]) THEN 1 ELSE 0)
  /\ Advance(r)
  /\ UNCHANGED <<eventRow, committed, lastError, claimed, errs, faults>>

(* A sink that does I/O returns an error, its effect applied or not; the   *)
(* row's attempts and last_error are updated in the open transaction.      *)
HandleFails(r) ==
  /\ cur[r] # NoEvent
  /\ stage[r] # WebhookSink
  /\ SinkWants(stage[r], cur[r])
  /\ \E n \in {0, 1} : Effect(stage[r], cur[r], n)
  /\ errs' = [errs EXCEPT ![r] = @ \cup {cur[r]}]
  /\ Advance(r)
  /\ UNCHANGED <<eventRow, committed, lastError, claimed, faults>>

(* The relay's transaction ends and gives its locks back. *)
Unlock(r) ==
  /\ claimed' = [claimed EXCEPT ![r] = {}]
  /\ unsent' = [unsent EXCEPT ![r] = {}]
  /\ cur' = [cur EXCEPT ![r] = NoEvent]
  /\ stage' = [stage EXCEPT ![r] = ActivitySink]
  /\ errs' = [errs EXCEPT ![r] = {}]

(* Mutant: the batch is marked before its last row is fanned out. *)
MarkPublishedEarly(r) ==
  /\ ~ RelayIdle(r)
  /\ eventRow' = [e \in Events |-> IF e \in claimed[r] THEN "published" ELSE eventRow[e]]
  /\ lastError' = lastError \cup errs[r]
  /\ Unlock(r)
  /\ UNCHANGED <<committed, effects, faults>>

(* Mutant: a row whose sink failed stays in the outbox to be tried again. *)
MarkPublishedUnlessFailed(r) ==
  /\ ~ RelayIdle(r)
  /\ unsent[r] = {}
  /\ eventRow' = [e \in Events |-> IF e \in claimed[r] \ errs[r] THEN "published" ELSE eventRow[e]]
  /\ lastError' = lastError
  /\ Unlock(r)
  /\ UNCHANGED <<committed, effects, faults>>

(* Every claimed row is fanned out: published_at is set and committed. *)
MarkPublished(r) ==
  /\ ~ RelayIdle(r)
  /\ unsent[r] = {}
  /\ eventRow' = [e \in Events |-> IF e \in claimed[r] THEN "published" ELSE eventRow[e]]
  /\ lastError' = lastError \cup errs[r]
  /\ Unlock(r)
  /\ UNCHANGED <<committed, effects, faults>>

(* The replica dies, its context is cancelled or a statement fails: the    *)
(* transaction rolls back and the rows are claimable again.                *)
Rollback(r) ==
  /\ ~ RelayIdle(r)
  /\ faults < MaxFaults
  /\ faults' = faults + 1
  /\ Unlock(r)
  /\ UNCHANGED <<eventRow, committed, lastError, effects>>

(* Rows published before the retention window are deleted, between batches. *)
Prune(r) ==
  /\ RelayIdle(r)
  /\ \E S \in SUBSET {e \in Events : eventRow[e] = "published"} :
       /\ S # {}
       /\ eventRow' = [e \in Events |-> IF e \in S THEN "pruned" ELSE eventRow[e]]
  /\ UNCHANGED <<committed, lastError, relayVars, effects, faults>>

RelayStep(r) == Claim(r) \/ Handle(r) \/ HandleFails(r) \/ MarkPublished(r)

Produce(e) == PublishTx(e) \/ Change(e) \/ Publish(e) \/ LosePublish(e)

OutboxNext ==
  \/ \E e \in Events : Produce(e)
  \/ \E r \in Relays : RelayStep(r) \/ Rollback(r) \/ Prune(r)

OutboxSpec == OutboxInit /\ [][OutboxNext]_outboxVars

(* A running relay polls for ever, so its steps are weakly fair; producers, *)
(* faults and pruning promise nothing.                                      *)
OutboxFairSpec == OutboxSpec /\ \A r \in Relays : WF_outboxVars(RelayStep(r))

-----------------------------------------------------------------------------
OutboxTypeOK ==
  /\ eventRow \in [Events -> RowStates]
  /\ committed \in SUBSET Events
  /\ lastError \in SUBSET Events
  /\ claimed \in [Relays -> SUBSET Events]
  /\ unsent \in [Relays -> SUBSET Events]
  /\ cur \in [Relays -> Events \cup {NoEvent}]
  /\ stage \in [Relays -> Sinks]
  /\ errs \in [Relays -> SUBSET Events]
  /\ effects \in [Sinks -> [Events -> Nat]]
  /\ faults \in 0..MaxFaults

Settled(e) == eventRow[e] \in {"published", "pruned"}

(* No two relays ever work on the same event, and a relay only works on     *)
(* rows nobody has published or pruned since it read them.                  *)
ClaimsExclusive ==
  \A r \in Relays : /\ claimed[r] \subseteq Unpublished
                    /\ \A q \in Relays \ {r} : claimed[r] \cap claimed[q] = {}

(* A row that the relay will never read again has reached every sink its    *)
(* catalog entry names, or carries the error of a sink that failed.         *)
SettledWasFannedOut ==
  \A e \in Events : Settled(e) =>
     \/ e \in lastError
     \/ \A s \in Sinks : SinkWants(s, e) => effects[s][e] > 0

(* A sink sees an event again only because a transaction rolled back: never *)
(* more often than once per fault, plus once.                               *)
RepeatsNeedFaults ==
  \A s \in Sinks, e \in Events : effects[s][e] =< faults + 1

(* The outbox promise: an event committed with its change is fanned out,    *)
(* whatever replicas crash in between.                                      *)
CommittedEventIsRelayed ==
  \A e \in Transactional : (e \in committed) ~> Settled(e)

(* The outbox implements the delivery promise of EventDelivery. *)
Promise == INSTANCE EventDelivery WITH
  WantedBy <- [e \in Events |-> {s \in Sinks : SinkWants(s, e)}],
  pending  <- Unpublished,
  settled  <- {e \in Events : Settled(e)},
  gaveUp   <- lastError,
  got      <- {p \in Sinks \X Events : effects[p[1]][p[2]] > 0}

ImplementsPromise == Promise!Spec
=============================================================================
