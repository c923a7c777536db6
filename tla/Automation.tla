----------------------------- MODULE Automation -----------------------------
(***************************************************************************)
(* The automation engine of internal/automation, for one contact.          *)
(*                                                                         *)
(* Every replica runs a consumer of the CRM event stream (a Redis consumer *)
(* group, delivery at least once), a scheduler job that fires time-based   *)
(* rules and a scheduler job that resumes runs parked at a wait step.  All *)
(* of them end in the same code: judge a rule, claim the run row with the  *)
(* unique (rule_id, event_id) index, walk the rule's steps, record the     *)
(* outcome.  Nothing of this is in a transaction, so every statement is a  *)
(* step and a replica may die between any two.                             *)
(*                                                                         *)
(* The steps of a rule are abstracted to the stretches between waits: a    *)
(* walk ends at a wait or at the end of the path, with any outcome, and    *)
(* may publish one event.  Conditions, cooldown and the hourly cap may let *)
(* a rule pass or not; the run row they leave behind is kept.              *)
(***************************************************************************)
EXTENDS Integers, FiniteSets

CONSTANTS Rules,             \* automation rules
          Events,            \* a set of numbers, in stream order
          People,            \* events caused by a person, on the stream at the start
          Timed,             \* synthetic events of time triggers: one per subject
          Triggers,          \* <<r, e>>: MatchTrigger holds
          Once,              \* rules with once_per_contact
          Writes,            \* [Rules -> {"nothing", "contact", "work"}]: what the steps change
          Consumers,         \* stream consumers, one per replica
          TimeJobs,          \* scheduler threads in RunTimeTriggers
          WaitJobs,          \* scheduler threads in ResumeWaits
          ReadBatch, MaxDeliveries, MaxDepth, AutoDisableAfter,
          MaxWaits,          \* bound on the waits of one run
          MaxEdits,          \* bound on what the rule's author does
          MaxFaults,         \* bound on crashes, slow consumers and duplicates
          MaxErrors,         \* bound on failed statements
          MaxPrunes,         \* bound on pruned runs
          None

Threads == Consumers \cup TimeJobs \cup WaitJobs
Runs == Rules \X Events
Slots == 1..MaxWaits

ASSUME AutomationAssumption ==
  /\ Events \subseteq Nat /\ IsFiniteSet(Events)
  /\ People \subseteq Events /\ Timed \subseteq Events \ People
  /\ Triggers \subseteq Runs /\ Once \subseteq Rules
  /\ Writes \in [Rules -> {"nothing", "contact", "work"}]
  /\ Consumers \cap (TimeJobs \cup WaitJobs) = {} /\ TimeJobs \cap WaitJobs = {}
  /\ None \notin Rules /\ None \notin Events /\ None \notin Runs
  /\ ReadBatch \in Nat \ {0} /\ MaxDeliveries \in Nat /\ MaxDepth \in Nat
  /\ AutoDisableAfter \in Nat /\ MaxWaits \in Nat /\ MaxEdits \in Nat
  /\ MaxFaults \in Nat /\ MaxErrors \in Nat /\ MaxPrunes \in Nat

VARIABLES
  enabled,     \* [Rules -> {"on", "off", "deleted"}]
  failures,    \* [Rules -> Nat]: consecutive_failures
  marked,      \* <<r, subject>>: automation_contact_state rows
  run,         \* [Runs -> run status, "none" when there is no row]
  parks,       \* [Runs -> Nat]: wait rows written for the run
  wait,        \* [Runs -> [Slots -> wait status]]
  entry,       \* [Events -> state of the stream entry]
  deliveries,  \* [Events -> Nat]: the entry's delivery counter
  origin,      \* [Events -> Rules \cup {None}]: Origin.RuleID
  depth,       \* [Events -> Nat]: Origin.Depth
  inbox,       \* [Consumers -> SUBSET Events]: entries read and not handled
  pc, todo, cur, slot, result,  \* per thread: where runRule or resume stands
  faults, errors, edits,
  walked, fired, pruned,        \* history, per run: walks, claims, prunings
  maker, chain                  \* history, per event: who really caused it

ruleVars == <<enabled, failures, marked, edits>>
runVars == <<run, parks, wait, walked, fired, pruned>>
streamVars == <<entry, deliveries, origin, depth, maker, chain>>
threadVars == <<pc, todo, cur, slot, result>>
vars == <<ruleVars, runVars, streamVars, inbox, threadVars, faults, errors>>

(* subjectKey: a time trigger names its subject, other events name none. *)
Subject(e) == IF e \in Timed THEN e ELSE None

Init == /\ enabled = [r \in Rules |-> "on"]
        /\ failures = [r \in Rules |-> 0]
        /\ marked = {}
        /\ run = [x \in Runs |-> "none"]
        /\ parks = [x \in Runs |-> 0]
        /\ wait = [x \in Runs |-> [k \in Slots |-> "none"]]
        /\ entry = [e \in Events |-> IF e \in People THEN "queued" ELSE "none"]
        /\ deliveries = [e \in Events |-> 0]
        /\ origin = [e \in Events |-> None]
        /\ depth = [e \in Events |-> 0]
        /\ inbox = [c \in Consumers |-> {}]
        /\ pc = [t \in Threads |-> "idle"]
        /\ todo = [t \in Threads |-> {}]
        /\ cur = [t \in Threads |-> None]
        /\ slot = [t \in Threads |-> 0]
        /\ result = [t \in Threads |-> "none"]
        /\ faults = 0 /\ errors = 0 /\ edits = 0
        /\ walked = [x \in Runs |-> 0]
        /\ fired = [x \in Runs |-> 0]
        /\ pruned = [x \in Runs |-> 0]
        /\ maker = [e \in Events |-> None]
        /\ chain = [e \in Events |-> 0]

Fault == faults < MaxFaults /\ faults' = faults + 1 /\ UNCHANGED errors
Error == errors < MaxErrors /\ errors' = errors + 1 /\ UNCHANGED faults
NoFault == UNCHANGED <<faults, errors>>

Goto(t, l) == pc' = [pc EXCEPT ![t] = l]

-----------------------------------------------------------------------------
(* The stream consumer.                                                      *)

First(S) == CHOOSE e \in S : \A f \in S : e =< f

Deliver(c, B) ==
  /\ entry' = [e \in Events |-> IF e \in B THEN "pending" ELSE entry[e]]
  /\ deliveries' = [e \in Events |-> IF e \in B THEN deliveries[e] + 1 ELSE deliveries[e]]
  /\ inbox' = [inbox EXCEPT ![c] = B]
  /\ UNCHANGED <<origin, depth, maker, chain>>

(* XREADGROUP: the oldest entries nobody has read. *)
Read(c) ==
  /\ pc[c] = "idle" /\ inbox[c] = {}
  /\ LET new == {e \in Events : entry[e] = "queued"}
     IN \E B \in SUBSET new :
          /\ B # {}
          /\ Cardinality(B) = IF Cardinality(new) < ReadBatch THEN Cardinality(new) ELSE ReadBatch
          /\ \A e \in B, f \in new \ B : e < f
          /\ Deliver(c, B)
  /\ NoFault
  /\ UNCHANGED <<ruleVars, runVars, threadVars>>

Held(e) == \E c \in Consumers : e \in inbox[c]

(* Mutant: a consumer only looks at entries nobody has read. *)
ReclaimNever(c) == FALSE /\ UNCHANGED vars

(* reclaim: entries unacknowledged for a minute, whose consumer died or gave *)
(* up on them, or is merely slow.                                            *)
Reclaim(c) ==
  /\ pc[c] = "idle" /\ inbox[c] = {}
  /\ \E B \in SUBSET {e \in Events : entry[e] = "pending"} :
       /\ B # {} /\ Cardinality(B) =< ReadBatch
       /\ IF \E e \in B : Held(e) THEN Fault ELSE NoFault
       /\ Deliver(c, B)
  /\ UNCHANGED <<ruleVars, runVars, threadVars>>

(* handleEntry: load the enabled rules of the event's type. *)
HandleEntry(c) ==
  /\ pc[c] = "idle" /\ inbox[c] # {}
  /\ todo' = [todo EXCEPT ![c] =
       {<<x, 0>> : x \in {y \in Triggers : y[2] = First(inbox[c]) /\ enabled[y[1]] = "on"}}]
  /\ Goto(c, "rules")
  /\ NoFault
  /\ UNCHANGED <<ruleVars, runVars, streamVars, inbox, cur, slot, result>>

(* XACK *)
Drop(c) == inbox' = [inbox EXCEPT ![c] = @ \ {First(@)}]
Acknowledge(c) == /\ entry' = [entry EXCEPT ![First(inbox[c])] = "acked"]
                  /\ UNCHANGED <<deliveries, origin, depth, maker, chain>>

(* The rules cannot be loaded: leave the entry for a reclaim, or give up. *)
HandleEntryFails(c) ==
  /\ pc[c] = "idle" /\ inbox[c] # {}
  /\ Error
  /\ IF deliveries[First(inbox[c])] >= MaxDeliveries THEN Acknowledge(c) ELSE UNCHANGED streamVars
  /\ Drop(c)
  /\ UNCHANGED <<ruleVars, runVars, threadVars>>

(* Mutant: the entry is acknowledged when it is read, before its rules. *)
AckFirst(c) ==
  /\ pc[c] = "rules" /\ c \in Consumers
  /\ Acknowledge(c) /\ NoFault
  /\ Drop(c)
  /\ todo' = [todo EXCEPT ![c] = {}]
  /\ Goto(c, "idle")
  /\ UNCHANGED <<ruleVars, runVars, cur, slot, result>>

(* Every rule has been run or has failed: the entry is acknowledged. *)
Ack(c) ==
  /\ pc[c] = "rules" /\ todo[c] = {} /\ c \in Consumers
  /\ \/ Acknowledge(c) /\ NoFault
     \/ UNCHANGED streamVars /\ Error
  /\ Drop(c)
  /\ Goto(c, "idle")
  /\ UNCHANGED <<ruleVars, runVars, todo, cur, slot, result>>

-----------------------------------------------------------------------------
(* The scheduler jobs.                                                       *)

(* RunTimeTriggers: the subjects that are waiting right now. *)
RunTimeTriggers(t) ==
  /\ t \in TimeJobs /\ pc[t] = "idle"
  /\ \E S \in SUBSET {x \in Triggers : x[2] \in Timed /\ enabled[x[1]] = "on"} :
       S # {} /\ todo' = [todo EXCEPT ![t] = {<<x, 0>> : x \in S}]
  /\ Goto(t, "rules")
  /\ NoFault
  /\ UNCHANGED <<ruleVars, runVars, streamVars, inbox, cur, slot, result>>

(* ResumeWaits: the pending waits whose time has come. *)
ResumeWaits(t) ==
  /\ t \in WaitJobs /\ pc[t] = "idle"
  /\ \E S \in SUBSET {w \in Runs \X Slots : wait[w[1]][w[2]] = "pending"} :
       S # {} /\ todo' = [todo EXCEPT ![t] = S]
  /\ Goto(t, "rules")
  /\ NoFault
  /\ UNCHANGED <<ruleVars, runVars, streamVars, inbox, cur, slot, result>>

EndTick(t) ==
  /\ t \notin Consumers /\ pc[t] = "rules" /\ todo[t] = {}
  /\ Goto(t, "idle")
  /\ NoFault
  /\ UNCHANGED <<ruleVars, runVars, streamVars, inbox, todo, cur, slot, result>>

-----------------------------------------------------------------------------
(* runRule                                                                   *)

(* The thread is done with its rule or wait and takes the next. *)
EndRule(t) == /\ Goto(t, "rules")
              /\ todo' = [todo EXCEPT ![t] = @ \ {<<cur[t], slot[t]>>}]
              /\ cur' = [cur EXCEPT ![t] = None]
              /\ slot' = [slot EXCEPT ![t] = 0]
              /\ result' = [result EXCEPT ![t] = "none"]

Begin(t, w, l) == /\ cur' = [cur EXCEPT ![t] = w[1]]
                  /\ slot' = [slot EXCEPT ![t] = w[2]]
                  /\ Goto(t, l)
                  /\ UNCHANGED <<todo, result>>

(* Mutant: a chain is cut one event later. *)
LoopsLate(x) == origin[x[2]] = x[1] \/ depth[x[2]] > MaxDepth

(* Loop protection, as far as the event's origin tells. *)
Loops(x) == origin[x[2]] = x[1] \/ depth[x[2]] >= MaxDepth

Acted(x) == x[1] \in Once /\ <<x[1], Subject(x[2])>> \in marked

(* skipReason "" ... *)
Judge(t) ==
  /\ pc[t] = "rules"
  /\ \E w \in todo[t] : /\ w[2] = 0
                        /\ ~ Loops(w[1])
                        /\ \/ ~ Acted(w[1]) /\ NoFault
                           \/ Acted(w[1]) /\ Error
                        /\ Begin(t, w, "claim")
  /\ UNCHANGED <<ruleVars, runVars, streamVars, inbox>>

(* ... or any reason: recorded, unless the pair has a row already. *)
Skip(t) ==
  /\ pc[t] = "rules"
  /\ \E w \in todo[t] :
       /\ w[2] = 0
       /\ \/ run' = [run EXCEPT ![w[1]] = IF @ = "none" THEN "skipped" ELSE @] /\ NoFault
          \/ UNCHANGED run /\ Error
       /\ todo' = [todo EXCEPT ![t] = @ \ {w}]
  /\ UNCHANGED <<ruleVars, parks, wait, walked, fired, pruned, streamVars, inbox, pc, cur, slot, result>>

(* Mutant: no unique index. *)
ClaimAlways(t) ==
  /\ pc[t] = "claim"
  /\ run' = [run EXCEPT ![cur[t]] = "claimed"]
  /\ fired' = [fired EXCEPT ![cur[t]] = @ + 1]
  /\ Goto(t, "walk")
  /\ NoFault
  /\ UNCHANGED <<ruleVars, parks, wait, walked, pruned, streamVars, inbox, todo, cur, slot, result>>

(* INSERT ... ON CONFLICT DO NOTHING on (rule_id, event_id). *)
Claim(t) ==
  /\ pc[t] = "claim"
  /\ IF run[cur[t]] = "none"
     THEN /\ run' = [run EXCEPT ![cur[t]] = "claimed"]
          /\ fired' = [fired EXCEPT ![cur[t]] = @ + 1]
          /\ Goto(t, "walk")
          /\ UNCHANGED <<todo, cur, slot, result>>
     ELSE EndRule(t) /\ UNCHANGED <<run, fired>>
  /\ NoFault
  /\ UNCHANGED <<ruleVars, parks, wait, walked, pruned, streamVars, inbox>>

(* A failed statement of runRule or resume is logged and the rule left. *)
StatementFails(t) ==
  /\ pc[t] \in {"claim", "finish", "park", "resume", "cancel", "cancelWait"}
  /\ Error
  /\ EndRule(t)
  /\ UNCHANGED <<ruleVars, runVars, streamVars, inbox>>

(* An event a step publishes, with the origin the action gives it: the      *)
(* contact actions pass rc.Origin on, the services behind the work actions  *)
(* (tasks, deals, conversations) take no origin.                            *)
Emit(x) ==
  LET unused == {e \in Events \ (People \cup Timed) : maker[e] = None}
      carried == Writes[x[1]] = "contact"
  IN /\ unused # {} /\ Writes[x[1]] # "nothing"
     /\ LET e == First(unused) IN
          /\ entry' = [entry EXCEPT ![e] = "queued"]
          /\ origin' = [origin EXCEPT ![e] = IF carried THEN x[1] ELSE None]
          /\ depth' = [depth EXCEPT ![e] = IF carried THEN depth[x[2]] + 1 ELSE 0]
          /\ maker' = [maker EXCEPT ![e] = x[1]]
          /\ chain' = [chain EXCEPT ![e] = chain[x[2]] + 1]
     /\ UNCHANGED deliveries

(* statusFor.  A partial failure resets the failure counter as a success does *)
(* and differs from it in nothing else here.                                 *)
Outcomes == {"succeeded", "failed"}

(* execute, or resume's walk of what is left: up to the next wait or the end. *)
Walk(t) ==
  /\ pc[t] = "walk"
  /\ \E o \in Outcomes \cup {"waiting"} :
       /\ o = "waiting" => parks[cur[t]] < MaxWaits
       /\ result' = [result EXCEPT ![t] = o]
  /\ walked' = [walked EXCEPT ![cur[t]] = @ + 1]
  /\ Emit(cur[t]) \/ UNCHANGED streamVars
  /\ Goto(t, "finish")
  /\ NoFault
  /\ UNCHANGED <<ruleVars, run, parks, wait, fired, pruned, inbox, todo, cur, slot>>

(* finish writes the status; a resumed run does not mark the contact again. *)
Finish(t) ==
  /\ pc[t] = "finish"
  /\ run' = [run EXCEPT ![cur[t]] = result[t]]
  /\ Goto(t, IF result[t] # "waiting" THEN "count"
             ELSE IF slot[t] = 0 THEN "mark" ELSE "park")
  /\ NoFault
  /\ UNCHANGED <<ruleVars, parks, wait, walked, fired, pruned, streamVars, inbox, todo, cur, slot, result>>

Leave(t) == IF slot[t] = 0 THEN Goto(t, "mark") /\ UNCHANGED <<todo, cur, slot, result>>
                           ELSE EndRule(t)

(* updateRuleCounters ... *)
Count(t) ==
  /\ pc[t] = "count"
  /\ failures' = [failures EXCEPT ![cur[t][1]] = IF result[t] = "failed" THEN @ + 1 ELSE 0]
  /\ IF result[t] = "failed" THEN Goto(t, "check") /\ UNCHANGED <<todo, cur, slot, result>>
                             ELSE Leave(t)
  /\ NoFault
  /\ UNCHANGED <<enabled, marked, edits, runVars, streamVars, inbox>>

(* ... and maybeAutoDisable, which reads the rule and then writes it. *)
CheckDisable(t) ==
  /\ pc[t] = "check"
  /\ IF failures[cur[t][1]] >= AutoDisableAfter /\ enabled[cur[t][1]] = "on"
     THEN Goto(t, "disable") /\ UNCHANGED <<todo, cur, slot, result>>
     ELSE Leave(t)
  /\ NoFault
  /\ UNCHANGED <<ruleVars, runVars, streamVars, inbox>>

SetEnabled(r, s) == enabled' = [enabled EXCEPT ![r] = IF @ = "deleted" THEN @ ELSE s]

AutoDisable(t) ==
  /\ pc[t] = "disable"
  /\ SetEnabled(cur[t][1], "off")
  /\ Leave(t)
  /\ NoFault
  /\ UNCHANGED <<failures, marked, edits, runVars, streamVars, inbox>>

(* A failed statement of these is logged, and the contact still marked. *)
CounterFails(t) ==
  /\ pc[t] \in {"count", "check", "disable"}
  /\ Error
  /\ Leave(t)
  /\ UNCHANGED <<ruleVars, runVars, streamVars, inbox>>

(* recordContactState, whose error is only logged. *)
Mark(t) ==
  /\ pc[t] = "mark"
  /\ \/ marked' = marked \cup {<<cur[t][1], Subject(cur[t][2])>>} /\ NoFault
     \/ UNCHANGED marked /\ Error
  /\ IF result[t] = "waiting" THEN Goto(t, "park") /\ UNCHANGED <<todo, cur, slot, result>>
                              ELSE EndRule(t)
  /\ UNCHANGED <<enabled, failures, edits, runVars, streamVars, inbox>>

Park(t) ==
  /\ pc[t] = "park"
  /\ parks' = [parks EXCEPT ![cur[t]] = @ + 1]
  /\ wait' = [wait EXCEPT ![cur[t]][parks[cur[t]] + 1] = "pending"]
  /\ EndRule(t)
  /\ NoFault
  /\ UNCHANGED <<ruleVars, run, walked, fired, pruned, streamVars, inbox>>

-----------------------------------------------------------------------------
(* ResumeWaits, for each wait it read                                        *)

(* Mutant: the claim without its condition on the status. *)
ClaimWaitAlways(t) ==
  /\ pc[t] = "rules"
  /\ \E w \in todo[t] : /\ w[2] # 0
                        /\ wait' = [wait EXCEPT ![w[1]][w[2]] = "resumed"]
                        /\ Begin(t, w, "resume")
  /\ NoFault
  /\ UNCHANGED <<ruleVars, run, parks, walked, fired, pruned, streamVars, inbox>>

(* The guarded update pending -> resumed. *)
ClaimWait(t) ==
  /\ pc[t] = "rules"
  /\ \E w \in todo[t] :
       /\ w[2] # 0
       /\ IF wait[w[1]][w[2]] = "pending"
          THEN /\ wait' = [wait EXCEPT ![w[1]][w[2]] = "resumed"]
               /\ Begin(t, w, "resume")
          ELSE /\ todo' = [todo EXCEPT ![t] = @ \ {w}]
               /\ UNCHANGED <<wait, pc, cur, slot, result>>
  /\ NoFault
  /\ UNCHANGED <<ruleVars, run, parks, walked, fired, pruned, streamVars, inbox>>

(* The claim's statement fails: the tick ends there. *)
ClaimWaitFails(t) ==
  /\ pc[t] = "rules"
  /\ \E w \in todo[t] : w[2] # 0
  /\ Error
  /\ todo' = [todo EXCEPT ![t] = {}]
  /\ UNCHANGED <<ruleVars, runVars, streamVars, inbox, pc, cur, slot, result>>

(* resume: carry on, if the rule is still on, ... *)
Resume(t) ==
  /\ pc[t] = "resume"
  /\ enabled[cur[t][1]] = "on"
  /\ Goto(t, "walk")
  /\ NoFault
  /\ UNCHANGED <<ruleVars, runVars, streamVars, inbox, todo, cur, slot, result>>

(* ... or cancel: the rule is off or gone, the contact or the step is gone. *)
ResumeCancels(t) ==
  /\ pc[t] = "resume"
  /\ Goto(t, "cancel")
  /\ NoFault
  /\ UNCHANGED <<ruleVars, runVars, streamVars, inbox, todo, cur, slot, result>>

(* A run that cannot be loaded counts as pruned: its wait alone is cancelled. *)
ResumeLoses(t) ==
  /\ pc[t] = "resume"
  /\ Error
  /\ Goto(t, "cancelWait")
  /\ UNCHANGED <<ruleVars, runVars, streamVars, inbox, todo, cur, slot, result>>

CancelRun(t) ==
  /\ pc[t] = "cancel"
  /\ run' = [run EXCEPT ![cur[t]] = "cancelled"]
  /\ Goto(t, "cancelWait")
  /\ NoFault
  /\ UNCHANGED <<ruleVars, parks, wait, walked, fired, pruned, streamVars, inbox, todo, cur, slot, result>>

CancelWait(t) ==
  /\ pc[t] = "cancelWait"
  /\ wait' = [wait EXCEPT ![cur[t]][slot[t]] = "cancelled"]
  /\ EndRule(t)
  /\ NoFault
  /\ UNCHANGED <<ruleVars, run, parks, walked, fired, pruned, streamVars, inbox>>

-----------------------------------------------------------------------------
(* The rule's author, retention, and what goes wrong.                        *)

(* SetEnabled and Update forgive the failures; Delete ends the rule. *)
EditRule(r) ==
  /\ edits < MaxEdits /\ edits' = edits + 1
  /\ enabled[r] # "deleted"
  /\ \E s \in {"on", "off", "deleted"} :
       /\ enabled' = [enabled EXCEPT ![r] = s]
       /\ failures' = [failures EXCEPT ![r] = IF s = "on" THEN 0 ELSE @]
  /\ NoFault
  /\ UNCHANGED <<marked, runVars, streamVars, inbox, threadVars>>

Total(f) == LET S == {x \in Runs : f[x] > 0} IN Cardinality(S)

(* Mutant: retention does not spare the runs that are waiting. *)
PruneRunWaiting(x) ==
  /\ run[x] # "none" /\ pruned[x] = 0 /\ Total(pruned) < MaxPrunes
  /\ entry[x[2]] \in {"none", "acked"}
  /\ \A t \in Threads : cur[t] # x
  /\ run' = [run EXCEPT ![x] = "none"]
  /\ pruned' = [pruned EXCEPT ![x] = @ + 1]
  /\ NoFault
  /\ UNCHANGED <<ruleVars, parks, wait, walked, fired, streamVars, inbox, threadVars>>

(* pruneAutomationRuns, thirty days later: whoever was at work on the run    *)
(* and the entry that caused it are long gone.                               *)
PruneRun(x) ==
  /\ run[x] \notin {"none", "waiting"} /\ pruned[x] = 0 /\ Total(pruned) < MaxPrunes
  /\ entry[x[2]] \in {"none", "acked"}
  /\ \A t \in Threads : cur[t] # x
  /\ run' = [run EXCEPT ![x] = "none"]
  /\ pruned' = [pruned EXCEPT ![x] = @ + 1]
  /\ NoFault
  /\ UNCHANGED <<ruleVars, parks, wait, walked, fired, streamVars, inbox, threadVars>>

(* The relay adds an event to the stream a second time. *)
Duplicate(e) ==
  /\ entry[e] = "acked" /\ ~ Held(e)
  /\ Fault
  /\ entry' = [entry EXCEPT ![e] = "queued"]
  /\ deliveries' = [deliveries EXCEPT ![e] = 0]
  /\ UNCHANGED <<ruleVars, runVars, origin, depth, maker, chain, inbox, threadVars>>

(* A replica dies and comes back: what it was doing is forgotten. *)
Crash(t) ==
  /\ pc[t] # "idle"
  /\ Fault
  /\ Goto(t, "idle")
  /\ todo' = [todo EXCEPT ![t] = {}]
  /\ cur' = [cur EXCEPT ![t] = None]
  /\ slot' = [slot EXCEPT ![t] = 0]
  /\ result' = [result EXCEPT ![t] = "none"]
  /\ inbox' = [c \in Consumers |-> IF c = t THEN {} ELSE inbox[c]]
  /\ UNCHANGED <<ruleVars, runVars, streamVars>>

RuleStep(t) == \/ Judge(t) \/ Skip(t) \/ Claim(t) \/ Walk(t) \/ Finish(t) \/ Count(t)
               \/ CheckDisable(t) \/ AutoDisable(t) \/ CounterFails(t) \/ Mark(t) \/ Park(t)
               \/ ClaimWait(t) \/ ClaimWaitFails(t) \/ Resume(t) \/ ResumeCancels(t)
               \/ ResumeLoses(t) \/ CancelRun(t) \/ CancelWait(t) \/ StatementFails(t)

ConsumerStep(c) == Read(c) \/ Reclaim(c) \/ HandleEntry(c) \/ HandleEntryFails(c) \/ Ack(c)

Next == \/ \E c \in Consumers : ConsumerStep(c)
        \/ \E t \in Threads : RuleStep(t) \/ RunTimeTriggers(t) \/ ResumeWaits(t)
                                \/ EndTick(t) \/ Crash(t)
        \/ \E r \in Rules : EditRule(r)
        \/ \E x \in Runs : PruneRun(x)
        \/ \E e \in Events : Duplicate(e)

Spec == Init /\ [][Next]_vars

(* Consumers and the resume job run for ever; authors, retention, time        *)
(* triggers and faults promise nothing.                                       *)
FairSpec == /\ Spec
            /\ \A c \in Consumers : WF_vars(ConsumerStep(c) \/ RuleStep(c))
            /\ \A t \in TimeJobs : WF_vars(RuleStep(t) \/ EndTick(t))
            /\ \A t \in WaitJobs : WF_vars(ResumeWaits(t) \/ RuleStep(t) \/ EndTick(t))

-----------------------------------------------------------------------------
RunStates == {"none", "claimed", "waiting", "skipped", "cancelled"} \cup Outcomes
WaitStates == {"none", "pending", "resumed", "cancelled"}
Pcs == {"idle", "rules", "claim", "walk", "finish", "count", "check", "disable",
        "mark", "park", "resume", "cancel", "cancelWait"}

RuleTypes == /\ enabled \in [Rules -> {"on", "off", "deleted"}]
             /\ failures \in [Rules -> Nat]
             /\ marked \subseteq Rules \X (Events \cup {None})

RunTypes == /\ run \in [Runs -> RunStates]
            /\ parks \in [Runs -> 0..MaxWaits]
            /\ wait \in [Runs -> [Slots -> WaitStates]]
            /\ walked \in [Runs -> Nat]
            /\ fired \in [Runs -> Nat]
            /\ pruned \in [Runs -> Nat]

StreamTypes == /\ entry \in [Events -> {"none", "queued", "pending", "acked"}]
               /\ deliveries \in [Events -> Nat]
               /\ origin \in [Events -> Rules \cup {None}]
               /\ maker \in [Events -> Rules \cup {None}]
               /\ depth \in [Events -> Nat]
               /\ chain \in [Events -> Nat]
               /\ inbox \in [Consumers -> SUBSET Events]

ThreadTypes == /\ pc \in [Threads -> Pcs]
               /\ todo \in [Threads -> SUBSET (Runs \X (0..MaxWaits))]
               /\ cur \in [Threads -> Runs \cup {None}]
               /\ \A t \in Threads : cur[t] = None <=> pc[t] \in {"idle", "rules"}
               /\ slot \in [Threads -> 0..MaxWaits]
               /\ result \in [Threads -> Outcomes \cup {"none", "waiting"}]

BoundTypes == faults \in 0..MaxFaults /\ errors \in 0..MaxErrors /\ edits \in 0..MaxEdits

TypeOK == RuleTypes /\ RunTypes /\ StreamTypes /\ ThreadTypes /\ BoundTypes

(* The unique index: however often an event is delivered, duplicated or       *)
(* reclaimed, a rule fires for it once, plus once for every time retention    *)
(* deleted the row that remembers it.                                         *)
FiresOncePerRow == \A x \in Runs : fired[x] =< 1 + pruned[x]

(* A stretch of steps is walked when its run is claimed and when one of its   *)
(* waits is claimed, and at no other time: no crash, retry or second replica  *)
(* sends the same message again.                                              *)
NoStepWalkedTwice == \A x \in Runs : walked[x] =< fired[x] + parks[x]

(* The part of a run that is somewhere between claim and outcome. *)
Carries(t, x) == cur[t] = x /\ pc[t] # "claim"

(* One journey per run: it is in one place at a time, a thread or a wait.     *)
OneJourney ==
  \A x \in Runs :
    /\ \A k, l \in Slots : wait[x][k] = "pending" /\ wait[x][l] = "pending" => k = l
    /\ \A t \in Threads : Carries(t, x) =>
         /\ \A k \in Slots : wait[x][k] # "pending"
         /\ \A u \in Threads : Carries(u, x) => u = t

(* Without crashes and failed statements a waiting run always has a wait      *)
(* that will resume it, or a thread that is about to write one: retention     *)
(* and cancellation strand nobody.                                            *)
WaitingRunIsParked ==
  faults + errors = 0 =>
    \A x \in Runs :
      /\ run[x] = "waiting" => \/ \E k \in Slots : wait[x][k] = "pending"
                               \/ \E t \in Threads : Carries(t, x)
      /\ \A k \in Slots : wait[x][k] = "pending" => run[x] = "waiting"

(* An entry is acknowledged only when each rule it triggers has judged it.    *)
(* Crashes may delay that but not prevent it; failed statements may, as the   *)
(* engine drops a rule whose statement fails.                                 *)
AckedMeansJudged ==
  errors + edits = 0 =>
    \A x \in Triggers :
      /\ entry[x[2]] = "acked" /\ enabled[x[1]] = "on"
      => run[x] # "none" \/ pruned[x] > 0

(* Loop protection: a rule never acts on its own output, and a chain of       *)
(* rules stops at MaxDepth.                                                   *)
LoopsStop == \A x \in Runs : walked[x] > 0 => maker[x[2]] # x[1] /\ chain[x[2]] < MaxDepth

(* Every event reaches its rules in the end, whichever replica dies.          *)
EveryEventIsAcked == \A e \in Events : entry[e] = "queued" ~> entry[e] = "acked"

(* A run that nothing disturbs ends: no wait is forgotten.                    *)
EveryRunEnds ==
  \A x \in Runs :
    run[x] \in {"claimed", "waiting"}
      ~> run[x] \notin {"claimed", "waiting"} \/ faults + errors > 0

(* However often an event is delivered and whoever reads it, a rule acts on   *)
(* it once, and every stretch of its steps is walked once (ClaimRun,          *)
(* claimWait).                                                                *)
ActsOnce == FiresOncePerRow /\ NoStepWalkedTwice

(* The engine's work drains: every event is judged and every run ends, over   *)
(* crashes and reclaims (Consumer.reclaim, resumeDueWaits).                   *)
EngineDrains == EveryEventIsAcked /\ EveryRunEnds
=============================================================================
