-------------------------- MODULE AutomationProofs --------------------------
(* Proofs about Automation, for any rules, events, replicas and bounds.       *)
EXTENDS Automation, TLAPS, WellFoundedInduction

(* Where a thread stands agrees with the outcome it holds; a thread that is   *)
(* about to park its run has a wait row left to write and has said so.        *)
CursorOK ==
  \A t \in Threads :
    /\ result[t] = "waiting" => /\ pc[t] \in {"finish", "mark", "park"}
                                /\ parks[cur[t]] < MaxWaits
    /\ pc[t] = "finish" => result[t] # "none"
    /\ pc[t] = "park" => result[t] = "waiting"
    /\ pc[t] \in {"mark", "park"} /\ result[t] = "waiting" => run[cur[t]] = "waiting"

(* A pair without a row has not fired since the last pruning and is nowhere   *)
(* under way; a pending wait belongs to a waiting run.                        *)
RowsOK ==
  \A x \in Runs :
    /\ run[x] = "none" => /\ fired[x] =< pruned[x]
                          /\ \A t \in Threads : ~ Carries(t, x)
    /\ \A k \in Slots : wait[x][k] = "pending" => run[x] = "waiting"

(* A pending wait, or a thread about to walk, is one walk not yet taken.      *)
WalksLeft ==
  \A x \in Runs :
    /\ \A k \in Slots : wait[x][k] = "pending" => walked[x] < fired[x] + parks[x]
    /\ \A t \in Threads : cur[t] = x /\ pc[t] \in {"walk", "resume"}
         => walked[x] < fired[x] + parks[x]

(* What the claims protect, as opposed to the types. *)
JourneyInv == /\ CursorOK
              /\ RowsOK
              /\ OneJourney
              /\ WalksLeft
              /\ FiresOncePerRow
              /\ NoStepWalkedTwice

AutomationInv == TypeOK /\ JourneyInv

-----------------------------------------------------------------------------
(* Nothing has happened yet. *)
LEMMA InitInv == Init => AutomationInv
  BY AutomationAssumption
  DEF Init, AutomationInv, TypeOK, RuleTypes, RunTypes, StreamTypes, ThreadTypes, BoundTypes,
      JourneyInv, CursorOK, RowsOK, OneJourney, WalksLeft, Carries, FiresOncePerRow,
      NoStepWalkedTwice, RunStates, WaitStates, Pcs, Outcomes, Slots

(* Steps that leave the runs, the waits and the threads alone. *)
LEMMA Frame ==
  ASSUME JourneyInv, UNCHANGED <<runVars, threadVars>>
  PROVE  JourneyInv'
  BY DEF JourneyInv, CursorOK, RowsOK, OneJourney, WalksLeft, Carries,
         FiresOncePerRow, NoStepWalkedTwice, runVars, threadVars

Others(t) == \A u \in Threads \ {t} : /\ pc'[u] = pc[u]
                                      /\ cur'[u] = cur[u]
                                      /\ result'[u] = result[u]

(* A thread that lets go of its run, or has none yet, disturbs nobody. *)
LEMMA Retreat ==
  ASSUME AutomationInv, NEW t \in Threads, UNCHANGED runVars, Others(t),
         pc'[t] \in {"idle", "rules", "claim"}, result'[t] # "waiting",
         cur'[t] = None <=> pc'[t] \in {"idle", "rules"}
  PROVE  JourneyInv'
<1> USE AutomationAssumption DEF AutomationInv, JourneyInv, Others, runVars
<1>1. CursorOK'
  BY DEF CursorOK
<1>2. RowsOK'
  BY DEF RowsOK, Carries
<1>3. OneJourney'
  BY DEF OneJourney, Carries
<1>4. WalksLeft'
  BY DEF WalksLeft
<1>5. FiresOncePerRow' /\ NoStepWalkedTwice'
  BY DEF FiresOncePerRow, NoStepWalkedTwice
<1> QED  BY <1>1, <1>2, <1>3, <1>4, <1>5

(* A thread that goes on with the run it carries, from a point where no walk  *)
(* is due or to the walk that was.                                            *)
LEMMA Stay ==
  ASSUME AutomationInv, NEW t \in Threads, NEW l, UNCHANGED <<runVars, cur, result>>,
         pc' = [pc EXCEPT ![t] = l],
         pc[t] \notin {"idle", "rules", "claim"},
         l \in {"walk", "check", "disable", "mark", "park", "cancel", "cancelWait"},
         l = "walk" => pc[t] = "resume",
         l = "park" => pc[t] = "mark",
         l = "park" <=> result[t] = "waiting"
  PROVE  JourneyInv'
<1> USE AutomationAssumption DEF AutomationInv, JourneyInv, runVars
<1>0. pc \in [Threads -> Pcs]
  BY DEF TypeOK, ThreadTypes
<1>1. CursorOK'
  BY <1>0 DEF CursorOK
<1>2. RowsOK'
  BY <1>0 DEF RowsOK, Carries
<1>3. OneJourney'
  BY <1>0 DEF OneJourney, Carries
<1>4. WalksLeft'
  BY <1>0 DEF WalksLeft
<1>5. FiresOncePerRow' /\ NoStepWalkedTwice'
  BY DEF FiresOncePerRow, NoStepWalkedTwice
<1> QED  BY <1>1, <1>2, <1>3, <1>4, <1>5

(* The moves of a thread are well typed. *)
LEMMA GotoType ==
  ASSUME ThreadTypes, NEW t \in Threads, NEW l \in Pcs, Goto(t, l),
         UNCHANGED <<todo, cur, slot, result>>,
         cur[t] = None <=> l \in {"idle", "rules"}
  PROVE  ThreadTypes' /\ Others(t) /\ pc'[t] = l
  BY DEF ThreadTypes, Goto, Others

LEMMA EndRuleType ==
  ASSUME ThreadTypes, NEW t \in Threads, EndRule(t)
  PROVE  /\ ThreadTypes' /\ Others(t)
         /\ pc'[t] = "rules" /\ cur'[t] = None /\ result'[t] = "none"
<1>1. pc' \in [Threads -> Pcs] /\ cur' \in [Threads -> Runs \cup {None}]
  BY DEF ThreadTypes, EndRule, Goto, Pcs
<1>2. todo' \in [Threads -> SUBSET (Runs \X (0..MaxWaits))]
  BY DEF ThreadTypes, EndRule
<1>3. slot' \in [Threads -> 0..MaxWaits] /\ result' \in [Threads -> Outcomes \cup {"none", "waiting"}]
  BY AutomationAssumption DEF ThreadTypes, EndRule
<1>4. Others(t) /\ pc'[t] = "rules" /\ cur'[t] = None /\ result'[t] = "none"
  BY DEF ThreadTypes, EndRule, Goto, Others
<1>5. \A u \in Threads : cur'[u] = None <=> pc'[u] \in {"idle", "rules"}
  BY <1>4 DEF ThreadTypes, Others
<1> QED  BY <1>1, <1>2, <1>3, <1>4, <1>5 DEF ThreadTypes

LEMMA BeginType ==
  ASSUME ThreadTypes, NEW t \in Threads, NEW w \in todo[t], NEW l \in Pcs \ {"idle", "rules"},
         Begin(t, w, l)
  PROVE  /\ w \in Runs \X (0..MaxWaits)
         /\ ThreadTypes' /\ Others(t)
         /\ pc'[t] = l /\ cur'[t] = w[1] /\ result'[t] = result[t]
<1>1. w \in Runs \X (0..MaxWaits) /\ w[1] # None
  BY AutomationAssumption DEF ThreadTypes
<1>2. Others(t) /\ pc'[t] = l /\ cur'[t] = w[1] /\ result'[t] = result[t]
  BY DEF ThreadTypes, Begin, Goto, Others
<1> QED  BY <1>1, <1>2 DEF ThreadTypes, Begin, Goto, Others

LEMMA BoundsHold ==
  ASSUME BoundTypes, Fault \/ Error \/ NoFault, UNCHANGED edits
  PROVE  BoundTypes'
  BY AutomationAssumption DEF BoundTypes, Fault, Error, NoFault

-----------------------------------------------------------------------------
(* The stream and the author: no run is touched. *)
LEMMA DeliverType ==
  ASSUME StreamTypes, NEW c \in Consumers, NEW B \in SUBSET Events, Deliver(c, B)
  PROVE  StreamTypes'
  BY DEF StreamTypes, Deliver

LEMMA AcknowledgeType ==
  ASSUME StreamTypes, NEW c \in Consumers, Acknowledge(c) \/ UNCHANGED streamVars, Drop(c)
  PROVE  StreamTypes'
  BY DEF StreamTypes, Acknowledge, Drop, streamVars

LEMMA StreamInv ==
  ASSUME AutomationInv,
         \/ \E c \in Consumers : Read(c) \/ Reclaim(c) \/ HandleEntryFails(c)
         \/ \E r \in Rules : EditRule(r)
         \/ \E e \in Events : Duplicate(e)
  PROVE  AutomationInv'
<1> USE DEF AutomationInv, TypeOK
<1>1. ASSUME NEW c \in Consumers, Read(c) \/ Reclaim(c) \/ HandleEntryFails(c)  PROVE AutomationInv'
  <2>1. StreamTypes'
    BY <1>1, DeliverType, AcknowledgeType DEF Read, Reclaim, HandleEntryFails
  <2>2. BoundTypes'
    BY <1>1, BoundsHold DEF Read, Reclaim, HandleEntryFails, ruleVars
  <2>3. RuleTypes' /\ RunTypes' /\ ThreadTypes' /\ UNCHANGED <<runVars, threadVars>>
    BY <1>1 DEF Read, Reclaim, HandleEntryFails, RuleTypes, RunTypes, ThreadTypes,
                ruleVars, runVars, threadVars
  <2> QED  BY <2>1, <2>2, <2>3, Frame
<1>2. ASSUME NEW r \in Rules, EditRule(r)  PROVE AutomationInv'
  <2>1. RuleTypes' /\ BoundTypes'
    BY <1>2, AutomationAssumption DEF EditRule, RuleTypes, BoundTypes, NoFault
  <2>2. StreamTypes' /\ RunTypes' /\ ThreadTypes' /\ UNCHANGED <<runVars, threadVars>>
    BY <1>2 DEF EditRule, StreamTypes, RunTypes, ThreadTypes, runVars, streamVars, threadVars
  <2> QED  BY <2>1, <2>2, Frame
<1>3. ASSUME NEW e \in Events, Duplicate(e)  PROVE AutomationInv'
  <2>1. StreamTypes'
    BY <1>3 DEF Duplicate, StreamTypes
  <2>2. BoundTypes'
    BY <1>3, BoundsHold DEF Duplicate, ruleVars
  <2>3. RuleTypes' /\ RunTypes' /\ ThreadTypes' /\ UNCHANGED <<runVars, threadVars>>
    BY <1>3 DEF Duplicate, RuleTypes, RunTypes, ThreadTypes, ruleVars, runVars, threadVars
  <2> QED  BY <2>1, <2>2, <2>3, Frame
<1> QED  BY <1>1, <1>2, <1>3

(* A thread takes up work or is done with it: it holds no run either way. *)
LEMMA TurnInv ==
  ASSUME AutomationInv, NEW t \in Threads,
         \/ t \in Consumers /\ (HandleEntry(t) \/ Ack(t))
         \/ RunTimeTriggers(t) \/ ResumeWaits(t) \/ ClaimWaitFails(t) \/ EndTick(t)
  PROVE  AutomationInv'
<1> USE DEF AutomationInv, TypeOK
<1>1. todo' \in [Threads -> SUBSET (Runs \X (0..MaxWaits))]
  <2>1. CASE HandleEntry(t)
    BY <2>1, AutomationAssumption DEF HandleEntry, ThreadTypes
  <2>2. CASE RunTimeTriggers(t)
    BY <2>2, AutomationAssumption DEF RunTimeTriggers, ThreadTypes
  <2>3. CASE ResumeWaits(t)
    BY <2>3, AutomationAssumption DEF ResumeWaits, ThreadTypes, Slots
  <2>4. CASE Ack(t) \/ EndTick(t) \/ ClaimWaitFails(t)
    BY <2>4 DEF Ack, EndTick, ClaimWaitFails, ThreadTypes
  <2> QED  BY <2>1, <2>2, <2>3, <2>4
<1>2. /\ pc[t] \in {"idle", "rules"} /\ UNCHANGED <<ruleVars, runVars, cur, slot, result>>
      /\ pc' = pc \/ pc' = [pc EXCEPT ![t] = "rules"] \/ pc' = [pc EXCEPT ![t] = "idle"]
  BY DEF HandleEntry, Ack, RunTimeTriggers, ResumeWaits, ClaimWaitFails, EndTick, Goto
<1>3. ThreadTypes' /\ Others(t) /\ pc'[t] \in {"idle", "rules"} /\ cur'[t] = None
  BY <1>1, <1>2 DEF ThreadTypes, Others, Pcs
<1>4. StreamTypes'
  BY AcknowledgeType DEF HandleEntry, Ack, RunTimeTriggers, ResumeWaits, ClaimWaitFails, EndTick,
     StreamTypes, streamVars
<1>5. BoundTypes'
  BY <1>2, BoundsHold DEF HandleEntry, Ack, RunTimeTriggers, ResumeWaits, ClaimWaitFails,
     EndTick, ruleVars
<1>6. RuleTypes' /\ RunTypes'
  BY <1>2 DEF RuleTypes, RunTypes, ruleVars, runVars
<1>7. result'[t] # "waiting"
  BY <1>2 DEF JourneyInv, CursorOK
<1> QED  BY <1>2, <1>3, <1>4, <1>5, <1>6, <1>7, Retreat

(* A crash forgets the thread's work and leaves every row as it was. *)
LEMMA CrashInv ==
  ASSUME AutomationInv, NEW t \in Threads, Crash(t)
  PROVE  AutomationInv'
<1> USE DEF AutomationInv, TypeOK
<1>1. ThreadTypes' /\ Others(t) /\ pc'[t] = "idle" /\ cur'[t] = None /\ result'[t] = "none"
  <2>1. todo' \in [Threads -> SUBSET (Runs \X (0..MaxWaits))] /\ slot' \in [Threads -> 0..MaxWaits]
    BY AutomationAssumption DEF Crash, ThreadTypes
  <2>2. Others(t) /\ pc'[t] = "idle" /\ cur'[t] = None /\ result'[t] = "none"
    BY DEF Crash, Goto, ThreadTypes, Others
  <2> QED  BY <2>1, <2>2 DEF Crash, Goto, ThreadTypes, Others, Pcs
<1>2. StreamTypes'
  BY DEF Crash, StreamTypes, streamVars
<1>3. BoundTypes'
  BY BoundsHold DEF Crash, ruleVars
<1>4. RuleTypes' /\ RunTypes' /\ UNCHANGED runVars
  BY DEF Crash, RuleTypes, RunTypes, ruleVars, runVars
<1> QED  BY <1>1, <1>2, <1>3, <1>4, Retreat

-----------------------------------------------------------------------------
(* Steps of runRule and resume that write no run. *)
LEMMA QuietInv ==
  ASSUME AutomationInv, NEW t \in Threads,
         \/ Judge(t) \/ StatementFails(t) \/ Count(t) \/ CheckDisable(t) \/ AutoDisable(t)
         \/ CounterFails(t) \/ Mark(t) \/ Resume(t) \/ ResumeCancels(t) \/ ResumeLoses(t)
  PROVE  AutomationInv'
<1> USE DEF AutomationInv, TypeOK
<1> DEFINE After == {"walk", "check", "disable", "mark", "park", "cancel", "cancelWait"}
<1>1. /\ UNCHANGED runVars
      /\ \/ \E w \in todo[t] : Begin(t, w, "claim") /\ pc[t] = "rules"
         \/ EndRule(t) /\ pc[t] \notin {"idle", "rules"}
         \/ \E l \in After :
              /\ Goto(t, l) /\ UNCHANGED <<todo, cur, slot, result>>
              /\ pc[t] \notin {"idle", "rules", "claim"}
              /\ l = "walk" => pc[t] = "resume"
              /\ l = "park" => pc[t] = "mark"
              /\ l = "park" <=> result[t] = "waiting"
  <2>1. CASE Judge(t)
    BY <2>1 DEF Judge
  <2>2. CASE StatementFails(t)
    BY <2>2 DEF StatementFails
  <2>3. CASE Count(t) \/ CheckDisable(t) \/ AutoDisable(t) \/ CounterFails(t)
    BY <2>3 DEF Count, CheckDisable, AutoDisable, CounterFails, Leave, JourneyInv, CursorOK
  <2>4. CASE Mark(t)
    BY <2>4 DEF Mark
  <2>5. CASE Resume(t) \/ ResumeCancels(t) \/ ResumeLoses(t)
    BY <2>5 DEF Resume, ResumeCancels, ResumeLoses, JourneyInv, CursorOK
  <2> QED  BY <2>1, <2>2, <2>3, <2>4, <2>5
<1>2. ThreadTypes' /\ JourneyInv'
  <2>1. CASE \E w \in todo[t] : Begin(t, w, "claim") /\ pc[t] = "rules"
    <3>1. PICK w \in todo[t] : Begin(t, w, "claim") /\ pc[t] = "rules"
      BY <2>1
    <3>2. /\ ThreadTypes' /\ Others(t) /\ pc'[t] = "claim" /\ cur'[t] = w[1]
          /\ result'[t] = result[t] /\ w[1] \in Runs
      BY <3>1, BeginType DEF Pcs
    <3>3. result[t] # "waiting" /\ cur'[t] # None
      BY <3>1, <3>2, AutomationAssumption DEF JourneyInv, CursorOK
    <3> QED  BY <1>1, <3>2, <3>3, Retreat
  <2>2. CASE EndRule(t)
    BY <1>1, <2>2, EndRuleType, Retreat
  <2>3. CASE \E l \in After :
              /\ Goto(t, l) /\ UNCHANGED <<todo, cur, slot, result>>
              /\ pc[t] \notin {"idle", "rules", "claim"}
              /\ l = "walk" => pc[t] = "resume"
              /\ l = "park" => pc[t] = "mark"
              /\ l = "park" <=> result[t] = "waiting"
    <3>1. PICK l \in After :
              /\ Goto(t, l) /\ UNCHANGED <<todo, cur, slot, result>>
              /\ pc[t] \notin {"idle", "rules", "claim"}
              /\ l = "walk" => pc[t] = "resume"
              /\ l = "park" => pc[t] = "mark"
              /\ l = "park" <=> result[t] = "waiting"
      BY <2>3
    <3>2. ThreadTypes'
      BY <3>1, GotoType DEF ThreadTypes, Pcs
    <3>3. JourneyInv'
      BY <1>1, <3>1, Stay DEF Goto
    <3> QED  BY <3>2, <3>3
  <2> QED  BY <1>1, <2>1, <2>2, <2>3
<1>3. RuleTypes'
  <2>1. CASE Count(t)
    <3>1. failures' = [failures EXCEPT ![cur[t][1]] = failures[cur[t][1]] + 1]
          \/ failures' = [failures EXCEPT ![cur[t][1]] = 0]
      BY <2>1 DEF Count
    <3>2. \A r \in Rules : failures[r] + 1 \in Nat
      BY DEF RuleTypes
    <3>3. failures' \in [Rules -> Nat]
      BY <3>1, <3>2 DEF RuleTypes
    <3> QED  BY <2>1, <3>3 DEF Count, RuleTypes
  <2>2. CASE AutoDisable(t)
    BY <2>2 DEF AutoDisable, SetEnabled, RuleTypes
  <2>3. CASE Mark(t)
    <3>1. cur[t] \in Runs
      BY <2>3 DEF Mark, ThreadTypes
    <3>2. <<cur[t][1], Subject(cur[t][2])>> \in Rules \X (Events \cup {None})
      BY <3>1 DEF Runs, Subject
    <3> QED  BY <2>3, <3>2 DEF Mark, RuleTypes
  <2>4. CASE UNCHANGED ruleVars
    BY <2>4 DEF RuleTypes, ruleVars
  <2> QED  BY <2>1, <2>2, <2>3, <2>4 DEF Judge, StatementFails, CheckDisable, CounterFails,
         Resume, ResumeCancels, ResumeLoses
<1>4. StreamTypes'
  BY DEF Judge, StatementFails, Count, CheckDisable, AutoDisable, CounterFails, Mark, Resume,
     ResumeCancels, ResumeLoses, StreamTypes, streamVars
<1>5. BoundTypes'
  BY BoundsHold DEF Judge, StatementFails, Count, CheckDisable, AutoDisable, CounterFails, Mark,
     Resume, ResumeCancels, ResumeLoses, ruleVars
<1>6. RunTypes'
  BY <1>1 DEF RunTypes, runVars
<1> QED  BY <1>2, <1>3, <1>4, <1>5, <1>6

(* A recorded skip takes the pair's row if it is free, and starts nothing. *)
LEMMA SkipInv ==
  ASSUME AutomationInv, NEW t \in Threads, Skip(t)
  PROVE  AutomationInv'
<1> USE DEF AutomationInv, TypeOK
<1>1. PICK w \in todo[t] :
         /\ \/ run' = [run EXCEPT ![w[1]] = IF @ = "none" THEN "skipped" ELSE @]
            \/ UNCHANGED run
         /\ todo' = [todo EXCEPT ![t] = @ \ {w}]
  BY DEF Skip
<1>2. UNCHANGED <<parks, wait, walked, fired, pruned, pc, cur, slot, result>>
  BY DEF Skip
<1>3. RunTypes' /\ \A x \in Runs : run'[x] = run[x] \/ (run[x] = "none" /\ run'[x] = "skipped")
  BY <1>1, <1>2 DEF RunTypes, RunStates, ThreadTypes
<1>4. ThreadTypes'
  BY <1>1, <1>2 DEF ThreadTypes
<1>5. CursorOK'
  <2>1. \A u \in Threads : pc[u] \in {"mark", "park"} => cur[u] \in Runs
    BY DEF ThreadTypes
  <2> QED  BY <1>2, <1>3, <2>1 DEF JourneyInv, CursorOK
<1>6. JourneyInv'
  BY <1>2, <1>3, <1>5 DEF JourneyInv, RowsOK, OneJourney, WalksLeft, Carries,
     FiresOncePerRow, NoStepWalkedTwice
<1>7. RuleTypes' /\ StreamTypes' /\ BoundTypes'
  BY BoundsHold DEF Skip, RuleTypes, StreamTypes, ruleVars, streamVars
<1> QED  BY <1>3, <1>4, <1>6, <1>7

(* The unique index: the claim that finds no row creates it and the journey. *)
LEMMA ClaimInv ==
  ASSUME AutomationInv, NEW t \in Threads, Claim(t)
  PROVE  AutomationInv'
<1> USE DEF AutomationInv, TypeOK
<1>1. RuleTypes' /\ StreamTypes' /\ BoundTypes'
  BY BoundsHold DEF Claim, RuleTypes, StreamTypes, ruleVars, streamVars
<1>2. CASE run[cur[t]] # "none"
  <2>1. EndRule(t) /\ UNCHANGED runVars
    BY <1>2 DEF Claim, runVars
  <2> QED  BY <1>1, <2>1, EndRuleType, Retreat DEF RunTypes, runVars
<1>3. CASE run[cur[t]] = "none"
  <2> DEFINE x == cur[t]
  <2>1. x \in Runs /\ pc[t] = "claim"
    BY DEF Claim, ThreadTypes
  <2>2. /\ run' = [run EXCEPT ![x] = "claimed"] /\ fired' = [fired EXCEPT ![x] = @ + 1]
        /\ UNCHANGED <<parks, wait, walked, pruned, todo, cur, slot, result>>
        /\ pc' = [pc EXCEPT ![t] = "walk"]
    BY <1>3 DEF Claim, Goto
  <2>3. RunTypes' /\ ThreadTypes'
    BY <2>1, <2>2 DEF RunTypes, ThreadTypes, RunStates, Pcs
  <2>4. /\ \A u \in Threads : ~ Carries(u, x)
        /\ \A k \in Slots : wait[x][k] # "pending"
        /\ fired[x] =< pruned[x]
    BY <1>3, <2>1 DEF JourneyInv, RowsOK
  <2>5. CursorOK'
    <3>1. \A u \in Threads : pc[u] \in {"mark", "park"} => cur[u] \in Runs \ {x}
      BY <2>4 DEF ThreadTypes, Carries
    <3> QED  BY <2>1, <2>2, <3>1 DEF JourneyInv, CursorOK, ThreadTypes, RunTypes
  <2>6. RowsOK'
    BY <2>1, <2>2, <2>4 DEF JourneyInv, RowsOK, Carries, ThreadTypes, RunTypes
  <2>7. OneJourney'
    BY <2>1, <2>2, <2>4 DEF JourneyInv, OneJourney, Carries, ThreadTypes
  <2>8. WalksLeft' /\ FiresOncePerRow' /\ NoStepWalkedTwice'
    BY <2>1, <2>2, <2>4 DEF JourneyInv, WalksLeft, FiresOncePerRow, NoStepWalkedTwice,
       ThreadTypes, RunTypes
  <2> QED  BY <1>1, <2>3, <2>5, <2>6, <2>7, <2>8 DEF JourneyInv
<1> QED  BY <1>2, <1>3

(* A walk uses up the walk that was due. *)
LEMMA WalkInv ==
  ASSUME AutomationInv, NEW t \in Threads, Walk(t)
  PROVE  AutomationInv'
<1> USE DEF AutomationInv, TypeOK
<1> DEFINE x == cur[t]
<1>1. x \in Runs /\ pc[t] = "walk"
  BY DEF Walk, ThreadTypes
<1>2. PICK o \in Outcomes \cup {"waiting"} :
        /\ o = "waiting" => parks[x] < MaxWaits
        /\ result' = [result EXCEPT ![t] = o]
  BY DEF Walk
<1>3. /\ walked' = [walked EXCEPT ![x] = walked[x] + 1] /\ pc' = [pc EXCEPT ![t] = "finish"]
      /\ UNCHANGED <<run, parks, wait, fired, pruned, todo, cur, slot>>
  BY DEF Walk, Goto
<1>4. RunTypes'
  BY <1>1, <1>3 DEF RunTypes
<1>5. ThreadTypes'
  BY <1>1, <1>2, <1>3 DEF ThreadTypes, Pcs
<1>6. StreamTypes'
  <2>1. CASE UNCHANGED streamVars
    BY <2>1 DEF Walk, StreamTypes, streamVars
  <2>2. CASE Emit(x)
    <3>1. PICK e : /\ entry' = [entry EXCEPT ![e] = "queued"]
                   /\ origin' = [origin EXCEPT ![e] = IF Writes[x[1]] = "contact" THEN x[1] ELSE None]
                   /\ depth' = [depth EXCEPT ![e] = IF Writes[x[1]] = "contact" THEN depth[x[2]] + 1 ELSE 0]
                   /\ maker' = [maker EXCEPT ![e] = x[1]]
                   /\ chain' = [chain EXCEPT ![e] = chain[x[2]] + 1]
      BY <2>2 DEF Emit
    <3>2. x[1] \in Rules /\ depth[x[2]] + 1 \in Nat /\ chain[x[2]] + 1 \in Nat
      BY <1>1 DEF Runs, StreamTypes
    <3>3. UNCHANGED <<deliveries, inbox>>
      BY <2>2 DEF Walk, Emit
    <3> QED  BY <3>1, <3>2, <3>3 DEF StreamTypes
  <2> QED  BY <2>1, <2>2 DEF Walk
<1>7. RuleTypes' /\ BoundTypes'
  BY BoundsHold DEF Walk, RuleTypes, ruleVars
<1>8. CursorOK'
  BY <1>1, <1>2, <1>3 DEF JourneyInv, CursorOK, ThreadTypes, Outcomes
<1>9. RowsOK' /\ OneJourney' /\ FiresOncePerRow'
  BY <1>1, <1>3 DEF JourneyInv, RowsOK, OneJourney, Carries, FiresOncePerRow, ThreadTypes
<1>10. walked[x] < fired[x] + parks[x] /\ \A k \in Slots : wait[x][k] # "pending"
  BY <1>1 DEF JourneyInv, WalksLeft, OneJourney, Carries
<1>11. \A u \in Threads : u # t => ~ Carries(u, x)
  BY <1>1 DEF JourneyInv, OneJourney, Carries
<1>12. \A y \in Runs : y # x => walked'[y] = walked[y]
  BY <1>1, <1>3 DEF RunTypes
<1>13. WalksLeft'
  BY <1>1, <1>3, <1>10, <1>11, <1>12 DEF JourneyInv, WalksLeft, Carries, ThreadTypes
<1>14. NoStepWalkedTwice'
  BY <1>1, <1>3, <1>10, <1>12 DEF JourneyInv, NoStepWalkedTwice, RunTypes
<1> QED  BY <1>4, <1>5, <1>6, <1>7, <1>8, <1>9, <1>13, <1>14 DEF JourneyInv

(* The outcome of a run, or its cancellation, is written by whoever carries it. *)
LEMMA RecordInv ==
  ASSUME AutomationInv, NEW t \in Threads, Finish(t) \/ CancelRun(t)
  PROVE  AutomationInv'
<1> USE DEF AutomationInv, TypeOK
<1> DEFINE x == cur[t]
<1>1. x \in Runs /\ pc[t] \in {"finish", "cancel"}
  BY DEF Finish, CancelRun, ThreadTypes
<1>2. PICK s \in RunStates \ {"none"}, l \in {"count", "mark", "park", "cancelWait"} :
        /\ run' = [run EXCEPT ![x] = s] /\ pc' = [pc EXCEPT ![t] = l]
        /\ l \in {"mark", "park"} <=> result[t] = "waiting"
        /\ result[t] = "waiting" => s = "waiting"
  <2>1. CASE Finish(t)
    BY <1>1, <2>1 DEF Finish, Goto, ThreadTypes, RunStates, Outcomes, JourneyInv, CursorOK
  <2>2. CASE CancelRun(t)
    BY <1>1, <2>2 DEF CancelRun, Goto, RunStates, JourneyInv, CursorOK
  <2> QED  BY <2>1, <2>2
<1>3. UNCHANGED <<parks, wait, walked, fired, pruned, todo, cur, slot, result>>
  BY DEF Finish, CancelRun
<1>4. RunTypes' /\ ThreadTypes'
  BY <1>1, <1>2, <1>3 DEF RunTypes, ThreadTypes, Pcs
<1>5. RuleTypes' /\ StreamTypes' /\ BoundTypes'
  BY BoundsHold DEF Finish, CancelRun, RuleTypes, StreamTypes, ruleVars, streamVars
<1>6. \A u \in Threads : u # t => ~ Carries(u, x)
  BY <1>1 DEF JourneyInv, OneJourney, Carries
<1>7. \A k \in Slots : wait[x][k] # "pending"
  BY <1>1 DEF JourneyInv, OneJourney, Carries
<1>10. CursorOK'
  BY <1>1, <1>2, <1>3, <1>6 DEF JourneyInv, CursorOK, Carries, ThreadTypes, RunTypes
<1>8. RowsOK'
  BY <1>1, <1>2, <1>3, <1>7 DEF JourneyInv, RowsOK, Carries, ThreadTypes, RunTypes
<1>9. OneJourney' /\ WalksLeft' /\ FiresOncePerRow' /\ NoStepWalkedTwice'
  BY <1>1, <1>2, <1>3 DEF JourneyInv, OneJourney, Carries, WalksLeft, FiresOncePerRow,
     NoStepWalkedTwice, ThreadTypes
<1> QED  BY <1>4, <1>5, <1>8, <1>9, <1>10 DEF JourneyInv

(* The wait row takes the journey over from the thread. *)
LEMMA ParkInv ==
  ASSUME AutomationInv, NEW t \in Threads, Park(t)
  PROVE  AutomationInv'
<1> USE DEF AutomationInv, TypeOK
<1> DEFINE x == cur[t]
           k == parks[x] + 1
<1>1. x \in Runs /\ pc[t] = "park" /\ result[t] = "waiting"
  BY DEF Park, ThreadTypes, JourneyInv, CursorOK
<1>2. parks[x] \in 0..MaxWaits /\ parks[x] < MaxWaits /\ run[x] = "waiting"
  BY <1>1 DEF JourneyInv, CursorOK, RunTypes
<1>3. k \in Slots /\ k \in 0..MaxWaits
  BY <1>2, AutomationAssumption DEF Slots
<1>4. /\ parks' = [parks EXCEPT ![x] = k]
      /\ wait' = [wait EXCEPT ![x] = [wait[x] EXCEPT ![k] = "pending"]]
      /\ UNCHANGED <<run, walked, fired, pruned>>
  BY DEF Park
<1>5. RunTypes'
  BY <1>1, <1>3, <1>4 DEF RunTypes, WaitStates
<1>6. /\ ThreadTypes' /\ Others(t)
      /\ pc'[t] = "rules" /\ cur'[t] = None /\ result'[t] = "none"
  BY EndRuleType DEF Park
<1>7. RuleTypes' /\ StreamTypes' /\ BoundTypes'
  BY BoundsHold DEF Park, RuleTypes, StreamTypes, ruleVars, streamVars
<1>8. /\ \A u \in Threads : u # t => ~ Carries(u, x)
      /\ \A j \in Slots : wait[x][j] # "pending"
  BY <1>1 DEF JourneyInv, OneJourney, Carries
<1>9. /\ \A y \in Runs : y # x => wait'[y] = wait[y] /\ parks'[y] = parks[y]
      /\ \A j \in Slots : j # k => wait'[x][j] = wait[x][j]
      /\ parks'[x] = parks[x] + 1
  BY <1>1, <1>3, <1>4 DEF RunTypes
<1>10. CursorOK'
  <2> SUFFICES ASSUME NEW u \in Threads
               PROVE  /\ result'[u] = "waiting" => /\ pc'[u] \in {"finish", "mark", "park"}
                                                   /\ parks'[cur'[u]] < MaxWaits
                      /\ pc'[u] = "finish" => result'[u] # "none"
                      /\ pc'[u] = "park" => result'[u] = "waiting"
                      /\ pc'[u] \in {"mark", "park"} /\ result'[u] = "waiting"
                           => run'[cur'[u]] = "waiting"
    BY DEF CursorOK
  <2>1. CASE u = t
    BY <1>6, <2>1
  <2>2. CASE u # t
    <3>1. pc'[u] = pc[u] /\ cur'[u] = cur[u] /\ result'[u] = result[u]
      BY <1>6, <2>2 DEF Others
    <3>2. result[u] = "waiting" => cur[u] \in Runs /\ cur[u] # x
      BY <1>8, <2>2 DEF JourneyInv, CursorOK, Carries, ThreadTypes
    <3> QED  BY <1>4, <1>9, <3>1, <3>2 DEF JourneyInv, CursorOK
  <2> QED  BY <2>1, <2>2
<1>11. RowsOK'
  BY <1>1, <1>2, <1>4, <1>6, <1>9, AutomationAssumption
  DEF JourneyInv, RowsOK, Carries, Others
<1>12. OneJourney'
  BY <1>1, <1>3, <1>6, <1>8, <1>9, AutomationAssumption DEF JourneyInv, OneJourney, Carries, Others
<1>13. walked[x] =< fired[x] + parks[x] /\ walked[x] \in Nat /\ fired[x] \in Nat
  BY <1>1 DEF JourneyInv, NoStepWalkedTwice, RunTypes
<1>14. WalksLeft'
  BY <1>1, <1>2, <1>4, <1>6, <1>8, <1>9, <1>13, AutomationAssumption
  DEF JourneyInv, WalksLeft, Carries, Others
<1>15. FiresOncePerRow' /\ NoStepWalkedTwice'
  BY <1>1, <1>2, <1>4, <1>9, <1>13 DEF JourneyInv, FiresOncePerRow, NoStepWalkedTwice
<1> QED  BY <1>5, <1>6, <1>7, <1>10, <1>11, <1>12, <1>14, <1>15 DEF JourneyInv

(* The guarded update of a wait: the thread takes the journey over from it. *)
LEMMA ClaimWaitInv ==
  ASSUME AutomationInv, NEW t \in Threads, ClaimWait(t)
  PROVE  AutomationInv'
<1> USE DEF AutomationInv, TypeOK
<1>1. RuleTypes' /\ StreamTypes' /\ BoundTypes'
  BY BoundsHold DEF ClaimWait, RuleTypes, StreamTypes, ruleVars, streamVars
<1>2. PICK w \in todo[t] :
        /\ w[2] # 0
        /\ IF wait[w[1]][w[2]] = "pending"
           THEN /\ wait' = [wait EXCEPT ![w[1]][w[2]] = "resumed"]
                /\ Begin(t, w, "resume")
           ELSE /\ todo' = [todo EXCEPT ![t] = @ \ {w}]
                /\ UNCHANGED <<wait, pc, cur, slot, result>>
  BY DEF ClaimWait
<1>3. pc[t] = "rules" /\ UNCHANGED <<run, parks, walked, fired, pruned>>
  BY DEF ClaimWait
<1>4. CASE wait[w[1]][w[2]] # "pending"
  <2>1. todo' = [todo EXCEPT ![t] = @ \ {w}] /\ UNCHANGED <<wait, pc, cur, slot, result>>
    BY <1>2, <1>4
  <2>2. ThreadTypes' /\ RunTypes'
    BY <1>3, <2>1 DEF ThreadTypes, RunTypes
  <2>3. Others(t) /\ pc'[t] = "rules" /\ cur'[t] = None /\ result'[t] # "waiting"
    BY <1>3, <2>1 DEF Others, ThreadTypes, JourneyInv, CursorOK
  <2> QED  BY <1>1, <1>3, <2>1, <2>2, <2>3, Retreat DEF runVars
<1>5. CASE wait[w[1]][w[2]] = "pending"
  <2> DEFINE x == w[1]
             k == w[2]
  <2>1. /\ x \in Runs /\ k \in 0..MaxWaits /\ ThreadTypes' /\ Others(t)
        /\ pc'[t] = "resume" /\ cur'[t] = x /\ result'[t] = result[t]
    BY <1>2, <1>5, BeginType DEF Pcs
  <2>2. k \in Slots
    BY <1>2, <2>1, AutomationAssumption DEF Slots
  <2>3. wait' = [wait EXCEPT ![x] = [wait[x] EXCEPT ![k] = "resumed"]]
    BY <1>2, <1>5
  <2>12. RunTypes'
    <3>1. [wait[x] EXCEPT ![k] = "resumed"] \in [Slots -> WaitStates]
      BY <2>1 DEF RunTypes, WaitStates
    <3> QED  BY <1>3, <2>3, <3>1 DEF RunTypes
  <2>4. /\ \A y \in Runs : y # x => wait'[y] = wait[y]
        /\ \A j \in Slots : j # k => wait'[x][j] = wait[x][j]
        /\ wait'[x][k] = "resumed"
    BY <2>1, <2>2, <2>3 DEF RunTypes
  <2>5. /\ \A j \in Slots : wait[x][j] = "pending" => j = k
        /\ \A u \in Threads : ~ Carries(u, x)
    BY <1>5, <2>1, <2>2 DEF JourneyInv, OneJourney
  <2>6. result[t] # "waiting" /\ run[x] = "waiting" /\ walked[x] < fired[x] + parks[x]
    BY <1>3, <1>5, <2>1, <2>2 DEF JourneyInv, CursorOK, RowsOK, WalksLeft
  <2>7. CursorOK'
    BY <1>3, <2>1, <2>6 DEF JourneyInv, CursorOK, Others
  <2>8. RowsOK'
    BY <1>3, <2>1, <2>2, <2>4, <2>6 DEF JourneyInv, RowsOK, Carries, Others
  <2>9. OneJourney'
    BY <2>1, <2>2, <2>4, <2>5 DEF JourneyInv, OneJourney, Carries, Others
  <2>10. WalksLeft'
    BY <1>3, <2>1, <2>2, <2>4, <2>6 DEF JourneyInv, WalksLeft, Others
  <2>11. FiresOncePerRow' /\ NoStepWalkedTwice'
    BY <1>3 DEF JourneyInv, FiresOncePerRow, NoStepWalkedTwice
  <2> QED  BY <1>1, <2>1, <2>7, <2>8, <2>9, <2>10, <2>11, <2>12 DEF JourneyInv
<1> QED  BY <1>4, <1>5

(* Cancelling a wait its thread holds ends the journey. *)
LEMMA CancelWaitInv ==
  ASSUME AutomationInv, NEW t \in Threads, CancelWait(t)
  PROVE  AutomationInv'
<1> USE DEF AutomationInv, TypeOK
<1>1. RuleTypes' /\ StreamTypes' /\ BoundTypes'
  BY BoundsHold DEF CancelWait, RuleTypes, StreamTypes, ruleVars, streamVars
<1>2. PICK x \in Runs, k \in 0..MaxWaits : wait' = [wait EXCEPT ![x][k] = "cancelled"]
  BY DEF CancelWait, ThreadTypes
<1>3. UNCHANGED <<run, parks, walked, fired, pruned>>
  BY DEF CancelWait
<1>4. /\ RunTypes'
      /\ \A y \in Runs, j \in Slots : wait'[y][j] = "pending" => wait[y][j] = "pending"
  <2>1. [wait[x] EXCEPT ![k] = "cancelled"] \in [Slots -> WaitStates]
    BY DEF RunTypes, WaitStates
  <2>2. wait' = [wait EXCEPT ![x] = [wait[x] EXCEPT ![k] = "cancelled"]]
    BY <1>2
  <2>3. \A j \in Slots : [wait[x] EXCEPT ![k] = "cancelled"][j] = "pending" => wait[x][j] = "pending"
    BY DEF RunTypes
  <2> QED  BY <1>3, <2>1, <2>2, <2>3 DEF RunTypes
<1>5. /\ ThreadTypes' /\ Others(t)
      /\ pc'[t] = "rules" /\ cur'[t] = None /\ result'[t] = "none"
  BY EndRuleType DEF CancelWait
<1>6. CursorOK'
  BY <1>3, <1>5 DEF JourneyInv, CursorOK, Others
<1>7. RowsOK' /\ OneJourney'
  BY <1>3, <1>4, <1>5, AutomationAssumption DEF JourneyInv, RowsOK, OneJourney, Carries, Others
<1>8. WalksLeft' /\ FiresOncePerRow' /\ NoStepWalkedTwice'
  BY <1>3, <1>4, <1>5 DEF JourneyInv, WalksLeft, FiresOncePerRow, NoStepWalkedTwice, Others
<1> QED  BY <1>1, <1>4, <1>5, <1>6, <1>7, <1>8 DEF JourneyInv

(* Retention deletes a row nobody is at work on, and is counted. *)
LEMMA PruneRunInv ==
  ASSUME AutomationInv, NEW x \in Runs, PruneRun(x)
  PROVE  AutomationInv'
<1> USE DEF AutomationInv, TypeOK
<1>1. RuleTypes' /\ StreamTypes' /\ ThreadTypes' /\ BoundTypes'
  BY BoundsHold DEF PruneRun, RuleTypes, StreamTypes, ThreadTypes, ruleVars, streamVars, threadVars
<1>2. /\ run' = [run EXCEPT ![x] = "none"] /\ pruned' = [pruned EXCEPT ![x] = pruned[x] + 1]
      /\ UNCHANGED <<parks, wait, walked, fired, pc, cur, result>>
      /\ run[x] # "waiting" /\ \A t \in Threads : cur[t] # x
  BY DEF PruneRun, threadVars
<1>3. RunTypes'
  BY <1>2 DEF RunTypes, RunStates
<1>4. /\ \A y \in Runs : y # x => run'[y] = run[y] /\ pruned'[y] = pruned[y]
      /\ pruned'[x] = pruned[x] + 1 /\ run'[x] = "none"
  BY <1>2 DEF RunTypes
<1>5. CursorOK'
  <2>1. \A t \in Threads : result[t] = "waiting" => cur[t] \in Runs \ {x}
    BY <1>2 DEF JourneyInv, CursorOK, ThreadTypes
  <2> QED  BY <1>2, <1>4, <2>1 DEF JourneyInv, CursorOK
<1>6. RowsOK'
  <2>1. fired[x] =< pruned[x] + 1
    BY DEF JourneyInv, FiresOncePerRow, RunTypes
  <2> QED  BY <1>2, <1>4, <2>1 DEF JourneyInv, RowsOK, Carries
<1>7. OneJourney' /\ WalksLeft' /\ NoStepWalkedTwice'
  BY <1>2 DEF JourneyInv, OneJourney, WalksLeft, NoStepWalkedTwice, Carries
<1>8. FiresOncePerRow'
  BY <1>2, <1>4 DEF JourneyInv, FiresOncePerRow, RunTypes
<1> QED  BY <1>1, <1>3, <1>5, <1>6, <1>7, <1>8 DEF JourneyInv

-----------------------------------------------------------------------------
(* One step per action. *)
LEMMA NextInv == AutomationInv /\ [Next]_vars => AutomationInv'
<1> SUFFICES ASSUME AutomationInv, [Next]_vars  PROVE AutomationInv'
  OBVIOUS
<1>1. ASSUME NEW c \in Consumers, ConsumerStep(c)  PROVE AutomationInv'
  BY <1>1, StreamInv, TurnInv DEF ConsumerStep, Threads
<1>2. ASSUME NEW t \in Threads, RuleStep(t)  PROVE AutomationInv'
  <2>1. CASE Skip(t)
    BY <2>1, SkipInv
  <2>2. CASE Claim(t)
    BY <2>2, ClaimInv
  <2>3. CASE Walk(t)
    BY <2>3, WalkInv
  <2>4. CASE Finish(t) \/ CancelRun(t)
    BY <2>4, RecordInv
  <2>5. CASE Park(t)
    BY <2>5, ParkInv
  <2>6. CASE ClaimWait(t)
    BY <2>6, ClaimWaitInv
  <2>7. CASE CancelWait(t)
    BY <2>7, CancelWaitInv
  <2>8. CASE \/ Judge(t) \/ StatementFails(t) \/ Count(t) \/ CheckDisable(t) \/ AutoDisable(t)
             \/ CounterFails(t) \/ Mark(t) \/ Resume(t) \/ ResumeCancels(t) \/ ResumeLoses(t)
    BY <2>8, QuietInv
  <2>9. CASE ClaimWaitFails(t)
    BY <2>9, TurnInv
  <2> QED  BY <1>2, <2>1, <2>2, <2>3, <2>4, <2>5, <2>6, <2>7, <2>8, <2>9 DEF RuleStep
<1>3. ASSUME NEW t \in Threads, RunTimeTriggers(t) \/ ResumeWaits(t) \/ EndTick(t) \/ Crash(t)
      PROVE AutomationInv'
  BY <1>3, TurnInv, CrashInv
<1>4. ASSUME (\E r \in Rules : EditRule(r)) \/ (\E e \in Events : Duplicate(e))
      PROVE AutomationInv'
  BY <1>4, StreamInv
<1>5. ASSUME NEW x \in Runs, PruneRun(x)  PROVE AutomationInv'
  BY <1>5, PruneRunInv
<1>6. CASE UNCHANGED vars
  <2>1. UNCHANGED <<ruleVars, runVars, streamVars, inbox, threadVars, faults, errors>>
    BY <1>6 DEF vars
  <2>2. RuleTypes' /\ RunTypes' /\ StreamTypes' /\ ThreadTypes' /\ BoundTypes'
    BY <2>1 DEF AutomationInv, TypeOK, RuleTypes, RunTypes, StreamTypes, ThreadTypes, BoundTypes,
       ruleVars, runVars, streamVars, threadVars
  <2> QED  BY <2>1, <2>2, Frame DEF AutomationInv, TypeOK
<1> QED  BY <1>1, <1>2, <1>3, <1>4, <1>5, <1>6 DEF Next

(* The claims of the engine hold in every reachable state, whatever the       *)
(* interleaving of consumers, jobs, authors, retention and crashes.           *)
THEOREM AutomationInvariant == Spec => []AutomationInv
<1> QED  BY InitInv, NextInv, PTL DEF Spec

(* The engine keeps its types, and the arithmetic on its counters stays in    *)
(* range.                                                                     *)
THEOREM TypeCorrect == Spec => []TypeOK
<1>1. AutomationInv => TypeOK
  BY DEF AutomationInv
<1> QED  BY <1>1, AutomationInvariant, PTL

(* engine.claim: redelivery, reclaim and a second replica never fire a rule   *)
(* twice for one event while its run row exists.                              *)
THEOREM RulesFireOnce == Spec => []FiresOncePerRow
<1>1. AutomationInv => FiresOncePerRow
  BY DEF AutomationInv, JourneyInv
<1> QED  BY <1>1, AutomationInvariant, PTL

(* flow.run: the steps of a run are walked once per claim and once per wait.  *)
THEOREM StepsAreWalkedOnce == Spec => []NoStepWalkedTwice
<1>1. AutomationInv => NoStepWalkedTwice
  BY DEF AutomationInv, JourneyInv
<1> QED  BY <1>1, AutomationInvariant, PTL

(* flow.ResumeWaits: a parked run is in one place, its wait row or the one    *)
(* thread that claimed it.                                                    *)
THEOREM JourneysAreSingle == Spec => []OneJourney
<1>1. AutomationInv => OneJourney
  BY DEF AutomationInv, JourneyInv
<1> QED  BY <1>1, AutomationInvariant, PTL
(* ActsOnce, as the run states it: rules fire once and walk once.             *)
THEOREM EngineActsOnce == Spec => []ActsOnce
<1>1. AutomationInv => ActsOnce
  BY DEF AutomationInv, JourneyInv, ActsOnce
<1> QED  BY <1>1, AutomationInvariant, PTL

-----------------------------------------------------------------------------
(* Every step either counts a fault, counts an error or counts neither. *)
LEMMA EveryStepCounts == [Next]_vars => Fault \/ Error \/ NoFault
<1> SUFFICES ASSUME [Next]_vars  PROVE Fault \/ Error \/ NoFault
  OBVIOUS
<1>1. ASSUME NEW c \in Consumers, ConsumerStep(c)  PROVE Fault \/ Error \/ NoFault
  BY <1>1 DEF ConsumerStep, Read, Reclaim, HandleEntry, HandleEntryFails, Ack
<1>2. ASSUME NEW t \in Threads, RuleStep(t)  PROVE Fault \/ Error \/ NoFault
  <2>1. CASE \/ Judge(t) \/ Skip(t) \/ Claim(t) \/ Walk(t) \/ Finish(t) \/ Count(t)
             \/ CheckDisable(t) \/ AutoDisable(t) \/ CounterFails(t) \/ Mark(t)
    BY <2>1 DEF Judge, Skip, Claim, Walk, Finish, Count, CheckDisable, AutoDisable, CounterFails, Mark
  <2>2. CASE \/ Park(t) \/ ClaimWait(t) \/ ClaimWaitFails(t) \/ Resume(t) \/ ResumeCancels(t)
             \/ ResumeLoses(t) \/ CancelRun(t) \/ CancelWait(t) \/ StatementFails(t)
    BY <2>2 DEF Park, ClaimWait, ClaimWaitFails, Resume, ResumeCancels, ResumeLoses, CancelRun,
       CancelWait, StatementFails
  <2> QED  BY <1>2, <2>1, <2>2 DEF RuleStep
<1>3. ASSUME NEW t \in Threads, RunTimeTriggers(t) \/ ResumeWaits(t) \/ EndTick(t) \/ Crash(t)
      PROVE Fault \/ Error \/ NoFault
  BY <1>3 DEF RunTimeTriggers, ResumeWaits, EndTick, Crash
<1>4. ASSUME \/ \E r \in Rules : EditRule(r)
             \/ \E x \in Runs : PruneRun(x)
             \/ \E e \in Events : Duplicate(e)
      PROVE Fault \/ Error \/ NoFault
  BY <1>4 DEF EditRule, PruneRun, Duplicate
<1>5. CASE UNCHANGED vars
  BY <1>5 DEF vars, NoFault
<1> QED  BY <1>1, <1>2, <1>3, <1>4, <1>5 DEF Next

-----------------------------------------------------------------------------
(* A waiting run is in a wait or in a thread's hands, and a thread that is    *)
(* past the run's outcome has not left it waiting.                            *)
Settled(t) == \/ pc[t] \in {"count", "check", "disable", "cancelWait"}
              \/ pc[t] = "mark" /\ result[t] # "waiting"

InHand == /\ \A x \in Runs :
               run[x] = "waiting" => \/ \E k \in Slots : wait[x][k] = "pending"
                                     \/ \E t \in Threads : Carries(t, x)
          /\ \A t \in Threads : Settled(t) => run[cur[t]] # "waiting"

ParkedOK == faults + errors = 0 => InHand

(* A thread moves and no row does: it goes on with its run, or leaves one     *)
(* that is not waiting.                                                       *)
LEMMA HandMoves ==
  ASSUME InHand, NEW t \in Threads, UNCHANGED <<run, wait>>, Others(t),
         Carries(t, cur[t]) /\ cur[t] \in Runs
           => (Carries(t, cur[t])' /\ cur'[t] = cur[t]) \/ run[cur[t]] # "waiting",
         Settled(t)' => run[cur'[t]] # "waiting"
  PROVE  InHand'
<1>1. ASSUME NEW x \in Runs, run'[x] = "waiting"
      PROVE  (\E k \in Slots : wait'[x][k] = "pending") \/ (\E u \in Threads : Carries(u, x)')
  <2>1. CASE \E k \in Slots : wait[x][k] = "pending"
    BY <2>1
  <2>2. CASE \E u \in Threads : Carries(u, x)
    BY <1>1, <2>2 DEF Carries, Others
  <2> QED  BY <1>1, <2>1, <2>2 DEF InHand
<1>2. \A u \in Threads : Settled(u)' => run'[cur'[u]] # "waiting"
  BY DEF InHand, Settled, Others
<1> QED  BY <1>1, <1>2 DEF InHand

(* Steps that take up or end a thread's turn hold no run. *)
LEMMA TurnHand ==
  ASSUME AutomationInv, InHand, NEW t \in Threads,
         \/ t \in Consumers /\ (HandleEntry(t) \/ Ack(t))
         \/ RunTimeTriggers(t) \/ ResumeWaits(t) \/ ClaimWaitFails(t) \/ EndTick(t)
  PROVE  InHand'
<1>1. /\ pc[t] \in {"idle", "rules"} /\ UNCHANGED <<run, wait, cur, result>>
      /\ pc' = pc \/ pc' = [pc EXCEPT ![t] = "rules"] \/ pc' = [pc EXCEPT ![t] = "idle"]
  BY DEF HandleEntry, Ack, RunTimeTriggers, ResumeWaits, ClaimWaitFails, EndTick, Goto, runVars
<1>2. Others(t) /\ pc'[t] \in {"idle", "rules"} /\ cur[t] \notin Runs
  BY <1>1, AutomationAssumption DEF AutomationInv, TypeOK, ThreadTypes, Others
<1> QED  BY <1>1, <1>2, HandMoves DEF Settled

(* Steps of runRule and resume that write no row. *)
LEMMA QuietHand ==
  ASSUME AutomationInv, InHand, NEW t \in Threads, NoFault, BoundTypes,
         \/ Judge(t) \/ StatementFails(t) \/ Count(t) \/ CheckDisable(t) \/ AutoDisable(t)
         \/ CounterFails(t) \/ Mark(t) \/ Resume(t) \/ ResumeCancels(t) \/ ResumeLoses(t)
  PROVE  InHand'
<1> USE DEF AutomationInv, TypeOK
<1>0. ~ Error
  BY DEF NoFault, Error, BoundTypes
<1>1. UNCHANGED <<run, wait>>
  BY DEF Judge, StatementFails, Count, CheckDisable, AutoDisable, CounterFails, Mark, Resume,
     ResumeCancels, ResumeLoses, runVars
<1>2. CASE Judge(t)
  <2>1. PICK w \in todo[t] : Begin(t, w, "claim") /\ pc[t] = "rules"
    BY <1>2 DEF Judge
  <2>2. Others(t) /\ pc'[t] = "claim"
    BY <2>1, BeginType DEF Pcs
  <2>3. cur[t] \notin Runs
    BY <2>1, AutomationAssumption DEF ThreadTypes
  <2> QED  BY <1>1, <2>2, <2>3, HandMoves DEF Settled
<1>3. ASSUME EndRule(t), Settled(t)  PROVE InHand'
  <2>1. Others(t) /\ pc'[t] = "rules"
    BY <1>3, EndRuleType
  <2>2. run[cur[t]] # "waiting"
    BY <1>3 DEF InHand
  <2> QED  BY <1>1, <2>1, <2>2, HandMoves DEF Settled
<1>4. ASSUME NEW l \in Pcs \ {"idle", "rules", "claim"}, Goto(t, l),
             UNCHANGED <<todo, cur, slot, result>>, pc[t] \notin {"idle", "rules", "claim"},
             l \in {"check", "disable", "mark"} => Settled(t),
             l \notin {"count", "cancelWait"}
      PROVE  InHand'
  <2>1. Others(t) /\ pc'[t] = l /\ cur[t] # None
    BY <1>4, GotoType DEF ThreadTypes
  <2>2. Settled(t)' => Settled(t)
    BY <1>4, <2>1 DEF Settled
  <2>3. Settled(t)' => run[cur'[t]] # "waiting"
    BY <1>4, <2>2 DEF InHand
  <2>4. Carries(t, cur[t])'
    BY <1>4, <2>1 DEF Carries
  <2> QED  BY <1>1, <1>4, <2>1, <2>3, <2>4, HandMoves
<1>5. CASE Count(t) \/ CheckDisable(t) \/ AutoDisable(t)
  <2>1. Settled(t)
    BY <1>5 DEF Count, CheckDisable, AutoDisable, Settled
  <2>2. \/ EndRule(t)
        \/ \E l \in {"check", "disable", "mark"} : Goto(t, l) /\ UNCHANGED <<todo, cur, slot, result>>
    BY <1>5 DEF Count, CheckDisable, AutoDisable, Leave
  <2>3. pc[t] \notin {"idle", "rules", "claim"}
    BY <1>5 DEF Count, CheckDisable, AutoDisable
  <2> QED  BY <1>3, <1>4, <2>1, <2>2, <2>3 DEF Pcs
<1>6. CASE Mark(t)
  <2>1. CASE result[t] = "waiting"
    <3>1. Goto(t, "park") /\ UNCHANGED <<todo, cur, slot, result>> /\ pc[t] = "mark"
      BY <1>6, <2>1 DEF Mark
    <3> QED  BY <1>4, <3>1 DEF Pcs
  <2>2. CASE result[t] # "waiting"
    BY <1>3, <1>6, <2>2 DEF Mark, Settled
  <2> QED  BY <2>1, <2>2
<1>7. CASE Resume(t) \/ ResumeCancels(t)
  <2>1. \E l \in {"walk", "cancel"} : Goto(t, l) /\ UNCHANGED <<todo, cur, slot, result>>
    BY <1>7 DEF Resume, ResumeCancels
  <2>2. pc[t] = "resume"
    BY <1>7 DEF Resume, ResumeCancels
  <2> QED  BY <1>4, <2>1, <2>2 DEF Pcs
<1>8. CASE StatementFails(t) \/ CounterFails(t) \/ ResumeLoses(t)
  BY <1>0, <1>8 DEF StatementFails, CounterFails, ResumeLoses
<1> QED  BY <1>2, <1>5, <1>6, <1>7, <1>8

(* Steps that write a run row. *)
LEMMA RunWriteHand ==
  ASSUME AutomationInv, InHand, NEW t \in Threads, NoFault, BoundTypes,
         Skip(t) \/ Claim(t) \/ Walk(t) \/ Finish(t) \/ CancelRun(t)
  PROVE  InHand'
<1> USE DEF AutomationInv, TypeOK
<1>1. CASE Skip(t)
  <2>1. UNCHANGED <<wait, pc, cur, result>>
    BY <1>1 DEF Skip
  <2>2. \A x \in Runs : run'[x] = run[x] \/ run'[x] = "skipped"
    BY <1>1 DEF Skip, RunTypes
  <2>3. \A u \in Threads : Settled(u) => cur[u] \in Runs
    BY DEF Settled, ThreadTypes
  <2> QED  BY <2>1, <2>2, <2>3 DEF InHand, Carries, Settled
<1>2. CASE Claim(t)
  <2> DEFINE x == cur[t]
  <2>0. pc[t] = "claim" /\ x \in Runs
    BY <1>2 DEF Claim, ThreadTypes
  <2>1. CASE run[x] # "none"
    <3>1. EndRule(t) /\ UNCHANGED <<run, wait>>
      BY <1>2, <2>1 DEF Claim
    <3>2. Others(t) /\ pc'[t] = "rules"
      BY <3>1, EndRuleType
    <3> QED  BY <2>0, <3>1, <3>2, HandMoves DEF Settled, Carries
  <2>2. CASE run[x] = "none"
    <3>1. /\ run' = [run EXCEPT ![x] = "claimed"] /\ pc' = [pc EXCEPT ![t] = "walk"]
          /\ UNCHANGED <<wait, cur, result>>
      BY <1>2, <2>2 DEF Claim, Goto
    <3>2. \A u \in Threads : Settled(u)' => Settled(u) /\ cur[u] \in Runs
      BY <2>0, <3>1 DEF Settled, ThreadTypes
    <3>3. \A y \in Runs : run'[y] = "waiting" => run[y] = "waiting" /\ y # x
      BY <2>0, <3>1 DEF RunTypes
    <3>4. \A y \in Runs, u \in Threads : y # x /\ Carries(u, y) => Carries(u, y)'
      BY <2>0, <3>1 DEF Carries, ThreadTypes
    <3> QED  BY <3>1, <3>2, <3>3, <3>4 DEF InHand
  <2> QED  BY <2>1, <2>2
<1>3. CASE Walk(t)
  <2>1. pc[t] = "walk" /\ pc' = [pc EXCEPT ![t] = "finish"] /\ UNCHANGED <<run, wait, cur>>
    BY <1>3 DEF Walk, Goto
  <2>2. PICK o : result' = [result EXCEPT ![t] = o]
    BY <1>3 DEF Walk
  <2>3. Others(t) /\ pc'[t] = "finish"
    BY <2>1, <2>2 DEF Others, ThreadTypes
  <2> QED  BY <2>1, <2>3, HandMoves DEF Settled, Carries
<1>4. CASE Finish(t) \/ CancelRun(t)
  <2> DEFINE x == cur[t]
  <2>1. x \in Runs /\ pc[t] \in {"finish", "cancel"}
    BY <1>4 DEF Finish, CancelRun, ThreadTypes
  <2>2. PICK s \in RunStates, l \in {"count", "mark", "park", "cancelWait"} :
           /\ run' = [run EXCEPT ![x] = s] /\ pc' = [pc EXCEPT ![t] = l]
           /\ l \in {"count", "cancelWait"} => s # "waiting"
           /\ l = "mark" => result[t] = "waiting"
    <3>1. CASE Finish(t)
      BY <2>1, <3>1 DEF Finish, Goto, ThreadTypes, RunStates, Outcomes, JourneyInv, CursorOK
    <3>2. CASE CancelRun(t)
      BY <2>1, <3>2 DEF CancelRun, Goto, RunStates
    <3> QED  BY <1>4, <3>1, <3>2
  <2>3. UNCHANGED <<wait, cur, result>>
    BY <1>4 DEF Finish, CancelRun
  <2>4. \A u \in Threads : u # t => ~ Carries(u, x)
    BY <2>1 DEF JourneyInv, OneJourney, Carries
  <2>5. \A y \in Runs : y # x => run'[y] = run[y]
    BY <2>1, <2>2 DEF RunTypes
  <2>6. \A y \in Runs, u \in Threads : Carries(u, y) => Carries(u, y)'
    BY <2>2, <2>3 DEF Carries, ThreadTypes
  <2>7. Carries(t, x)
    BY <2>1 DEF Carries
  <2>8. \A u \in Threads : Settled(u)' => run'[cur'[u]] # "waiting"
    <3> SUFFICES ASSUME NEW u \in Threads, Settled(u)'  PROVE run'[cur'[u]] # "waiting"
      OBVIOUS
    <3>1. CASE u = t
      BY <2>1, <2>2, <2>3, <3>1 DEF Settled, ThreadTypes, RunTypes
    <3>2. CASE u # t
      <4>1. Settled(u) /\ cur'[u] = cur[u] /\ cur[u] \in Runs /\ cur[u] # x
        BY <2>2, <2>3, <2>4, <3>2 DEF Settled, ThreadTypes, Carries
      <4> QED  BY <2>5, <4>1 DEF InHand
    <3> QED  BY <3>1, <3>2
  <2> QED  BY <2>3, <2>5, <2>6, <2>7, <2>8 DEF InHand
<1> QED  BY <1>1, <1>2, <1>3, <1>4

(* Steps that write a wait row. *)
LEMMA WaitWriteHand ==
  ASSUME AutomationInv, InHand, NEW t \in Threads, NoFault, BoundTypes,
         Park(t) \/ ClaimWait(t) \/ CancelWait(t)
  PROVE  InHand'
<1> USE DEF AutomationInv, TypeOK
<1>1. CASE Park(t)
  <2> DEFINE x == cur[t]
             k == parks[x] + 1
  <2>1. x \in Runs /\ pc[t] = "park" /\ parks[x] < MaxWaits /\ parks[x] \in 0..MaxWaits
    BY <1>1 DEF Park, ThreadTypes, RunTypes, JourneyInv, CursorOK
  <2>2. k \in Slots
    BY <2>1, AutomationAssumption DEF Slots
  <2>3. wait' = [wait EXCEPT ![x] = [wait[x] EXCEPT ![k] = "pending"]] /\ run' = run
    BY <1>1 DEF Park
  <2>4. Others(t) /\ pc'[t] = "rules" /\ cur'[t] = None
    BY <1>1, EndRuleType DEF Park
  <2>5. wait'[x][k] = "pending" /\ \A y \in Runs : y # x => wait'[y] = wait[y]
    BY <2>1, <2>2, <2>3 DEF RunTypes
  <2>6. \A y \in Runs, u \in Threads : y # x /\ Carries(u, y) => Carries(u, y)'
    BY <2>4 DEF Carries, Others
  <2>7. \A u \in Threads : Settled(u)' => Settled(u) /\ u # t /\ cur'[u] = cur[u]
    BY <2>4 DEF Settled, Others
  <2>8. ASSUME NEW y \in Runs, run'[y] = "waiting"
        PROVE  (\E j \in Slots : wait'[y][j] = "pending") \/ (\E u \in Threads : Carries(u, y)')
    <3>1. CASE y = x
      BY <2>2, <2>5, <3>1
    <3>2. CASE y # x
      BY <2>3, <2>5, <2>6, <2>8, <3>2 DEF InHand
    <3> QED  BY <3>1, <3>2
  <2> QED  BY <2>3, <2>7, <2>8 DEF InHand
<1>2. CASE ClaimWait(t)
  <2>1. PICK w \in todo[t] :
          /\ w[2] # 0
          /\ IF wait[w[1]][w[2]] = "pending"
             THEN /\ wait' = [wait EXCEPT ![w[1]][w[2]] = "resumed"]
                  /\ Begin(t, w, "resume")
             ELSE /\ todo' = [todo EXCEPT ![t] = @ \ {w}]
                  /\ UNCHANGED <<wait, pc, cur, slot, result>>
    BY <1>2 DEF ClaimWait
  <2>2. run' = run /\ pc[t] = "rules"
    BY <1>2 DEF ClaimWait
  <2>3. CASE wait[w[1]][w[2]] # "pending"
    BY <2>1, <2>2, <2>3 DEF InHand, Settled, Carries
  <2>4. CASE wait[w[1]][w[2]] = "pending"
    <3> DEFINE x == w[1]
    <3>1. /\ x \in Runs /\ Others(t) /\ pc'[t] = "resume" /\ cur'[t] = x
      BY <2>1, <2>4, BeginType DEF Pcs
    <3>2. \A y \in Runs : y # x => wait'[y] = wait[y]
      BY <2>1, <2>4, <3>1 DEF RunTypes
    <3>3. \A y \in Runs, u \in Threads : Carries(u, y) => Carries(u, y)'
      BY <2>2, <3>1, AutomationAssumption DEF Carries, Others, ThreadTypes
    <3>4. Carries(t, x)'
      BY <3>1 DEF Carries
    <3>5. \A u \in Threads : Settled(u)' => Settled(u) /\ cur'[u] = cur[u]
      BY <3>1 DEF Settled, Others
    <3> QED  BY <2>2, <3>2, <3>3, <3>4, <3>5 DEF InHand
  <2> QED  BY <2>3, <2>4
<1>3. CASE CancelWait(t)
  <2> DEFINE x == cur[t]
             k == slot[t]
  <2>1. x \in Runs /\ pc[t] = "cancelWait"
    BY <1>3 DEF CancelWait, ThreadTypes
  <2>2. wait' = [wait EXCEPT ![x] = [wait[x] EXCEPT ![k] = "cancelled"]] /\ run' = run
    BY <1>3 DEF CancelWait
  <2>3. Others(t) /\ pc'[t] = "rules" /\ cur'[t] = None
    BY <1>3, EndRuleType DEF CancelWait
  <2>4. \A y \in Runs : y # x => wait'[y] = wait[y]
    BY <2>1, <2>2 DEF RunTypes
  <2>5. run[x] # "waiting"
    BY <2>1 DEF InHand, Settled
  <2>6. \A y \in Runs, u \in Threads : y # x /\ Carries(u, y) => Carries(u, y)'
    BY <2>3 DEF Carries, Others
  <2>7. \A u \in Threads : Settled(u)' => Settled(u) /\ cur'[u] = cur[u]
    BY <2>3 DEF Settled, Others
  <2> QED  BY <2>2, <2>4, <2>5, <2>6, <2>7 DEF InHand
<1> QED  BY <1>1, <1>2, <1>3

LEMMA ParkedStep == AutomationInv /\ ParkedOK /\ [Next]_vars => ParkedOK'
<1> SUFFICES ASSUME AutomationInv, ParkedOK, [Next]_vars, faults' + errors' = 0
             PROVE  InHand'
  BY DEF ParkedOK
<1>0. BoundTypes
  BY DEF AutomationInv, TypeOK
<1>1. NoFault /\ ~ Fault /\ ~ Error /\ InHand
  <2>1. ~ Fault /\ ~ Error
    BY <1>0, AutomationAssumption DEF Fault, Error, BoundTypes
  <2> QED  BY <2>1, EveryStepCounts DEF NoFault, ParkedOK
<1>2. ASSUME UNCHANGED <<runVars, threadVars>>  PROVE InHand'
  BY <1>1, <1>2 DEF InHand, Settled, Carries, runVars, threadVars
<1>3. ASSUME NEW c \in Consumers, ConsumerStep(c)  PROVE InHand'
  <2>1. CASE Read(c) \/ Reclaim(c) \/ HandleEntryFails(c)
    BY <1>2, <2>1 DEF Read, Reclaim, HandleEntryFails
  <2>2. CASE HandleEntry(c) \/ Ack(c)
    BY <1>1, <2>2, TurnHand DEF Threads
  <2> QED  BY <1>3, <2>1, <2>2 DEF ConsumerStep
<1>4. ASSUME NEW t \in Threads, RuleStep(t)  PROVE InHand'
  BY <1>0, <1>1, <1>4, TurnHand, QuietHand, RunWriteHand, WaitWriteHand DEF RuleStep
<1>5. ASSUME NEW t \in Threads, RunTimeTriggers(t) \/ ResumeWaits(t) \/ EndTick(t) \/ Crash(t)
      PROVE InHand'
  BY <1>1, <1>5, TurnHand DEF Crash
<1>6. ASSUME (\E r \in Rules : EditRule(r)) \/ (\E e \in Events : Duplicate(e)) \/ UNCHANGED vars
      PROVE InHand'
  BY <1>2, <1>6 DEF EditRule, Duplicate, vars
<1>7. ASSUME NEW x \in Runs, PruneRun(x)  PROVE InHand'
  <2>1. UNCHANGED <<wait, pc, cur, result>> /\ \A t \in Threads : cur[t] # x
    BY <1>7 DEF PruneRun, threadVars
  <2>2. \A y \in Runs : run'[y] = "waiting" => run[y] = "waiting"
    BY <1>7 DEF PruneRun, AutomationInv, TypeOK, RunTypes
  <2>3. \A t \in Threads : Settled(t) => cur[t] \in Runs
    BY DEF Settled, AutomationInv, TypeOK, ThreadTypes
  <2> QED  BY <1>1, <2>1, <2>2, <2>3 DEF InHand, Settled, Carries
<1> QED  BY <1>3, <1>4, <1>5, <1>6, <1>7 DEF Next

(* flow.park and finish: while no statement fails and nobody dies, a run that *)
(* says waiting has the wait row that will resume it, or a thread about to    *)
(* write it, and a pending wait never belongs to a run that is over.          *)
THEOREM WaitingRunsAreParked == Spec => []WaitingRunIsParked
<1>1. Init => ParkedOK
  BY DEF Init, ParkedOK, InHand, Settled
<1>2. Spec => []ParkedOK
  BY <1>1, AutomationInvariant, ParkedStep, PTL DEF Spec
<1>3. AutomationInv /\ ParkedOK => WaitingRunIsParked
  BY DEF AutomationInv, JourneyInv, RowsOK, ParkedOK, InHand, WaitingRunIsParked
<1> QED  BY <1>2, <1>3, AutomationInvariant, PTL

-----------------------------------------------------------------------------
(* A trigger has been judged once its pair has a run row, or had one that     *)
(* retention deleted; nothing takes that back.                                *)
Judged(x) == run[x] # "none" \/ pruned[x] > 0

(* What a consumer still owes the entry it is at: each enabled rule is judged *)
(* or on the list.                                                            *)
ListOK == \A c \in Consumers, x \in Triggers :
            pc[c] # "idle" /\ x[2] = First(inbox[c]) /\ enabled[x[1]] = "on"
              => Judged(x) \/ <<x, 0>> \in todo[c]

AckedOK == \A x \in Triggers : entry[x[2]] = "acked" /\ enabled[x[1]] = "on" => Judged(x)

JudgedOK == errors + edits = 0 => ListOK /\ AckedOK

(* Runs and rules under a step that is not an edit: judged stays judged and   *)
(* no rule is switched on.                                                    *)
Keeps == /\ \A x \in Runs : Judged(x) => Judged(x)'
         /\ \A r \in Rules : enabled'[r] = "on" => enabled[r] = "on"

LEMMA StepKeeps ==
  ASSUME AutomationInv, [Next]_vars, edits' = edits
  PROVE  Keeps
<1> USE DEF AutomationInv, TypeOK
<1>1. ASSUME UNCHANGED <<run, pruned>>  PROVE \A x \in Runs : Judged(x) => Judged(x)'
  BY <1>1 DEF Judged
<1>2. \A x \in Runs : Judged(x) => Judged(x)'
  <2>1. ASSUME NEW t \in Threads, Skip(t)  PROVE \A x \in Runs : Judged(x) => Judged(x)'
    <3>1. UNCHANGED pruned /\ \A x \in Runs : run[x] # "none" => run'[x] # "none"
      BY <2>1 DEF Skip, RunTypes
    <3> QED  BY <3>1 DEF Judged
  <2>2. ASSUME NEW t \in Threads, Claim(t) \/ Finish(t) \/ CancelRun(t)
        PROVE \A x \in Runs : Judged(x) => Judged(x)'
    <3>1. UNCHANGED pruned
      BY <2>2 DEF Claim, Finish, CancelRun
    <3>2. \A x \in Runs : run[x] # "none" => run'[x] # "none"
      BY <2>2 DEF Claim, Finish, CancelRun, RunTypes, JourneyInv, CursorOK
    <3> QED  BY <3>1, <3>2 DEF Judged
  <2>3. ASSUME NEW y \in Runs, PruneRun(y)  PROVE \A x \in Runs : Judged(x) => Judged(x)'
    <3>1. \A x \in Runs : x # y => run'[x] = run[x] /\ pruned'[x] = pruned[x]
      BY <2>3 DEF PruneRun, RunTypes
    <3>2. pruned'[y] = pruned[y] + 1 /\ pruned[y] \in Nat
      BY <2>3 DEF PruneRun, RunTypes
    <3>3. pruned'[y] > 0
      BY <3>2
    <3> QED  BY <3>1, <3>3 DEF Judged
  <2>4. ASSUME NEW c \in Consumers, ConsumerStep(c)  PROVE UNCHANGED <<run, pruned>>
    BY <2>4 DEF ConsumerStep, Read, Reclaim, HandleEntry, HandleEntryFails, Ack, runVars
  <2>5. ASSUME NEW t \in Threads, RuleStep(t)
        PROVE  Skip(t) \/ Claim(t) \/ Finish(t) \/ CancelRun(t) \/ UNCHANGED <<run, pruned>>
    BY <2>5 DEF RuleStep, Judge, Walk, Count, CheckDisable, AutoDisable, CounterFails, Mark, Park,
       ClaimWait, ClaimWaitFails, Resume, ResumeCancels, ResumeLoses, CancelWait, StatementFails, runVars
  <2>6. ASSUME NEW t \in Threads, RunTimeTriggers(t) \/ ResumeWaits(t) \/ EndTick(t) \/ Crash(t)
        PROVE UNCHANGED <<run, pruned>>
    BY <2>6 DEF RunTimeTriggers, ResumeWaits, EndTick, Crash, runVars
  <2>7. ASSUME (\E r \in Rules : EditRule(r)) \/ (\E e \in Events : Duplicate(e)) \/ UNCHANGED vars
        PROVE UNCHANGED <<run, pruned>>
    BY <2>7 DEF EditRule, Duplicate, vars, runVars
  <2> QED  BY <1>1, <2>1, <2>2, <2>3, <2>4, <2>5, <2>6, <2>7 DEF Next
<1>3. \A r \in Rules : enabled'[r] = "on" => enabled[r] = "on"
  <2>1. ASSUME NEW t \in Threads, AutoDisable(t)
        PROVE \A r \in Rules : enabled'[r] = "on" => enabled[r] = "on"
    BY <2>1 DEF AutoDisable, SetEnabled, RuleTypes
  <2>2. ASSUME NEW r \in Rules, EditRule(r)  PROVE FALSE
    BY <2>2, AutomationAssumption DEF EditRule, BoundTypes
  <2>3. ASSUME NEW c \in Consumers, ConsumerStep(c)  PROVE UNCHANGED enabled
    BY <2>3 DEF ConsumerStep, Read, Reclaim, HandleEntry, HandleEntryFails, Ack, ruleVars
  <2>4. ASSUME NEW t \in Threads, RuleStep(t)  PROVE AutoDisable(t) \/ UNCHANGED enabled
    <3>1. CASE \/ Judge(t) \/ Skip(t) \/ Claim(t) \/ Walk(t) \/ Finish(t) \/ Count(t)
               \/ CheckDisable(t) \/ AutoDisable(t) \/ CounterFails(t) \/ Mark(t)
      BY <3>1 DEF Judge, Skip, Claim, Walk, Finish, Count, CheckDisable, CounterFails, Mark, ruleVars
    <3>2. CASE \/ Park(t) \/ ClaimWait(t) \/ ClaimWaitFails(t) \/ Resume(t) \/ ResumeCancels(t)
               \/ ResumeLoses(t) \/ CancelRun(t) \/ CancelWait(t) \/ StatementFails(t)
      BY <3>2 DEF Park, ClaimWait, ClaimWaitFails, Resume, ResumeCancels, ResumeLoses, CancelRun,
         CancelWait, StatementFails, ruleVars
    <3> QED  BY <2>4, <3>1, <3>2 DEF RuleStep
  <2>5. ASSUME NEW t \in Threads, RunTimeTriggers(t) \/ ResumeWaits(t) \/ EndTick(t) \/ Crash(t)
        PROVE UNCHANGED enabled
    BY <2>5 DEF RunTimeTriggers, ResumeWaits, EndTick, Crash, ruleVars
  <2>6. ASSUME (\E x \in Runs : PruneRun(x)) \/ (\E e \in Events : Duplicate(e)) \/ UNCHANGED vars
        PROVE UNCHANGED enabled
    BY <2>6 DEF PruneRun, Duplicate, vars, ruleVars
  <2> QED  BY <2>1, <2>2, <2>3, <2>4, <2>5, <2>6 DEF Next
<1> QED  BY <1>2, <1>3 DEF Keeps

(* The entries of a consumer at work stay, and what it strikes off its list   *)
(* has been judged.                                                           *)
LEMMA ListMoves ==
  ASSUME AutomationInv, Keeps, ListOK,
         \A c \in Consumers : pc'[c] # "idle" =>
           /\ pc[c] # "idle" /\ inbox'[c] = inbox[c]
           /\ \A x \in Runs : <<x, 0>> \in todo[c] => <<x, 0>> \in todo'[c] \/ Judged(x)'
  PROVE  ListOK'
<1> SUFFICES ASSUME NEW c \in Consumers, NEW x \in Triggers, pc'[c] # "idle",
                    x[2] = First(inbox'[c]), enabled'[x[1]] = "on"
             PROVE  Judged(x)' \/ <<x, 0>> \in todo'[c]
  BY DEF ListOK
<1>1. x \in Runs /\ x[1] \in Rules
  BY AutomationAssumption DEF Runs
<1>2. enabled[x[1]] = "on" /\ (Judged(x) => Judged(x)')
  BY <1>1 DEF Keeps
<1>3. pc[c] # "idle" /\ x[2] = First(inbox[c])
  OBVIOUS
<1>4. Judged(x) \/ <<x, 0>> \in todo[c]
  BY <1>2, <1>3 DEF ListOK
<1> QED  BY <1>1, <1>2, <1>4

(* A rule is left once its pair has a row. *)
LEMMA EndedIsJudged ==
  ASSUME AutomationInv, NEW t \in Threads, EndRule(t), UNCHANGED run,
         pc[t] \notin {"idle", "rules"}, pc[t] = "claim" => run[cur[t]] # "none"
  PROVE  \A u \in Threads : /\ pc'[u] # "idle" => pc[u] # "idle"
                            /\ \A x \in Runs : <<x, 0>> \in todo[u] => <<x, 0>> \in todo'[u] \/ Judged(x)'
<1> USE DEF AutomationInv, TypeOK
<1>1. cur[t] \in Runs
  BY DEF ThreadTypes
<1>2. run[cur[t]] # "none"
  BY <1>1 DEF JourneyInv, RowsOK, Carries
<1>3. run'[cur[t]] # "none"
  BY <1>2
<1>4. todo' = [todo EXCEPT ![t] = todo[t] \ {<<cur[t], slot[t]>>}] /\ pc' = [pc EXCEPT ![t] = "rules"]
  BY DEF EndRule, Goto
<1>5. \A u \in Threads : pc'[u] # "idle" => pc[u] # "idle"
  BY <1>4 DEF ThreadTypes
<1>6. ASSUME NEW u \in Threads, NEW x \in Runs, <<x, 0>> \in todo[u], <<x, 0>> \notin todo'[u]
      PROVE  Judged(x)'
  <2>1. <<x, 0>> = <<cur[t], slot[t]>>
    BY <1>4, <1>6 DEF ThreadTypes
  <2>2. x = cur[t]
    BY <2>1
  <2> QED  BY <1>3, <2>2 DEF Judged
<1> QED  BY <1>5, <1>6

LEMMA RuleStepList ==
  ASSUME AutomationInv, NEW t \in Threads, RuleStep(t), NoFault, Keeps, ListOK
  PROVE  ListOK' /\ UNCHANGED inbox
<1> USE DEF AutomationInv, TypeOK
<1>0. ~ Error
  BY DEF NoFault, Error, BoundTypes
<1> DEFINE Same(u) == /\ pc'[u] # "idle" => pc[u] # "idle"
                      /\ \A x \in Runs : <<x, 0>> \in todo[u] => <<x, 0>> \in todo'[u] \/ Judged(x)'
<1>1. UNCHANGED inbox
  <2>1. CASE \/ Judge(t) \/ Skip(t) \/ Claim(t) \/ Walk(t) \/ Finish(t) \/ Count(t)
             \/ CheckDisable(t) \/ AutoDisable(t) \/ CounterFails(t) \/ Mark(t)
    BY <2>1 DEF Judge, Skip, Claim, Walk, Finish, Count, CheckDisable, AutoDisable, CounterFails, Mark
  <2>2. CASE \/ Park(t) \/ ClaimWait(t) \/ ClaimWaitFails(t) \/ Resume(t) \/ ResumeCancels(t)
             \/ ResumeLoses(t) \/ CancelRun(t) \/ CancelWait(t) \/ StatementFails(t)
    BY <2>2 DEF Park, ClaimWait, ClaimWaitFails, Resume, ResumeCancels, ResumeLoses, CancelRun,
       CancelWait, StatementFails
  <2> QED  BY <2>1, <2>2 DEF RuleStep
<1>2. ASSUME UNCHANGED todo, NEW l, Goto(t, l), pc[t] # "idle"  PROVE \A u \in Threads : Same(u)
  BY <1>2 DEF Goto, ThreadTypes
<1>3. ASSUME NEW w \in todo[t], Begin(t, w, "claim") \/ Begin(t, w, "resume"), pc[t] # "idle"
      PROVE \A u \in Threads : Same(u)
  BY <1>2, <1>3 DEF Begin
<1>4. ASSUME EndRule(t), UNCHANGED run, pc[t] \notin {"idle", "rules"},
             pc[t] = "claim" => run[cur[t]] # "none"
      PROVE \A u \in Threads : Same(u)
  BY <1>4, EndedIsJudged
<1>6. CASE Skip(t)
  <2>1. PICK w \in todo[t] : /\ w[2] = 0
                             /\ run' = [run EXCEPT ![w[1]] = IF @ = "none" THEN "skipped" ELSE @]
                             /\ todo' = [todo EXCEPT ![t] = @ \ {w}]
    BY <1>0, <1>6 DEF Skip
  <2>2. w \in Runs \X (0..MaxWaits)
    BY DEF ThreadTypes
  <2>3. w[1] \in Runs /\ w = <<w[1], 0>>
    BY <2>1, <2>2
  <2>4. Judged(w[1])'
    BY <2>1, <2>3 DEF Judged, RunTypes
  <2>5. ASSUME NEW u \in Threads, NEW x \in Runs, <<x, 0>> \in todo[u], <<x, 0>> \notin todo'[u]
        PROVE  Judged(x)'
    <3>1. <<x, 0>> = w
      BY <2>1, <2>5 DEF ThreadTypes
    <3>2. x = w[1]
      BY <3>1
    <3> QED  BY <2>4, <3>2
  <2>6. pc' = pc
    BY <1>6 DEF Skip
  <2> QED  BY <1>1, <2>5, <2>6, ListMoves DEF Threads
<1>7. CASE Claim(t)
  <2>1. CASE run[cur[t]] = "none"
    <3>1. UNCHANGED todo /\ Goto(t, "walk") /\ pc[t] = "claim"
      BY <1>7, <2>1 DEF Claim
    <3> QED  BY <1>1, <1>2, <3>1, ListMoves DEF Threads
  <2>2. CASE run[cur[t]] # "none"
    <3>1. EndRule(t) /\ UNCHANGED run /\ pc[t] = "claim"
      BY <1>7, <2>2 DEF Claim
    <3> QED  BY <1>1, <1>4, <2>2, <3>1, ListMoves DEF Threads
  <2> QED  BY <2>1, <2>2
<1>8. CASE Walk(t) \/ Finish(t) \/ Resume(t) \/ ResumeCancels(t) \/ CancelRun(t)
  <2>1. UNCHANGED todo /\ pc[t] # "idle" /\ \E l : Goto(t, l)
    BY <1>8 DEF Walk, Finish, Resume, ResumeCancels, CancelRun
  <2> QED  BY <1>1, <1>2, <2>1, ListMoves DEF Threads
<1>9. CASE Count(t) \/ CheckDisable(t) \/ AutoDisable(t) \/ Mark(t)
  <2>1. pc[t] \in {"count", "check", "disable", "mark"} /\ UNCHANGED run
    BY <1>9 DEF Count, CheckDisable, AutoDisable, Mark, runVars
  <2>2. EndRule(t) \/ (UNCHANGED todo /\ \E l : Goto(t, l))
    BY <1>9 DEF Count, CheckDisable, AutoDisable, Mark, Leave
  <2> QED  BY <1>1, <1>2, <1>4, <2>1, <2>2, ListMoves DEF Threads
<1>10. CASE Park(t) \/ CancelWait(t)
  <2>1. EndRule(t) /\ UNCHANGED run /\ pc[t] \in {"park", "cancelWait"}
    BY <1>10 DEF Park, CancelWait
  <2> QED  BY <1>1, <1>4, <2>1, ListMoves DEF Threads
<1>11. CASE ClaimWait(t)
  <2>1. PICK w \in todo[t] :
          /\ w[2] # 0
          /\ \/ Begin(t, w, "resume")
             \/ todo' = [todo EXCEPT ![t] = @ \ {w}] /\ UNCHANGED pc
    BY <1>11 DEF ClaimWait
  <2>2. pc[t] = "rules"
    BY <1>11 DEF ClaimWait
  <2>3. CASE Begin(t, w, "resume")
    BY <1>1, <1>3, <2>2, <2>3, ListMoves DEF Threads
  <2>4. CASE todo' = [todo EXCEPT ![t] = @ \ {w}] /\ UNCHANGED pc
    <3>1. \A x \in Runs : <<x, 0>> # w
      BY <2>1
    <3>2. \A u \in Threads, x \in Runs : <<x, 0>> \in todo[u] => <<x, 0>> \in todo'[u]
      BY <2>4, <3>1 DEF ThreadTypes
    <3> QED  BY <1>1, <2>4, <3>2, ListMoves DEF Threads
  <2> QED  BY <2>1, <2>3, <2>4
<1>12. CASE CounterFails(t) \/ ClaimWaitFails(t) \/ ResumeLoses(t) \/ StatementFails(t)
  BY <1>0, <1>12 DEF CounterFails, ClaimWaitFails, ResumeLoses, StatementFails
<1>5. CASE Judge(t)
  BY <1>1, <1>3, <1>5, ListMoves DEF Judge, Threads
<1> QED  BY <1>1, <1>5, <1>6, <1>7, <1>8, <1>9, <1>10, <1>11, <1>12 DEF RuleStep

LEMMA JudgedStep == AutomationInv /\ JudgedOK /\ [Next]_vars => JudgedOK'
<1> SUFFICES ASSUME AutomationInv, JudgedOK, [Next]_vars, errors' + edits' = 0
             PROVE  ListOK' /\ AckedOK'
  BY DEF JudgedOK
<1>0. AutomationInv'
  BY NextInv
<1> USE DEF AutomationInv, TypeOK
<1>1. ~ Error /\ (errors' = errors) /\ edits' = edits
  <2>1. BoundTypes'
    BY <1>0
  <2>2. errors' = 0 /\ edits' = 0
    <3>1. errors' \in Nat /\ edits' \in Nat
      BY <2>1, AutomationAssumption DEF BoundTypes
    <3>2. \A a, b \in Nat : a + b = 0 => a = 0 /\ b = 0
      OBVIOUS
    <3> QED  BY <3>1, <3>2
  <2>3. ~ Error
    BY <2>2, AutomationAssumption DEF Error, BoundTypes
  <2>4. errors' = errors
    BY <2>3, EveryStepCounts DEF Fault, NoFault
  <2>5. ASSUME NEW r \in Rules, EditRule(r)  PROVE FALSE
    BY <2>2, <2>5, AutomationAssumption DEF EditRule, BoundTypes
  <2>6. edits' = edits
    <3>1. ASSUME NEW c \in Consumers, ConsumerStep(c)  PROVE edits' = edits
      BY <3>1 DEF ConsumerStep, Read, Reclaim, HandleEntry, HandleEntryFails, Ack, ruleVars
    <3>2. ASSUME NEW t \in Threads, RuleStep(t)  PROVE edits' = edits
      <4>1. CASE \/ Judge(t) \/ Skip(t) \/ Claim(t) \/ Walk(t) \/ Finish(t) \/ Count(t)
                 \/ CheckDisable(t) \/ AutoDisable(t) \/ CounterFails(t) \/ Mark(t)
        BY <4>1 DEF Judge, Skip, Claim, Walk, Finish, Count, CheckDisable, AutoDisable, CounterFails, Mark, ruleVars
      <4>2. CASE \/ Park(t) \/ ClaimWait(t) \/ ClaimWaitFails(t) \/ Resume(t) \/ ResumeCancels(t)
                 \/ ResumeLoses(t) \/ CancelRun(t) \/ CancelWait(t) \/ StatementFails(t)
        BY <4>2 DEF Park, ClaimWait, ClaimWaitFails, Resume, ResumeCancels, ResumeLoses, CancelRun,
           CancelWait, StatementFails, ruleVars
      <4> QED  BY <3>2, <4>1, <4>2 DEF RuleStep
    <3>3. ASSUME NEW t \in Threads, RunTimeTriggers(t) \/ ResumeWaits(t) \/ EndTick(t) \/ Crash(t)
          PROVE edits' = edits
      BY <3>3 DEF RunTimeTriggers, ResumeWaits, EndTick, Crash, ruleVars
    <3>4. ASSUME (\E x \in Runs : PruneRun(x)) \/ (\E e \in Events : Duplicate(e)) \/ UNCHANGED vars
          PROVE edits' = edits
      BY <3>4 DEF PruneRun, Duplicate, vars, ruleVars
    <3> QED  BY <2>5, <3>1, <3>2, <3>3, <3>4 DEF Next
  <2> QED  BY <2>3, <2>4, <2>6
<1>2. Keeps /\ ListOK /\ AckedOK
  BY <1>1, StepKeeps DEF JudgedOK
<1>3. ASSUME \A e \in Events : entry'[e] = "acked" => entry[e] = "acked"  PROVE AckedOK'
  <2>1. \A x \in Triggers : x \in Runs /\ x[1] \in Rules /\ x[2] \in Events
    BY AutomationAssumption DEF Runs
  <2> QED  BY <1>2, <1>3, <2>1 DEF AckedOK, Keeps
<1>4. ASSUME UNCHANGED <<inbox, pc, todo>>  PROVE ListOK'
  BY <1>2, <1>4, ListMoves
<1>5. ASSUME NEW c \in Consumers, Read(c) \/ Reclaim(c)  PROVE ListOK' /\ AckedOK'
  <2>1. PICK B : Deliver(c, B)
    BY <1>5 DEF Read, Reclaim
  <2>2. \A e \in Events : entry'[e] = "acked" => entry[e] = "acked"
    BY <2>1 DEF Deliver
  <2>3. pc[c] = "idle" /\ UNCHANGED <<pc, todo>>
    BY <1>5 DEF Read, Reclaim, threadVars
  <2>4. \A d \in Consumers : d # c => inbox'[d] = inbox[d]
    BY <2>1 DEF Deliver, StreamTypes
  <2> QED  BY <1>2, <1>3, <2>2, <2>3, <2>4, ListMoves
<1>6. ASSUME NEW c \in Consumers, HandleEntry(c)  PROVE ListOK' /\ AckedOK'
  <2>1. /\ UNCHANGED <<run, pruned, enabled, entry, inbox>>
        /\ pc' = [pc EXCEPT ![c] = "rules"]
        /\ todo' = [todo EXCEPT ![c] =
             {<<x, 0>> : x \in {y \in Triggers : y[2] = First(inbox[c]) /\ enabled[y[1]] = "on"}}]
    BY <1>6 DEF HandleEntry, Goto, ruleVars, runVars, streamVars
  <2>2. c \in Threads
    BY DEF Threads
  <2>3. \A d \in Consumers : d # c => pc'[d] = pc[d] /\ todo'[d] = todo[d]
    BY <2>1 DEF ThreadTypes, Threads
  <2>4. todo'[c] = {<<x, 0>> : x \in {y \in Triggers : y[2] = First(inbox[c]) /\ enabled[y[1]] = "on"}}
    BY <2>1, <2>2 DEF ThreadTypes
  <2>5. ListOK'
    BY <1>2, <2>1, <2>3, <2>4 DEF ListOK, Judged
  <2> QED  BY <1>3, <2>1, <2>5
<1>7. ASSUME NEW c \in Consumers, Ack(c)  PROVE ListOK' /\ AckedOK'
  <2>1. /\ pc[c] = "rules" /\ todo[c] = {} /\ Acknowledge(c) /\ pc' = [pc EXCEPT ![c] = "idle"]
        /\ UNCHANGED <<ruleVars, runVars, todo>>
    BY <1>1, <1>7 DEF Ack, Goto
  <2>2. c \in Threads
    BY DEF Threads
  <2>3. \A d \in Consumers : d # c => inbox'[d] = inbox[d]
    BY <1>7 DEF Ack, Drop, StreamTypes
  <2>4. \A d \in Consumers : pc'[d] # "idle" => d # c /\ pc[d] # "idle"
    BY <2>1, <2>2 DEF ThreadTypes, Threads
  <2>5. ListOK'
    BY <1>2, <2>1, <2>3, <2>4, ListMoves
  <2>6. \A x \in Triggers : x[2] = First(inbox[c]) /\ enabled[x[1]] = "on" => Judged(x)
    BY <1>2, <2>1 DEF ListOK
  <2>7. \A x \in Triggers : x \in Runs /\ x[1] \in Rules /\ x[2] \in Events
    BY AutomationAssumption DEF Runs
  <2>8. \A e \in Events : entry'[e] = "acked" => entry[e] = "acked" \/ e = First(inbox[c])
    BY <2>1 DEF Acknowledge, StreamTypes
  <2>9. AckedOK'
    BY <1>2, <2>6, <2>7, <2>8 DEF AckedOK, Keeps
  <2> QED  BY <2>5, <2>9
<1>8. ASSUME NEW c \in Consumers, HandleEntryFails(c)  PROVE FALSE
  BY <1>1, <1>8 DEF HandleEntryFails
<1>9. ASSUME NEW t \in Threads, RuleStep(t)  PROVE ListOK' /\ AckedOK'
  <2>1. NoFault
    <3>1. ~ Fault
      <4>1. CASE \/ Judge(t) \/ Skip(t) \/ Claim(t) \/ Walk(t) \/ Finish(t) \/ Count(t)
                 \/ CheckDisable(t) \/ AutoDisable(t) \/ CounterFails(t) \/ Mark(t)
        BY <1>1, <4>1 DEF Judge, Skip, Claim, Walk, Finish, Count, CheckDisable, AutoDisable,
           CounterFails, Mark, NoFault, Fault, BoundTypes
      <4>2. CASE \/ Park(t) \/ ClaimWait(t) \/ ClaimWaitFails(t) \/ Resume(t) \/ ResumeCancels(t)
                 \/ ResumeLoses(t) \/ CancelRun(t) \/ CancelWait(t) \/ StatementFails(t)
        BY <1>1, <4>2 DEF Park, ClaimWait, ClaimWaitFails, Resume, ResumeCancels, ResumeLoses,
           CancelRun, CancelWait, StatementFails, NoFault, Fault, BoundTypes
      <4> QED  BY <1>9, <4>1, <4>2 DEF RuleStep
    <3> QED  BY <1>1, <3>1, EveryStepCounts
  <2>2. ListOK'
    BY <1>2, <1>9, <2>1, RuleStepList
  <2>3. \A e \in Events : entry'[e] = "acked" => entry[e] = "acked"
    <3>1. CASE Walk(t)
      BY <3>1 DEF Walk, Emit, streamVars, StreamTypes
    <3>2. CASE UNCHANGED streamVars
      BY <3>2 DEF streamVars
    <3>3. CASE \/ Judge(t) \/ Skip(t) \/ Claim(t) \/ Finish(t) \/ Count(t)
               \/ CheckDisable(t) \/ AutoDisable(t) \/ CounterFails(t) \/ Mark(t)
      BY <3>2, <3>3 DEF Judge, Skip, Claim, Finish, Count, CheckDisable, AutoDisable,
         CounterFails, Mark
    <3>4. CASE \/ Park(t) \/ ClaimWait(t) \/ ClaimWaitFails(t) \/ Resume(t) \/ ResumeCancels(t)
               \/ ResumeLoses(t) \/ CancelRun(t) \/ CancelWait(t) \/ StatementFails(t)
      BY <3>2, <3>4 DEF Park, ClaimWait, ClaimWaitFails, Resume, ResumeCancels, ResumeLoses,
         CancelRun, CancelWait, StatementFails
    <3> QED  BY <1>9, <3>1, <3>3, <3>4 DEF RuleStep
  <2> QED  BY <1>3, <2>2, <2>3
<1>10. ASSUME NEW t \in Threads, RunTimeTriggers(t) \/ ResumeWaits(t) \/ EndTick(t)
       PROVE  ListOK' /\ AckedOK'
  <2>1. UNCHANGED <<entry, inbox>> /\ t \notin Consumers
    BY <1>10, AutomationAssumption DEF RunTimeTriggers, ResumeWaits, EndTick, streamVars
  <2>2. \A c \in Consumers : pc'[c] = pc[c] /\ todo'[c] = todo[c]
    BY <1>10, <2>1 DEF RunTimeTriggers, ResumeWaits, EndTick, Goto, ThreadTypes, Threads
  <2> QED  BY <1>2, <1>3, <2>1, <2>2, ListMoves
<1>11. ASSUME NEW t \in Threads, Crash(t)  PROVE ListOK' /\ AckedOK'
  <2>1. UNCHANGED entry
    BY <1>11 DEF Crash, streamVars
  <2>2. \A c \in Consumers : pc'[c] # "idle" => /\ c # t /\ pc'[c] = pc[c] /\ todo'[c] = todo[c]
                                                /\ inbox'[c] = inbox[c]
    BY <1>11 DEF Crash, Goto, ThreadTypes, Threads
  <2> QED  BY <1>2, <1>3, <2>1, <2>2, ListMoves
<1>12. ASSUME (\E x \in Runs : PruneRun(x)) \/ UNCHANGED vars  PROVE ListOK' /\ AckedOK'
  BY <1>3, <1>4, <1>12 DEF PruneRun, vars, streamVars, threadVars
<1>13. ASSUME NEW e \in Events, Duplicate(e)  PROVE ListOK' /\ AckedOK'
  <2>1. \A f \in Events : entry'[f] = "acked" => entry[f] = "acked"
    BY <1>13 DEF Duplicate, StreamTypes
  <2> QED  BY <1>3, <1>4, <1>13, <2>1 DEF Duplicate, threadVars
<1>14. ASSUME NEW r \in Rules, EditRule(r)  PROVE FALSE
  BY <1>1, <1>14, AutomationAssumption DEF EditRule, BoundTypes
<1> QED  BY <1>5, <1>6, <1>7, <1>8, <1>9, <1>10, <1>11, <1>12, <1>13, <1>14
         DEF Next, ConsumerStep

(* Consumer.handleEntry: however often entries are reclaimed, duplicated or   *)
(* dropped by a crash, one that is acknowledged has been judged by each rule  *)
(* it triggers, unless a statement failed or an author changed a rule.        *)
THEOREM AcknowledgedIsJudged == Spec => []AckedMeansJudged
<1>1. Init => JudgedOK
  <2>1. \A x \in Triggers : x[2] \in Events
    BY AutomationAssumption DEF Runs
  <2> QED  BY <2>1 DEF Init, JudgedOK, ListOK, AckedOK, Threads
<1>2. Spec => []JudgedOK
  BY <1>1, AutomationInvariant, JudgedStep, PTL DEF Spec
<1>3. JudgedOK => AckedMeansJudged
  BY DEF JudgedOK, AckedOK, AckedMeansJudged, Judged
<1> QED  BY <1>2, <1>3, PTL

-----------------------------------------------------------------------------
(* Loop protection.  The origin on an event tells the truth as long as no     *)
(* rule acts through the services that drop it.                               *)
OriginsCarried == \A r \in Rules : Writes[r] # "work"

(* The event exists: a person or the clock made it, or a rule did.  What is   *)
(* known of an existing event never changes.                                  *)
Known(e) == e \in People \cup Timed \/ maker[e] # None

Sound(x) == Known(x[2]) /\ ~ Loops(x)

Truthful == \A e \in Events : origin[e] = maker[e] /\ depth[e] = chain[e]

EntriesKnown == \A e \in Events : entry[e] # "none" => Known(e)
InboxKnown == \A c \in Consumers : /\ \A e \in inbox[c] : Known(e)
                                   /\ pc[c] # "idle" => inbox[c] # {}
TodoKnown == \A t \in Threads : \A w \in todo[t] : Known(w[1][2])
CursorSound == \A t \in Threads : pc[t] \notin {"idle", "rules"} => Sound(cur[t])
Underway(x) == walked[x] > 0 \/ \E k \in Slots : wait[x][k] = "pending"
RunsSound == \A x \in Runs : Underway(x) => Sound(x)

OriginsOK == Truthful /\ EntriesKnown /\ InboxKnown /\ TodoKnown /\ CursorSound /\ RunsSound

traceVars == <<origin, depth, maker, chain>>

(* The oldest entry of a batch is one of the batch. *)
LEMMA FirstIsMember ==
  ASSUME NEW S, S \subseteq Nat, S # {}
  PROVE  First(S) \in S
<1> DEFINE R == OpToRel(<, Nat)
<1>1. \E x \in S : \A y \in S : ~ (<<y, x>> \in R)
  <2> HIDE DEF R
  <2>1. IsWellFoundedOn(R, Nat)
    BY NatLessThanWellFounded DEF R
  <2> QED  BY <2>1, WFMin
<1>2. \A x, y \in Nat : <<y, x>> \in R <=> y < x
  BY DEF OpToRel
<1>3. PICK x \in S : \A y \in S : ~ (<<y, x>> \in R)
  BY <1>1
<1>4. \A y \in S : x =< y
  <2> SUFFICES ASSUME NEW y \in S  PROVE x =< y
    OBVIOUS
  <2>1. ~ (y < x) /\ x \in Nat /\ y \in Nat
    BY <1>2, <1>3
  <2> QED  BY <2>1
<1> QED  BY <1>4 DEF First

(* No event comes into being. *)
LEMMA OriginsMove ==
  ASSUME OriginsOK, UNCHANGED traceVars,
         \A e \in Events : entry'[e] # "none" => Known(e),
         \A c \in Consumers : /\ \A e \in inbox'[c] : Known(e)
                              /\ pc'[c] # "idle" => inbox'[c] # {},
         \A t \in Threads : \A w \in todo'[t] : Known(w[1][2]),
         \A t \in Threads : pc'[t] \notin {"idle", "rules"} => Sound(cur'[t]),
         \A x \in Runs : Underway(x)' => Sound(x)
  PROVE  OriginsOK'
<1> USE DEF traceVars
<1>1. \A e : Known(e)' <=> Known(e)
  BY DEF Known
<1>2. \A x : (Known(x[2]) /\ ~ Loops(x))' <=> Sound(x)
  BY <1>1 DEF Sound, Loops
<1>3. Truthful'
  BY DEF OriginsOK, Truthful
<1>4. EntriesKnown' /\ TodoKnown'
  BY <1>1 DEF EntriesKnown, TodoKnown
<1>7. InboxKnown'
  <2>1. \A c \in Consumers : \A e \in inbox'[c] : Known(e)'
    BY <1>1
  <2>2. \A c \in Consumers : pc'[c] # "idle" => inbox'[c] # {}
    OBVIOUS
  <2> QED  BY <2>1, <2>2 DEF InboxKnown
<1>5. CursorSound'
  BY <1>2 DEF CursorSound, Sound
<1>6. RunsSound'
  BY <1>2 DEF RunsSound, Sound
<1> QED  BY <1>3, <1>4, <1>5, <1>6, <1>7 DEF OriginsOK

(* The stream: entries move between queue, consumers and the acknowledged. *)
LEMMA ConsumerOrigins ==
  ASSUME AutomationInv, OriginsOK, NEW c \in Consumers, ConsumerStep(c)
  PROVE  OriginsOK'
<1> USE DEF AutomationInv, TypeOK
<1>1. UNCHANGED traceVars
  BY DEF ConsumerStep, Read, Reclaim, HandleEntry, HandleEntryFails, Ack, Deliver, Acknowledge,
     streamVars, traceVars
<1>2. \A x \in Runs : Underway(x)' => Sound(x)
  BY DEF OriginsOK, RunsSound, Underway, ConsumerStep, Read, Reclaim, HandleEntry,
     HandleEntryFails, Ack, runVars
<1>3. inbox[c] # {} => First(inbox[c]) \in inbox[c] /\ Known(First(inbox[c]))
  BY AutomationAssumption, FirstIsMember DEF StreamTypes, OriginsOK, InboxKnown
<1>4. CASE Read(c) \/ Reclaim(c)
  <2>1. PICK B \in SUBSET {e \in Events : entry[e] \in {"queued", "pending"}} : Deliver(c, B)
    BY <1>4 DEF Read, Reclaim
  <2>2. \A e \in B : Known(e)
    BY DEF OriginsOK, EntriesKnown
  <2>3. UNCHANGED <<todo, pc, cur>>
    BY <1>4 DEF Read, Reclaim, threadVars
  <2>4. \A e \in Events : entry'[e] # "none" => Known(e)
    BY <2>1, <2>2 DEF Deliver, OriginsOK, EntriesKnown
  <2>6. pc[c] = "idle"
    BY <1>4 DEF Read, Reclaim
  <2>5. \A d \in Consumers : (\A e \in inbox'[d] : Known(e)) /\ (pc'[d] # "idle" => inbox'[d] # {})
    BY <2>1, <2>2, <2>3, <2>6 DEF Deliver, OriginsOK, InboxKnown, StreamTypes
  <2> QED  BY <1>1, <1>2, <2>3, <2>4, <2>5, OriginsMove DEF OriginsOK, TodoKnown, CursorSound
<1>5. CASE HandleEntry(c)
  <2>1. /\ UNCHANGED <<entry, inbox, cur>> /\ inbox[c] # {}
        /\ pc' = [pc EXCEPT ![c] = "rules"]
        /\ todo' = [todo EXCEPT ![c] =
             {<<x, 0>> : x \in {y \in Triggers : y[2] = First(inbox[c]) /\ enabled[y[1]] = "on"}}]
    BY <1>5 DEF HandleEntry, Goto, streamVars
  <2>2. \A w \in {<<x, 0>> : x \in {y \in Triggers : y[2] = First(inbox[c]) /\ enabled[y[1]] = "on"}} :
          Known(w[1][2])
    BY <1>3, <2>1
  <2>3. \A t \in Threads : \A w \in todo'[t] : Known(w[1][2])
    BY <2>1, <2>2 DEF OriginsOK, TodoKnown, ThreadTypes
  <2>4. \A t \in Threads : pc'[t] \notin {"idle", "rules"} => Sound(cur'[t])
    BY <2>1 DEF OriginsOK, CursorSound, ThreadTypes
  <2>5. \A d \in Consumers : (\A e \in inbox'[d] : Known(e)) /\ (pc'[d] # "idle" => inbox'[d] # {})
    BY <2>1 DEF OriginsOK, InboxKnown, ThreadTypes, Threads
  <2> QED  BY <1>1, <1>2, <2>1, <2>3, <2>4, <2>5, OriginsMove DEF OriginsOK, EntriesKnown
<1>6. CASE HandleEntryFails(c) \/ Ack(c)
  <2>1. /\ UNCHANGED <<todo, cur>>
        /\ pc' = pc \/ pc' = [pc EXCEPT ![c] = "idle"]
        /\ Acknowledge(c) \/ UNCHANGED entry
        /\ Drop(c)
    BY <1>6 DEF HandleEntryFails, Ack, Goto, threadVars, streamVars
  <2>2. inbox[c] # {}
    BY <1>6 DEF HandleEntryFails, Ack, OriginsOK, InboxKnown
  <2>3. \A e \in Events : entry'[e] # "none" => Known(e)
    BY <1>3, <2>1, <2>2 DEF Acknowledge, OriginsOK, EntriesKnown, StreamTypes
  <2>5. \A d \in Consumers : (\A e \in inbox'[d] : Known(e)) /\ (pc'[d] # "idle" => inbox'[d] # {})
    <3>1. pc'[c] = "idle"
      BY <1>6 DEF HandleEntryFails, Ack, Goto, threadVars, ThreadTypes, Threads
    <3>2. \A d \in Consumers : d # c => inbox'[d] = inbox[d] /\ pc'[d] = pc[d]
      BY <2>1 DEF Drop, StreamTypes, ThreadTypes, Threads
    <3>3. \A e \in inbox'[c] : e \in inbox[c]
      BY <2>1 DEF Drop, StreamTypes
    <3> QED  BY <3>1, <3>2, <3>3 DEF OriginsOK, InboxKnown
  <2>4. \A t \in Threads : pc'[t] \notin {"idle", "rules"} => Sound(cur'[t])
    BY <2>1 DEF OriginsOK, CursorSound, ThreadTypes
  <2> QED  BY <1>1, <1>2, <2>1, <2>3, <2>4, <2>5, OriginsMove DEF OriginsOK, TodoKnown
<1> QED  BY <1>4, <1>5, <1>6 DEF ConsumerStep

(* The jobs' ticks, crashes, retention, the author and the relay. *)
LEMMA OtherOrigins ==
  ASSUME AutomationInv, OriginsOK,
         \/ \E t \in Threads : RunTimeTriggers(t) \/ ResumeWaits(t) \/ EndTick(t) \/ Crash(t)
         \/ \E r \in Rules : EditRule(r)
         \/ \E x \in Runs : PruneRun(x)
         \/ \E e \in Events : Duplicate(e)
         \/ UNCHANGED vars
  PROVE  OriginsOK'
<1> USE DEF AutomationInv, TypeOK
<1>1. UNCHANGED traceVars
  BY DEF RunTimeTriggers, ResumeWaits, EndTick, Crash, EditRule, PruneRun, Duplicate, vars,
     streamVars, traceVars
<1>2. \A x \in Runs : Underway(x)' => Sound(x)
  <2>1. UNCHANGED <<walked, wait>>
    BY DEF RunTimeTriggers, ResumeWaits, EndTick, Crash, EditRule, PruneRun, Duplicate, vars, runVars
  <2> QED  BY <2>1 DEF OriginsOK, RunsSound, Underway
<1>3. ASSUME NEW t \in Threads, RunTimeTriggers(t) \/ ResumeWaits(t) \/ EndTick(t)  PROVE OriginsOK'
  <2>1. /\ UNCHANGED <<entry, inbox, cur>> /\ t \notin Consumers
        /\ pc' = [pc EXCEPT ![t] = "rules"] \/ pc' = [pc EXCEPT ![t] = "idle"]
    BY <1>3, AutomationAssumption DEF RunTimeTriggers, ResumeWaits, EndTick, Goto, streamVars
  <2>2. \A u \in Threads : \A w \in todo'[u] : Known(w[1][2])
    <3>1. CASE RunTimeTriggers(t)
      <4>1. PICK S \in SUBSET {x \in Triggers : x[2] \in Timed} :
               todo' = [todo EXCEPT ![t] = {<<x, 0>> : x \in S}]
        BY <3>1 DEF RunTimeTriggers
      <4>2. \A w \in {<<x, 0>> : x \in S} : Known(w[1][2])
        BY DEF Known
      <4> QED  BY <4>1, <4>2 DEF OriginsOK, TodoKnown, ThreadTypes
    <3>2. CASE ResumeWaits(t)
      <4>1. PICK S \in SUBSET {w \in Runs \X Slots : wait[w[1]][w[2]] = "pending"} :
               todo' = [todo EXCEPT ![t] = S]
        BY <3>2 DEF ResumeWaits
      <4>2. \A w \in S : Known(w[1][2])
        BY DEF OriginsOK, RunsSound, Underway, Sound
      <4> QED  BY <4>1, <4>2 DEF OriginsOK, TodoKnown, ThreadTypes
    <3>3. CASE EndTick(t)
      BY <3>3 DEF EndTick, OriginsOK, TodoKnown
    <3> QED  BY <1>3, <3>1, <3>2, <3>3
  <2>3. \A u \in Threads : pc'[u] \notin {"idle", "rules"} => Sound(cur'[u])
    BY <2>1 DEF OriginsOK, CursorSound, ThreadTypes
  <2>4. \A d \in Consumers : (\A e \in inbox'[d] : Known(e)) /\ (pc'[d] # "idle" => inbox'[d] # {})
    BY <2>1 DEF OriginsOK, InboxKnown, ThreadTypes, Threads
  <2> QED  BY <1>1, <1>2, <2>1, <2>2, <2>3, <2>4, OriginsMove DEF OriginsOK, EntriesKnown
<1>4. ASSUME NEW t \in Threads, Crash(t)  PROVE OriginsOK'
  <2>1. UNCHANGED entry /\ pc' = [pc EXCEPT ![t] = "idle"] /\ todo' = [todo EXCEPT ![t] = {}]
        /\ cur' = [cur EXCEPT ![t] = None]
        /\ inbox' = [c \in Consumers |-> IF c = t THEN {} ELSE inbox[c]]
    BY <1>4 DEF Crash, Goto, streamVars
  <2>2. \A u \in Threads : \A w \in todo'[u] : Known(w[1][2])
    BY <2>1 DEF OriginsOK, TodoKnown, ThreadTypes
  <2>3. \A u \in Threads : pc'[u] \notin {"idle", "rules"} => Sound(cur'[u])
    BY <2>1 DEF OriginsOK, CursorSound, ThreadTypes
  <2>4. \A d \in Consumers : (\A e \in inbox'[d] : Known(e)) /\ (pc'[d] # "idle" => inbox'[d] # {})
    BY <2>1 DEF OriginsOK, InboxKnown, ThreadTypes, Threads
  <2> QED  BY <1>1, <1>2, <2>1, <2>2, <2>3, <2>4, OriginsMove DEF OriginsOK, EntriesKnown
<1>5. ASSUME \/ \E r \in Rules : EditRule(r)
             \/ \E x \in Runs : PruneRun(x)
             \/ \E e \in Events : Duplicate(e)
             \/ UNCHANGED vars
      PROVE  OriginsOK'
  <2>1. UNCHANGED <<inbox, pc, todo, cur>>
    BY <1>5 DEF EditRule, PruneRun, Duplicate, vars, threadVars
  <2>2. \A e \in Events : entry'[e] # "none" => Known(e)
    BY <1>5 DEF EditRule, PruneRun, Duplicate, vars, streamVars, OriginsOK, EntriesKnown, StreamTypes
  <2> QED  BY <1>1, <1>2, <2>1, <2>2, OriginsMove DEF OriginsOK, InboxKnown, TodoKnown, CursorSound
<1> QED  BY <1>3, <1>4, <1>5

(* The steps of runRule and resume that publish nothing. *)
LEMMA RuleOrigins ==
  ASSUME AutomationInv, OriginsOK, NEW t \in Threads, RuleStep(t), ~ Walk(t)
  PROVE  OriginsOK'
<1> USE DEF AutomationInv, TypeOK
<1> DEFINE Early == \/ Judge(t) \/ Skip(t) \/ Claim(t) \/ Finish(t) \/ Count(t)
                    \/ CheckDisable(t) \/ AutoDisable(t) \/ CounterFails(t) \/ Mark(t)
           Late == \/ Park(t) \/ ClaimWait(t) \/ ClaimWaitFails(t) \/ Resume(t) \/ ResumeCancels(t)
                   \/ ResumeLoses(t) \/ CancelRun(t) \/ CancelWait(t) \/ StatementFails(t)
<1>0. Early \/ Late
  BY DEF RuleStep
<1>1. UNCHANGED <<origin, depth, maker, chain, entry, inbox, walked>>
  <2>1. CASE Early
    BY <2>1 DEF Judge, Skip, Claim, Finish, Count, CheckDisable, AutoDisable, CounterFails, Mark,
       streamVars, runVars
  <2>2. CASE Late
    BY <2>2 DEF Park, ClaimWait, ClaimWaitFails, Resume, ResumeCancels, ResumeLoses, CancelRun,
       CancelWait, StatementFails, streamVars, runVars
  <2> QED  BY <1>0, <2>1, <2>2
<1>2. /\ pc[t] # "idle"
      /\ \/ \E w \in todo[t] : Begin(t, w, "claim") /\ ~ Loops(w[1])
         \/ \E w \in todo[t] : Begin(t, w, "resume") /\ w[2] # 0 /\ wait[w[1]][w[2]] = "pending"
         \/ EndRule(t)
         \/ \E l : Goto(t, l) /\ l # "idle" /\ UNCHANGED <<todo, cur>> /\ pc[t] # "rules"
         \/ \E S \in SUBSET todo[t] : todo' = [todo EXCEPT ![t] = S] /\ UNCHANGED <<pc, cur>>
  <2>1. CASE Judge(t) \/ Skip(t)
    BY <2>1 DEF Judge, Skip
  <2>2. CASE Claim(t) \/ Finish(t) \/ CancelRun(t)
    BY <2>2 DEF Claim, Finish, CancelRun
  <2>3. CASE Count(t) \/ CheckDisable(t) \/ AutoDisable(t) \/ CounterFails(t) \/ Mark(t)
    BY <2>3 DEF Count, CheckDisable, AutoDisable, CounterFails, Mark, Leave
  <2>4. CASE Park(t) \/ CancelWait(t) \/ StatementFails(t)
    BY <2>4 DEF Park, CancelWait, StatementFails
  <2>5. CASE ClaimWait(t) \/ ClaimWaitFails(t)
    BY <2>5 DEF ClaimWait, ClaimWaitFails
  <2>6. CASE Resume(t) \/ ResumeCancels(t) \/ ResumeLoses(t)
    BY <2>6 DEF Resume, ResumeCancels, ResumeLoses
  <2> QED  BY <1>0, <2>1, <2>2, <2>3, <2>4, <2>5, <2>6
<1>3. ASSUME NEW w \in todo[t], w[2] # 0, wait[w[1]][w[2]] = "pending"
      PROVE  Sound(w[1])
  <2>1. w[1] \in Runs /\ w[2] \in Slots
    BY <1>3, AutomationAssumption DEF ThreadTypes, Slots
  <2> QED  BY <1>3, <2>1 DEF OriginsOK, RunsSound, Underway
<1>4. ASSUME NEW u \in Threads
      PROVE  /\ \A w \in todo'[u] : w \in todo[u]
             /\ pc'[u] \notin {"idle", "rules"} => Sound(cur'[u])
             /\ pc'[u] # "idle" => pc[u] # "idle"
  <2>1. CASE \E w \in todo[t] : Begin(t, w, "claim") /\ ~ Loops(w[1])
    BY <1>2, <2>1 DEF Begin, Goto, ThreadTypes, Sound, OriginsOK, TodoKnown, CursorSound
  <2>2. CASE \E w \in todo[t] : Begin(t, w, "resume") /\ w[2] # 0 /\ wait[w[1]][w[2]] = "pending"
    BY <1>2, <1>3, <2>2 DEF Begin, Goto, ThreadTypes, OriginsOK, CursorSound
  <2>3. CASE EndRule(t)
    BY <1>2, <2>3 DEF EndRule, Goto, ThreadTypes, OriginsOK, CursorSound
  <2>4. CASE \E l : Goto(t, l) /\ l # "idle" /\ UNCHANGED <<todo, cur>> /\ pc[t] # "rules"
    BY <1>2, <2>4 DEF Goto, ThreadTypes, OriginsOK, CursorSound
  <2>5. CASE \E S \in SUBSET todo[t] : todo' = [todo EXCEPT ![t] = S] /\ UNCHANGED <<pc, cur>>
    BY <1>2, <2>5 DEF ThreadTypes, OriginsOK, CursorSound
  <2> QED  BY <1>2, <2>1, <2>2, <2>3, <2>4, <2>5
<1>5. \A x \in Runs : Underway(x)' => Sound(x)
  <2>1. CASE Park(t)
    <3>1. cur[t] \in Runs /\ Sound(cur[t])
      BY <2>1 DEF Park, ThreadTypes, OriginsOK, CursorSound
    <3>2. \A x \in Runs : x # cur[t] => wait'[x] = wait[x]
      BY <2>1, <3>1 DEF Park, RunTypes
    <3> QED  BY <1>1, <3>1, <3>2 DEF OriginsOK, RunsSound, Underway
  <2>2. CASE ClaimWait(t) \/ CancelWait(t)
    <3>1. UNCHANGED wait \/ \E x \in Runs, k \in 0..MaxWaits, s \in {"resumed", "cancelled"} :
            wait' = [wait EXCEPT ![x] = [wait[x] EXCEPT ![k] = s]]
      <4>1. CASE ClaimWait(t)
        <5>1. \A w \in todo[t] : w[1] \in Runs /\ w[2] \in 0..MaxWaits
          BY DEF ThreadTypes
        <5> QED  BY <4>1, <5>1 DEF ClaimWait
      <4>2. CASE CancelWait(t)
        <5>1. cur[t] \in Runs /\ slot[t] \in 0..MaxWaits
          BY <4>2 DEF CancelWait, ThreadTypes
        <5> QED  BY <4>2, <5>1 DEF CancelWait
      <4> QED  BY <2>2, <4>1, <4>2
    <3>2. \A y \in Runs, j \in Slots : wait'[y][j] = "pending" => wait[y][j] = "pending"
      <4>1. CASE UNCHANGED wait
        BY <4>1
      <4>2. ASSUME NEW x \in Runs, NEW k \in 0..MaxWaits, NEW s \in {"resumed", "cancelled"},
                   wait' = [wait EXCEPT ![x] = [wait[x] EXCEPT ![k] = s]]
            PROVE  \A y \in Runs, j \in Slots : wait'[y][j] = "pending" => wait[y][j] = "pending"
        <5>1. \A j \in Slots : [wait[x] EXCEPT ![k] = s][j] = "pending" => wait[x][j] = "pending"
          BY DEF RunTypes
        <5> QED  BY <4>2, <5>1 DEF RunTypes
      <4> QED  BY <3>1, <4>1, <4>2
    <3> QED  BY <1>1, <3>2 DEF OriginsOK, RunsSound, Underway
  <2>3. CASE ~ (Park(t) \/ ClaimWait(t) \/ CancelWait(t))
    <3>1. UNCHANGED wait
      <4>1. CASE Early
        BY <4>1 DEF Judge, Skip, Claim, Finish, Count, CheckDisable, AutoDisable, CounterFails, Mark,
           runVars
      <4>2. CASE Late
        BY <2>3, <4>2 DEF ClaimWaitFails, Resume, ResumeCancels, ResumeLoses, CancelRun,
           StatementFails, runVars
      <4> QED  BY <1>0, <4>1, <4>2
    <3> QED  BY <1>1, <3>1 DEF OriginsOK, RunsSound, Underway
  <2> QED  BY <2>1, <2>2, <2>3
<1>6. \A u \in Threads : \A w \in todo'[u] : Known(w[1][2])
  BY <1>4 DEF OriginsOK, TodoKnown
<1>7. \A d \in Consumers : (\A e \in inbox'[d] : Known(e)) /\ (pc'[d] # "idle" => inbox'[d] # {})
  BY <1>1, <1>4 DEF OriginsOK, InboxKnown, Threads
<1> QED  BY <1>1, <1>4, <1>5, <1>6, <1>7, OriginsMove DEF OriginsOK, EntriesKnown, traceVars

(* A walk may bring one event into being, with the truth about it. *)
LEMMA WalkOrigins ==
  ASSUME OriginsCarried, AutomationInv, OriginsOK, NEW t \in Threads, Walk(t)
  PROVE  OriginsOK'
<1> USE DEF AutomationInv, TypeOK
<1> DEFINE x == cur[t]
<1>1. x \in Runs /\ pc[t] = "walk" /\ Sound(x)
  BY DEF Walk, ThreadTypes, OriginsOK, CursorSound
<1>2. /\ walked' = [walked EXCEPT ![x] = @ + 1] /\ pc' = [pc EXCEPT ![t] = "finish"]
      /\ UNCHANGED <<wait, inbox, todo, cur>>
  BY DEF Walk, Goto
<1>3. \A y \in Runs : Underway(y)' => Underway(y) \/ y = x
  BY <1>1, <1>2 DEF Underway, RunTypes
<1>4. \A y \in Runs : Underway(y)' => Sound(y)
  BY <1>1, <1>3 DEF OriginsOK, RunsSound
<1>5. \A u \in Threads : pc'[u] \notin {"idle", "rules"} => Sound(cur[u])
  BY <1>1, <1>2 DEF OriginsOK, CursorSound, ThreadTypes
<1>6. \A d \in Consumers : (\A e \in inbox'[d] : Known(e)) /\ (pc'[d] # "idle" => inbox'[d] # {})
  BY <1>1, <1>2 DEF OriginsOK, InboxKnown, ThreadTypes, Threads
<1>7. CASE UNCHANGED streamVars
  BY <1>2, <1>4, <1>5, <1>6, <1>7, OriginsMove
  DEF OriginsOK, EntriesKnown, TodoKnown, streamVars, traceVars
<1>8. CASE Emit(x)
  <2> DEFINE unused == {e \in Events \ (People \cup Timed) : maker[e] = None}
  <2>1. First(unused) \in unused
    <3>1. unused # {} /\ unused \subseteq Nat
      BY <1>8, AutomationAssumption DEF Emit
    <3> HIDE DEF unused
    <3> QED  BY <3>1, FirstIsMember
  <2>2. x[1] \in Rules /\ x[2] \in Events
    BY <1>1 DEF Runs
  <2>3. Writes[x[1]] = "contact"
    BY <1>8, <2>2, AutomationAssumption DEF Emit, OriginsCarried
  <2>4. PICK n \in unused : /\ entry' = [entry EXCEPT ![n] = "queued"]
                            /\ origin' = [origin EXCEPT ![n] = x[1]]
                            /\ depth' = [depth EXCEPT ![n] = depth[x[2]] + 1]
                            /\ maker' = [maker EXCEPT ![n] = x[1]]
                            /\ chain' = [chain EXCEPT ![n] = chain[x[2]] + 1]
    BY <1>8, <2>1, <2>3 DEF Emit
  <2>5. n \in Events /\ ~ Known(n)
    BY DEF Known
  <2>6. /\ \A e \in Events : e # n => /\ origin'[e] = origin[e] /\ depth'[e] = depth[e]
                                      /\ maker'[e] = maker[e] /\ chain'[e] = chain[e]
                                      /\ entry'[e] = entry[e]
        /\ origin'[n] = x[1] /\ maker'[n] = x[1]
        /\ depth'[n] = depth[x[2]] + 1 /\ chain'[n] = chain[x[2]] + 1
    BY <2>4, <2>5 DEF StreamTypes
  <2>7. \A e \in Events : Known(e) => Known(e)' /\ e # n
    BY <2>5, <2>6 DEF Known
  <2>8. Known(n)'
    BY <2>2, <2>6, AutomationAssumption DEF Known
  <2>9. \A y \in Runs : Sound(y) => Sound(y)'
    <3>1. \A y \in Runs : y[2] \in Events
      BY DEF Runs
    <3> QED  BY <2>6, <2>7, <3>1 DEF Sound, Loops
  <2>10. Truthful'
    BY <2>2, <2>6 DEF OriginsOK, Truthful
  <2>11. EntriesKnown'
    BY <2>6, <2>7, <2>8 DEF OriginsOK, EntriesKnown
  <2>12. InboxKnown'
    BY <1>6, <1>2, <2>7 DEF InboxKnown, StreamTypes
  <2>13. TodoKnown'
    <3>1. \A u \in Threads : \A w \in todo[u] : w[1][2] \in Events
      BY DEF ThreadTypes, Runs
    <3> QED  BY <1>2, <2>7, <3>1 DEF OriginsOK, TodoKnown
  <2>14. CursorSound'
    <3>1. \A u \in Threads : pc'[u] \notin {"idle", "rules"} => cur[u] \in Runs
      BY <1>1, <1>2 DEF ThreadTypes
    <3> QED  BY <1>2, <1>5, <2>9, <3>1 DEF CursorSound
  <2>15. RunsSound'
    BY <1>4, <2>9 DEF RunsSound
  <2> QED  BY <2>10, <2>11, <2>12, <2>13, <2>14, <2>15 DEF OriginsOK
<1> QED  BY <1>7, <1>8 DEF Walk

(* Loop protection in the engine (runRule): if every action passes the        *)
(* origin of its event on, no rule ever walks on an event it caused itself,   *)
(* and no chain of rules goes past the maximal depth, whatever the number of  *)
(* rules, however they trigger one another and however often events are       *)
(* delivered.                                                                 *)
THEOREM ChainsAreCut ==
  ASSUME OriginsCarried
  PROVE  Spec => []LoopsStop
<1>1. Init => OriginsOK
  BY DEF Init, OriginsOK, Truthful, EntriesKnown, InboxKnown, TodoKnown, CursorSound, RunsSound,
     Underway, Known, Threads
<1>2. AutomationInv /\ OriginsOK /\ [Next]_vars => OriginsOK'
  <2> SUFFICES ASSUME AutomationInv, OriginsOK, [Next]_vars  PROVE OriginsOK'
    OBVIOUS
  <2>1. ASSUME NEW c \in Consumers, ConsumerStep(c)  PROVE OriginsOK'
    BY <2>1, ConsumerOrigins
  <2>2. ASSUME NEW t \in Threads, RuleStep(t)  PROVE OriginsOK'
    BY <2>2, RuleOrigins, WalkOrigins
  <2>3. ASSUME NEW t \in Threads, RunTimeTriggers(t) \/ ResumeWaits(t) \/ EndTick(t) \/ Crash(t)
        PROVE OriginsOK'
    BY <2>3, OtherOrigins
  <2>4. ASSUME \/ \E r \in Rules : EditRule(r)
               \/ \E x \in Runs : PruneRun(x)
               \/ \E e \in Events : Duplicate(e)
               \/ UNCHANGED vars
        PROVE OriginsOK'
    BY <2>4, OtherOrigins
  <2> QED  BY <2>1, <2>2, <2>3, <2>4 DEF Next
<1>3. Spec => []OriginsOK
  BY <1>1, <1>2, AutomationInvariant, PTL DEF Spec
<1>4. AutomationInv /\ OriginsOK => LoopsStop
  <2> SUFFICES ASSUME AutomationInv, OriginsOK, NEW x \in Runs, walked[x] > 0
               PROVE  maker[x[2]] # x[1] /\ chain[x[2]] < MaxDepth
    BY DEF LoopsStop
  <2>1. ~ Loops(x) /\ x[2] \in Events
    BY DEF OriginsOK, RunsSound, Underway, Sound, Runs
  <2>2. maker[x[2]] # x[1] /\ ~ (chain[x[2]] >= MaxDepth) /\ chain[x[2]] \in Nat
    BY <2>1 DEF Loops, OriginsOK, Truthful, AutomationInv, TypeOK, StreamTypes
  <2> QED  BY <2>2, AutomationAssumption
<1> QED  BY <1>3, <1>4, AutomationInvariant, PTL
=============================================================================
