----------------------------- MODULE Scheduler -----------------------------
(***************************************************************************)
(* The leader lock of internal/scheduler.  Every replica loops over every  *)
(* job; a tick takes a Redis lock that lives as long as the job's timeout, *)
(* runs the job, records the outcome in two keys and releases the lock.    *)
(*                                                                         *)
(* Time passes in units for all locks and runs alike.  A run's context is  *)
(* cancelled after its timeout, but nothing makes the job return then, nor *)
(* does a slow reply to SETNX delay the lock's expiry, so a run may take   *)
(* any time.  A replica that restarts has a new InstanceID: the locks it   *)
(* held belong to nobody.                                                  *)
(***************************************************************************)
EXTENDS Integers

CONSTANTS Jobs, Replicas,
          Timeout,    \* [Jobs -> Nat]: bound on a run and life of its lock
          MaxCrashes, \* bound on replicas that die
          MaxErrors,  \* bound on Redis calls that fail
          Free,       \* the lock is free
          Gone        \* the lock is held by an instance that no longer exists

ASSUME SchedulerAssumption ==
  /\ Timeout \in [Jobs -> Nat \ {0}]
  /\ Free # Gone /\ Free \notin Replicas /\ Gone \notin Replicas
  /\ MaxCrashes \in Nat /\ MaxErrors \in Nat

VARIABLES
  lock,     \* [Jobs -> Replicas \cup {Free, Gone}]: the value of lockKey
  ttl,      \* [Jobs -> Nat]: what is left of the lock's life, 0 when it has none
  pc,       \* [Replicas -> [Jobs -> where RunOnce stands]]
  age,      \* [Replicas -> [Jobs -> time since the lock was taken, up to Timeout]]
  failed,   \* [Replicas -> [Jobs -> BOOLEAN]]: runErr # nil
  lastErr,  \* [Jobs -> BOOLEAN]: lastErrKey is set
  crashes, errors,
  lastRun,  \* history, per job: how the run that wrote lastRunKey last ended
  overran   \* history, per job: some run outlived its lock

vars == <<lock, ttl, pc, age, failed, lastErr, crashes, errors, lastRun, overran>>

Init == /\ lock = [j \in Jobs |-> Free]
        /\ ttl = [j \in Jobs |-> 0]
        /\ pc = [r \in Replicas |-> [j \in Jobs |-> "idle"]]
        /\ age = [r \in Replicas |-> [j \in Jobs |-> 0]]
        /\ failed = [r \in Replicas |-> [j \in Jobs |-> FALSE]]
        /\ lastErr = [j \in Jobs |-> FALSE]
        /\ crashes = 0 /\ errors = 0
        /\ lastRun = [j \in Jobs |-> FALSE]
        /\ overran = [j \in Jobs |-> FALSE]

NoFault == UNCHANGED <<crashes, errors>>
Error == errors < MaxErrors /\ errors' = errors + 1 /\ UNCHANGED crashes

Goto(r, j, l) == pc' = [pc EXCEPT ![r][j] = l]

(* Mutant: SETNX without an expiration. *)
SetNXForever(r, j) == lock' = [lock EXCEPT ![j] = r] /\ UNCHANGED ttl

SetNX(r, j) == /\ lock' = [lock EXCEPT ![j] = r]
               /\ ttl' = [ttl EXCEPT ![j] = Timeout[j]]

(* Mutant: SET instead of SETNX. *)
AcquireAnyway(r, j) ==
  /\ pc[r][j] = "idle"
  /\ SetNX(r, j)
  /\ Goto(r, j, "run")
  /\ NoFault
  /\ UNCHANGED <<age, failed, lastErr, lastRun, overran>>

(* acquire.  A tick that finds the lock taken changes nothing. *)
Acquire(r, j) ==
  /\ pc[r][j] = "idle" /\ lock[j] = Free
  /\ SetNX(r, j)
  /\ Goto(r, j, "run")
  /\ NoFault
  /\ UNCHANGED <<age, failed, lastErr, lastRun, overran>>

(* The reply to SETNX is lost: the replica does not know that it has the lock. *)
AcquireFails(r, j) ==
  /\ pc[r][j] = "idle" /\ lock[j] = Free
  /\ SetNX(r, j)
  /\ Error
  /\ UNCHANGED <<pc, age, failed, lastErr, lastRun, overran>>

(* job.Run returns. *)
EndRun(r, j) ==
  /\ pc[r][j] = "run"
  /\ \E f \in BOOLEAN : failed' = [failed EXCEPT ![r][j] = f]
  /\ Goto(r, j, "stamp")
  /\ NoFault
  /\ UNCHANGED <<lock, ttl, age, lastErr, lastRun, overran>>

(* recordOutcome sets the time of the run ... *)
Stamp(r, j) ==
  /\ pc[r][j] = "stamp"
  /\ \/ lastRun' = [lastRun EXCEPT ![j] = failed[r][j]] /\ NoFault
     \/ UNCHANGED lastRun /\ Error
  /\ Goto(r, j, "note")
  /\ UNCHANGED <<lock, ttl, age, failed, lastErr, overran>>

(* Mutant: a good run does not clear the error of the one before. *)
NoteOnlyErrors(r, j) ==
  /\ pc[r][j] = "note"
  /\ lastErr' = [lastErr EXCEPT ![j] = @ \/ failed[r][j]] /\ NoFault
  /\ Goto(r, j, "release")
  /\ UNCHANGED <<lock, ttl, age, failed, lastRun, overran>>

(* ... and sets or clears its error; both calls ignore their own errors. *)
Note(r, j) ==
  /\ pc[r][j] = "note"
  /\ \/ lastErr' = [lastErr EXCEPT ![j] = failed[r][j]] /\ NoFault
     \/ UNCHANGED lastErr /\ Error
  /\ Goto(r, j, "release")
  /\ UNCHANGED <<lock, ttl, age, failed, lastRun, overran>>

(* Mutant: a plain DEL. *)
DeleteAny(r, j) == /\ lock' = [lock EXCEPT ![j] = Free]
                   /\ ttl' = [ttl EXCEPT ![j] = 0]

(* releaseScript: delete the lock if this replica still owns it. *)
DeleteOwn(r, j) ==
  IF lock[j] = r THEN /\ lock' = [lock EXCEPT ![j] = Free]
                      /\ ttl' = [ttl EXCEPT ![j] = 0]
                 ELSE UNCHANGED <<lock, ttl>>

Release(r, j) ==
  /\ pc[r][j] = "release"
  /\ \/ DeleteOwn(r, j) /\ NoFault
     \/ UNCHANGED <<lock, ttl>> /\ Error
  /\ Goto(r, j, "idle")
  /\ age' = [age EXCEPT ![r][j] = 0]
  /\ failed' = [failed EXCEPT ![r][j] = FALSE]
  /\ UNCHANGED <<lastErr, lastRun, overran>>

(* Time passes: Redis expires locks, runs grow older. *)
Expires(j) == ttl[j] = 1

Tick ==
  /\ lock' = [j \in Jobs |-> IF Expires(j) THEN Free ELSE lock[j]]
  /\ ttl' = [j \in Jobs |-> IF ttl[j] = 0 THEN 0 ELSE ttl[j] - 1]
  /\ age' = [r \in Replicas |-> [j \in Jobs |->
               IF pc[r][j] # "idle" /\ age[r][j] < Timeout[j] THEN age[r][j] + 1 ELSE age[r][j]]]
  /\ overran' = [j \in Jobs |-> overran[j] \/ (Expires(j) /\ \E r \in Replicas : lock[j] = r /\ pc[r][j] # "idle")]
  /\ NoFault
  /\ UNCHANGED <<pc, failed, lastErr, lastRun>>

(* A replica dies, and comes back as a new instance. *)
Crash(r) ==
  /\ crashes < MaxCrashes /\ crashes' = crashes + 1 /\ UNCHANGED errors
  /\ pc' = [pc EXCEPT ![r] = [j \in Jobs |-> "idle"]]
  /\ lock' = [j \in Jobs |-> IF lock[j] = r THEN Gone ELSE lock[j]]
  /\ age' = [age EXCEPT ![r] = [j \in Jobs |-> 0]]
  /\ failed' = [failed EXCEPT ![r] = [j \in Jobs |-> FALSE]]
  /\ UNCHANGED <<ttl, lastErr, lastRun, overran>>

RunOnce(r, j) == \/ Acquire(r, j) \/ AcquireFails(r, j) \/ EndRun(r, j)
                 \/ Stamp(r, j) \/ Note(r, j) \/ Release(r, j)

Next == \/ \E r \in Replicas, j \in Jobs : RunOnce(r, j)
        \/ \E r \in Replicas : Crash(r)
        \/ Tick

Spec == Init /\ [][Next]_vars

(* Time passes, and every loop of every replica keeps ticking. *)
FairSpec == /\ Spec
            /\ WF_vars(Tick)
            /\ \A r \in Replicas, j \in Jobs : WF_vars(RunOnce(r, j))

-----------------------------------------------------------------------------
Pcs == {"idle", "run", "stamp", "note", "release"}

TypeOK == /\ lock \in [Jobs -> Replicas \cup {Free, Gone}]
          /\ ttl \in [Jobs -> Nat]
          /\ \A j \in Jobs : lock[j] = Free <=> ttl[j] = 0
          /\ pc \in [Replicas -> [Jobs -> Pcs]]
          /\ age \in [Replicas -> [Jobs -> Nat]]
          /\ failed \in [Replicas -> [Jobs -> BOOLEAN]]
          /\ lastErr \in [Jobs -> BOOLEAN]
          /\ lastRun \in [Jobs -> BOOLEAN]
          /\ overran \in [Jobs -> BOOLEAN]
          /\ crashes \in 0..MaxCrashes /\ errors \in 0..MaxErrors

(* The replica is at the job, within the lock's life. *)
Leads(r, j) == pc[r][j] # "idle" /\ age[r][j] < Timeout[j]

(* The leader lock: of the replicas that are at a job, at most one has not    *)
(* outlived its lock, and that one's lock is there.  A run that overran its   *)
(* timeout never takes the lock away from the replica that has it now.        *)
OneLeader ==
  \A j \in Jobs, r \in Replicas : Leads(r, j) =>
    /\ lock[j] = r
    /\ \A s \in Replicas : Leads(s, j) => s = r

(* Two replicas are at one job at the same time only once a run has overrun.  *)
OverlapNeedsOverrun ==
  \A j \in Jobs : ~ overran[j] =>
    \A r, s \in Replicas : pc[r][j] # "idle" /\ pc[s][j] # "idle" => r = s

(* LastError tells how the last run ended, when no run of the job overlapped  *)
(* another and no call failed: a run's two keys are of the same run.          *)
LastErrorIsOfLastRun ==
  \A j \in Jobs : ~ overran[j] /\ crashes + errors = 0 =>
    lastErr[j] = lastRun[j] \/ \E r \in Replicas : pc[r][j] = "note"

(* The runs of a job follow each other, and the keys tell of the last of them, *)
(* as long as every run returns within its timeout (RunOnce, recordOutcome).   *)
RunsAreOrderly == OverlapNeedsOverrun /\ LastErrorIsOfLastRun

(* Whoever dies or hangs on to the lock, the job is run again and again.      *)
JobKeepsRunning == \A j \in Jobs : []<>(\E r \in Replicas : pc[r][j] = "run")
=============================================================================
