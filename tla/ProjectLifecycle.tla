---------------------------- MODULE ProjectLifecycle ----------------------------
(***************************************************************************)
(* The lifecycle of one project of the control plane: pause, resume,       *)
(* scheduled deletion with its grace period, cancel, the hard delete and   *)
(* its teardown steps, the backup purge retry, deletion protection and the *)
(* operator's force drop.                                                  *)
(*                                                                         *)
(* Every run is one call of one of those operations in some replica.  A    *)
(* run is a sequence of calls to the store, to the cluster and to the      *)
(* lease; each call is one step here, so the steps of different runs       *)
(* interleave exactly where the code can be overtaken.  A run keeps in     *)
(* memory the copy of the row it read (mem), and writes that whole copy    *)
(* back.                                                                   *)
(***************************************************************************)
EXTENDS InstanceStore

CONSTANTS
  Runs,              \* calls that may be in flight at once, over all replicas
  NoRun,             \* the lease is free
  Ops,               \* the operations callers make, a subset of AllOps
  BackupsConfigured, \* the project has somewhere to write a backup
  LeaseMayBeLost,    \* the session holding the advisory lock may die under a run
  Grace,             \* DeletionGracePeriod, in clock ticks
  Retention,         \* RetainedBackupPeriod, in clock ticks
  MaxTime,           \* bound on the clock
  MaxCrashes         \* bound on crashed runs

AllOps == {"pause", "resume", "delete", "cancel", "sweep", "purge", "protect",
           "force", "retention"}

ASSUME RunsAssumption  == NoRun \notin Runs
ASSUME OpsAssumption   == Ops \subseteq AllOps
ASSUME FlagsAssumption == BackupsConfigured \in BOOLEAN /\ LeaseMayBeLost \in BOOLEAN
ASSUME TimeAssumption  == /\ Grace \in Nat \ {0} /\ Retention \in Nat \ {0}
                          /\ MaxTime \in Nat /\ MaxCrashes \in Nat

VARIABLES
  row,        \* the project's row, GoneRow once it is deleted
  lease,      \* the run holding the project's lifecycle lease, or NoRun
  pc,         \* where each run is
  mem,        \* the copy of the row each run works from
  job,        \* what each run was asked to do
  hibernate,  \* the cluster is told to be stopped (the hibernation annotation)
  pods,       \* a database pod exists
  repl,       \* the replication watcher is installed
  endpoint,   \* the public database endpoint answers
  serving,    \* what else of the project answers: apps, function runtime, sites
  left,       \* what a teardown has still to remove
  retained,   \* purge date of the kept backups, 0 when none is recorded
  now,        \* the clock
  crashes     \* runs that died so far

control == <<lease, pc, mem, job>>
world   == <<hibernate, pods, repl, endpoint, serving, left, retained>>
env     == <<now, crashes>>
vars    == <<row, control, world, env>>

--------------------------------------------------------------------------------
(* Labels.  A run is at a label of Leased exactly while it believes it     *)
(* holds the project's lease.                                              *)

PauseRunning  == {"backup", "pollBackup", "stopReplication", "stopWorkload",
                  "awaitStopped", "repairReplication", "withdraw", "markPaused",
                  "failPause", "failBackup"}
ResumeRunning == {"startWorkload", "awaitReady", "restartReplication", "publish",
                  "markActive", "failResume"}
CancelRunning == {"restartRuntime", "routeSites", "writeCancel", "unrouteSites"}
Leased == PauseRunning \cup ResumeRunning \cup CancelRunning
          \cup {"admitPause", "enterPausing", "admitResume", "enterResuming",
                "readMark", "stopAgain", "markPending", "readChoice",
                "writeChoice", "readCancel", "recheck", "beginDeletion",
                "reread", "teardown"}
Labels == Leased \cup {"idle", "admitDeletion", "stopWorkloads", "holdPause",
                       "holdMark", "holdChoice", "holdDeletion", "purge",
                       "purgeDelete", "writeProtection", "clearProtection"}

Services == {"apps", "runtime", "sites"}

\* What a teardown removes.
Resources == {"endpoint", "s3keys", "sites", "schedule", "nats", "workloads",
              "database", "logs", "backups", "objects", "apps", "vault"}

\* Its steps: one for each resource, one that dates kept backups, and the row.
DeletionSteps == Resources \cup {"retain", "record"}

\* The order of the steps: each with the one that follows it.
StepAfter ==
  [endpoint  |-> "s3keys",   s3keys   |-> "sites",  sites   |-> "schedule",
   schedule  |-> "nats",     nats     |-> "workloads",
   workloads |-> "database", database |-> "logs",   logs    |-> "backups",
   backups   |-> "objects",  objects  |-> "apps",   apps    |-> "retain",
   retain    |-> "vault",    vault    |-> "record"]

FirstStep == "endpoint"

Jobs == [kind   : AllOps \cup {"none"},
         choice : Choices,              \* DeprovisionOptions.DeleteBackups
         dueAt  : Nat,                  \* DeprovisionOptions.dueAt, 0 when nil
         step   : DeletionSteps]

NoJob == [kind |-> "none", choice |-> "unset", dueAt |-> 0, step |-> FirstStep]

--------------------------------------------------------------------------------
(* How a run moves.                                                        *)

Goto(r, label) ==
  /\ pc' = [pc EXCEPT ![r] = label]
  /\ UNCHANGED <<lease, mem, job>>

\* FindByProjectID: the run works from this copy from now on.
Read(r, label) ==
  /\ mem' = [mem EXCEPT ![r] = row]
  /\ pc' = [pc EXCEPT ![r] = label]
  /\ UNCHANGED <<lease, job>>

\* A whole-row write: the run's copy is what the row now is.
Write(r, new, label) ==
  /\ row' = new
  /\ mem' = [mem EXCEPT ![r] = new]
  /\ pc' = [pc EXCEPT ![r] = label]
  /\ UNCHANGED <<lease, job>>

\* Mutant: the claimer does not look whether the project is held.
ClaimMutant(r) == lease' = r

\* The lifecycle lease: one holder per project.
Claim(r) == lease = NoRun /\ lease' = r

\* Releasing a lease the session already lost gives nothing back.
Release(r) == lease' = IF lease = r THEN NoRun ELSE lease

\* The call returns, releasing the lease if it holds it.
Finish(r) ==
  /\ pc' = [pc EXCEPT ![r] = "idle"]
  /\ mem' = [mem EXCEPT ![r] = GoneRow]
  /\ job' = [job EXCEPT ![r] = NoJob]
  /\ Release(r)

\* A call of one operation starts at a label.
Call(r, kind, label) ==
  /\ pc[r] = "idle" /\ kind \in Ops
  /\ job' = [job EXCEPT ![r].kind = kind]
  /\ pc' = [pc EXCEPT ![r] = label]
  /\ UNCHANGED mem

--------------------------------------------------------------------------------
(* Pause: lease, PAUSING, backup, replication off, workload observed       *)
(* stopped, endpoint withdrawn, PAUSED.                                    *)

\* Pause and StartPause take the lease first; a held project is refused.
Pause(r) ==
  /\ Call(r, "pause", "admitPause") /\ Claim(r)
  /\ UNCHANGED <<row, world>>

Pausable(status) == status \in {"ACTIVE", "PAUSING"}

\* The stop is over: a scheduled deletion goes on to mark the project, after
\* the pause has released its lease.
AfterStop(r) ==
  IF job[r].kind = "delete"
  THEN /\ pc' = [pc EXCEPT ![r] = "holdMark"]
       /\ mem' = [mem EXCEPT ![r] = GoneRow]
       /\ Release(r)
       /\ UNCHANGED job
  ELSE Finish(r)

AdmitPause(r) ==
  /\ pc[r] = "admitPause"
  /\ CASE Pausable(row.status) -> Read(r, "enterPausing")
       [] row.status = Gone \/ IsDeletionStatus(row.status) -> Finish(r)
       [] OTHER -> AfterStop(r)
  /\ UNCHANGED <<row, world>>

\* The first write of a pause is not pinned to the status it read.
EnterPausing(r) ==
  /\ pc[r] = "enterPausing"
  /\ IF Updatable(row)
     THEN Write(r, [mem[r] EXCEPT !.status = "PAUSING"], "backup")
     ELSE Finish(r) /\ UNCHANGED row
  /\ UNCHANGED world

\* awaitPrePauseBackup up to its wait: nothing to take, the episode's backup
\* is reused, or a fresh one is triggered and recorded before it is awaited.
PrePauseBackup(r) ==
  /\ pc[r] = "backup"
  /\ \/ ~BackupsConfigured /\ Goto(r, "stopReplication") /\ UNCHANGED row
     \/ BackupsConfigured /\ mem[r].episode /\ Goto(r, "pollBackup") /\ UNCHANGED row
     \/ BackupsConfigured /\ UpdatableFrom(row, "PAUSING")
        /\ Write(r, [mem[r] EXCEPT !.episode = TRUE], "pollBackup")
     \/ /\ BackupsConfigured  \* triggered, but not recorded
        /\ mem' = [mem EXCEPT ![r].episode = TRUE]
        /\ pc' = [pc EXCEPT ![r] = "failBackup"]
        /\ UNCHANGED <<row, lease, job>>
     \/ Goto(r, "failBackup") /\ UNCHANGED row
  /\ UNCHANGED world

\* The backup is observed COMPLETED, or the wait ends as an error.
PollBackup(r) ==
  /\ pc[r] = "pollBackup"
  /\ Goto(r, "stopReplication") \/ Goto(r, "failBackup")
  /\ UNCHANGED <<row, world>>

StopReplication(r) ==
  /\ pc[r] = "stopReplication"
  /\ \/ Goto(r, "stopWorkload") /\ repl' = FALSE
     \/ Goto(r, "failPause") /\ repl' \in {repl, FALSE}
  /\ UNCHANGED <<row, hibernate, pods, endpoint, serving, left, retained>>

\* The provisioner asks for hibernation; a write reported as failed may have
\* reached the cluster.
StopWorkload(r) ==
  /\ pc[r] = "stopWorkload"
  /\ \/ Goto(r, "awaitStopped") /\ hibernate' = TRUE
     \/ Goto(r, "repairReplication") /\ hibernate' \in {hibernate, TRUE}
  /\ UNCHANGED <<row, pods, repl, endpoint, serving, left, retained>>

\* The wait ends when no database pod is left, or times out.
AwaitStopped(r) ==
  /\ pc[r] = "awaitStopped"
  /\ \/ ~pods /\ Goto(r, "withdraw")
     \/ Goto(r, "repairReplication")
  /\ UNCHANGED <<row, world>>

\* A pause that could not stop the workload puts its watcher back.
RepairReplication(r) ==
  /\ pc[r] = "repairReplication"
  /\ Goto(r, "failPause")
  /\ repl' \in {repl, TRUE}
  /\ UNCHANGED <<row, hibernate, pods, endpoint, serving, left, retained>>

WithdrawEndpoint(r) ==
  /\ pc[r] = "withdraw"
  /\ \/ Goto(r, "markPaused") /\ endpoint' = FALSE
     \/ Goto(r, "failPause") /\ endpoint' \in {endpoint, FALSE}
  /\ UNCHANGED <<row, hibernate, pods, repl, serving, left, retained>>

MarkPaused(r) ==
  /\ pc[r] = "markPaused"
  /\ IF UpdatableFrom(row, "PAUSING")
     THEN /\ row' = [mem[r] EXCEPT !.status = "PAUSED", !.episode = FALSE]
          /\ AfterStop(r)
     ELSE Finish(r) /\ UNCHANGED row
  /\ UNCHANGED world

\* Mutant: a failed pause keeps its lease.
FailPauseMutant(r) ==
  /\ pc[r] = "failPause"
  /\ row' = IF UpdatableFrom(row, "PAUSING") THEN mem[r] ELSE row
  /\ pc' = [pc EXCEPT ![r] = "idle"]
  /\ UNCHANGED <<lease, mem, job, world>>

\* The row stays PAUSING with the failing step; a retry starts from the top.
FailPause(r) ==
  /\ pc[r] = "failPause"
  /\ row' = IF UpdatableFrom(row, "PAUSING") THEN mem[r] ELSE row
  /\ Finish(r)
  /\ UNCHANGED world

\* A pause that stopped at its backup goes back to ACTIVE.
FailBackup(r) ==
  /\ pc[r] = "failBackup"
  /\ row' = IF UpdatableFrom(row, "PAUSING")
            THEN [mem[r] EXCEPT !.status = "ACTIVE"] ELSE row
  /\ Finish(r)
  /\ UNCHANGED world

--------------------------------------------------------------------------------
(* Resume: lease, RESUMING, workload observed ready, replication on,       *)
(* endpoint published, ACTIVE.                                             *)

Resume(r) ==
  /\ Call(r, "resume", "admitResume") /\ Claim(r)
  /\ UNCHANGED <<row, world>>

\* PAUSING is resumable only over a workload observed stopped.
Resumable == row.status \in {"PAUSED", "RESUMING"} \/ (row.status = "PAUSING" /\ ~pods)

AdmitResume(r) ==
  /\ pc[r] = "admitResume"
  /\ \/ Resumable /\ Read(r, "enterResuming")
     \/ ~Resumable /\ Finish(r)
     \/ row.status = "PAUSING" /\ Finish(r)  \* the workload could not be read
  /\ UNCHANGED <<row, world>>

EnterResuming(r) ==
  /\ pc[r] = "enterResuming"
  /\ IF Updatable(row)
     THEN Write(r, [mem[r] EXCEPT !.status = "RESUMING"], "startWorkload")
     ELSE Finish(r) /\ UNCHANGED row
  /\ UNCHANGED world

StartWorkload(r) ==
  /\ pc[r] = "startWorkload"
  /\ \/ Goto(r, "awaitReady") /\ hibernate' = FALSE
     \/ Goto(r, "failResume") /\ hibernate' \in {hibernate, FALSE}
  /\ UNCHANGED <<row, pods, repl, endpoint, serving, left, retained>>

AwaitReady(r) ==
  /\ pc[r] = "awaitReady"
  /\ \/ pods /\ Goto(r, "restartReplication")
     \/ Goto(r, "failResume")
  /\ UNCHANGED <<row, world>>

RestartReplication(r) ==
  /\ pc[r] = "restartReplication"
  /\ \/ Goto(r, "publish") /\ repl' = TRUE
     \/ Goto(r, "failResume") /\ repl' \in {repl, TRUE}
  /\ UNCHANGED <<row, hibernate, pods, endpoint, serving, left, retained>>

\* Mutant: a failed publish is only logged.
PublishEndpointMutant(r) ==
  /\ pc[r] = "publish"
  /\ Goto(r, "markActive") /\ endpoint' \in BOOLEAN
  /\ UNCHANGED <<row, hibernate, pods, repl, serving, left, retained>>

PublishEndpoint(r) ==
  /\ pc[r] = "publish"
  /\ \/ Goto(r, "markActive") /\ endpoint' = TRUE
     \/ Goto(r, "failResume") /\ endpoint' \in {endpoint, TRUE}
  /\ UNCHANGED <<row, hibernate, pods, repl, serving, left, retained>>

MarkActive(r) ==
  /\ pc[r] = "markActive"
  /\ row' = IF UpdatableFrom(row, "RESUMING")
            THEN [mem[r] EXCEPT !.status = "ACTIVE", !.episode = FALSE] ELSE row
  /\ Finish(r)
  /\ UNCHANGED world

FailResume(r) ==
  /\ pc[r] = "failResume"
  /\ row' = IF UpdatableFrom(row, "RESUMING") THEN mem[r] ELSE row
  /\ Finish(r)
  /\ UNCHANGED world

--------------------------------------------------------------------------------
(* Scheduled deletion: stop what the project serves, pause it, mark it     *)
(* PENDING_DELETION until its grace period ends.                           *)

\* ScheduleDeletion and ScheduleDeletionInBackground: no lease yet.
ScheduleDeletion(r, choice) ==
  /\ pc[r] = "idle" /\ "delete" \in Ops
  /\ job' = [job EXCEPT ![r] = [NoJob EXCEPT !.kind = "delete", !.choice = choice]]
  /\ pc' = [pc EXCEPT ![r] = "admitDeletion"]
  /\ UNCHANGED <<row, lease, mem, world>>

\* updatePendingChoice has a write to make.
ChangesChoice(r) == job[r].choice # "unset" /\ (job[r].choice = "delete") # row.deleteBackups

AdmitDeletion(r) ==
  /\ pc[r] = "admitDeletion"
  /\ CASE row.status = Gone -> Finish(r)
       [] row.status = "PENDING_DELETION" ->
            IF ChangesChoice(r) THEN Goto(r, "holdChoice") ELSE Finish(r)
       [] IsDeletionStatus(row.status) -> Goto(r, "holdDeletion")
       [] HoldsCustomerData(row.status) ->
            IF row.protected THEN Finish(r) ELSE Goto(r, "stopWorkloads")
  /\ UNCHANGED <<row, world>>

\* stopWorkloads: the apps and the function runtime go first, then the sites;
\* it may stop with some of the first gone.
Stopped(r, label) ==
  \/ Goto(r, label) /\ serving' = {}
  \/ /\ Finish(r)
     /\ serving' \in {{}} \cup {s \in SUBSET serving : serving \cap {"sites"} \subseteq s}

StopWorkloads(r) ==
  /\ pc[r] = "stopWorkloads"
  /\ Stopped(r, "holdPause")
  /\ UNCHANGED <<row, hibernate, pods, repl, endpoint, left, retained>>

\* A run takes the lease and goes on, or is told the project is busy.
Hold(r, label, next) ==
  /\ pc[r] = label
  /\ \/ /\ Claim(r)
        /\ pc' = [pc EXCEPT ![r] = next]
        /\ UNCHANGED <<mem, job>>
     \/ lease # NoRun /\ Finish(r)
  /\ UNCHANGED <<row, world>>

HoldPause(r)  == Hold(r, "holdPause", "admitPause")
HoldMark(r)   == Hold(r, "holdMark", "readMark")
HoldChoice(r) == Hold(r, "holdChoice", "readChoice")

ReadMark(r) ==
  /\ pc[r] = "readMark"
  /\ IF row.status = SettledStatus /\ ~row.protected
     THEN Read(r, "stopAgain") ELSE Finish(r)
  /\ UNCHANGED <<row, world>>

StopAgain(r) ==
  /\ pc[r] = "stopAgain"
  /\ Stopped(r, "markPending")
  /\ UNCHANGED <<row, hibernate, pods, repl, endpoint, left, retained>>

MarkPendingDeletion(r) ==
  /\ pc[r] = "markPending"
  /\ row' = IF UpdatableFrom(row, SettledStatus)
            THEN [mem[r] EXCEPT !.status = "PENDING_DELETION",
                                !.deleteBackups = (job[r].choice = "delete"),
                                !.due = now + Grace]
            ELSE row
  /\ Finish(r)
  /\ UNCHANGED world

\* A repeated DELETE replaces the recorded choice; the due date stands.
ReadChoice(r) ==
  /\ pc[r] = "readChoice"
  /\ IF row.status = "PENDING_DELETION" THEN Read(r, "writeChoice") ELSE Finish(r)
  /\ UNCHANGED <<row, world>>

UpdatePendingChoice(r) ==
  /\ pc[r] = "writeChoice"
  /\ row' = IF UpdatableFrom(row, "PENDING_DELETION")
            THEN [mem[r] EXCEPT !.deleteBackups = (job[r].choice = "delete")] ELSE row
  /\ Finish(r)
  /\ UNCHANGED world

--------------------------------------------------------------------------------
(* CancelDeletion: the runtime and the sites come back before the write.   *)

CancelDeletion(r) ==
  /\ Call(r, "cancel", "readCancel") /\ Claim(r)
  /\ UNCHANGED <<row, world>>

ReadCancel(r) ==
  /\ pc[r] = "readCancel"
  /\ IF row.status = "PENDING_DELETION" THEN Read(r, "restartRuntime") ELSE Finish(r)
  /\ UNCHANGED <<row, world>>

RestartRuntime(r) ==
  /\ pc[r] = "restartRuntime"
  /\ \/ Goto(r, "routeSites") /\ serving' = serving \cup {"runtime"}
     \/ Finish(r) /\ serving' \in {serving, serving \cup {"runtime"}}
  /\ UNCHANGED <<row, hibernate, pods, repl, endpoint, left, retained>>

\* The plan is read and the sites routed; either may fail.
RouteSites(r) ==
  /\ pc[r] = "routeSites"
  /\ \/ Goto(r, "writeCancel") /\ serving' = serving \cup {"sites"}
     \/ Finish(r) /\ serving' \in {serving, serving \cup {"sites"}}
  /\ UNCHANGED <<row, hibernate, pods, repl, endpoint, left, retained>>

\* UpdateIfStatusWithinOrgLimit lands, or is refused (the organisation has no
\* free slot) and the sites are taken offline again.
WriteCancel(r) ==
  /\ pc[r] = "writeCancel"
  /\ \/ /\ UpdatableFrom(row, "PENDING_DELETION")
        /\ row' = [mem[r] EXCEPT !.status = SettledStatus, !.due = 0,
                                 !.deleteBackups = FALSE, !.protected = TRUE]
        /\ Finish(r)
     \/ Goto(r, "unrouteSites") /\ UNCHANGED row
  /\ UNCHANGED world

UnrouteSites(r) ==
  /\ pc[r] = "unrouteSites"
  /\ Finish(r)
  /\ serving' \in {serving, serving \ {"sites"}}
  /\ UNCHANGED <<row, hibernate, pods, repl, endpoint, left, retained>>

--------------------------------------------------------------------------------
(* The hard delete: claim the row for teardown, run the steps in order,    *)
(* drop the row last.                                                      *)

\* RunDueDeletions lists the project as due; the time it listed it at goes
\* with the request.
RunDueDeletions(r) ==
  /\ pc[r] = "idle" /\ "sweep" \in Ops
  /\ DeletionDue(row, now)
  /\ job' = [job EXCEPT ![r] = [NoJob EXCEPT !.kind = "sweep", !.dueAt = now]]
  /\ pc' = [pc EXCEPT ![r] = "holdDeletion"]
  /\ UNCHANGED <<row, lease, mem, world>>

\* The check before the lease is only an early answer: recheckUnderLease
\* repeats it.
Undeletable == row.status = Gone \/ (~IsDeletionStatus(row.status) /\ row.protected)

HoldDeletion(r) ==
  /\ pc[r] = "holdDeletion" /\ ~Undeletable
  /\ Claim(r)
  /\ pc' = [pc EXCEPT ![r] = "recheck"]
  /\ UNCHANGED <<row, mem, job, world>>

DeletionRefused(r) ==
  /\ pc[r] = "holdDeletion"
  /\ Undeletable \/ lease # NoRun
  /\ Finish(r)
  /\ UNCHANGED <<row, world>>

\* Mutant: the sweep trusts the list it read before it had the lease.
RecheckUnderLeaseMutant(r) ==
  /\ pc[r] = "recheck"
  /\ IF row.status = Gone THEN Finish(r) ELSE Goto(r, "beginDeletion")
  /\ UNCHANGED <<row, world>>

RecheckUnderLease(r) ==
  /\ pc[r] = "recheck"
  /\ IF Undeletable \/ (job[r].dueAt # 0 /\ ~DeletionDue(row, job[r].dueAt))
     THEN Finish(r) ELSE Goto(r, "beginDeletion")
  /\ UNCHANGED <<row, world>>

\* The backup choice the claim puts in force, which the steps go by.
InForce(rw, choice) == IF EffectiveBackupIntent(rw, choice) THEN "delete" ELSE "keep"

BeginDeletion(r) ==
  /\ pc[r] = "beginDeletion"
  /\ IF row.status = Gone \/ PurgeAlreadyConfirmed(row, job[r].choice)
     THEN Finish(r) /\ UNCHANGED row
     ELSE /\ row' = Claimed(row, job[r].choice)
          /\ job' = [job EXCEPT ![r].choice = InForce(row, @)]
          /\ pc' = [pc EXCEPT ![r] = "reread"]
          /\ UNCHANGED <<lease, mem>>
  /\ UNCHANGED world

\* The teardown works from the claimed row, if it is still there.
ReadClaimed(r) ==
  /\ pc[r] = "reread"
  /\ IF row.status = Gone THEN Finish(r) ELSE Goto(r, "teardown")
  /\ UNCHANGED <<row, world>>

\* Mutant: the backups go whatever was decided.
SkippedMutant(step, choice) == step = "retain"

\* deletionSteps leaves a step out: kept backups are not deleted, and deleted
\* ones are not dated.
Skipped(step, choice) ==
  \/ step = "backups" /\ choice # "delete"
  \/ step = "retain" /\ choice = "delete"

\* Mutant: leaving a step out takes the one after it along.
NextStepMutant(step, choice) ==
  IF Skipped(StepAfter[step], choice)
  THEN StepAfter[StepAfter[StepAfter[step]]] ELSE StepAfter[step]

NextStep(step, choice) ==
  IF Skipped(StepAfter[step], choice) THEN StepAfter[StepAfter[step]] ELSE StepAfter[step]

\* Mutant: the step that dates the kept backups records nothing.
RunStepMutant(step) ==
  /\ left' = left \ {step}
  /\ endpoint' = (endpoint /\ step # "endpoint")
  /\ pods' = (pods /\ step # "database")
  /\ repl' = (repl /\ step # "database")
  /\ serving' = serving \ (CASE step = "sites"     -> {"sites"}
                             [] step = "workloads" -> {"apps"}
                             [] step = "database"  -> {"apps", "runtime"}
                             [] OTHER              -> {})
  /\ UNCHANGED <<hibernate, retained>>

\* What one teardown step removes.  Deleting the database resources takes the
\* namespace with the watcher, the apps and the function runtime.
RunStep(step) ==
  /\ left' = left \ {step}
  /\ endpoint' = (endpoint /\ step # "endpoint")
  /\ pods' = (pods /\ step # "database")
  /\ repl' = (repl /\ step # "database")
  /\ serving' = serving \ (CASE step = "sites"     -> {"sites"}
                             [] step = "workloads" -> {"apps"}
                             [] step = "database"  -> {"apps", "runtime"}
                             [] OTHER              -> {})
  /\ retained' = IF step = "retain" /\ BackupsConfigured THEN now + Retention ELSE retained
  /\ UNCHANGED hibernate

\* A step is observed complete and the teardown goes on.
StepDone(r) ==
  /\ pc[r] = "teardown" /\ job[r].step # "record"
  /\ RunStep(job[r].step)
  /\ job' = [job EXCEPT ![r].step = NextStep(@, job[r].choice)]
  /\ UNCHANGED <<row, lease, pc, mem>>

\* A step fails, before or after it did its work: the row keeps what a retry
\* needs, and the retry starts from the first step.
StepFailed(r) ==
  /\ pc[r] = "teardown"
  /\ row' = FailedAt(row, IF job[r].step = "backups"
                          THEN "BACKUPS_PENDING_DELETE" ELSE "DELETING")
  /\ Finish(r)
  /\ UNCHANGED world \/ RunStep(job[r].step)

\* The last step drops the row.
DeleteProjectRecord(r) ==
  /\ pc[r] = "teardown" /\ job[r].step = "record"
  /\ row' = GoneRow
  /\ Finish(r)
  /\ UNCHANGED world

--------------------------------------------------------------------------------
(* Operations that take no lease.                                          *)

\* PurgeBackups retries the backup deletion of a row left for it, and drops
\* the row once the backups are gone.
PurgeBackups(r) ==
  /\ row.status = "BACKUPS_PENDING_DELETE"
  /\ Call(r, "purge", "purge")
  /\ UNCHANGED <<row, lease, world>>

PurgeRun(r) ==
  /\ pc[r] = "purge"
  /\ \/ /\ Goto(r, "purgeDelete") /\ left' = left \ {"backups"}
        /\ UNCHANGED row
     \/ /\ Finish(r) /\ row' = FailedAt(row, "BACKUPS_PENDING_DELETE")
        /\ left' \in {left, left \ {"backups"}}
  /\ UNCHANGED <<hibernate, pods, repl, endpoint, serving, retained>>

PurgeDelete(r) ==
  /\ pc[r] = "purgeDelete"
  /\ row' = GoneRow
  /\ Finish(r)
  /\ UNCHANGED world

\* SetDeletionProtection writes the whole row back, pinned to the status read.
SetDeletionProtection(r, enabled) ==
  /\ pc[r] = "idle" /\ "protect" \in Ops
  /\ row.status \notin {Gone, "PENDING_DELETION"}
  /\ job' = [job EXCEPT ![r].kind = "protect"]
  /\ mem' = [mem EXCEPT ![r] = [row EXCEPT !.protected = enabled]]
  /\ pc' = [pc EXCEPT ![r] = "writeProtection"]
  /\ UNCHANGED <<row, lease, world>>

WriteProtection(r) ==
  /\ pc[r] = "writeProtection"
  /\ row' = IF UpdatableFrom(row, mem[r].status) THEN mem[r] ELSE row
  /\ Finish(r)
  /\ UNCHANGED world

\* ForceDropProject clears the protection with a write pinned to nothing, then
\* deletes the project at once.
ForceDropProject(r, choice) ==
  /\ pc[r] = "idle" /\ "force" \in Ops
  /\ row.status # Gone
  /\ job' = [job EXCEPT ![r] = [NoJob EXCEPT !.kind = "force", !.choice = choice]]
  /\ IF ~IsDeletionStatus(row.status) /\ row.protected
     THEN /\ mem' = [mem EXCEPT ![r] = [row EXCEPT !.protected = FALSE]]
          /\ pc' = [pc EXCEPT ![r] = "clearProtection"]
     ELSE /\ pc' = [pc EXCEPT ![r] = "holdDeletion"]
          /\ UNCHANGED mem
  /\ UNCHANGED <<row, lease, world>>

ClearProtection(r) ==
  /\ pc[r] = "clearProtection"
  /\ IF Updatable(row)
     THEN row' = mem[r] /\ Goto(r, "holdDeletion")
     ELSE Finish(r) /\ UNCHANGED row
  /\ UNCHANGED world

\* PurgeDueRetainedBackups, for this project's record: the backups go, then
\* their record; a purge whose record stays is repeated.
PurgeRetained ==
  /\ "retention" \in Ops
  /\ retained # 0 /\ retained <= now
  /\ left' = left \ {"backups"}
  /\ retained' \in {retained, 0}
  /\ UNCHANGED <<row, control, hibernate, pods, repl, endpoint, serving>>

--------------------------------------------------------------------------------
(* The environment.                                                        *)

\* The database operator follows the annotation, in its own time.
OperatorFollows ==
  /\ pods # (~hibernate /\ "database" \in left)
  /\ pods' = ~pods
  /\ UNCHANGED <<row, control, hibernate, repl, endpoint, serving, left, retained, env>>

Tick ==
  /\ now < MaxTime
  /\ now' = now + 1
  /\ UNCHANGED <<row, control, world, crashes>>

\* The replica dies: its session, and with it the lease, goes.
Crash(r) ==
  /\ crashes < MaxCrashes /\ pc[r] # "idle"
  /\ Finish(r)
  /\ crashes' = crashes + 1
  /\ UNCHANGED <<row, world, now>>

\* The session holding the advisory lock dies; the run does not notice.
LoseLease(r) ==
  /\ LeaseMayBeLost /\ lease = r
  /\ lease' = NoRun
  /\ UNCHANGED <<row, pc, mem, job, world, env>>

--------------------------------------------------------------------------------
Init ==
  /\ \E protected \in BOOLEAN :
       row = [status |-> "ACTIVE", protected |-> protected, due |-> 0,
              deleteBackups |-> FALSE, episode |-> FALSE]
  /\ lease = NoRun
  /\ pc = [r \in Runs |-> "idle"]
  /\ mem = [r \in Runs |-> GoneRow]
  /\ job = [r \in Runs |-> NoJob]
  /\ hibernate = FALSE /\ pods = TRUE /\ repl = TRUE /\ endpoint = TRUE
  /\ serving = Services
  /\ left = Resources
  /\ retained = 0
  /\ now = 1
  /\ crashes = 0

\* A caller starts a run.
CallerStarts(r) ==
  \/ Pause(r) \/ Resume(r) \/ CancelDeletion(r)
  \/ \E choice \in Choices : ScheduleDeletion(r, choice)
  \/ PurgeBackups(r)
  \/ \E enabled \in BOOLEAN : SetDeletionProtection(r, enabled)
  \/ \E choice \in Choices : ForceDropProject(r, choice)

\* A run in flight takes its next step.
Step(r) ==
  \/ AdmitPause(r) \/ EnterPausing(r) \/ PrePauseBackup(r) \/ PollBackup(r)
  \/ StopReplication(r) \/ StopWorkload(r) \/ AwaitStopped(r)
  \/ RepairReplication(r) \/ WithdrawEndpoint(r) \/ MarkPaused(r)
  \/ FailPause(r) \/ FailBackup(r)
  \/ AdmitResume(r) \/ EnterResuming(r) \/ StartWorkload(r) \/ AwaitReady(r)
  \/ RestartReplication(r) \/ PublishEndpoint(r) \/ MarkActive(r) \/ FailResume(r)
  \/ AdmitDeletion(r) \/ StopWorkloads(r) \/ HoldPause(r) \/ HoldMark(r)
  \/ ReadMark(r) \/ StopAgain(r) \/ MarkPendingDeletion(r)
  \/ HoldChoice(r) \/ ReadChoice(r) \/ UpdatePendingChoice(r)
  \/ ReadCancel(r) \/ RestartRuntime(r) \/ RouteSites(r) \/ WriteCancel(r)
  \/ UnrouteSites(r)
  \/ HoldDeletion(r) \/ DeletionRefused(r) \/ RecheckUnderLease(r)
  \/ BeginDeletion(r) \/ ReadClaimed(r) \/ StepDone(r) \/ StepFailed(r)
  \/ DeleteProjectRecord(r)
  \/ PurgeRun(r) \/ PurgeDelete(r) \/ WriteProtection(r) \/ ClearProtection(r)

Next ==
  \/ \E r \in Runs : (CallerStarts(r) \/ RunDueDeletions(r) \/ Step(r)) /\ UNCHANGED env
  \/ PurgeRetained /\ UNCHANGED env
  \/ \E r \in Runs : Crash(r) \/ LoseLease(r)
  \/ OperatorFollows \/ Tick

Spec == Init /\ [][Next]_vars

--------------------------------------------------------------------------------
(* Fairness.  Every wait of a run is bounded by its own timeout and every  *)
(* path out of it returns, so a run that is not crashed keeps taking steps.*)
(* The sweep ticks for ever and the clock moves.  What makes a teardown    *)
(* step fail is outside the control plane: a deletion can only be asked to *)
(* end once that is repaired and callers leave the project alone (a cancel *)
(* repeated for ever may hold the lease whenever a sweep comes by).        *)

Fairness ==
  /\ \A r \in Runs : WF_vars(Step(r) /\ UNCHANGED env)
  /\ WF_vars(Tick)

SweepFairness ==
  /\ Fairness
  /\ WF_vars(\E r \in Runs : RunDueDeletions(r) /\ UNCHANGED env)
  /\ <>[][\A r \in Runs : ~CallerStarts(r) /\ ~StepFailed(r)]_vars

FairSpec  == Spec /\ Fairness
SweptSpec == Spec /\ SweepFairness

--------------------------------------------------------------------------------
(* What is checked.                                                        *)

\* Every variable holds a value of its kind.
TypeOK ==
  /\ row \in Rows
  /\ lease \in Runs \cup {NoRun}
  /\ pc \in [Runs -> Labels]
  /\ mem \in [Runs -> Rows]
  /\ job \in [Runs -> Jobs]
  /\ hibernate \in BOOLEAN /\ pods \in BOOLEAN
  /\ repl \in BOOLEAN /\ endpoint \in BOOLEAN
  /\ serving \in SUBSET Services
  /\ left \in SUBSET Resources
  /\ retained \in Nat
  /\ now \in Nat /\ crashes \in Nat

\* The lease makes "one operation at a time" true: no two runs are ever both
\* between taking the project's lease and giving it back, whatever operation
\* each of them is and however they end.
OneOperationAtATime ==
  \A r, s \in Runs : pc[r] \in Leased /\ pc[s] \in Leased => r = s

\* The database is observed down: told to stay down, no pod, no watcher and no
\* public endpoint in front of nothing.
DatabaseStopped == hibernate /\ ~pods /\ ~repl /\ ~endpoint

\* PAUSED over a running database is impossible, and so is a deletion grace
\* period over one: a row that says PAUSED or PENDING_DELETION is true.
PausedMeansStopped ==
  row.status \in {"PAUSED", "PENDING_DELETION"} => DatabaseStopped

\* A resume records ACTIVE only over a database that is up, with its watcher
\* installed and its endpoint answering.
ResumedMeansServing ==
  [][row.status = "RESUMING" /\ row'.status = "ACTIVE"
       => ~hibernate /\ pods /\ repl /\ endpoint]_vars

\* The one-way door: once a teardown owns the row, nothing writes it back to a
\* usable state, and a dropped row never comes back, whoever still holds a
\* copy of it and whether or not that run still holds the lease.
OneWayDoor ==
  [][/\ IsDeletionStatus(row.status) => IsDeletionStatus(row'.status) \/ row'.status = Gone
     /\ row.status = Gone => row'.status = Gone]_vars

\* The promise of the grace period: a project that holds data is never torn
\* down without having been scheduled, and a scheduled one not before its date,
\* not after it was cancelled and not while it is protected.
GraceHonoured ==
  [][IsDeletionStatus(row'.status) /\ ~IsDeletionStatus(row.status)
       => /\ row.status = "PENDING_DELETION" /\ ~row.protected
          /\ row.due # 0 /\ row.due <= now]_vars

\* The record is dropped last: a project that is gone has left nothing behind
\* but, possibly, the backups its owner kept.
GoneMeansClean == row.status = Gone => left \subseteq {"backups"}

\* Backups a deleted project leaves behind are dated for purging: no orphaned
\* backup set that nothing names any more.
KeptBackupsAreDated ==
  row.status = Gone /\ "backups" \in left /\ BackupsConfigured => retained # 0

\* A confirmed purge is not taken back while its teardown is under way.
ConfirmedPurgeStands ==
  [][IsDeletionStatus(row.status) /\ row.deleteBackups /\ row'.status # Gone
       => row'.deleteBackups]_vars

\* Protection ends only by someone turning it off: a protection that was on
\* goes off in a step of SetDeletionProtection or of the operator's drop.
ProtectionKept ==
  [][row.protected /\ row'.status # Gone /\ ~row'.protected
       => \E r \in Runs : pc[r] \in {"writeProtection", "clearProtection"}
                         /\ pc'[r] # pc[r]]_vars

\* The lifecycle implements the contract its owner is given: the phase of a
\* deletion is the row's status, and the dates and the choice are the row's.
Contract == INSTANCE DeletionContract WITH
  phase <- CASE row.status = Gone               -> "gone"
             [] row.status = "PENDING_DELETION" -> "grace"
             [] IsDeletionStatus(row.status)    -> "deleting"
             [] OTHER                           -> "live",
  due <- row.due, purge <- row.deleteBackups, keptUntil <- retained, clock <- now,
  backups <- BackupsConfigured /\ "backups" \in left

\* Grace period, cancel, backup choice and retention behave as promised, over
\* every interleaving of delete, cancel, sweep, purge and retention, with
\* teardowns that fail or die at any step.
ContractKept == Contract!Spec

\* No operation holds a project for ever: whoever took the lease gives it back,
\* on every path out of a pause, a deletion, a cancel or a teardown.
LeaseComesBack == []<>(lease = NoRun)

\* A scheduled deletion ends: once a project is due within the modelled time,
\* the sweep takes it to its end through refused leases, failed and crashed
\* teardowns and a failed backup purge, unless its owner cancels.
ScheduledEnds ==
  (row.status \notin LiveStatuses \ {"PENDING_DELETION"} /\ row.due \in 1..MaxTime)
    ~> (row.status \in {Gone, SettledStatus})
================================================================================
