------------------------ MODULE LifecycleTeardownProofs ------------------------
(***************************************************************************)
(* What a teardown leaves behind, proved for any number of runs, periods   *)
(* and length of time, with leases that may be lost and with force drops.  *)
(*                                                                         *)
(* No part of this rests on the lease: two teardowns of one project may    *)
(* run at once.  What makes it true is that nothing of the project ever    *)
(* comes back (left only shrinks), so whatever a teardown is past is gone  *)
(* for every run (StepInv), and that a run only ever writes back a copy    *)
(* whose status it knows (CopyInv), so that none of them drops or revives  *)
(* the row by accident.                                                    *)
(***************************************************************************)
EXTENDS ProjectLifecycleProofs

\* What has been removed, backups apart, when a teardown is at a step.
Before ==
  [endpoint  |-> {},
   s3keys    |-> {"endpoint"},
   sites     |-> {"endpoint", "s3keys"},
   schedule  |-> {"endpoint", "s3keys", "sites"},
   nats      |-> {"endpoint", "s3keys", "sites", "schedule"},
   workloads |-> {"endpoint", "s3keys", "sites", "schedule", "nats"},
   database  |-> {"endpoint", "s3keys", "sites", "schedule", "nats", "workloads"},
   logs      |-> {"endpoint", "s3keys", "sites", "schedule", "nats", "workloads",
                  "database"},
   backups   |-> Resources \ {"backups", "objects", "apps", "vault"},
   objects   |-> Resources \ {"backups", "objects", "apps", "vault"},
   apps      |-> Resources \ {"backups", "apps", "vault"},
   retain    |-> Resources \ {"backups", "vault"},
   vault     |-> Resources \ {"backups", "vault"},
   record    |-> Resources \ {"backups"}]

\* Everything a teardown removes before it comes to the backups is gone.
Halted == left \cap Before["backups"] = {}

\* The backups are gone or dated.
Settled == BackupsConfigured => "backups" \notin left \/ retained # 0

\* The status of the copy a run is going to write back.
CopyInv(r) ==
  /\ pc[r] \in PauseRunning => mem[r].status = "PAUSING"
  /\ pc[r] \in ResumeRunning => mem[r].status = "RESUMING"
  /\ pc[r] = "writeChoice" => mem[r].status = "PENDING_DELETION"
  /\ pc[r] = "clearProtection" => mem[r].status \in LiveStatuses

\* What a teardown has achieved by the step it is at.
StepInv(r) ==
  /\ job[r].step # FirstStep => pc[r] = "teardown"
  /\ job[r].step = "backups" => job[r].choice = "delete"
  /\ job[r].step = "retain" => job[r].choice # "delete"
  /\ left \cap Before[job[r].step] = {}
  /\ job[r].choice = "delete" /\ job[r].step \in {"objects", "apps", "vault", "record"}
       => "backups" \notin left
  /\ job[r].step \in {"vault", "record"} => Settled

\* What a purge retry knows.
PurgeInv(r) ==
  /\ pc[r] \in {"purge", "purgeDelete"} => Halted
  /\ pc[r] = "purgeDelete" => "backups" \notin left

\* A run that removes something works on a row no general write may touch.
TornInv(r) ==
  pc[r] \in {"reread", "teardown", "purge", "purgeDelete"} => ~Updatable(row)

RunLeft(r) == CopyInv(r) /\ StepInv(r) /\ PurgeInv(r) /\ TornInv(r)

\* What the row says of what is left.
RowLeft ==
  /\ Updatable(row) => left = Resources /\ retained = 0
  /\ row.status = "BACKUPS_PENDING_DELETE" => Halted
  /\ row.status = Gone => row = GoneRow /\ Halted /\ Settled

LeftInv == TypeOK /\ RowLeft /\ \A r \in Runs : RunLeft(r)

--------------------------------------------------------------------------------
(* What one step does to the row and to what is left.                      *)

\* A step leaves the row alone, is a general write, moves a row to or within
\* its teardown without taking back a confirmed purge, or drops it.
RowChange(r) ==
  \/ row' = row
  \/ Updatable(row) /\ Updatable(row')
  \/ /\ row.status # Gone /\ IsDeletionStatus(row'.status)
     /\ row'.status = "BACKUPS_PENDING_DELETE"
          => pc[r] = "purge" \/ (pc[r] = "teardown" /\ job[r].step = "backups")
     /\ IsDeletionStatus(row.status) /\ row.deleteBackups => row'.deleteBackups
  \/ /\ row' = GoneRow
     /\ pc[r] = "purgeDelete" \/ (pc[r] = "teardown" /\ job[r].step = "record")

\* Nothing of a project comes back, and only a teardown or a purge removes.
LeftChange(r) ==
  \/ UNCHANGED <<left, retained>>
  \/ /\ StepDone(r) \/ StepFailed(r) \/ PurgeRun(r)
     /\ left' \subseteq left /\ (Settled => Settled')

\* What a failed teardown step leaves of the row.
LEMMA FailedChange ==
  ASSUME NEW rw \in Rows, NEW status \in DeletionStatuses
  PROVE  \/ FailedAt(rw, status) = rw
         \/ /\ rw.status # Gone /\ IsDeletionStatus(FailedAt(rw, status).status)
            /\ FailedAt(rw, status).status = status
            /\ FailedAt(rw, status).deleteBackups = rw.deleteBackups
            /\ FailedAt(rw, status).due = rw.due
BY DEF FailedAt, IsDeletionStatus, DeletionStatuses, Rows, Gone

\* What the claim of a teardown leaves of it.
LEMMA ClaimedChange ==
  ASSUME NEW rw \in Rows, NEW choice \in Choices
  PROVE  /\ Claimed(rw, choice).status = "DELETING"
         /\ Claimed(rw, choice).due = rw.due
         /\ Claimed(rw, choice).deleteBackups = EffectiveBackupIntent(rw, choice)
         /\ EffectiveBackupIntent(rw, choice) \in BOOLEAN
         /\ rw.deleteBackups /\ choice # "keep" => EffectiveBackupIntent(rw, choice)
BY DEF Claimed, EffectiveBackupIntent, Rows, Choices

\* Every step of a run changes the row so.
LEMMA RunRowChange ==
  ASSUME TypeOK, NEW r \in Runs, CopyInv(r),
         CallerStarts(r) \/ RunDueDeletions(r) \/ Step(r)
  PROVE  RowChange(r)
<1> mem[r] \in Rows /\ row \in Rows /\ job[r].choice \in Choices
  BY DEF TypeOK, Jobs
<1>1. CASE CallerStarts(r) \/ RunDueDeletions(r)
  BY <1>1 DEF CallerStarts, Pause, Resume, CancelDeletion, ScheduleDeletion,
     RunDueDeletions, PurgeBackups, SetDeletionProtection, ForceDropProject, RowChange
<1>2. CASE \/ AdmitPause(r) \/ PollBackup(r) \/ StopReplication(r) \/ StopWorkload(r)
           \/ AwaitStopped(r) \/ RepairReplication(r) \/ WithdrawEndpoint(r)
           \/ AdmitResume(r) \/ StartWorkload(r) \/ AwaitReady(r)
           \/ RestartReplication(r) \/ PublishEndpoint(r)
  BY <1>2 DEF AdmitPause, PollBackup, StopReplication, StopWorkload, AwaitStopped,
     RepairReplication, WithdrawEndpoint, AdmitResume, StartWorkload, AwaitReady,
     RestartReplication, PublishEndpoint, RowChange
<1>3. CASE \/ AdmitDeletion(r) \/ StopWorkloads(r) \/ HoldPause(r) \/ HoldMark(r)
           \/ ReadMark(r) \/ StopAgain(r) \/ HoldChoice(r) \/ ReadChoice(r)
           \/ ReadCancel(r) \/ RestartRuntime(r) \/ RouteSites(r) \/ UnrouteSites(r)
           \/ HoldDeletion(r) \/ DeletionRefused(r) \/ RecheckUnderLease(r)
           \/ ReadClaimed(r) \/ StepDone(r)
  BY <1>3 DEF AdmitDeletion, StopWorkloads, HoldPause, HoldMark, HoldChoice, Hold,
     ReadMark, StopAgain, ReadChoice, ReadCancel, RestartRuntime, RouteSites,
     UnrouteSites, HoldDeletion, DeletionRefused, RecheckUnderLease, ReadClaimed,
     StepDone, RowChange
<1>4. CASE \/ EnterPausing(r) \/ PrePauseBackup(r) \/ MarkPaused(r) \/ FailPause(r)
           \/ FailBackup(r) \/ EnterResuming(r) \/ MarkActive(r) \/ FailResume(r)
           \/ MarkPendingDeletion(r) \/ UpdatePendingChoice(r) \/ WriteCancel(r)
           \/ WriteProtection(r) \/ ClearProtection(r)
  <2>1. row' = row \/ (Updatable(row) /\ row'.status \in LiveStatuses)
    <3> USE DEF UpdatableFrom, LiveStatuses, Rows
    <3>1. CASE EnterPausing(r) \/ MarkPaused(r) \/ FailBackup(r)
      BY <3>1 DEF EnterPausing, Write, MarkPaused, FailBackup
    <3>2. CASE PrePauseBackup(r) \/ FailPause(r)
      BY <3>2 DEF PrePauseBackup, Write, FailPause, CopyInv, PauseRunning
    <3>3. CASE EnterResuming(r) \/ MarkActive(r)
      BY <3>3 DEF EnterResuming, Write, MarkActive
    <3>4. CASE FailResume(r)
      BY <3>4 DEF FailResume, CopyInv, ResumeRunning
    <3>5. CASE MarkPendingDeletion(r) \/ WriteCancel(r)
      BY <3>5 DEF MarkPendingDeletion, WriteCancel, SettledStatus
    <3>6. CASE UpdatePendingChoice(r)
      BY <3>6 DEF UpdatePendingChoice, CopyInv
    <3>7. CASE WriteProtection(r)
      BY <3>7 DEF WriteProtection, Updatable
    <3>8. CASE ClearProtection(r)
      BY <3>8 DEF ClearProtection, CopyInv
    <3> QED BY <1>4, <3>1, <3>2, <3>3, <3>4, <3>5, <3>6, <3>7, <3>8
  <2> QED BY <2>1 DEF RowChange, Updatable
<1>5. CASE BeginDeletion(r)
  <2>1. CASE UNCHANGED row
    BY <2>1 DEF RowChange
  <2>2. CASE /\ row' = Claimed(row, job[r].choice)
             /\ row.status # Gone /\ ~PurgeAlreadyConfirmed(row, job[r].choice)
    BY <2>2, ClaimedChange DEF RowChange, PurgeAlreadyConfirmed, IsDeletionStatus,
       DeletionStatuses
  <2> QED BY <1>5, <2>1, <2>2 DEF BeginDeletion
<1>6. CASE StepFailed(r)
  <2>1. CASE job[r].step = "backups"
    BY <1>6, <2>1, FailedChange DEF StepFailed, DeletionStatuses, RowChange
  <2>2. CASE job[r].step # "backups"
    BY <1>6, <2>2, FailedChange DEF StepFailed, DeletionStatuses, RowChange
  <2> QED BY <2>1, <2>2
<1>7. CASE PurgeRun(r)
  BY <1>7, FailedChange DEF PurgeRun, DeletionStatuses, RowChange
<1>8. CASE DeleteProjectRecord(r) \/ PurgeDelete(r)
  BY <1>8 DEF DeleteProjectRecord, PurgeDelete, RowChange
<1> QED BY <1>1, <1>2, <1>3, <1>4, <1>5, <1>6, <1>7, <1>8 DEF Step

\* A teardown step takes one thing away, or dates the backups.
LEMMA RunStepLeft ==
  ASSUME TypeOK, NEW step, RunStep(step)
  PROVE  /\ left' = left \ {step} /\ (Settled => Settled')
         /\ step = "retain" => Settled'
         /\ step # "retain" => retained' = retained
BY TimeAssumption DEF RunStep, Settled, TypeOK

\* Every step of a run changes what is left so.
LEMMA RunLeftChange ==
  ASSUME TypeOK, NEW r \in Runs, CallerStarts(r) \/ RunDueDeletions(r) \/ Step(r)
  PROVE  LeftChange(r)
<1> USE DEF world, LeftChange
<1>1. CASE CallerStarts(r) \/ RunDueDeletions(r)
  BY <1>1 DEF CallerStarts, Pause, Resume, CancelDeletion, ScheduleDeletion,
     RunDueDeletions, PurgeBackups, SetDeletionProtection, ForceDropProject
<1>2. CASE \/ AdmitPause(r) \/ EnterPausing(r) \/ PrePauseBackup(r) \/ PollBackup(r)
           \/ StopReplication(r) \/ StopWorkload(r) \/ AwaitStopped(r)
           \/ RepairReplication(r) \/ WithdrawEndpoint(r) \/ MarkPaused(r)
           \/ FailPause(r) \/ FailBackup(r)
  BY <1>2 DEF AdmitPause, EnterPausing, PrePauseBackup, PollBackup, StopReplication,
     StopWorkload, AwaitStopped, RepairReplication, WithdrawEndpoint, MarkPaused,
     FailPause, FailBackup
<1>3. CASE \/ AdmitResume(r) \/ EnterResuming(r) \/ StartWorkload(r) \/ AwaitReady(r)
           \/ RestartReplication(r) \/ PublishEndpoint(r) \/ MarkActive(r) \/ FailResume(r)
  BY <1>3 DEF AdmitResume, EnterResuming, StartWorkload, AwaitReady,
     RestartReplication, PublishEndpoint, MarkActive, FailResume
<1>4. CASE \/ AdmitDeletion(r) \/ StopWorkloads(r) \/ HoldPause(r) \/ HoldMark(r)
           \/ ReadMark(r) \/ StopAgain(r) \/ MarkPendingDeletion(r) \/ HoldChoice(r)
           \/ ReadChoice(r) \/ UpdatePendingChoice(r) \/ ReadCancel(r)
           \/ RestartRuntime(r) \/ RouteSites(r) \/ WriteCancel(r) \/ UnrouteSites(r)
  BY <1>4 DEF AdmitDeletion, StopWorkloads, HoldPause, HoldMark, HoldChoice, Hold,
     ReadMark, StopAgain, MarkPendingDeletion, ReadChoice, UpdatePendingChoice,
     ReadCancel, RestartRuntime, RouteSites, WriteCancel, UnrouteSites
<1>5. CASE \/ HoldDeletion(r) \/ DeletionRefused(r) \/ RecheckUnderLease(r)
           \/ BeginDeletion(r) \/ ReadClaimed(r) \/ DeleteProjectRecord(r)
           \/ PurgeDelete(r) \/ WriteProtection(r) \/ ClearProtection(r)
  BY <1>5 DEF HoldDeletion, DeletionRefused, RecheckUnderLease, BeginDeletion,
     ReadClaimed, DeleteProjectRecord, PurgeDelete, WriteProtection, ClearProtection
<1>6. CASE StepDone(r) \/ StepFailed(r)
  BY <1>6, RunStepLeft DEF StepDone, StepFailed
<1>7. CASE PurgeRun(r)
  BY <1>7 DEF PurgeRun, Settled
<1> QED BY <1>1, <1>2, <1>3, <1>4, <1>5, <1>6, <1>7 DEF Step

--------------------------------------------------------------------------------
(* A run keeps what it knows.                                              *)

\* Labels at which a run knows nothing of what is left or of its copy.
PlainLabels == Labels \ (PauseRunning \cup ResumeRunning
                         \cup {"writeChoice", "clearProtection", "reread", "teardown",
                               "purge", "purgeDelete"})

\* A run at such a label, with no teardown begun, has nothing to keep.
LEMMA PlainRun ==
  ASSUME NEW r \in Runs, pc'[r] \in PlainLabels, job'[r].step = FirstStep
  PROVE  RunLeft(r)'
BY DEF PlainLabels, PauseRunning, ResumeRunning, RunLeft, CopyInv, StepInv, PurgeInv,
   TornInv, FirstStep, Before

\* Outside a teardown the next one starts from the first step.
LEMMA NotBegun ==
  ASSUME NEW r \in Runs, RunLeft(r), pc[r] # "teardown"
  PROVE  job[r].step = FirstStep
BY DEF RunLeft, StepInv

\* A returning run has nothing to keep.
LEMMA FinishLeft ==
  ASSUME TypeOK, NEW r \in Runs, RunLeft(r),
         Finish(r) \/ (AfterStop(r) /\ pc[r] # "teardown")
  PROVE  RunLeft(r)'
<1>1. pc'[r] \in PlainLabels
  BY FinishMove DEF PlainLabels, Labels, Leased, PauseRunning, ResumeRunning
<1>2. job'[r] \in {NoJob, job[r]} /\ (Finish(r) => job'[r] = NoJob)
  BY DEF Finish, AfterStop, TypeOK
<1>3. job'[r].step = FirstStep
  BY <1>2, NotBegun DEF NoJob
<1> QED BY <1>1, <1>3, PlainRun

\* A run that moves between two labels, neither in a teardown, keeps what it
\* knows when it stays in its pause or resume, or leaves it.
LEMMA GotoLeft ==
  ASSUME TypeOK, NEW r \in Runs, RunLeft(r), NEW label,
         Goto(r, label), pc[r] # "teardown",
         \/ label \in PlainLabels
         \/ pc[r] \in PauseRunning /\ label \in PauseRunning
         \/ pc[r] \in ResumeRunning /\ label \in ResumeRunning
  PROVE  RunLeft(r)'
<1>1. pc'[r] = label /\ mem'[r] = mem[r] /\ job'[r] = job[r]
  BY DEF Goto, TypeOK
<1>2. job'[r].step = FirstStep
  BY <1>1, NotBegun
<1>3. CASE label \in PlainLabels
  BY <1>1, <1>2, <1>3, PlainRun
<1>4. CASE \/ pc[r] \in PauseRunning /\ label \in PauseRunning
           \/ pc[r] \in ResumeRunning /\ label \in ResumeRunning
  BY <1>1, <1>2, <1>4 DEF RunLeft, CopyInv, StepInv, PurgeInv, TornInv, PauseRunning,
     ResumeRunning, FirstStep, Before
<1> QED BY <1>3, <1>4

\* So does a run that reads the row, or takes the lease.
LEMMA ReadLeft ==
  ASSUME TypeOK, NEW r \in Runs, RunLeft(r), NEW label \in PlainLabels,
         \/ Read(r, label)
         \/ pc' = [pc EXCEPT ![r] = label] /\ UNCHANGED job,
         pc[r] # "teardown"
  PROVE  RunLeft(r)'
<1>1. pc'[r] = label /\ job'[r] = job[r]
  BY DEF Read, TypeOK
<1> QED BY <1>1, NotBegun, PlainRun

\* So does a run that begins.
LEMMA CallLeft ==
  ASSUME TypeOK, NEW r \in Runs, RunLeft(r), NEW kind, NEW label \in PlainLabels,
         Call(r, kind, label)
  PROVE  RunLeft(r)'
<1>1. pc'[r] = label /\ pc[r] # "teardown" /\ job[r] \in Jobs
  BY DEF Call, TypeOK
<1>2. job'[r].step = job[r].step
  BY DEF Call, TypeOK, Jobs
<1> QED BY <1>1, <1>2, NotBegun, PlainRun

\* The steps of a pause keep it.
LEMMA PauseLeft ==
  ASSUME TypeOK, NEW r \in Runs, RunLeft(r),
         \/ Pause(r)
         \/ AdmitPause(r)
         \/ EnterPausing(r)
         \/ PrePauseBackup(r)
         \/ PollBackup(r)
         \/ StopReplication(r)
         \/ StopWorkload(r)
         \/ AwaitStopped(r)
         \/ RepairReplication(r)
         \/ WithdrawEndpoint(r)
         \/ MarkPaused(r)
         \/ FailPause(r)
         \/ FailBackup(r)
  PROVE  RunLeft(r)'
<1> USE GotoLeft, FinishLeft
    DEF PlainLabels, Labels, Leased, PauseRunning, ResumeRunning, CancelRunning
<1>1. CASE Pause(r)
  BY <1>1, CallLeft DEF Pause
<1>2. CASE AdmitPause(r)
  BY <1>2, ReadLeft DEF AdmitPause
<1>3. CASE EnterPausing(r)
  <2>1. CASE Write(r, [mem[r] EXCEPT !.status = "PAUSING"], "backup")
    <3>1. pc'[r] = "backup" /\ mem'[r].status = "PAUSING" /\ job'[r] = job[r]
      BY <2>1 DEF Write, TypeOK, Rows
    <3>2. job'[r].step = FirstStep
      BY <1>3, <3>1, NotBegun DEF EnterPausing
    <3> QED BY <3>1, <3>2 DEF RunLeft, CopyInv, StepInv, PurgeInv, TornInv, FirstStep, Before
  <2> QED BY <1>3, <2>1 DEF EnterPausing
<1>4. CASE PrePauseBackup(r)
  <2>1. CASE \E label \in PauseRunning : Goto(r, label)
    BY <1>4, <2>1 DEF PrePauseBackup
  <2>2. CASE ~\E label \in PauseRunning : Goto(r, label)
    <3>1. mem'[r] = [mem[r] EXCEPT !.episode = TRUE] /\ job' = job
          /\ pc'[r] \in {"pollBackup", "failBackup"}
      BY <1>4, <2>2 DEF PrePauseBackup, Write, TypeOK
    <3>2. mem'[r].status = mem[r].status
      BY <3>1 DEF TypeOK, Rows
    <3>3. job'[r].step = FirstStep /\ mem[r].status = "PAUSING"
      BY <1>4, <3>1, NotBegun DEF PrePauseBackup, RunLeft, CopyInv
    <3> QED BY <3>1, <3>2, <3>3 DEF RunLeft, CopyInv, StepInv, PurgeInv, TornInv, FirstStep, Before
  <2> QED BY <2>1, <2>2
<1>5. CASE PollBackup(r)
  BY <1>5 DEF PollBackup
<1>6. CASE StopReplication(r)
  BY <1>6 DEF StopReplication
<1>7. CASE StopWorkload(r)
  BY <1>7 DEF StopWorkload
<1>8. CASE AwaitStopped(r)
  BY <1>8 DEF AwaitStopped
<1>9. CASE RepairReplication(r)
  BY <1>9 DEF RepairReplication
<1>10. CASE WithdrawEndpoint(r)
  BY <1>10 DEF WithdrawEndpoint
<1>11. CASE MarkPaused(r)
  BY <1>11 DEF MarkPaused
<1>12. CASE FailPause(r)
  BY <1>12 DEF FailPause
<1>13. CASE FailBackup(r)
  BY <1>13 DEF FailBackup
<1> QED BY <1>1, <1>2, <1>3, <1>4, <1>5, <1>6, <1>7, <1>8, <1>9, <1>10, <1>11, <1>12, <1>13

\* So do the steps of a resume.
LEMMA ResumeLeft ==
  ASSUME TypeOK, NEW r \in Runs, RunLeft(r),
         \/ Resume(r)
         \/ AdmitResume(r)
         \/ EnterResuming(r)
         \/ StartWorkload(r)
         \/ AwaitReady(r)
         \/ RestartReplication(r)
         \/ PublishEndpoint(r)
         \/ MarkActive(r)
         \/ FailResume(r)
  PROVE  RunLeft(r)'
<1> USE GotoLeft, FinishLeft
    DEF PlainLabels, Labels, Leased, PauseRunning, ResumeRunning, CancelRunning
<1>1. CASE Resume(r)
  BY <1>1, CallLeft DEF Resume
<1>2. CASE AdmitResume(r)
  BY <1>2, ReadLeft DEF AdmitResume
<1>3. CASE EnterResuming(r)
  <2>1. CASE Write(r, [mem[r] EXCEPT !.status = "RESUMING"], "startWorkload")
    <3>1. pc'[r] = "startWorkload" /\ mem'[r].status = "RESUMING" /\ job'[r] = job[r]
      BY <2>1 DEF Write, TypeOK, Rows
    <3>2. job'[r].step = FirstStep
      BY <1>3, <3>1, NotBegun DEF EnterResuming
    <3> QED BY <3>1, <3>2 DEF RunLeft, CopyInv, StepInv, PurgeInv, TornInv, FirstStep, Before
  <2> QED BY <1>3, <2>1 DEF EnterResuming
<1>4. CASE StartWorkload(r)
  BY <1>4 DEF StartWorkload
<1>5. CASE AwaitReady(r)
  BY <1>5 DEF AwaitReady
<1>6. CASE RestartReplication(r)
  BY <1>6 DEF RestartReplication
<1>7. CASE PublishEndpoint(r)
  BY <1>7 DEF PublishEndpoint
<1>8. CASE MarkActive(r)
  BY <1>8 DEF MarkActive
<1>9. CASE FailResume(r)
  BY <1>9 DEF FailResume
<1> QED BY <1>1, <1>2, <1>3, <1>4, <1>5, <1>6, <1>7, <1>8, <1>9

\* So do the steps of a scheduled deletion.
LEMMA ScheduleLeft ==
  ASSUME TypeOK, NEW r \in Runs, RunLeft(r),
         \/ (\E choice \in Choices : ScheduleDeletion(r, choice))
         \/ AdmitDeletion(r)
         \/ StopWorkloads(r)
         \/ HoldPause(r)
         \/ HoldMark(r)
         \/ HoldChoice(r)
         \/ ReadMark(r)
         \/ StopAgain(r)
         \/ MarkPendingDeletion(r)
         \/ ReadChoice(r)
         \/ UpdatePendingChoice(r)
  PROVE  RunLeft(r)'
<1> USE GotoLeft, FinishLeft
    DEF PlainLabels, Labels, Leased, PauseRunning, ResumeRunning, CancelRunning
<1>1. CASE (\E choice \in Choices : ScheduleDeletion(r, choice))
  <2>1. pc'[r] = "admitDeletion" /\ job'[r].step = FirstStep
    BY <1>1 DEF ScheduleDeletion, TypeOK, NoJob
  <2> QED BY <2>1, PlainRun
<1>2. CASE AdmitDeletion(r)
  BY <1>2 DEF AdmitDeletion, TypeOK, Rows, HoldsCustomerData, IsDeletionStatus,
     LiveStatuses, DeletionStatuses
<1>3. CASE StopWorkloads(r)
  BY <1>3 DEF StopWorkloads, Stopped
<1>4. CASE HoldPause(r)
  BY <1>4, ReadLeft DEF HoldPause, Hold
<1>5. CASE HoldMark(r)
  BY <1>5, ReadLeft DEF HoldMark, Hold
<1>6. CASE HoldChoice(r)
  BY <1>6, ReadLeft DEF HoldChoice, Hold
<1>7. CASE ReadMark(r)
  BY <1>7, ReadLeft DEF ReadMark
<1>8. CASE StopAgain(r)
  BY <1>8 DEF StopAgain, Stopped
<1>9. CASE MarkPendingDeletion(r)
  BY <1>9 DEF MarkPendingDeletion
<1>10. CASE ReadChoice(r)
  <2>1. CASE Read(r, "writeChoice") /\ row.status = "PENDING_DELETION"
    <3>1. pc'[r] = "writeChoice" /\ mem'[r] = row /\ job'[r] = job[r]
      BY <2>1 DEF Read, TypeOK
    <3>2. job'[r].step = FirstStep
      BY <1>10, <3>1, NotBegun DEF ReadChoice
    <3> QED BY <2>1, <3>1, <3>2 DEF RunLeft, CopyInv, StepInv, PurgeInv, TornInv, FirstStep, Before
  <2> QED BY <1>10, <2>1 DEF ReadChoice
<1>11. CASE UpdatePendingChoice(r)
  BY <1>11 DEF UpdatePendingChoice
<1> QED BY <1>1, <1>2, <1>3, <1>4, <1>5, <1>6, <1>7, <1>8, <1>9, <1>10, <1>11

\* So do the steps of a cancel.
LEMMA CancelLeft ==
  ASSUME TypeOK, NEW r \in Runs, RunLeft(r),
         \/ CancelDeletion(r)
         \/ ReadCancel(r)
         \/ RestartRuntime(r)
         \/ RouteSites(r)
         \/ WriteCancel(r)
         \/ UnrouteSites(r)
  PROVE  RunLeft(r)'
<1> USE GotoLeft, FinishLeft
    DEF PlainLabels, Labels, Leased, PauseRunning, ResumeRunning, CancelRunning
<1>1. CASE CancelDeletion(r)
  BY <1>1, CallLeft DEF CancelDeletion
<1>2. CASE ReadCancel(r)
  BY <1>2, ReadLeft DEF ReadCancel
<1>3. CASE RestartRuntime(r)
  BY <1>3 DEF RestartRuntime
<1>4. CASE RouteSites(r)
  BY <1>4 DEF RouteSites
<1>5. CASE WriteCancel(r)
  BY <1>5 DEF WriteCancel
<1>6. CASE UnrouteSites(r)
  BY <1>6 DEF UnrouteSites
<1> QED BY <1>1, <1>2, <1>3, <1>4, <1>5, <1>6

\* The step that follows a step: what is gone by then is what was gone and
\* what the step removed.
LEMMA NextStepAdds ==
  ASSUME NEW step \in DeletionSteps \ {"record"}, NEW choice
  PROVE  LET next == NextStep(step, choice)
         IN  /\ next # FirstStep
             /\ Before[next] \subseteq Before[step] \cup {step}
             /\ next = "backups" => choice = "delete"
             /\ next = "retain" => choice # "delete"
             /\ choice = "delete" /\ next \in {"objects", "apps", "vault", "record"}
                  => step \in {"backups", "objects", "apps", "vault", "retain"}
             /\ next \in {"vault", "record"} =>
                  \/ step \in {"retain", "vault"}
                  \/ step = "apps" /\ choice = "delete"
BY DEF NextStep, Skipped, StepAfter, DeletionSteps, Resources, Before, FirstStep

\* So does a teardown step that is done.
LEMMA StepLeft ==
  ASSUME TypeOK, NEW r \in Runs, RunLeft(r), StepDone(r)
  PROVE  RunLeft(r)'
<1> DEFINE step == job[r].step
           choice == job[r].choice
           next == NextStep(step, choice)
<1>1. job[r] \in Jobs /\ step \in DeletionSteps \ {"record"} /\ choice \in Choices
  BY DEF StepDone, TypeOK, Jobs
<1>2. job'[r].step = next /\ job'[r].choice = choice
  BY <1>1 DEF StepDone, TypeOK, Jobs
<1>3. pc[r] = "teardown" /\ pc'[r] = "teardown" /\ row' = row
  BY DEF StepDone, TypeOK
<1>4. /\ left' = left \ {step} /\ (Settled => Settled')
      /\ step = "retain" => Settled'
  BY RunStepLeft DEF StepDone
<1>5. StepInv(r)'
  <2>1. /\ next # FirstStep
        /\ Before[next] \subseteq Before[step] \cup {step}
        /\ next = "backups" => choice = "delete"
        /\ next = "retain" => choice # "delete"
        /\ choice = "delete" /\ next \in {"objects", "apps", "vault", "record"}
             => step \in {"backups", "objects", "apps", "vault", "retain"}
        /\ next \in {"vault", "record"} =>
             \/ step \in {"retain", "vault"}
             \/ step = "apps" /\ choice = "delete"
    BY <1>1, NextStepAdds
  <2> HIDE DEF step, choice, next
  <2>2. /\ step = "retain" => choice # "delete"
        /\ left \cap Before[step] = {}
        /\ choice = "delete" /\ step \in {"objects", "apps", "vault", "record"}
             => "backups" \notin left
        /\ step \in {"vault", "record"} => Settled
    BY DEF RunLeft, StepInv, step, choice
  <2>3. left' \cap Before[next] = {}
    BY <1>4, <2>1, <2>2
  <2>4. choice = "delete" /\ next \in {"objects", "apps", "vault", "record"}
          => "backups" \notin left'
    BY <1>4, <2>1, <2>2
  <2>5. next \in {"vault", "record"} => Settled'
    <3>1. CASE step = "apps" /\ choice = "delete"
      BY <1>4, <2>2, <3>1 DEF Settled
    <3>2. CASE step \in {"retain", "vault"}
      BY <1>4, <2>2, <3>2
    <3> QED BY <2>1, <3>1, <3>2
  <2> QED BY <1>2, <1>3, <2>1, <2>3, <2>4, <2>5 DEF StepInv
<1> QED BY <1>3, <1>5 DEF RunLeft, CopyInv, PurgeInv, TornInv, PauseRunning, ResumeRunning,
           Updatable

\* So do the steps of the hard delete.
LEMMA TeardownLeft ==
  ASSUME TypeOK, NEW r \in Runs, RunLeft(r),
         \/ RunDueDeletions(r)
         \/ HoldDeletion(r)
         \/ DeletionRefused(r)
         \/ RecheckUnderLease(r)
         \/ BeginDeletion(r)
         \/ ReadClaimed(r)
         \/ StepDone(r)
         \/ StepFailed(r)
         \/ DeleteProjectRecord(r)
  PROVE  RunLeft(r)'
<1> USE GotoLeft, FinishLeft
    DEF PlainLabels, Labels, Leased, PauseRunning, ResumeRunning, CancelRunning
<1>1. CASE RunDueDeletions(r)
  <2>1. pc'[r] = "holdDeletion" /\ job'[r].step = FirstStep
    BY <1>1 DEF RunDueDeletions, TypeOK, NoJob
  <2> QED BY <2>1, PlainRun
<1>2. CASE HoldDeletion(r)
  BY <1>2, ReadLeft DEF HoldDeletion
<1>3. CASE DeletionRefused(r)
  BY <1>3 DEF DeletionRefused
<1>4. CASE RecheckUnderLease(r)
  BY <1>4 DEF RecheckUnderLease
<1>5. CASE BeginDeletion(r)
  <2>1. CASE Finish(r)
    BY <2>1
  <2>2. CASE /\ row' = Claimed(row, job[r].choice)
             /\ job' = [job EXCEPT ![r] = [job[r] EXCEPT !.choice = InForce(row, job[r].choice)]]
             /\ pc' = [pc EXCEPT ![r] = "reread"]
    <3>1. pc'[r] = "reread" /\ job[r] \in Jobs
      BY <2>2 DEF TypeOK
    <3>2. job'[r].step = job[r].step
      BY <2>2, <3>1 DEF TypeOK, Jobs
    <3>3. job'[r].step = FirstStep
      BY <1>5, <3>2, NotBegun DEF BeginDeletion
    <3>4. row'.status = "DELETING"
      BY <2>2 DEF Claimed, TypeOK, Rows
    <3> QED BY <3>1, <3>3, <3>4 DEF RunLeft, CopyInv, StepInv, PurgeInv, TornInv, FirstStep,
               Before, Updatable, LiveStatuses
  <2> QED BY <1>5, <2>1, <2>2 DEF BeginDeletion
<1>6. CASE ReadClaimed(r)
  <2>1. CASE Goto(r, "teardown")
    <3>1. pc[r] = "reread" /\ pc'[r] = "teardown" /\ job'[r] = job[r] /\ row' = row
      BY <1>6, <2>1 DEF ReadClaimed, Goto, TypeOK
    <3>2. job'[r].step = FirstStep /\ ~Updatable(row)'
      BY <3>1, NotBegun DEF RunLeft, TornInv, Updatable
    <3> QED BY <3>1, <3>2 DEF RunLeft, CopyInv, StepInv, PurgeInv, TornInv, FirstStep, Before
  <2> QED BY <1>6, <2>1 DEF ReadClaimed
<1>7. CASE StepDone(r)
  BY <1>7, StepLeft
<1>8. CASE StepFailed(r)
  BY <1>8 DEF StepFailed
<1>9. CASE DeleteProjectRecord(r)
  BY <1>9 DEF DeleteProjectRecord
<1> QED BY <1>1, <1>2, <1>3, <1>4, <1>5, <1>6, <1>7, <1>8, <1>9

\* So do the operations that take no lease.
LEMMA LeaselessLeft ==
  ASSUME TypeOK, NEW r \in Runs, RunLeft(r), RowLeft,
         \/ PurgeBackups(r)
         \/ PurgeRun(r)
         \/ PurgeDelete(r)
         \/ (\E enabled \in BOOLEAN : SetDeletionProtection(r, enabled))
         \/ WriteProtection(r)
         \/ (\E choice \in Choices : ForceDropProject(r, choice))
         \/ ClearProtection(r)
  PROVE  RunLeft(r)'
<1> USE GotoLeft, FinishLeft
    DEF PlainLabels, Labels, Leased, PauseRunning, ResumeRunning, CancelRunning
<1>1. CASE PurgeBackups(r)
  <2>1. pc'[r] = "purge" /\ pc[r] = "idle" /\ row' = row /\ left' = left /\ job[r] \in Jobs
    BY <1>1 DEF PurgeBackups, Call, TypeOK, world
  <2>2. job'[r].step = job[r].step
    BY <1>1, <2>1 DEF PurgeBackups, Call, TypeOK, Jobs
  <2>3. job'[r].step = FirstStep
    BY <2>1, <2>2, NotBegun
  <2>4. Halted' /\ ~Updatable(row)'
    BY <1>1, <2>1 DEF PurgeBackups, RowLeft, Halted, Updatable, LiveStatuses
  <2> QED BY <2>1, <2>3, <2>4 DEF RunLeft, CopyInv, StepInv, PurgeInv, TornInv, FirstStep, Before
<1>2. CASE PurgeRun(r)
  <2>1. CASE Goto(r, "purgeDelete") /\ left' = left \ {"backups"} /\ UNCHANGED row
    <3>1. pc[r] = "purge" /\ pc'[r] = "purgeDelete" /\ job'[r] = job[r]
      BY <1>2, <2>1 DEF PurgeRun, Goto, TypeOK
    <3>2. job'[r].step = FirstStep /\ ~Updatable(row)' /\ Halted'
      BY <2>1, <3>1, NotBegun DEF RunLeft, TornInv, PurgeInv, Updatable, Halted
    <3> QED BY <2>1, <3>1, <3>2 DEF RunLeft, CopyInv, StepInv, PurgeInv, TornInv, FirstStep, Before
  <2> QED BY <1>2, <2>1 DEF PurgeRun
<1>3. CASE PurgeDelete(r)
  BY <1>3 DEF PurgeDelete
<1>4. CASE (\E enabled \in BOOLEAN : SetDeletionProtection(r, enabled))
  <2>1. pc'[r] = "writeProtection" /\ pc[r] = "idle" /\ job[r] \in Jobs
    BY <1>4 DEF SetDeletionProtection, TypeOK
  <2>2. job'[r].step = job[r].step
    BY <1>4, <2>1 DEF SetDeletionProtection, TypeOK, Jobs
  <2> QED BY <2>1, <2>2, NotBegun, PlainRun
<1>5. CASE WriteProtection(r)
  BY <1>5 DEF WriteProtection
<1>6. CASE (\E choice \in Choices : ForceDropProject(r, choice))
  <2>1. PICK choice \in Choices : ForceDropProject(r, choice)
    BY <1>6
  <2>2. job'[r].step = FirstStep
    BY <2>1 DEF ForceDropProject, TypeOK, NoJob
  <2>3. CASE pc' = [pc EXCEPT ![r] = "holdDeletion"]
    BY <2>2, <2>3, PlainRun DEF TypeOK
  <2>4. CASE /\ pc' = [pc EXCEPT ![r] = "clearProtection"]
             /\ mem' = [mem EXCEPT ![r] = [row EXCEPT !.protected = FALSE]]
             /\ ~IsDeletionStatus(row.status) /\ row.status # Gone
    <3>1. pc'[r] = "clearProtection" /\ mem'[r].status = row.status
      BY <2>4 DEF TypeOK, Rows
    <3>2. row.status \in LiveStatuses
      BY <2>4 DEF TypeOK, Rows, IsDeletionStatus
    <3> QED BY <2>2, <3>1, <3>2 DEF RunLeft, CopyInv, StepInv, PurgeInv, TornInv, FirstStep, Before
  <2> QED BY <2>1, <2>3, <2>4 DEF ForceDropProject
<1>7. CASE ClearProtection(r)
  BY <1>7 DEF ClearProtection
<1> QED BY <1>1, <1>2, <1>3, <1>4, <1>5, <1>6, <1>7

--------------------------------------------------------------------------------
(* Where a run comes from.                                                 *)

\* The labels that later proofs say something about, each with the steps that
\* take a run there.
Arrives(r) ==
  /\ pc'[r] = "enterPausing" => AdmitPause(r)
  /\ pc'[r] = "enterResuming" => AdmitResume(r)
  /\ pc'[r] = "awaitReady" => StartWorkload(r)
  /\ pc'[r] = "restartReplication" => AwaitReady(r)
  /\ pc'[r] = "publish" => RestartReplication(r)
  /\ pc'[r] = "markActive" => PublishEndpoint(r)
  /\ pc'[r] = "stopAgain" => ReadMark(r)
  /\ pc'[r] = "markPending" => StopAgain(r)
  /\ pc'[r] = "writeChoice" => ReadChoice(r)
  /\ pc'[r] = "holdDeletion" =>
       \/ AdmitDeletion(r) \/ RunDueDeletions(r) \/ ClearProtection(r)
       \/ \E choice \in Choices : ForceDropProject(r, choice)
  /\ pc'[r] = "recheck" => HoldDeletion(r)
  /\ pc'[r] = "beginDeletion" => RecheckUnderLease(r)
  /\ pc'[r] = "reread" => BeginDeletion(r)
  /\ pc'[r] = "teardown" => ReadClaimed(r) \/ StepDone(r)
  /\ pc'[r] = "purge" => PurgeBackups(r)
  /\ pc'[r] = "purgeDelete" => PurgeRun(r)

\* Every step of a run arrives so.
LEMMA Arrivals ==
  ASSUME TypeOK, NEW r \in Runs, CallerStarts(r) \/ RunDueDeletions(r) \/ Step(r)
  PROVE  Arrives(r)
<1> USE DEF Arrives, TypeOK, Goto, Read, Write, Finish, AfterStop
<1>1. CASE CallerStarts(r) \/ RunDueDeletions(r)
  <2>1. CASE Pause(r) \/ Resume(r) \/ CancelDeletion(r)
    BY <2>1 DEF Pause, Resume, CancelDeletion, Call
  <2>2. CASE (\E choice \in Choices : ScheduleDeletion(r, choice)) \/ RunDueDeletions(r)
    BY <2>2 DEF ScheduleDeletion, RunDueDeletions
  <2>3. CASE PurgeBackups(r)
    BY <2>3 DEF PurgeBackups, Call
  <2>4. CASE \E enabled \in BOOLEAN : SetDeletionProtection(r, enabled)
    BY <2>4 DEF SetDeletionProtection
  <2>5. CASE \E choice \in Choices : ForceDropProject(r, choice)
    <3>1. PICK choice \in Choices : ForceDropProject(r, choice)
      BY <2>5
    <3>2. PICK label \in {"clearProtection", "holdDeletion"} : pc' = [pc EXCEPT ![r] = label]
      BY <3>1, Zenon DEF ForceDropProject
    <3> QED BY <2>5, <3>2
  <2> QED BY <1>1, <2>1, <2>2, <2>3, <2>4, <2>5 DEF CallerStarts
<1>2. CASE \/ AdmitPause(r) \/ EnterPausing(r) \/ PrePauseBackup(r) \/ PollBackup(r)
           \/ StopReplication(r) \/ StopWorkload(r)
  BY <1>2 DEF AdmitPause, EnterPausing, PrePauseBackup, PollBackup, StopReplication,
     StopWorkload
<1>3. CASE \/ AwaitStopped(r) \/ RepairReplication(r) \/ WithdrawEndpoint(r) \/ MarkPaused(r)
           \/ FailPause(r) \/ FailBackup(r)
  BY <1>3 DEF AwaitStopped, RepairReplication, WithdrawEndpoint, MarkPaused,
     FailPause, FailBackup
<1>4. CASE \/ AdmitResume(r) \/ EnterResuming(r) \/ StartWorkload(r) \/ AwaitReady(r)
           \/ RestartReplication(r) \/ PublishEndpoint(r) \/ MarkActive(r) \/ FailResume(r)
  BY <1>4 DEF AdmitResume, EnterResuming, StartWorkload, AwaitReady,
     RestartReplication, PublishEndpoint, MarkActive, FailResume
<1>5. CASE AdmitDeletion(r)
  BY <1>5 DEF AdmitDeletion, Rows, HoldsCustomerData, IsDeletionStatus, LiveStatuses,
     DeletionStatuses
<1>6. CASE \/ StopWorkloads(r) \/ HoldPause(r) \/ HoldMark(r) \/ ReadMark(r) \/ StopAgain(r)
           \/ MarkPendingDeletion(r) \/ HoldChoice(r) \/ ReadChoice(r) \/ UpdatePendingChoice(r)
  BY <1>6 DEF StopWorkloads, Stopped, HoldPause, HoldMark, HoldChoice, Hold, ReadMark,
     StopAgain, MarkPendingDeletion, ReadChoice, UpdatePendingChoice
<1>7. CASE \/ ReadCancel(r) \/ RestartRuntime(r) \/ RouteSites(r) \/ WriteCancel(r)
           \/ UnrouteSites(r)
  BY <1>7 DEF ReadCancel, RestartRuntime, RouteSites, WriteCancel, UnrouteSites
<1>8. CASE \/ HoldDeletion(r) \/ DeletionRefused(r) \/ RecheckUnderLease(r)
           \/ BeginDeletion(r) \/ ReadClaimed(r) \/ StepDone(r) \/ StepFailed(r)
           \/ DeleteProjectRecord(r)
  BY <1>8 DEF HoldDeletion, DeletionRefused, RecheckUnderLease, BeginDeletion, ReadClaimed,
     StepDone, StepFailed, DeleteProjectRecord
<1>9. CASE PurgeRun(r) \/ PurgeDelete(r) \/ WriteProtection(r) \/ ClearProtection(r)
  BY <1>9 DEF PurgeRun, PurgeDelete, WriteProtection, ClearProtection
<1> QED BY <1>1, <1>2, <1>3, <1>4, <1>5, <1>6, <1>7, <1>8, <1>9 DEF Step

--------------------------------------------------------------------------------
(* Every step.                                                             *)

\* What another run knows is not disturbed: nothing comes back, and a row no
\* general write may touch stays one.
LEMMA OthersLeft ==
  ASSUME LeftInv, NEW r \in Runs, OthersKept(r), RowChange(r),
         left' \subseteq left, Settled => Settled', NEW s \in Runs \ {r}
  PROVE  RunLeft(s)'
<1>1. RunLeft(s)
  BY DEF LeftInv
<1>2. pc'[s] = pc[s] /\ mem'[s] = mem[s] /\ job'[s] = job[s]
  BY DEF OthersKept
<1>3. ~Updatable(row) => ~Updatable(row)'
  BY DEF RowChange, Updatable, IsDeletionStatus, DeletionStatuses, LiveStatuses, GoneRow, Gone
<1>4. CopyInv(s)' /\ TornInv(s)'
  BY <1>1, <1>2, <1>3 DEF RunLeft, CopyInv, TornInv
<1>5. StepInv(s)' /\ PurgeInv(s)'
  BY <1>1, <1>2 DEF RunLeft, StepInv, PurgeInv, Halted
<1> QED BY <1>4, <1>5 DEF RunLeft

\* What the row says of what is left stays true.
LEMMA RowLeftKept ==
  ASSUME LeftInv, NEW r \in Runs, RowChange(r), LeftChange(r)
  PROVE  RowLeft'
<1> RowLeft /\ RunLeft(r)
  BY DEF LeftInv
<1> left' \subseteq left /\ (Settled => Settled') /\ (Halted => Halted')
  BY DEF LeftChange, Halted, Settled
<1>1. Updatable(row)' => left' = Resources /\ retained' = 0
  <2>1. Updatable(row)' => Updatable(row)
    BY DEF RowChange, Updatable, IsDeletionStatus, DeletionStatuses, LiveStatuses, GoneRow, Gone
  <2>2. Updatable(row) => UNCHANGED <<left, retained>>
    BY DEF LeftChange, StepDone, StepFailed, PurgeRun, RunLeft, TornInv
  <2> QED BY <2>1, <2>2 DEF RowLeft
<1>2. row'.status = "BACKUPS_PENDING_DELETE" => Halted'
  BY DEF RowChange, RowLeft, RunLeft, StepInv, PurgeInv, Halted, Updatable, LiveStatuses,
     GoneRow, Gone
<1>3. row'.status = Gone => row' = GoneRow /\ Halted' /\ Settled'
  <2>1. CASE row' = row
    BY <2>1 DEF RowLeft
  <2>2. CASE row' = GoneRow /\ pc[r] = "purgeDelete"
    BY <2>2 DEF RunLeft, PurgeInv, Settled
  <2>3. CASE row' = GoneRow /\ pc[r] = "teardown" /\ job[r].step = "record"
    <3>1. Before["backups"] \subseteq Before["record"]
      BY DEF Before
    <3> QED BY <2>3, <3>1 DEF RunLeft, StepInv, Halted
  <2>4. CASE row'.status # Gone
    BY <2>4
  <2> QED BY <2>1, <2>2, <2>3, <2>4 DEF RowChange, Updatable, LiveStatuses, IsDeletionStatus,
             DeletionStatuses, Gone
<1> QED BY <1>1, <1>2, <1>3 DEF RowLeft

\* The invariant is kept by every step.
LEMMA LeftStep ==
  ASSUME TypeOK', LeftInv, [Next]_vars
  PROVE  LeftInv'
<1> TypeOK /\ RowLeft
  BY DEF LeftInv
<1>1. ASSUME NEW r \in Runs, CallerStarts(r) \/ RunDueDeletions(r) \/ Step(r)
      PROVE  LeftInv'
  <2>1. RunLeft(r) /\ CopyInv(r)
    BY DEF LeftInv, RunLeft
  <2>2. OthersKept(r) /\ RowChange(r) /\ LeftChange(r)
    BY <1>1, <2>1, RunMoves, RunRowChange, RunLeftChange
  <2>3. RunLeft(r)'
    BY <1>1, <2>1, PauseLeft, ResumeLeft, ScheduleLeft, CancelLeft, TeardownLeft,
       LeaselessLeft DEF CallerStarts, Step
  <2>4. left' \subseteq left /\ (Settled => Settled')
    BY <2>2 DEF LeftChange, Settled
  <2>5. \A s \in Runs \ {r} : RunLeft(s)'
    BY <2>2, <2>4, OthersLeft
  <2> QED BY <2>2, <2>3, <2>5, RowLeftKept DEF LeftInv
<1>2. ASSUME NEW r \in Runs, Crash(r)
      PROVE  LeftInv'
  <2>1. Finish(r) /\ UNCHANGED <<row, left, retained>>
    BY <1>2 DEF Crash, world
  <2>2. RowChange(r) /\ LeftChange(r) /\ OthersKept(r)
    BY <2>1, FinishMove DEF RowChange, LeftChange
  <2>3. RunLeft(r)'
    BY <2>1, FinishLeft DEF LeftInv
  <2>4. \A s \in Runs \ {r} : RunLeft(s)'
    BY <2>1, <2>2, OthersLeft DEF Settled
  <2> QED BY <2>2, <2>3, <2>4, RowLeftKept DEF LeftInv
<1>3. CASE PurgeRetained
  <2>1. /\ UNCHANGED <<row, pc, mem, job>>
        /\ retained # 0 /\ left' = left \ {"backups"} /\ "backups" \notin left'
    BY <1>3 DEF PurgeRetained, control
  <2>2. Settled' /\ (Halted => Halted')
    BY <2>1 DEF Settled, Halted
  <2>3. RowLeft'
    BY <2>1, <2>2 DEF RowLeft, Updatable
  <2>4. ASSUME NEW s \in Runs PROVE RunLeft(s)'
    <3>1. RunLeft(s)
      BY DEF LeftInv
    <3> QED BY <2>1, <2>2, <3>1 DEF RunLeft, CopyInv, StepInv, PurgeInv, TornInv, Updatable
  <2> QED BY <2>3, <2>4 DEF LeftInv
<1>4. CASE \/ OperatorFollows \/ Tick \/ UNCHANGED vars
           \/ \E r \in Runs : LoseLease(r)
  <2>1. UNCHANGED <<row, pc, mem, job, left, retained>>
    BY <1>4 DEF OperatorFollows, Tick, LoseLease, vars, control, world
  <2>2. UNCHANGED <<Settled, Halted>>
    BY <2>1 DEF Settled, Halted
  <2>3. RowLeft'
    BY <2>1, <2>2 DEF RowLeft, Updatable
  <2>4. ASSUME NEW s \in Runs PROVE RunLeft(s)'
    <3>1. RunLeft(s)
      BY DEF LeftInv
    <3> QED BY <2>1, <2>2, <3>1 DEF RunLeft, CopyInv, StepInv, PurgeInv, TornInv, Updatable
  <2> QED BY <2>3, <2>4 DEF LeftInv
<1> QED BY <1>1, <1>2, <1>3, <1>4 DEF Next

\* It holds initially.
LEMMA LeftInit == Init /\ TypeOK => LeftInv
<1> SUFFICES ASSUME Init, TypeOK PROVE LeftInv
  OBVIOUS
<1>1. RowLeft
  BY DEF Init, RowLeft, Gone
<1>2. ASSUME NEW r \in Runs PROVE RunLeft(r)
  BY DEF Init, RunLeft, CopyInv, StepInv, PurgeInv, TornInv, PauseRunning, ResumeRunning,
     NoJob, FirstStep, Before
<1> QED BY <1>1, <1>2 DEF LeftInv

\* So it holds throughout.
LEMMA LeftInvariant == Spec => []LeftInv
<1>1. Init /\ TypeOK => LeftInv
  BY LeftInit
<1>2. TypeOK' /\ LeftInv /\ [Next]_vars => LeftInv'
  BY LeftStep
<1> QED BY <1>1, <1>2, TypeCorrect, PTL DEF Spec

--------------------------------------------------------------------------------
(* What follows.                                                           *)

\* Kept backups are dated: whatever leases are lost, and however teardowns,
\* purge retries and retention purges overlap, a dropped project whose backups
\* are still there has a purge date recorded for them.
THEOREM KeptBackupsAreDatedHolds == Spec => []KeptBackupsAreDated
<1>1. LeftInv => KeptBackupsAreDated
  BY DEF LeftInv, RowLeft, Settled, KeptBackupsAreDated
<1> QED BY <1>1, LeftInvariant, PTL

\* What a dropped project may leave in the cluster at worst: everything that a
\* teardown removes before it comes to the backups is gone, even when a purge
\* retry drops the row of a teardown that stopped there.
GoneMeansStopped == row.status = Gone => left \subseteq {"backups", "objects", "apps", "vault"}

\* A dropped project has no endpoint, no database, no workload and no site left,
\* whoever dropped its row.
THEOREM GoneMeansStoppedHolds == Spec => []GoneMeansStopped
<1>1. LeftInv => GoneMeansStopped
  BY DEF LeftInv, RowLeft, Halted, Before, GoneMeansStopped, TypeOK
<1> QED BY <1>1, LeftInvariant, PTL

\* Without purge retries there is nobody to drop a row but the last step of a
\* teardown.
CleanInv ==
  /\ row.status = Gone => left \subseteq {"backups"}
  /\ \A r \in Runs : pc[r] \notin {"purge", "purgeDelete"}

\* The record is dropped last: without purge retries, which drop the row of a
\* teardown that stopped at its backups, a project that is gone has left nothing
\* but, possibly, its backups, whatever leases are lost and however many
\* teardowns of it run at once.
THEOREM GoneMeansCleanHolds ==
  ASSUME "purge" \notin Ops
  PROVE  Spec => []GoneMeansClean
<1>1. Init => CleanInv
  BY DEF Init, CleanInv, Gone
<1>2. ASSUME LeftInv, CleanInv, [Next]_vars
      PROVE  CleanInv'
  <2> TypeOK
    BY <1>2 DEF LeftInv
  <2>1. ASSUME NEW r \in Runs, CallerStarts(r) \/ RunDueDeletions(r) \/ Step(r)
        PROVE  CleanInv'
    <3>1. RunLeft(r) /\ CopyInv(r) /\ pc[r] \notin {"purge", "purgeDelete"}
      BY <1>2 DEF LeftInv, RunLeft, CleanInv
    <3>2. OthersKept(r) /\ RowChange(r) /\ LeftChange(r)
      BY <2>1, <3>1, RunMoves, RunRowChange, RunLeftChange
    <3>3. \A s \in Runs : pc'[s] \notin {"purge", "purgeDelete"}
      <4>1. pc'[r] \notin {"purge", "purgeDelete"}
        BY <2>1, <3>1, Arrivals DEF Arrives, PurgeBackups, Call, PurgeRun
      <4> QED BY <1>2, <3>2, <4>1 DEF OthersKept, CleanInv
    <3>4. left' \subseteq left
      BY <3>2 DEF LeftChange
    <3>5. row'.status = Gone =>
            row.status = Gone \/ (pc[r] = "teardown" /\ job[r].step = "record")
      BY <3>1, <3>2 DEF RowChange, Updatable, LiveStatuses, IsDeletionStatus,
         DeletionStatuses, Gone
    <3>6. job[r].step = "record" => left \subseteq {"backups"}
      BY <3>1 DEF RunLeft, StepInv, Before, TypeOK
    <3> QED BY <1>2, <3>3, <3>4, <3>5, <3>6 DEF CleanInv
  <2>2. ASSUME NEW r \in Runs, Crash(r) PROVE CleanInv'
    BY <1>2, <2>2, FinishMove DEF Crash, world, CleanInv, OthersKept
  <2>3. CASE PurgeRetained \/ OperatorFollows \/ Tick \/ UNCHANGED vars
             \/ \E r \in Runs : LoseLease(r)
    BY <1>2, <2>3 DEF PurgeRetained, OperatorFollows, Tick, LoseLease, vars, control, world,
       CleanInv
  <2> QED BY <1>2, <2>1, <2>2, <2>3 DEF Next
<1>3. CleanInv => GoneMeansClean
  BY DEF CleanInv, GoneMeansClean
<1> QED BY <1>1, <1>2, <1>3, LeftInvariant, PTL DEF Spec

\* A confirmed purge stands: no claim, no failed step and no stale copy takes
\* the decision to delete the backups back while a teardown owns the row.
THEOREM ConfirmedPurgeStandsHolds == Spec => ConfirmedPurgeStands
<1>1. ASSUME LeftInv, [Next]_vars, IsDeletionStatus(row.status), row.deleteBackups,
             row'.status # Gone
      PROVE  row'.deleteBackups
  <2> USE DEF Updatable, LiveStatuses, IsDeletionStatus, DeletionStatuses, GoneRow, Gone
  <2>1. ASSUME NEW r \in Runs, CallerStarts(r) \/ RunDueDeletions(r) \/ Step(r)
        PROVE  row'.deleteBackups
    <3>1. RowChange(r)
      BY <1>1, <2>1, RunRowChange DEF LeftInv, RunLeft
    <3> QED BY <1>1, <3>1 DEF RowChange
  <2>2. CASE row' = row
    BY <1>1, <2>2
  <2> QED BY <1>1, <2>1, <2>2 DEF Next, vars, PurgeRetained, Crash, LoseLease, OperatorFollows,
             Tick
<1> QED BY <1>1, LeftInvariant, PTL DEF Spec, ConfirmedPurgeStands
================================================================================
