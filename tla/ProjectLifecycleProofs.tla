------------------------- MODULE ProjectLifecycleProofs -------------------------
(***************************************************************************)
(* Proofs about ProjectLifecycle, for any number of runs, any periods and  *)
(* any length of time: its types, the one-way door and the lease.          *)
(*                                                                         *)
(* OneWayDoor holds whatever happens to the lease: it rests on the store's *)
(* predicates alone.  OneOperationAtATime needs that a lease is not lost   *)
(* under its run.                                                          *)
(***************************************************************************)
EXTENDS ProjectLifecycle, TLAPS

ControlOK == /\ lease \in Runs \cup {NoRun}
             /\ pc \in [Runs -> Labels]
             /\ mem \in [Runs -> Rows]
             /\ job \in [Runs -> Jobs]

WorldOK == /\ hibernate \in BOOLEAN /\ pods \in BOOLEAN
           /\ repl \in BOOLEAN /\ endpoint \in BOOLEAN
           /\ serving \in SUBSET Services
           /\ left \in SUBSET Resources
           /\ retained \in Nat

Typed == row \in Rows /\ ControlOK /\ WorldOK

--------------------------------------------------------------------------------
(* Types.                                                                  *)

\* TypeOK in the parts the lemmas below are about.
LEMMA TypeParts ==
  TypeOK <=> Typed /\ now \in Nat /\ crashes \in Nat
BY DEF TypeOK, Typed, ControlOK, WorldOK

\* The constant rows and jobs are of their types.
LEMMA ConstantTypes == GoneRow \in Rows /\ NoJob \in Jobs
BY DEF GoneRow, Rows, NoJob, Jobs, Gone, Choices, DeletionSteps, Resources, FirstStep

\* Moving to a label keeps the control state typed.
LEMMA GotoType ==
  ASSUME ControlOK, NEW r \in Runs, NEW label \in Labels, Goto(r, label)
  PROVE  ControlOK'
BY DEF ControlOK, Goto

\* So does reading the row.
LEMMA ReadType ==
  ASSUME ControlOK, row \in Rows, NEW r \in Runs, NEW label \in Labels, Read(r, label)
  PROVE  ControlOK'
BY DEF ControlOK, Read

\* So does writing a row, which is a row again.
LEMMA WriteType ==
  ASSUME ControlOK, NEW r \in Runs, NEW new \in Rows, NEW label \in Labels,
         Write(r, new, label)
  PROVE  ControlOK' /\ row' \in Rows
BY DEF ControlOK, Write

\* So does the end of a run, and the end of a run's pause.
LEMMA FinishType ==
  ASSUME ControlOK, NEW r \in Runs, Finish(r) \/ AfterStop(r)
  PROVE  ControlOK'
BY ConstantTypes DEF ControlOK, Finish, AfterStop, Release, Labels

\* Rows stay rows under the updates the actions make.
LEMMA RowUpdates ==
  ASSUME NEW rw \in Rows
  PROVE  /\ \A status \in LiveStatuses \cup DeletionStatuses :
              [rw EXCEPT !.status = status] \in Rows
         /\ \A status \in LiveStatuses \cup DeletionStatuses : \A e \in BOOLEAN :
              [rw EXCEPT !.status = status, !.episode = e] \in Rows
         /\ \A b \in BOOLEAN : [rw EXCEPT !.episode = b] \in Rows
         /\ \A b \in BOOLEAN : [rw EXCEPT !.protected = b] \in Rows
         /\ \A b \in BOOLEAN : [rw EXCEPT !.deleteBackups = b] \in Rows
         /\ \A due \in Nat : \A b \in BOOLEAN :
              [rw EXCEPT !.status = "PENDING_DELETION", !.deleteBackups = b,
                         !.due = due] \in Rows
         /\ [rw EXCEPT !.status = SettledStatus, !.due = 0,
                       !.deleteBackups = FALSE, !.protected = TRUE] \in Rows
         /\ \A b \in BOOLEAN :
              [rw EXCEPT !.status = "DELETING", !.deleteBackups = b] \in Rows
BY DEF Rows, LiveStatuses, DeletionStatuses, SettledStatus

\* Jobs stay jobs under the updates the actions make.
LEMMA JobUpdates ==
  ASSUME NEW j \in Jobs
  PROVE  /\ \A kind \in AllOps : [j EXCEPT !.kind = kind] \in Jobs
         /\ \A kind \in AllOps : \A choice \in Choices :
              [NoJob EXCEPT !.kind = kind, !.choice = choice] \in Jobs
         /\ \A kind \in AllOps : \A dueAt \in Nat :
              [NoJob EXCEPT !.kind = kind, !.dueAt = dueAt] \in Jobs
         /\ \A choice \in Choices : [j EXCEPT !.choice = choice] \in Jobs
         /\ \A step \in DeletionSteps : [j EXCEPT !.step = step] \in Jobs
BY ConstantTypes DEF Jobs

\* The steps of a pause keep the state typed.
LEMMA PauseTypes ==
  ASSUME TypeOK, NEW r \in Runs,
         \/ Pause(r)
         \/ AdmitPause(r)
         \/ EnterPausing(r)
         \/ PrePauseBackup(r)
         \/ PollBackup(r)
         \/ StopReplication(r)
         \/ StopWorkload(r)
         \/ AwaitStopped(r)
         \/ RepairReplication(r)
         \/ WithdrawEndpoint(r)
         \/ MarkPaused(r)
         \/ FailPause(r)
         \/ FailBackup(r)
  PROVE  Typed'
<1> USE TypeParts, GotoType, FinishType
        DEF world, Typed, WorldOK, Labels, Leased, PauseRunning, ResumeRunning,
            CancelRunning
<1>1. CASE Pause(r)
  BY <1>1, JobUpdates DEF Pause, Call, Claim, ControlOK, AllOps
<1>2. CASE AdmitPause(r)
  BY <1>2, ReadType DEF AdmitPause
<1>3. CASE EnterPausing(r)
  BY <1>3, WriteType, RowUpdates DEF EnterPausing, ControlOK, LiveStatuses
<1>4. CASE PrePauseBackup(r)
  <2> mem[r] \in Rows /\ [mem[r] EXCEPT !.episode = TRUE] \in Rows
    BY RowUpdates DEF ControlOK
  <2>1. CASE UNCHANGED row /\ (\E label \in Labels : Goto(r, label))
    BY <1>4, <2>1 DEF PrePauseBackup
  <2>2. CASE Write(r, [mem[r] EXCEPT !.episode = TRUE], "pollBackup")
    BY <1>4, <2>2, WriteType DEF PrePauseBackup
  <2>3. CASE /\ mem' = [mem EXCEPT ![r] = [mem[r] EXCEPT !.episode = TRUE]]
             /\ pc' = [pc EXCEPT ![r] = "failBackup"]
             /\ UNCHANGED <<row, lease, job>>
    BY <1>4, <2>3 DEF PrePauseBackup, ControlOK
  <2> QED BY <1>4, <2>1, <2>2, <2>3 DEF PrePauseBackup
<1>5. CASE PollBackup(r)
  BY <1>5 DEF PollBackup
<1>6. CASE StopReplication(r)
  BY <1>6 DEF StopReplication
<1>7. CASE StopWorkload(r)
  BY <1>7 DEF StopWorkload
<1>8. CASE AwaitStopped(r)
  BY <1>8 DEF AwaitStopped
<1>9. CASE RepairReplication(r)
  BY <1>9 DEF RepairReplication
<1>10. CASE WithdrawEndpoint(r)
  BY <1>10 DEF WithdrawEndpoint
<1>11. CASE MarkPaused(r)
  BY <1>11, RowUpdates DEF MarkPaused, ControlOK, LiveStatuses
<1>12. CASE FailPause(r)
  BY <1>12 DEF FailPause, ControlOK
<1>13. CASE FailBackup(r)
  BY <1>13, RowUpdates DEF FailBackup, ControlOK, LiveStatuses
<1> QED BY <1>1, <1>2, <1>3, <1>4, <1>5, <1>6, <1>7, <1>8, <1>9, <1>10, <1>11, <1>12, <1>13

\* So do the steps of a resume.
LEMMA ResumeTypes ==
  ASSUME TypeOK, NEW r \in Runs,
         \/ Resume(r)
         \/ AdmitResume(r)
         \/ EnterResuming(r)
         \/ StartWorkload(r)
         \/ AwaitReady(r)
         \/ RestartReplication(r)
         \/ PublishEndpoint(r)
         \/ MarkActive(r)
         \/ FailResume(r)
  PROVE  Typed'
<1> USE TypeParts, GotoType, FinishType
        DEF world, Typed, WorldOK, Labels, Leased, PauseRunning, ResumeRunning,
            CancelRunning
<1>1. CASE Resume(r)
  BY <1>1, JobUpdates DEF Resume, Call, Claim, ControlOK, AllOps
<1>2. CASE AdmitResume(r)
  BY <1>2, ReadType DEF AdmitResume
<1>3. CASE EnterResuming(r)
  BY <1>3, WriteType, RowUpdates DEF EnterResuming, ControlOK, LiveStatuses
<1>4. CASE StartWorkload(r)
  BY <1>4 DEF StartWorkload
<1>5. CASE AwaitReady(r)
  BY <1>5 DEF AwaitReady
<1>6. CASE RestartReplication(r)
  BY <1>6 DEF RestartReplication
<1>7. CASE PublishEndpoint(r)
  BY <1>7 DEF PublishEndpoint
<1>8. CASE MarkActive(r)
  BY <1>8, RowUpdates DEF MarkActive, ControlOK, LiveStatuses
<1>9. CASE FailResume(r)
  BY <1>9 DEF FailResume, ControlOK
<1> QED BY <1>1, <1>2, <1>3, <1>4, <1>5, <1>6, <1>7, <1>8, <1>9

\* So do the steps of a scheduled deletion.
LEMMA ScheduleTypes ==
  ASSUME TypeOK, NEW r \in Runs,
         \/ (\E choice \in Choices : ScheduleDeletion(r, choice))
         \/ AdmitDeletion(r)
         \/ StopWorkloads(r)
         \/ HoldPause(r)
         \/ HoldMark(r)
         \/ HoldChoice(r)
         \/ ReadMark(r)
         \/ StopAgain(r)
         \/ MarkPendingDeletion(r)
         \/ ReadChoice(r)
         \/ UpdatePendingChoice(r)
  PROVE  Typed'
<1> USE TypeParts, GotoType, FinishType
        DEF world, Typed, WorldOK, Labels, Leased, PauseRunning, ResumeRunning,
            CancelRunning
<1>1. CASE (\E choice \in Choices : ScheduleDeletion(r, choice))
  <2>1. PICK choice \in Choices : ScheduleDeletion(r, choice)
    BY <1>1
  <2>2. [NoJob EXCEPT !.kind = "delete", !.choice = choice] \in Jobs
    BY ConstantTypes, JobUpdates DEF AllOps
  <2> QED BY <2>1, <2>2 DEF ScheduleDeletion, ControlOK
<1>2. CASE AdmitDeletion(r)
  <2>1. row.status \in {Gone, "PENDING_DELETION"} \/ IsDeletionStatus(row.status)
          \/ HoldsCustomerData(row.status)
    BY DEF Rows, HoldsCustomerData, IsDeletionStatus, LiveStatuses, DeletionStatuses
  <2>2. Finish(r) \/ (\E label \in Labels : Goto(r, label))
    BY <1>2, <2>1 DEF AdmitDeletion
  <2> QED BY <1>2, <2>2 DEF AdmitDeletion
<1>3. CASE StopWorkloads(r)
  BY <1>3 DEF StopWorkloads, Stopped
<1>4. CASE HoldPause(r)
  BY <1>4 DEF HoldPause, Hold, Claim, ControlOK
<1>5. CASE HoldMark(r)
  BY <1>5 DEF HoldMark, Hold, Claim, ControlOK
<1>6. CASE HoldChoice(r)
  BY <1>6 DEF HoldChoice, Hold, Claim, ControlOK
<1>7. CASE ReadMark(r)
  BY <1>7, ReadType DEF ReadMark
<1>8. CASE StopAgain(r)
  BY <1>8 DEF StopAgain, Stopped
<1>9. CASE MarkPendingDeletion(r)
  <2>1. now + Grace \in Nat /\ (job[r].choice = "delete") \in BOOLEAN
    BY TimeAssumption
  <2>2. row' \in Rows
    BY <1>9, <2>1, RowUpdates DEF MarkPendingDeletion, ControlOK
  <2> QED BY <1>9, <2>2 DEF MarkPendingDeletion
<1>10. CASE ReadChoice(r)
  BY <1>10, ReadType DEF ReadChoice
<1>11. CASE UpdatePendingChoice(r)
  BY <1>11, RowUpdates DEF UpdatePendingChoice, ControlOK
<1> QED BY <1>1, <1>2, <1>3, <1>4, <1>5, <1>6, <1>7, <1>8, <1>9, <1>10, <1>11

\* So do the steps of a cancel.
LEMMA CancelTypes ==
  ASSUME TypeOK, NEW r \in Runs,
         \/ CancelDeletion(r)
         \/ ReadCancel(r)
         \/ RestartRuntime(r)
         \/ RouteSites(r)
         \/ WriteCancel(r)
         \/ UnrouteSites(r)
  PROVE  Typed'
<1> USE TypeParts, GotoType, FinishType
        DEF world, Typed, WorldOK, Labels, Leased, PauseRunning, ResumeRunning,
            CancelRunning
<1>1. CASE CancelDeletion(r)
  BY <1>1, JobUpdates DEF CancelDeletion, Call, Claim, ControlOK, AllOps
<1>2. CASE ReadCancel(r)
  BY <1>2, ReadType DEF ReadCancel
<1>3. CASE RestartRuntime(r)
  BY <1>3 DEF RestartRuntime, Services
<1>4. CASE RouteSites(r)
  BY <1>4 DEF RouteSites, Services
<1>5. CASE WriteCancel(r)
  <2>1. CASE UNCHANGED row /\ Goto(r, "unrouteSites")
    BY <1>5, <2>1 DEF WriteCancel
  <2>2. CASE Finish(r) /\ row' = [mem[r] EXCEPT !.status = SettledStatus, !.due = 0,
                                     !.deleteBackups = FALSE, !.protected = TRUE]
    <3>1. row' \in Rows
      BY <2>2, RowUpdates DEF ControlOK
    <3> QED BY <1>5, <2>2, <3>1 DEF WriteCancel
  <2> QED BY <1>5, <2>1, <2>2 DEF WriteCancel
<1>6. CASE UnrouteSites(r)
  BY <1>6 DEF UnrouteSites
<1> QED BY <1>1, <1>2, <1>3, <1>4, <1>5, <1>6

\* The step after a step that is not the last is a step.
LEMMA NextStepType ==
  ASSUME NEW step \in DeletionSteps \ {"record"}, NEW choice
  PROVE  NextStep(step, choice) \in DeletionSteps
BY DEF NextStep, Skipped, StepAfter, DeletionSteps, Resources

\* A teardown step keeps the world typed.
LEMMA RunStepType ==
  ASSUME WorldOK, now \in Nat, NEW step, RunStep(step)
  PROVE  WorldOK'
BY TimeAssumption DEF WorldOK, RunStep

\* So do the steps of the hard delete.
LEMMA TeardownTypes ==
  ASSUME TypeOK, NEW r \in Runs,
         \/ RunDueDeletions(r)
         \/ HoldDeletion(r)
         \/ DeletionRefused(r)
         \/ RecheckUnderLease(r)
         \/ BeginDeletion(r)
         \/ ReadClaimed(r)
         \/ StepDone(r)
         \/ StepFailed(r)
         \/ DeleteProjectRecord(r)
  PROVE  Typed'
<1> USE TypeParts, GotoType, FinishType
        DEF world, Typed, WorldOK, Labels, Leased, PauseRunning, ResumeRunning,
            CancelRunning
<1>1. CASE RunDueDeletions(r)
  BY <1>1, ConstantTypes, JobUpdates DEF RunDueDeletions, ControlOK, AllOps
<1>2. CASE HoldDeletion(r)
  BY <1>2 DEF HoldDeletion, Claim, ControlOK
<1>3. CASE DeletionRefused(r)
  BY <1>3 DEF DeletionRefused
<1>4. CASE RecheckUnderLease(r)
  BY <1>4 DEF RecheckUnderLease
<1>5. CASE BeginDeletion(r)
  <2>1. EffectiveBackupIntent(row, job[r].choice) \in BOOLEAN
    BY DEF EffectiveBackupIntent, ControlOK, Rows, Jobs, Choices
  <2>2. InForce(row, job[r].choice) \in Choices
    BY DEF InForce, Choices
  <2>3. Claimed(row, job[r].choice) \in Rows
    BY <2>1, RowUpdates DEF Claimed
  <2>4. CASE Finish(r) /\ UNCHANGED row
    BY <1>5, <2>4 DEF BeginDeletion
  <2>5. CASE /\ row' = Claimed(row, job[r].choice)
             /\ job' = [job EXCEPT ![r] = [job[r] EXCEPT !.choice = InForce(row, job[r].choice)]]
             /\ pc' = [pc EXCEPT ![r] = "reread"]
             /\ UNCHANGED <<lease, mem>>
    <3>1. job[r] \in Jobs BY DEF ControlOK
    <3>2. [job[r] EXCEPT !.choice = InForce(row, job[r].choice)] \in Jobs
      BY <2>2, <3>1, JobUpdates
    <3> QED BY <1>5, <2>3, <2>5, <3>2 DEF BeginDeletion, ControlOK
  <2> QED BY <1>5, <2>4, <2>5 DEF BeginDeletion
<1>6. CASE ReadClaimed(r)
  BY <1>6 DEF ReadClaimed
<1>7. CASE StepDone(r)
  <2>1. job[r] \in Jobs /\ job[r].step \in DeletionSteps \ {"record"}
    BY <1>7 DEF StepDone, ControlOK, Jobs
  <2>2. [job[r] EXCEPT !.step = NextStep(job[r].step, job[r].choice)] \in Jobs
    BY <2>1, NextStepType, JobUpdates
  <2>3. job' = [job EXCEPT ![r] = [job[r] EXCEPT !.step = NextStep(job[r].step, job[r].choice)]]
    BY <1>7 DEF StepDone
  <2>4. ControlOK'
    BY <1>7, <2>2, <2>3 DEF StepDone, ControlOK
  <2>5. WorldOK'
    BY <1>7, RunStepType DEF StepDone
  <2> QED BY <1>7, <2>4, <2>5 DEF StepDone
<1>8. CASE StepFailed(r)
  BY <1>8, RowUpdates, RunStepType DEF StepFailed, FailedAt, DeletionStatuses
<1>9. CASE DeleteProjectRecord(r)
  BY <1>9, ConstantTypes DEF DeleteProjectRecord
<1> QED BY <1>1, <1>2, <1>3, <1>4, <1>5, <1>6, <1>7, <1>8, <1>9

\* So do the operations that take no lease.
LEMMA LeaselessTypes ==
  ASSUME TypeOK, NEW r \in Runs,
         \/ PurgeBackups(r)
         \/ PurgeRun(r)
         \/ PurgeDelete(r)
         \/ (\E enabled \in BOOLEAN : SetDeletionProtection(r, enabled))
         \/ WriteProtection(r)
         \/ (\E choice \in Choices : ForceDropProject(r, choice))
         \/ ClearProtection(r)
  PROVE  Typed'
<1> USE TypeParts, GotoType, FinishType
        DEF world, Typed, WorldOK, Labels, Leased, PauseRunning, ResumeRunning,
            CancelRunning
<1>1. CASE PurgeBackups(r)
  BY <1>1, JobUpdates DEF PurgeBackups, Call, ControlOK, AllOps
<1>2. CASE PurgeRun(r)
  <2>1. [row EXCEPT !.status = "BACKUPS_PENDING_DELETE"] \in Rows
    BY RowUpdates DEF DeletionStatuses
  <2>2. row' \in Rows
    BY <1>2, <2>1 DEF PurgeRun, FailedAt
  <2>3. ControlOK'
    BY <1>2 DEF PurgeRun
  <2>4. WorldOK'
    BY <1>2 DEF PurgeRun
  <2> QED BY <2>2, <2>3, <2>4
<1>3. CASE PurgeDelete(r)
  BY <1>3, ConstantTypes DEF PurgeDelete
<1>4. CASE (\E enabled \in BOOLEAN : SetDeletionProtection(r, enabled))
  <2>1. PICK enabled \in BOOLEAN : SetDeletionProtection(r, enabled)
    BY <1>4
  <2>2. [row EXCEPT !.protected = enabled] \in Rows
    BY RowUpdates
  <2>3. [job[r] EXCEPT !.kind = "protect"] \in Jobs
    BY JobUpdates DEF ControlOK, AllOps
  <2> QED BY <2>1, <2>2, <2>3 DEF SetDeletionProtection, ControlOK
<1>5. CASE WriteProtection(r)
  BY <1>5 DEF WriteProtection, ControlOK
<1>6. CASE (\E choice \in Choices : ForceDropProject(r, choice))
  <2>1. PICK choice \in Choices : ForceDropProject(r, choice)
    BY <1>6
  <2>2. [row EXCEPT !.protected = FALSE] \in Rows
    BY RowUpdates
  <2>3. [NoJob EXCEPT !.kind = "force", !.choice = choice] \in Jobs
    BY ConstantTypes, JobUpdates DEF AllOps
  <2>4. pc' \in [Runs -> Labels] /\ lease' = lease
    <3>1. PICK label \in {"clearProtection", "holdDeletion"} : pc' = [pc EXCEPT ![r] = label]
      BY <2>1, Zenon DEF ForceDropProject
    <3> QED BY <2>1, <3>1 DEF ForceDropProject, ControlOK
  <2>5. mem' \in [Runs -> Rows]
    BY <2>1, <2>2 DEF ForceDropProject, ControlOK
  <2>6. job' \in [Runs -> Jobs]
    BY <2>1, <2>3 DEF ForceDropProject, ControlOK
  <2> QED BY <2>1, <2>4, <2>5, <2>6 DEF ForceDropProject, ControlOK
<1>7. CASE ClearProtection(r)
  BY <1>7 DEF ClearProtection, ControlOK
<1> QED BY <1>1, <1>2, <1>3, <1>4, <1>5, <1>6, <1>7

\* Every variable keeps its kind, whatever the runs do: TypeOK is an invariant
\* of the lifecycle, with or without lost leases.
THEOREM TypeCorrect == Spec => []TypeOK
<1>1. Init => TypeOK
  <2> SUFFICES ASSUME Init PROVE TypeOK
    OBVIOUS
  <2>1. row \in Rows
    BY DEF Init, Rows, LiveStatuses
  <2>2. "idle" \in Labels
    BY DEF Labels
  <2> QED BY <2>1, <2>2, ConstantTypes DEF Init, TypeOK
<1>2. TypeOK /\ [Next]_vars => TypeOK'
  <2> SUFFICES ASSUME TypeOK, [Next]_vars PROVE TypeOK'
    OBVIOUS
  <2> USE TypeParts
  <2>1. ASSUME NEW r \in Runs, CallerStarts(r) \/ RunDueDeletions(r) \/ Step(r), UNCHANGED env
        PROVE  TypeOK'
    <3>1. Typed'
      BY <2>1, PauseTypes, ResumeTypes, ScheduleTypes, CancelTypes, TeardownTypes,
         LeaselessTypes DEF CallerStarts, Step
    <3> QED BY <2>1, <3>1 DEF env, TypeOK, Typed, ControlOK, WorldOK
  <2>2. CASE PurgeRetained /\ UNCHANGED env
    BY <2>2 DEF PurgeRetained, TypeOK, control, env
  <2>3. ASSUME NEW r \in Runs, Crash(r) PROVE TypeOK'
    <3>1. ControlOK'
      BY <2>3, FinishType DEF Crash, Typed
    <3> QED BY <2>3, <3>1 DEF Crash, world, TypeOK, ControlOK
  <2>4. ASSUME NEW r \in Runs, LoseLease(r) PROVE TypeOK'
    BY <2>4 DEF LoseLease, TypeOK, world, env
  <2>5. CASE OperatorFollows
    BY <2>5 DEF OperatorFollows, TypeOK, control, env
  <2>6. CASE Tick
    BY <2>6 DEF Tick, TypeOK, control, world
  <2>7. CASE UNCHANGED vars
    BY <2>7 DEF vars, control, world, env, TypeOK
  <2> QED BY <2>1, <2>2, <2>3, <2>4, <2>5, <2>6, <2>7 DEF Next
<1> QED BY <1>1, <1>2, PTL DEF Spec

--------------------------------------------------------------------------------
(* The one-way door.                                                       *)

\* What one step may do to the row.
RowMove ==
  \/ row' = row
  \/ Updatable(row)
  \/ row.status # Gone /\ IsDeletionStatus(row'.status)
  \/ row' = GoneRow

\* A failed teardown step leaves a row that a teardown owns, or the row alone.
LEMMA FailedRow ==
  ASSUME NEW rw \in Rows, NEW status \in DeletionStatuses
  PROVE  FailedAt(rw, status) = rw
         \/ (rw.status # Gone /\ IsDeletionStatus(FailedAt(rw, status).status))
BY DEF FailedAt, IsDeletionStatus, DeletionStatuses, Rows, Gone

\* Every step of a run treats the row so.
LEMMA RunRowMove ==
  ASSUME TypeOK, NEW r \in Runs, CallerStarts(r) \/ RunDueDeletions(r) \/ Step(r)
  PROVE  RowMove
<1> USE DEF RowMove
<1>1. CASE CallerStarts(r) \/ RunDueDeletions(r)
  BY <1>1 DEF CallerStarts, Pause, Resume, CancelDeletion, ScheduleDeletion,
     RunDueDeletions, PurgeBackups, SetDeletionProtection, ForceDropProject
<1>2. CASE \/ AdmitPause(r) \/ PollBackup(r) \/ StopReplication(r) \/ StopWorkload(r)
           \/ AwaitStopped(r) \/ RepairReplication(r) \/ WithdrawEndpoint(r)
           \/ AdmitResume(r) \/ StartWorkload(r) \/ AwaitReady(r)
           \/ RestartReplication(r) \/ PublishEndpoint(r)
  BY <1>2 DEF AdmitPause, PollBackup, StopReplication, StopWorkload, AwaitStopped,
     RepairReplication, WithdrawEndpoint, AdmitResume, StartWorkload, AwaitReady,
     RestartReplication, PublishEndpoint
<1>3. CASE \/ AdmitDeletion(r) \/ StopWorkloads(r) \/ HoldPause(r) \/ HoldMark(r)
           \/ ReadMark(r) \/ StopAgain(r) \/ HoldChoice(r) \/ ReadChoice(r)
           \/ ReadCancel(r) \/ RestartRuntime(r) \/ RouteSites(r) \/ UnrouteSites(r)
           \/ HoldDeletion(r) \/ DeletionRefused(r) \/ RecheckUnderLease(r)
           \/ ReadClaimed(r) \/ StepDone(r)
  BY <1>3 DEF AdmitDeletion, StopWorkloads, HoldPause, HoldMark, HoldChoice, Hold,
     ReadMark, StopAgain, ReadChoice, ReadCancel, RestartRuntime, RouteSites,
     UnrouteSites, HoldDeletion, DeletionRefused, RecheckUnderLease, ReadClaimed, StepDone
<1>4. CASE \/ EnterPausing(r) \/ PrePauseBackup(r) \/ MarkPaused(r) \/ FailPause(r)
           \/ FailBackup(r) \/ EnterResuming(r) \/ MarkActive(r) \/ FailResume(r)
           \/ MarkPendingDeletion(r) \/ UpdatePendingChoice(r) \/ WriteCancel(r)
           \/ WriteProtection(r) \/ ClearProtection(r)
  BY <1>4 DEF EnterPausing, PrePauseBackup, MarkPaused, FailPause, FailBackup,
     EnterResuming, MarkActive, FailResume, MarkPendingDeletion, UpdatePendingChoice,
     WriteCancel, WriteProtection, ClearProtection, UpdatableFrom
<1>5. CASE BeginDeletion(r)
  BY <1>5 DEF BeginDeletion, Claimed, IsDeletionStatus, DeletionStatuses, TypeOK, Rows
<1>6. CASE StepFailed(r) \/ PurgeRun(r)
  BY <1>6, FailedRow DEF StepFailed, PurgeRun, TypeOK, DeletionStatuses
<1>7. CASE DeleteProjectRecord(r) \/ PurgeDelete(r)
  BY <1>7 DEF DeleteProjectRecord, PurgeDelete
<1> QED BY <1>1, <1>2, <1>3, <1>4, <1>5, <1>6, <1>7 DEF Step

\* So does every other step.
LEMMA StepRowMove ==
  ASSUME TypeOK, [Next]_vars
  PROVE  RowMove
BY RunRowMove DEF Next, vars, PurgeRetained, Crash, LoseLease, OperatorFollows, Tick, RowMove

\* The store's predicates alone make teardown a one-way door: no run, however
\* stale its copy of the row and whether or not it lost its lease, writes a row
\* a teardown owns back to a usable state or brings back a dropped one.
THEOREM OneWayDoorHolds == Spec => OneWayDoor
<1>1. ASSUME TypeOK, [Next]_vars
      PROVE  /\ IsDeletionStatus(row.status) => IsDeletionStatus(row'.status) \/ row'.status = Gone
             /\ row.status = Gone => row'.status = Gone
  BY <1>1, StepRowMove DEF RowMove, Updatable, IsDeletionStatus, DeletionStatuses,
     LiveStatuses, Gone, GoneRow
<1> QED BY <1>1, TypeCorrect, PTL DEF Spec, OneWayDoor

--------------------------------------------------------------------------------
(* The lease.                                                              *)

\* A run is between taking and giving back the lease exactly when the lease is
\* its own.
LeaseInv == \A r \in Runs : pc[r] \in Leased <=> lease = r

\* A step of one run leaves the others where they are.
OthersKept(r) ==
  \A s \in Runs \ {r} : pc'[s] = pc[s] /\ mem'[s] = mem[s] /\ job'[s] = job[s]

\* What one step of a run may do with the lease: stay on its side of it, give
\* it back, or take it when it is free.
LeaseMove(r) ==
  \/ lease' = lease /\ (pc[r] \in Leased <=> pc'[r] \in Leased)
  \/ Release(r) /\ pc'[r] \notin Leased
  \/ lease = NoRun /\ lease' = r /\ pc'[r] \in Leased

\* Going to a label on the same side of the lease is such a step.
LEMMA GotoMove ==
  ASSUME TypeOK, NEW r \in Runs, NEW label, NEW new,
         Goto(r, label) \/ Read(r, label) \/ Write(r, new, label),
         pc[r] \in Leased <=> label \in Leased
  PROVE  OthersKept(r) /\ LeaseMove(r) /\ pc'[r] = label
BY DEF OthersKept, LeaseMove, Goto, Read, Write, TypeOK

\* So is returning.
LEMMA FinishMove ==
  ASSUME TypeOK, NEW r \in Runs, Finish(r) \/ AfterStop(r)
  PROVE  OthersKept(r) /\ LeaseMove(r) /\ pc'[r] \in {"idle", "holdMark"}
BY DEF OthersKept, LeaseMove, Finish, AfterStop, TypeOK, Leased, PauseRunning,
   ResumeRunning, CancelRunning

\* The steps of a pause move so.
LEMMA PauseMoves ==
  ASSUME TypeOK, NEW r \in Runs,
         \/ Pause(r)
         \/ AdmitPause(r)
         \/ EnterPausing(r)
         \/ PrePauseBackup(r)
         \/ PollBackup(r)
         \/ StopReplication(r)
         \/ StopWorkload(r)
         \/ AwaitStopped(r)
         \/ RepairReplication(r)
         \/ WithdrawEndpoint(r)
         \/ MarkPaused(r)
         \/ FailPause(r)
         \/ FailBackup(r)
  PROVE  OthersKept(r) /\ LeaseMove(r)
<1> USE GotoMove, FinishMove DEF Leased, PauseRunning, ResumeRunning, CancelRunning
<1>1. CASE Pause(r)
  BY <1>1 DEF Pause, Call, Claim, OthersKept, LeaseMove, TypeOK
<1>2. CASE AdmitPause(r)
  BY <1>2 DEF AdmitPause
<1>3. CASE EnterPausing(r)
  BY <1>3 DEF EnterPausing
<1>4. CASE PrePauseBackup(r)
  BY <1>4 DEF PrePauseBackup, OthersKept, LeaseMove, TypeOK
<1>5. CASE PollBackup(r)
  BY <1>5 DEF PollBackup
<1>6. CASE StopReplication(r)
  BY <1>6 DEF StopReplication
<1>7. CASE StopWorkload(r)
  BY <1>7 DEF StopWorkload
<1>8. CASE AwaitStopped(r)
  BY <1>8 DEF AwaitStopped
<1>9. CASE RepairReplication(r)
  BY <1>9 DEF RepairReplication
<1>10. CASE WithdrawEndpoint(r)
  BY <1>10 DEF WithdrawEndpoint
<1>11. CASE MarkPaused(r)
  BY <1>11 DEF MarkPaused
<1>12. CASE FailPause(r)
  BY <1>12 DEF FailPause
<1>13. CASE FailBackup(r)
  BY <1>13 DEF FailBackup
<1> QED BY <1>1, <1>2, <1>3, <1>4, <1>5, <1>6, <1>7, <1>8, <1>9, <1>10, <1>11, <1>12, <1>13

\* So do the steps of a resume.
LEMMA ResumeMoves ==
  ASSUME TypeOK, NEW r \in Runs,
         \/ Resume(r)
         \/ AdmitResume(r)
         \/ EnterResuming(r)
         \/ StartWorkload(r)
         \/ AwaitReady(r)
         \/ RestartReplication(r)
         \/ PublishEndpoint(r)
         \/ MarkActive(r)
         \/ FailResume(r)
  PROVE  OthersKept(r) /\ LeaseMove(r)
<1> USE GotoMove, FinishMove DEF Leased, PauseRunning, ResumeRunning, CancelRunning
<1>1. CASE Resume(r)
  BY <1>1 DEF Resume, Call, Claim, OthersKept, LeaseMove, TypeOK
<1>2. CASE AdmitResume(r)
  BY <1>2 DEF AdmitResume
<1>3. CASE EnterResuming(r)
  BY <1>3 DEF EnterResuming
<1>4. CASE StartWorkload(r)
  BY <1>4 DEF StartWorkload
<1>5. CASE AwaitReady(r)
  BY <1>5 DEF AwaitReady
<1>6. CASE RestartReplication(r)
  BY <1>6 DEF RestartReplication
<1>7. CASE PublishEndpoint(r)
  BY <1>7 DEF PublishEndpoint
<1>8. CASE MarkActive(r)
  BY <1>8 DEF MarkActive
<1>9. CASE FailResume(r)
  BY <1>9 DEF FailResume
<1> QED BY <1>1, <1>2, <1>3, <1>4, <1>5, <1>6, <1>7, <1>8, <1>9

\* So do the steps of a scheduled deletion.
LEMMA ScheduleMoves ==
  ASSUME TypeOK, NEW r \in Runs,
         \/ (\E choice \in Choices : ScheduleDeletion(r, choice))
         \/ AdmitDeletion(r)
         \/ StopWorkloads(r)
         \/ HoldPause(r)
         \/ HoldMark(r)
         \/ HoldChoice(r)
         \/ ReadMark(r)
         \/ StopAgain(r)
         \/ MarkPendingDeletion(r)
         \/ ReadChoice(r)
         \/ UpdatePendingChoice(r)
  PROVE  OthersKept(r) /\ LeaseMove(r)
<1> USE GotoMove, FinishMove DEF Leased, PauseRunning, ResumeRunning, CancelRunning
<1>1. CASE (\E choice \in Choices : ScheduleDeletion(r, choice))
  <2>1. pc[r] = "idle" /\ lease' = lease /\ pc'[r] = "admitDeletion"
    BY <1>1 DEF ScheduleDeletion, TypeOK
  <2>2. OthersKept(r)
    BY <1>1 DEF ScheduleDeletion, OthersKept, TypeOK
  <2> QED BY <2>1, <2>2 DEF LeaseMove
<1>2. CASE AdmitDeletion(r)
  BY <1>2 DEF AdmitDeletion, TypeOK, Rows, HoldsCustomerData, IsDeletionStatus, LiveStatuses, DeletionStatuses
<1>3. CASE StopWorkloads(r)
  BY <1>3 DEF StopWorkloads, Stopped
<1>4. CASE HoldPause(r)
  BY <1>4 DEF HoldPause, Hold, Claim, OthersKept, LeaseMove, TypeOK
<1>5. CASE HoldMark(r)
  BY <1>5 DEF HoldMark, Hold, Claim, OthersKept, LeaseMove, TypeOK
<1>6. CASE HoldChoice(r)
  BY <1>6 DEF HoldChoice, Hold, Claim, OthersKept, LeaseMove, TypeOK
<1>7. CASE ReadMark(r)
  BY <1>7 DEF ReadMark
<1>8. CASE StopAgain(r)
  BY <1>8 DEF StopAgain, Stopped
<1>9. CASE MarkPendingDeletion(r)
  BY <1>9 DEF MarkPendingDeletion
<1>10. CASE ReadChoice(r)
  BY <1>10 DEF ReadChoice
<1>11. CASE UpdatePendingChoice(r)
  BY <1>11 DEF UpdatePendingChoice
<1> QED BY <1>1, <1>2, <1>3, <1>4, <1>5, <1>6, <1>7, <1>8, <1>9, <1>10, <1>11

\* So do the steps of a cancel.
LEMMA CancelMoves ==
  ASSUME TypeOK, NEW r \in Runs,
         \/ CancelDeletion(r)
         \/ ReadCancel(r)
         \/ RestartRuntime(r)
         \/ RouteSites(r)
         \/ WriteCancel(r)
         \/ UnrouteSites(r)
  PROVE  OthersKept(r) /\ LeaseMove(r)
<1> USE GotoMove, FinishMove DEF Leased, PauseRunning, ResumeRunning, CancelRunning
<1>1. CASE CancelDeletion(r)
  BY <1>1 DEF CancelDeletion, Call, Claim, OthersKept, LeaseMove, TypeOK
<1>2. CASE ReadCancel(r)
  BY <1>2 DEF ReadCancel
<1>3. CASE RestartRuntime(r)
  BY <1>3 DEF RestartRuntime
<1>4. CASE RouteSites(r)
  BY <1>4 DEF RouteSites
<1>5. CASE WriteCancel(r)
  BY <1>5 DEF WriteCancel
<1>6. CASE UnrouteSites(r)
  BY <1>6 DEF UnrouteSites
<1> QED BY <1>1, <1>2, <1>3, <1>4, <1>5, <1>6

\* So do the steps of the hard delete.
LEMMA TeardownMoves ==
  ASSUME TypeOK, NEW r \in Runs,
         \/ RunDueDeletions(r)
         \/ HoldDeletion(r)
         \/ DeletionRefused(r)
         \/ RecheckUnderLease(r)
         \/ BeginDeletion(r)
         \/ ReadClaimed(r)
         \/ StepDone(r)
         \/ StepFailed(r)
         \/ DeleteProjectRecord(r)
  PROVE  OthersKept(r) /\ LeaseMove(r)
<1> USE GotoMove, FinishMove DEF Leased, PauseRunning, ResumeRunning, CancelRunning
<1>1. CASE RunDueDeletions(r)
  BY <1>1 DEF RunDueDeletions, OthersKept, LeaseMove, TypeOK
<1>2. CASE HoldDeletion(r)
  BY <1>2 DEF HoldDeletion, Claim, OthersKept, LeaseMove, TypeOK
<1>3. CASE DeletionRefused(r)
  BY <1>3 DEF DeletionRefused
<1>4. CASE RecheckUnderLease(r)
  BY <1>4 DEF RecheckUnderLease
<1>5. CASE BeginDeletion(r)
  BY <1>5 DEF BeginDeletion, OthersKept, LeaseMove, TypeOK
<1>6. CASE ReadClaimed(r)
  BY <1>6 DEF ReadClaimed
<1>7. CASE StepDone(r)
  BY <1>7 DEF StepDone, OthersKept, LeaseMove, TypeOK
<1>8. CASE StepFailed(r)
  BY <1>8 DEF StepFailed
<1>9. CASE DeleteProjectRecord(r)
  BY <1>9 DEF DeleteProjectRecord
<1> QED BY <1>1, <1>2, <1>3, <1>4, <1>5, <1>6, <1>7, <1>8, <1>9

\* So do the operations that take no lease.
LEMMA LeaselessMoves ==
  ASSUME TypeOK, NEW r \in Runs,
         \/ PurgeBackups(r)
         \/ PurgeRun(r)
         \/ PurgeDelete(r)
         \/ (\E enabled \in BOOLEAN : SetDeletionProtection(r, enabled))
         \/ WriteProtection(r)
         \/ (\E choice \in Choices : ForceDropProject(r, choice))
         \/ ClearProtection(r)
  PROVE  OthersKept(r) /\ LeaseMove(r)
<1> USE GotoMove, FinishMove DEF Leased, PauseRunning, ResumeRunning, CancelRunning
<1>1. CASE PurgeBackups(r)
  BY <1>1 DEF PurgeBackups, Call, OthersKept, LeaseMove, TypeOK
<1>2. CASE PurgeRun(r)
  BY <1>2 DEF PurgeRun
<1>3. CASE PurgeDelete(r)
  BY <1>3 DEF PurgeDelete
<1>4. CASE (\E enabled \in BOOLEAN : SetDeletionProtection(r, enabled))
  BY <1>4 DEF SetDeletionProtection, OthersKept, LeaseMove, TypeOK
<1>5. CASE WriteProtection(r)
  BY <1>5 DEF WriteProtection
<1>6. CASE (\E choice \in Choices : ForceDropProject(r, choice))
  <2>1. PICK choice \in Choices : ForceDropProject(r, choice)
    BY <1>6
  <2>2. pc[r] = "idle" /\ lease' = lease
    BY <2>1 DEF ForceDropProject
  <2>3. pc'[r] \in {"clearProtection", "holdDeletion"} /\ OthersKept(r)
    <3>1. PICK label \in {"clearProtection", "holdDeletion"} : pc' = [pc EXCEPT ![r] = label]
      BY <2>1, Zenon DEF ForceDropProject
    <3>2. (\E new : mem' = [mem EXCEPT ![r] = new]) \/ mem' = mem
      BY <2>1, Zenon DEF ForceDropProject
    <3>3. \E new : job' = [job EXCEPT ![r] = new]
      BY <2>1, Zenon DEF ForceDropProject
    <3> QED BY <3>1, <3>2, <3>3 DEF OthersKept, TypeOK
  <2> QED BY <2>2, <2>3 DEF LeaseMove
<1>7. CASE ClearProtection(r)
  BY <1>7 DEF ClearProtection
<1> QED BY <1>1, <1>2, <1>3, <1>4, <1>5, <1>6, <1>7

\* Every step of a run moves so.
LEMMA RunMoves ==
  ASSUME TypeOK, NEW r \in Runs, CallerStarts(r) \/ RunDueDeletions(r) \/ Step(r)
  PROVE  OthersKept(r) /\ LeaseMove(r)
BY PauseMoves, ResumeMoves, ScheduleMoves, CancelMoves, TeardownMoves, LeaselessMoves
   DEF CallerStarts, Step

\* A step that moves so keeps the lease and the labels in agreement.
LEMMA LeaseMoveKeeps ==
  ASSUME TypeOK, LeaseInv, NEW r \in Runs, OthersKept(r), LeaseMove(r)
  PROVE  LeaseInv'
BY RunsAssumption DEF LeaseInv, OthersKept, LeaseMove, Release, TypeOK

\* Without lost leases, every step keeps them in agreement.
LEMMA LeaseStep ==
  ASSUME LeaseMayBeLost = FALSE, TypeOK, LeaseInv, [Next]_vars
  PROVE  LeaseInv'
<1>1. ASSUME NEW r \in Runs, CallerStarts(r) \/ RunDueDeletions(r) \/ Step(r)
      PROVE  LeaseInv'
  BY <1>1, RunMoves, LeaseMoveKeeps
<1>2. ASSUME NEW r \in Runs, Crash(r) PROVE LeaseInv'
  BY <1>2, FinishMove, LeaseMoveKeeps DEF Crash
<1>3. CASE PurgeRetained \/ OperatorFollows \/ Tick \/ UNCHANGED vars
  BY <1>3 DEF PurgeRetained, OperatorFollows, Tick, vars, control, LeaseInv
<1> QED BY <1>1, <1>2, <1>3 DEF Next, LoseLease

\* One operation at a time: as long as no lease is lost under its run, no two
\* runs are ever both inside a lifecycle operation, force drops included.
THEOREM OneOperationHolds ==
  ASSUME LeaseMayBeLost = FALSE
  PROVE  Spec => []OneOperationAtATime
<1>1. Init => LeaseInv
  BY RunsAssumption DEF Init, LeaseInv, Leased, PauseRunning, ResumeRunning, CancelRunning
<1>2. TypeOK /\ LeaseInv /\ [Next]_vars => LeaseInv'
  BY LeaseStep
<1>3. LeaseInv => OneOperationAtATime
  BY DEF LeaseInv, OneOperationAtATime
<1> QED BY <1>1, <1>2, <1>3, TypeCorrect, PTL DEF Spec
================================================================================
