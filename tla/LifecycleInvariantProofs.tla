------------------------ MODULE LifecycleInvariantProofs ------------------------
(***************************************************************************)
(* PAUSED is true, a resume leaves the workload serving, the grace period  *)
(* is honoured and every step keeps the deletion contract, for any number  *)
(* of runs, periods and length of time, from two assumptions: no lease is  *)
(* lost under its run, and no operator forces a drop, whose write is       *)
(* pinned to nothing.                                                      *)
(*                                                                         *)
(* No invariant here is inductive.  What makes it so is what each label    *)
(* of a run knows: a run inside a pause or a resume owns the status it     *)
(* wrote (RowInv), the pause has really stopped what its label is past     *)
(* (StopInv), a run without the lease is only ever at a label where it can *)
(* do no harm (LeaselessInv), and a run about to claim the row for         *)
(* teardown has a reason that still stands (DueInv).  The contract needs   *)
(* one more: what each run believes of the customer's choice about the     *)
(* backups agrees with the row by the time it acts on it (ChoicesInv).     *)
(***************************************************************************)
EXTENDS LifecycleTeardownProofs

\* What the row says while a run is at a label of a pause or of a resume.
RowInv(r) ==
  /\ pc[r] \in PauseRunning => row.status = "PAUSING" /\ mem[r].status = "PAUSING"
  /\ pc[r] \in ResumeRunning => row.status = "RESUMING" /\ mem[r].status = "RESUMING"
  /\ pc[r] = "writeChoice" => mem[r].status = "PENDING_DELETION"

\* What the pause has achieved by the label it is at.
StopInv(r) ==
  /\ pc[r] = "stopWorkload" => ~repl
  /\ pc[r] = "awaitStopped" => hibernate /\ ~repl
  /\ pc[r] \in {"withdraw", "markPaused"} => hibernate /\ ~pods /\ ~repl
  /\ pc[r] = "markPaused" => ~endpoint

\* What a run without the lease still knows of the row.
LeaselessInv(r) ==
  /\ pc[r] \in {"purge", "purgeDelete"} => ~Updatable(row)
  /\ pc[r] = "writeProtection" => mem[r].status # "PENDING_DELETION"
  /\ pc[r] # "clearProtection"

\* What entitles a run to claim the row for teardown.
DueInv(r) ==
  /\ pc[r] \in {"holdDeletion", "recheck"} =>
       ~Updatable(row) \/ (job[r].dueAt # 0 /\ job[r].dueAt <= now)
  /\ pc[r] = "beginDeletion" =>
       \/ ~Updatable(row)
       \/ /\ row.status = "PENDING_DELETION" /\ ~row.protected
          /\ row.due # 0 /\ row.due <= now

RunInv(r) == RowInv(r) /\ StopInv(r) /\ LeaselessInv(r) /\ DueInv(r)

IInv == TypeOK /\ LeaseInv /\ PausedMeansStopped /\ \A r \in Runs : RunInv(r)

--------------------------------------------------------------------------------
(* Frames.                                                                 *)

\* Labels at which a run relies on nothing.
FreeLabels == Labels \ (PauseRunning \cup ResumeRunning
                        \cup {"writeChoice", "purge", "purgeDelete", "writeProtection",
                              "clearProtection", "holdDeletion", "recheck",
                              "beginDeletion"})

\* The state of the database that PAUSED speaks of.
database == <<hibernate, pods, repl, endpoint>>

Kept(r) == RunInv(r)' /\ PausedMeansStopped'

\* A run that goes to a free label has nothing to keep.
LEMMA FreeRun ==
  ASSUME NEW r \in Runs, pc'[r] \in FreeLabels
  PROVE  RunInv(r)'
BY DEF FreeLabels, RunInv, RowInv, StopInv, LeaselessInv, DueInv, PauseRunning,
   ResumeRunning

\* A returning run goes to a free label.
LEMMA FinishFree ==
  ASSUME TypeOK, NEW r \in Runs, Finish(r) \/ AfterStop(r)
  PROVE  RunInv(r)'
<1>1. pc'[r] \in FreeLabels
  BY FinishMove DEF FreeLabels, Labels, Leased, PauseRunning, ResumeRunning, CancelRunning
<1> QED BY <1>1, FreeRun

\* What a move leaves of the run that makes it.
LEMMA MoveAt ==
  ASSUME TypeOK, NEW r \in Runs, NEW label, NEW new
  PROVE  /\ Goto(r, label) => pc'[r] = label /\ mem'[r] = mem[r] /\ job'[r] = job[r]
         /\ Read(r, label) => pc'[r] = label /\ mem'[r] = row /\ job'[r] = job[r]
         /\ Write(r, new, label) =>
              pc'[r] = label /\ mem'[r] = new /\ row' = new /\ job'[r] = job[r]
BY DEF Goto, Read, Write, TypeOK

\* A row no general write may touch stays one.
LEMMA DoorKept ==
  ASSUME RowMove, ~Updatable(row)
  PROVE  ~Updatable(row)'
BY DEF RowMove, Updatable, IsDeletionStatus, DeletionStatuses, LiveStatuses, GoneRow, Gone

\* What holds of the other runs is not disturbed by a run that holds the lease
\* or takes a free one.
LEMMA OthersOfHolder ==
  ASSUME IInv, NEW r \in Runs, pc[r] \in Leased \/ lease = NoRun,
         OthersKept(r), RowMove, now' = now, NEW s \in Runs \ {r}
  PROVE  RunInv(s)'
<1>1. pc[s] \notin Leased
  BY RunsAssumption DEF IInv, LeaseInv
<1>2. pc'[s] = pc[s] /\ mem'[s] = mem[s] /\ job'[s] = job[s]
  BY DEF OthersKept
<1>3. LeaselessInv(s) /\ DueInv(s)
  BY DEF IInv, RunInv
<1>4. LeaselessInv(s)'
  BY <1>2, <1>3, DoorKept DEF LeaselessInv
<1>5. DueInv(s)'
  BY <1>1, <1>2, <1>3, DoorKept DEF DueInv, Leased
<1> QED BY <1>1, <1>2, <1>4, <1>5 DEF RunInv, RowInv, StopInv, Leased, PauseRunning,
           ResumeRunning

\* Nor by a run that leaves the database alone and, of the row, the status and
\* whatever a pending deletion goes by.
LEMMA OthersOfQuiet ==
  ASSUME IInv, NEW r \in Runs, OthersKept(r), UNCHANGED database, now' = now,
         row'.status = row.status, row.status = "PENDING_DELETION" => row' = row,
         NEW s \in Runs \ {r}
  PROVE  RunInv(s)'
<1>1. RunInv(s)
  BY DEF IInv
<1>2. pc'[s] = pc[s] /\ mem'[s] = mem[s] /\ job'[s] = job[s]
  BY DEF OthersKept
<1> QED BY <1>1, <1>2 DEF RunInv, RowInv, StopInv, LeaselessInv, DueInv, Updatable, database

\* Nor by what happens to a row a teardown owns.
LEMMA OthersBehindDoor ==
  ASSUME IInv, NEW r \in Runs, OthersKept(r), UNCHANGED database, now' = now,
         RowMove, ~Updatable(row), NEW s \in Runs \ {r}
  PROVE  RunInv(s)'
<1>1. RunInv(s)
  BY DEF IInv
<1>2. pc'[s] = pc[s] /\ mem'[s] = mem[s] /\ job'[s] = job[s]
  BY DEF OthersKept
<1>3. ~Updatable(row)'
  BY DoorKept
<1>4. pc[s] \notin PauseRunning /\ pc[s] \notin ResumeRunning
  BY <1>1 DEF RunInv, RowInv, Updatable, LiveStatuses
<1> QED BY <1>1, <1>2, <1>3, <1>4 DEF RunInv, RowInv, StopInv, LeaselessInv, DueInv, database

\* PAUSED stays true over an unchanged row and database.
LEMMA QuietPaused ==
  ASSUME IInv, UNCHANGED <<row, database>>
  PROVE  PausedMeansStopped'
BY DEF IInv, PausedMeansStopped, DatabaseStopped, database

\* The steps of a pause keep what its run and PAUSED rely on.
LEMMA PauseKept ==
  ASSUME IInv, NEW r \in Runs, now' = now,
         \/ Pause(r)
         \/ AdmitPause(r)
         \/ EnterPausing(r)
         \/ PrePauseBackup(r)
         \/ PollBackup(r)
         \/ StopReplication(r)
         \/ StopWorkload(r)
         \/ AwaitStopped(r)
         \/ RepairReplication(r)
         \/ WithdrawEndpoint(r)
         \/ MarkPaused(r)
         \/ FailPause(r)
         \/ FailBackup(r)
  PROVE  Kept(r)
<1> TypeOK /\ RunInv(r) /\ PausedMeansStopped
  BY DEF IInv
<1> USE DEF Kept
<1>1. CASE Pause(r)
  <2>1. pc'[r] = "admitPause"
    BY <1>1 DEF Pause, Call, Goto, Finish, TypeOK
  <2>2. RunInv(r)'
    BY <2>1, FreeRun DEF FreeLabels, Labels, Leased, CancelRunning, PauseRunning, ResumeRunning
  <2>3. UNCHANGED <<row, database>>
    BY <1>1 DEF Pause, Call, world, database
  <2> QED BY <2>2, <2>3, QuietPaused
<1>2. CASE AdmitPause(r)
  <2>1. pc'[r] \in {"enterPausing", "idle", "holdMark"}
    BY <1>2 DEF AdmitPause, Read, AfterStop, Goto, Finish, TypeOK
  <2>2. RunInv(r)'
    BY <2>1, FreeRun DEF FreeLabels, Labels, Leased, CancelRunning, PauseRunning, ResumeRunning
  <2>3. UNCHANGED <<row, database>>
    BY <1>2 DEF AdmitPause, world, database
  <2> QED BY <2>2, <2>3, QuietPaused
<1>3. CASE EnterPausing(r)
  <2>1. UNCHANGED database
    BY <1>3 DEF EnterPausing, world, database
  <2>2. CASE Finish(r) /\ UNCHANGED row
    BY <2>1, <2>2, FinishFree, QuietPaused
  <2>3. CASE Write(r, [mem[r] EXCEPT !.status = "PAUSING"], "backup")
    <3>1. pc'[r] = "backup" /\ row'.status = "PAUSING" /\ mem'[r].status = "PAUSING"
      BY <2>3 DEF Write, TypeOK, Rows
    <3> QED BY <3>1 DEF RunInv, RowInv, StopInv, LeaselessInv, DueInv, PauseRunning, ResumeRunning, PausedMeansStopped
  <2> QED BY <1>3, <2>2, <2>3 DEF EnterPausing
<1>4. CASE PrePauseBackup(r)
  <2>1. row.status = "PAUSING" /\ mem[r].status = "PAUSING"
    BY <1>4 DEF PrePauseBackup, RunInv, RowInv, PauseRunning
  <2>2. pc'[r] \in {"stopReplication", "pollBackup", "failBackup"}
    BY <1>4 DEF PrePauseBackup, Goto, Write, TypeOK
  <2>3. row'.status = "PAUSING" /\ mem'[r].status = "PAUSING"
    BY <1>4, <2>1 DEF PrePauseBackup, Goto, Write, TypeOK, Rows
  <2> QED BY <2>2, <2>3 DEF RunInv, RowInv, StopInv, LeaselessInv, DueInv, PauseRunning, ResumeRunning, PausedMeansStopped
<1>5. CASE PollBackup(r)
  <2>1. pc'[r] \in {"stopReplication", "failBackup"} /\ mem'[r] = mem[r]
    BY <1>5 DEF PollBackup, Goto, Finish, TypeOK
  <2>2. RunInv(r)'
    BY <1>5, <2>1 DEF PollBackup, RunInv, RowInv, StopInv, LeaselessInv, DueInv, PauseRunning, ResumeRunning, world
  <2>3. PausedMeansStopped'
    BY <1>5 DEF PollBackup, PausedMeansStopped, DatabaseStopped, RunInv, RowInv, PauseRunning, ResumeRunning, world
  <2> QED BY <2>2, <2>3
<1>6. CASE StopReplication(r)
  <2>1. pc'[r] \in {"stopWorkload", "failPause"} /\ mem'[r] = mem[r]
    BY <1>6 DEF StopReplication, Goto, Finish, TypeOK
  <2>2. StopInv(r)'
    <3> USE DEF StopReplication, Goto, TypeOK, RunInv, StopInv, world
    <3> QED BY <1>6
  <2>3. row' = row /\ row.status = "PAUSING" /\ mem[r].status = "PAUSING"
    BY <1>6 DEF StopReplication, RunInv, RowInv, PauseRunning
  <2>4. RunInv(r)'
    BY <2>1, <2>2, <2>3 DEF RunInv, RowInv, LeaselessInv, DueInv, PauseRunning, ResumeRunning
  <2> QED BY <2>3, <2>4 DEF PausedMeansStopped
<1>7. CASE StopWorkload(r)
  <2>1. pc'[r] \in {"awaitStopped", "repairReplication"} /\ mem'[r] = mem[r]
    BY <1>7 DEF StopWorkload, Goto, Finish, TypeOK
  <2>2. StopInv(r)'
    <3> USE DEF StopWorkload, Goto, TypeOK, RunInv, StopInv, world
    <3> QED BY <1>7
  <2>3. row' = row /\ row.status = "PAUSING" /\ mem[r].status = "PAUSING"
    BY <1>7 DEF StopWorkload, RunInv, RowInv, PauseRunning
  <2>4. RunInv(r)'
    BY <2>1, <2>2, <2>3 DEF RunInv, RowInv, LeaselessInv, DueInv, PauseRunning, ResumeRunning
  <2> QED BY <2>3, <2>4 DEF PausedMeansStopped
<1>8. CASE AwaitStopped(r)
  <2>1. pc'[r] \in {"withdraw", "repairReplication"} /\ mem'[r] = mem[r]
    BY <1>8 DEF AwaitStopped, Goto, Finish, TypeOK
  <2>2. StopInv(r)'
    <3> USE DEF AwaitStopped, Goto, TypeOK, RunInv, StopInv, world
    <3> QED BY <1>8
  <2>3. row' = row /\ row.status = "PAUSING" /\ mem[r].status = "PAUSING"
    BY <1>8 DEF AwaitStopped, RunInv, RowInv, PauseRunning
  <2>4. RunInv(r)'
    BY <2>1, <2>2, <2>3 DEF RunInv, RowInv, LeaselessInv, DueInv, PauseRunning, ResumeRunning
  <2> QED BY <2>3, <2>4 DEF PausedMeansStopped
<1>9. CASE RepairReplication(r)
  <2>1. pc'[r] = "failPause" /\ mem'[r] = mem[r]
    BY <1>9 DEF RepairReplication, Goto, Finish, TypeOK
  <2>2. RunInv(r)'
    BY <1>9, <2>1 DEF RepairReplication, RunInv, RowInv, StopInv, LeaselessInv, DueInv, PauseRunning, ResumeRunning, world
  <2>3. PausedMeansStopped'
    BY <1>9 DEF RepairReplication, PausedMeansStopped, DatabaseStopped, RunInv, RowInv, PauseRunning, ResumeRunning, world
  <2> QED BY <2>2, <2>3
<1>10. CASE WithdrawEndpoint(r)
  <2>1. pc'[r] \in {"markPaused", "failPause"} /\ mem'[r] = mem[r]
    BY <1>10 DEF WithdrawEndpoint, Goto, Finish, TypeOK
  <2>2. StopInv(r)'
    <3> USE DEF WithdrawEndpoint, Goto, TypeOK, RunInv, StopInv, world
    <3> QED BY <1>10
  <2>3. row' = row /\ row.status = "PAUSING" /\ mem[r].status = "PAUSING"
    BY <1>10 DEF WithdrawEndpoint, RunInv, RowInv, PauseRunning
  <2>4. RunInv(r)'
    BY <2>1, <2>2, <2>3 DEF RunInv, RowInv, LeaselessInv, DueInv, PauseRunning, ResumeRunning
  <2> QED BY <2>3, <2>4 DEF PausedMeansStopped
<1>11. CASE MarkPaused(r)
  <2>1. pc'[r] \in {"idle", "holdMark"}
    BY <1>11 DEF MarkPaused, AfterStop, Goto, Finish, TypeOK
  <2>2. RunInv(r)'
    BY <2>1, FreeRun DEF FreeLabels, Labels, Leased, CancelRunning, PauseRunning, ResumeRunning
  <2>3. DatabaseStopped'
    BY <1>11 DEF MarkPaused, DatabaseStopped, RunInv, StopInv, world
  <2> QED BY <2>2, <2>3 DEF PausedMeansStopped
<1>12. CASE FailPause(r)
  <2>1. pc'[r] = "idle"
    BY <1>12 DEF FailPause, Goto, Finish, TypeOK
  <2>2. RunInv(r)'
    BY <2>1, FreeRun DEF FreeLabels, Labels, Leased, CancelRunning, PauseRunning, ResumeRunning
  <2>3. row' = row \/ row'.status = "PAUSING"
    BY <1>12 DEF FailPause, Write, RunInv, RowInv, PauseRunning, TypeOK, Rows
  <2>4. UNCHANGED database
    BY <1>12 DEF FailPause, world, database
  <2> QED BY <2>2, <2>3, <2>4 DEF PausedMeansStopped, DatabaseStopped, database
<1>13. CASE FailBackup(r)
  <2>1. pc'[r] = "idle"
    BY <1>13 DEF FailBackup, Goto, Finish, TypeOK
  <2>2. RunInv(r)'
    BY <2>1, FreeRun DEF FreeLabels, Labels, Leased, CancelRunning, PauseRunning, ResumeRunning
  <2>3. row' = row \/ row'.status = "ACTIVE"
    BY <1>13 DEF FailBackup, Write,  TypeOK, Rows
  <2>4. UNCHANGED database
    BY <1>13 DEF FailBackup, world, database
  <2> QED BY <2>2, <2>3, <2>4 DEF PausedMeansStopped, DatabaseStopped, database
<1> QED BY <1>1, <1>2, <1>3, <1>4, <1>5, <1>6, <1>7, <1>8, <1>9, <1>10, <1>11, <1>12, <1>13

\* So do the steps of a resume.
LEMMA ResumeKept ==
  ASSUME IInv, NEW r \in Runs, now' = now,
         \/ Resume(r)
         \/ AdmitResume(r)
         \/ EnterResuming(r)
         \/ StartWorkload(r)
         \/ AwaitReady(r)
         \/ RestartReplication(r)
         \/ PublishEndpoint(r)
         \/ MarkActive(r)
         \/ FailResume(r)
  PROVE  Kept(r)
<1> TypeOK /\ RunInv(r) /\ PausedMeansStopped
  BY DEF IInv
<1> USE DEF Kept
<1>1. CASE Resume(r)
  <2>1. pc'[r] = "admitResume"
    BY <1>1 DEF Resume, Call, Goto, Finish, TypeOK
  <2>2. RunInv(r)'
    BY <2>1, FreeRun DEF FreeLabels, Labels, Leased, CancelRunning, PauseRunning, ResumeRunning
  <2>3. UNCHANGED <<row, database>>
    BY <1>1 DEF Resume, Call, world, database
  <2> QED BY <2>2, <2>3, QuietPaused
<1>2. CASE AdmitResume(r)
  <2>1. pc'[r] \in {"enterResuming", "idle"}
    BY <1>2 DEF AdmitResume, Read, Goto, Finish, TypeOK
  <2>2. RunInv(r)'
    BY <2>1, FreeRun DEF FreeLabels, Labels, Leased, CancelRunning, PauseRunning, ResumeRunning
  <2>3. UNCHANGED <<row, database>>
    BY <1>2 DEF AdmitResume, world, database
  <2> QED BY <2>2, <2>3, QuietPaused
<1>3. CASE EnterResuming(r)
  <2>1. UNCHANGED database
    BY <1>3 DEF EnterResuming, world, database
  <2>2. CASE Finish(r) /\ UNCHANGED row
    BY <2>1, <2>2, FinishFree, QuietPaused
  <2>3. CASE Write(r, [mem[r] EXCEPT !.status = "RESUMING"], "startWorkload")
    <3>1. pc'[r] = "startWorkload" /\ row'.status = "RESUMING" /\ mem'[r].status = "RESUMING"
      BY <2>3 DEF Write, TypeOK, Rows
    <3> QED BY <3>1 DEF RunInv, RowInv, StopInv, LeaselessInv, DueInv, PauseRunning, ResumeRunning, PausedMeansStopped
  <2> QED BY <1>3, <2>2, <2>3 DEF EnterResuming
<1>4. CASE StartWorkload(r)
  <2>1. pc'[r] \in {"awaitReady", "failResume"} /\ mem'[r] = mem[r]
    BY <1>4 DEF StartWorkload, Goto, Finish, TypeOK
  <2>2. RunInv(r)'
    BY <1>4, <2>1 DEF StartWorkload, RunInv, RowInv, StopInv, LeaselessInv, DueInv, PauseRunning, ResumeRunning, world
  <2>3. PausedMeansStopped'
    BY <1>4 DEF StartWorkload, PausedMeansStopped, DatabaseStopped, RunInv, RowInv, PauseRunning, ResumeRunning, world
  <2> QED BY <2>2, <2>3
<1>5. CASE AwaitReady(r)
  <2>1. pc'[r] \in {"restartReplication", "failResume"} /\ mem'[r] = mem[r]
    BY <1>5 DEF AwaitReady, Goto, Finish, TypeOK
  <2>2. RunInv(r)'
    BY <1>5, <2>1 DEF AwaitReady, RunInv, RowInv, StopInv, LeaselessInv, DueInv, PauseRunning, ResumeRunning, world
  <2>3. PausedMeansStopped'
    BY <1>5 DEF AwaitReady, PausedMeansStopped, DatabaseStopped, RunInv, RowInv, PauseRunning, ResumeRunning, world
  <2> QED BY <2>2, <2>3
<1>6. CASE RestartReplication(r)
  <2>1. pc'[r] \in {"publish", "failResume"} /\ mem'[r] = mem[r]
    BY <1>6 DEF RestartReplication, Goto, Finish, TypeOK
  <2>2. RunInv(r)'
    BY <1>6, <2>1 DEF RestartReplication, RunInv, RowInv, StopInv, LeaselessInv, DueInv, PauseRunning, ResumeRunning, world
  <2>3. PausedMeansStopped'
    BY <1>6 DEF RestartReplication, PausedMeansStopped, DatabaseStopped, RunInv, RowInv, PauseRunning, ResumeRunning, world
  <2> QED BY <2>2, <2>3
<1>7. CASE PublishEndpoint(r)
  <2>1. pc'[r] \in {"markActive", "failResume"} /\ mem'[r] = mem[r]
    BY <1>7 DEF PublishEndpoint, Goto, Finish, TypeOK
  <2>2. RunInv(r)'
    BY <1>7, <2>1 DEF PublishEndpoint, RunInv, RowInv, StopInv, LeaselessInv, DueInv, PauseRunning, ResumeRunning, world
  <2>3. PausedMeansStopped'
    BY <1>7 DEF PublishEndpoint, PausedMeansStopped, DatabaseStopped, RunInv, RowInv, PauseRunning, ResumeRunning, world
  <2> QED BY <2>2, <2>3
<1>8. CASE MarkActive(r)
  <2>1. pc'[r] = "idle"
    BY <1>8 DEF MarkActive, Goto, Finish, TypeOK
  <2>2. RunInv(r)'
    BY <2>1, FreeRun DEF FreeLabels, Labels, Leased, CancelRunning, PauseRunning, ResumeRunning
  <2>3. row' = row \/ row'.status = "ACTIVE"
    BY <1>8 DEF MarkActive, Write,  TypeOK, Rows
  <2>4. UNCHANGED database
    BY <1>8 DEF MarkActive, world, database
  <2> QED BY <2>2, <2>3, <2>4 DEF PausedMeansStopped, DatabaseStopped, database
<1>9. CASE FailResume(r)
  <2>1. pc'[r] = "idle"
    BY <1>9 DEF FailResume, Goto, Finish, TypeOK
  <2>2. RunInv(r)'
    BY <2>1, FreeRun DEF FreeLabels, Labels, Leased, CancelRunning, PauseRunning, ResumeRunning
  <2>3. row' = row \/ row'.status = "RESUMING"
    BY <1>9 DEF FailResume, Write, RunInv, RowInv, ResumeRunning, TypeOK, Rows
  <2>4. UNCHANGED database
    BY <1>9 DEF FailResume, world, database
  <2> QED BY <2>2, <2>3, <2>4 DEF PausedMeansStopped, DatabaseStopped, database
<1> QED BY <1>1, <1>2, <1>3, <1>4, <1>5, <1>6, <1>7, <1>8, <1>9

\* So do the steps of a scheduled deletion.
LEMMA ScheduleKept ==
  ASSUME IInv, NEW r \in Runs, now' = now,
         \/ (\E choice \in Choices : ScheduleDeletion(r, choice))
         \/ AdmitDeletion(r)
         \/ StopWorkloads(r)
         \/ HoldPause(r)
         \/ HoldMark(r)
         \/ HoldChoice(r)
         \/ ReadMark(r)
         \/ StopAgain(r)
         \/ MarkPendingDeletion(r)
         \/ ReadChoice(r)
         \/ UpdatePendingChoice(r)
  PROVE  Kept(r)
<1> TypeOK /\ RunInv(r) /\ PausedMeansStopped
  BY DEF IInv
<1> USE DEF Kept
<1>1. CASE (\E choice \in Choices : ScheduleDeletion(r, choice))
  <2>1. pc'[r] = "admitDeletion"
    BY <1>1 DEF ScheduleDeletion, Goto, Finish, TypeOK
  <2>2. RunInv(r)'
    BY <2>1, FreeRun DEF FreeLabels, Labels, Leased, CancelRunning, PauseRunning, ResumeRunning
  <2>3. UNCHANGED <<row, database>>
    BY <1>1 DEF ScheduleDeletion, world, database
  <2> QED BY <2>2, <2>3, QuietPaused
<1>2. CASE AdmitDeletion(r)
  <2>1. row.status \in {Gone, "PENDING_DELETION"} \/ IsDeletionStatus(row.status)
          \/ HoldsCustomerData(row.status)
    BY DEF TypeOK, Rows, HoldsCustomerData, IsDeletionStatus, LiveStatuses, DeletionStatuses
  <2>2. Finish(r) \/ Goto(r, "holdChoice") \/ Goto(r, "stopWorkloads")
          \/ (Goto(r, "holdDeletion") /\ IsDeletionStatus(row.status))
    BY <1>2, <2>1 DEF AdmitDeletion, IsDeletionStatus, DeletionStatuses
  <2>3. \/ pc'[r] \in {"idle", "holdChoice", "stopWorkloads"}
        \/ pc'[r] = "holdDeletion" /\ ~Updatable(row)
    BY <2>2 DEF Goto, Finish, TypeOK, Updatable, LiveStatuses, IsDeletionStatus, DeletionStatuses
  <2>4. UNCHANGED <<row, database>>
    BY <1>2 DEF AdmitDeletion, world, database
  <2>5. RunInv(r)'
    BY <2>3, <2>4 DEF RunInv, RowInv, StopInv, LeaselessInv, DueInv, PauseRunning, ResumeRunning, Updatable
  <2> QED BY <2>4, <2>5, QuietPaused
<1>3. CASE StopWorkloads(r)
  <2>1. pc'[r] \in {"holdPause", "idle"}
    BY <1>3 DEF StopWorkloads, Stopped, Goto, Finish, TypeOK
  <2>2. RunInv(r)'
    BY <2>1, FreeRun DEF FreeLabels, Labels, Leased, CancelRunning, PauseRunning, ResumeRunning
  <2>3. UNCHANGED <<row, database>>
    BY <1>3 DEF StopWorkloads, world, database
  <2> QED BY <2>2, <2>3, QuietPaused
<1>4. CASE HoldPause(r)
  <2>1. pc'[r] \in {"admitPause", "idle"}
    BY <1>4 DEF HoldPause, Hold, Goto, Finish, TypeOK
  <2>2. RunInv(r)'
    BY <2>1, FreeRun DEF FreeLabels, Labels, Leased, CancelRunning, PauseRunning, ResumeRunning
  <2>3. UNCHANGED <<row, database>>
    BY <1>4 DEF HoldPause, Hold, world, database
  <2> QED BY <2>2, <2>3, QuietPaused
<1>5. CASE HoldMark(r)
  <2>1. pc'[r] \in {"readMark", "idle"}
    BY <1>5 DEF HoldMark, Hold, Goto, Finish, TypeOK
  <2>2. RunInv(r)'
    BY <2>1, FreeRun DEF FreeLabels, Labels, Leased, CancelRunning, PauseRunning, ResumeRunning
  <2>3. UNCHANGED <<row, database>>
    BY <1>5 DEF HoldMark, Hold, world, database
  <2> QED BY <2>2, <2>3, QuietPaused
<1>6. CASE HoldChoice(r)
  <2>1. pc'[r] \in {"readChoice", "idle"}
    BY <1>6 DEF HoldChoice, Hold, Goto, Finish, TypeOK
  <2>2. RunInv(r)'
    BY <2>1, FreeRun DEF FreeLabels, Labels, Leased, CancelRunning, PauseRunning, ResumeRunning
  <2>3. UNCHANGED <<row, database>>
    BY <1>6 DEF HoldChoice, Hold, world, database
  <2> QED BY <2>2, <2>3, QuietPaused
<1>7. CASE ReadMark(r)
  <2>1. pc'[r] \in {"stopAgain", "idle"}
    BY <1>7 DEF ReadMark, Read, Goto, Finish, TypeOK
  <2>2. RunInv(r)'
    BY <2>1, FreeRun DEF FreeLabels, Labels, Leased, CancelRunning, PauseRunning, ResumeRunning
  <2>3. UNCHANGED <<row, database>>
    BY <1>7 DEF ReadMark, world, database
  <2> QED BY <2>2, <2>3, QuietPaused
<1>8. CASE StopAgain(r)
  <2>1. pc'[r] \in {"markPending", "idle"}
    BY <1>8 DEF StopAgain, Stopped, Goto, Finish, TypeOK
  <2>2. RunInv(r)'
    BY <2>1, FreeRun DEF FreeLabels, Labels, Leased, CancelRunning, PauseRunning, ResumeRunning
  <2>3. UNCHANGED <<row, database>>
    BY <1>8 DEF StopAgain, world, database
  <2> QED BY <2>2, <2>3, QuietPaused
<1>9. CASE MarkPendingDeletion(r)
  <2>1. pc'[r] = "idle"
    BY <1>9 DEF MarkPendingDeletion, Goto, Finish, TypeOK
  <2>2. RunInv(r)'
    BY <2>1, FreeRun DEF FreeLabels, Labels, Leased, CancelRunning, PauseRunning, ResumeRunning
  <2>3. row' = row \/ DatabaseStopped
    BY <1>9 DEF MarkPendingDeletion, UpdatableFrom, SettledStatus, PausedMeansStopped
  <2>4. UNCHANGED database
    BY <1>9 DEF MarkPendingDeletion, world, database
  <2> QED BY <2>2, <2>3, <2>4 DEF PausedMeansStopped, DatabaseStopped, database
<1>10. CASE ReadChoice(r)
  <2>1. \/ pc'[r] = "idle"
        \/ pc'[r] = "writeChoice" /\ mem'[r].status = "PENDING_DELETION"
    BY <1>10 DEF ReadChoice, Read, Finish, TypeOK
  <2>2. RunInv(r)'
    BY <2>1 DEF RunInv, RowInv, StopInv, LeaselessInv, DueInv, PauseRunning, ResumeRunning
  <2>3. UNCHANGED <<row, database>>
    BY <1>10 DEF ReadChoice, world, database
  <2> QED BY <2>2, <2>3, QuietPaused
<1>11. CASE UpdatePendingChoice(r)
  <2>1. pc'[r] = "idle"
    BY <1>11 DEF UpdatePendingChoice, Goto, Finish, TypeOK
  <2>2. RunInv(r)'
    BY <2>1, FreeRun DEF FreeLabels, Labels, Leased, CancelRunning, PauseRunning, ResumeRunning
  <2>3. row' = row \/ DatabaseStopped
    BY <1>11 DEF UpdatePendingChoice, UpdatableFrom, SettledStatus, PausedMeansStopped
  <2>4. UNCHANGED database
    BY <1>11 DEF UpdatePendingChoice, world, database
  <2> QED BY <2>2, <2>3, <2>4 DEF PausedMeansStopped, DatabaseStopped, database
<1> QED BY <1>1, <1>2, <1>3, <1>4, <1>5, <1>6, <1>7, <1>8, <1>9, <1>10, <1>11

\* So do the steps of a cancel.
LEMMA CancelKept ==
  ASSUME IInv, NEW r \in Runs, now' = now,
         \/ CancelDeletion(r)
         \/ ReadCancel(r)
         \/ RestartRuntime(r)
         \/ RouteSites(r)
         \/ WriteCancel(r)
         \/ UnrouteSites(r)
  PROVE  Kept(r)
<1> TypeOK /\ RunInv(r) /\ PausedMeansStopped
  BY DEF IInv
<1> USE DEF Kept
<1>1. CASE CancelDeletion(r)
  <2>1. pc'[r] = "readCancel"
    BY <1>1 DEF CancelDeletion, Call, Goto, Finish, TypeOK
  <2>2. RunInv(r)'
    BY <2>1, FreeRun DEF FreeLabels, Labels, Leased, CancelRunning, PauseRunning, ResumeRunning
  <2>3. UNCHANGED <<row, database>>
    BY <1>1 DEF CancelDeletion, Call, world, database
  <2> QED BY <2>2, <2>3, QuietPaused
<1>2. CASE ReadCancel(r)
  <2>1. pc'[r] \in {"restartRuntime", "idle"}
    BY <1>2 DEF ReadCancel, Read, Goto, Finish, TypeOK
  <2>2. RunInv(r)'
    BY <2>1, FreeRun DEF FreeLabels, Labels, Leased, CancelRunning, PauseRunning, ResumeRunning
  <2>3. UNCHANGED <<row, database>>
    BY <1>2 DEF ReadCancel, world, database
  <2> QED BY <2>2, <2>3, QuietPaused
<1>3. CASE RestartRuntime(r)
  <2>1. pc'[r] \in {"routeSites", "idle"}
    BY <1>3 DEF RestartRuntime, Goto, Finish, TypeOK
  <2>2. RunInv(r)'
    BY <2>1, FreeRun DEF FreeLabels, Labels, Leased, CancelRunning, PauseRunning, ResumeRunning
  <2>3. UNCHANGED <<row, database>>
    BY <1>3 DEF RestartRuntime, world, database
  <2> QED BY <2>2, <2>3, QuietPaused
<1>4. CASE RouteSites(r)
  <2>1. pc'[r] \in {"writeCancel", "idle"}
    BY <1>4 DEF RouteSites, Goto, Finish, TypeOK
  <2>2. RunInv(r)'
    BY <2>1, FreeRun DEF FreeLabels, Labels, Leased, CancelRunning, PauseRunning, ResumeRunning
  <2>3. UNCHANGED <<row, database>>
    BY <1>4 DEF RouteSites, world, database
  <2> QED BY <2>2, <2>3, QuietPaused
<1>5. CASE WriteCancel(r)
  <2>1. pc'[r] \in {"unrouteSites", "idle"}
    BY <1>5 DEF WriteCancel, Goto, Finish, TypeOK
  <2>2. RunInv(r)'
    BY <2>1, FreeRun DEF FreeLabels, Labels, Leased, CancelRunning, PauseRunning, ResumeRunning
  <2>3. row' = row \/ DatabaseStopped
    BY <1>5 DEF WriteCancel, UpdatableFrom, SettledStatus, PausedMeansStopped
  <2>4. UNCHANGED database
    BY <1>5 DEF WriteCancel, world, database
  <2> QED BY <2>2, <2>3, <2>4 DEF PausedMeansStopped, DatabaseStopped, database
<1>6. CASE UnrouteSites(r)
  <2>1. pc'[r] = "idle"
    BY <1>6 DEF UnrouteSites, Goto, Finish, TypeOK
  <2>2. RunInv(r)'
    BY <2>1, FreeRun DEF FreeLabels, Labels, Leased, CancelRunning, PauseRunning, ResumeRunning
  <2>3. UNCHANGED <<row, database>>
    BY <1>6 DEF UnrouteSites, world, database
  <2> QED BY <2>2, <2>3, QuietPaused
<1> QED BY <1>1, <1>2, <1>3, <1>4, <1>5, <1>6

\* A teardown step only ever stops more of the database.
LEMMA RunStepStops ==
  ASSUME NEW step, RunStep(step), TypeOK
  PROVE  hibernate' = hibernate /\ (pods' => pods) /\ (repl' => repl) /\ (endpoint' => endpoint)
BY DEF RunStep, TypeOK

\* So do the steps of the hard delete.
LEMMA TeardownKept ==
  ASSUME IInv, NEW r \in Runs, now' = now,
         \/ RunDueDeletions(r)
         \/ HoldDeletion(r)
         \/ DeletionRefused(r)
         \/ RecheckUnderLease(r)
         \/ BeginDeletion(r)
         \/ ReadClaimed(r)
         \/ StepDone(r)
         \/ StepFailed(r)
         \/ DeleteProjectRecord(r)
  PROVE  Kept(r)
<1> TypeOK /\ RunInv(r) /\ PausedMeansStopped
  BY DEF IInv
<1> USE DEF Kept
<1>1. CASE RunDueDeletions(r)
  <2>1. pc'[r] = "holdDeletion" /\ job'[r].dueAt = now /\ now # 0
    BY <1>1 DEF RunDueDeletions, DeletionDue, TypeOK, Rows, Jobs, NoJob
  <2>2. RunInv(r)'
    BY <2>1 DEF RunInv, RowInv, StopInv, LeaselessInv, DueInv, PauseRunning, ResumeRunning, TypeOK
  <2>3. UNCHANGED <<row, database>>
    BY <1>1 DEF RunDueDeletions, world, database
  <2> QED BY <2>2, <2>3, QuietPaused
<1>2. CASE HoldDeletion(r)
  <2>1. pc[r] = "holdDeletion" /\ pc'[r] = "recheck" /\ job'[r] = job[r]
    BY <1>2 DEF HoldDeletion, TypeOK
  <2>2. UNCHANGED <<row, database>>
    BY <1>2 DEF HoldDeletion, world, database
  <2>3. RunInv(r)'
    BY <2>1, <2>2 DEF RunInv, RowInv, StopInv, LeaselessInv, DueInv, PauseRunning, ResumeRunning, Updatable
  <2> QED BY <2>2, <2>3, QuietPaused
<1>3. CASE DeletionRefused(r)
  <2>1. pc'[r] = "idle"
    BY <1>3 DEF DeletionRefused, Goto, Finish, TypeOK
  <2>2. RunInv(r)'
    BY <2>1, FreeRun DEF FreeLabels, Labels, Leased, CancelRunning, PauseRunning, ResumeRunning
  <2>3. UNCHANGED <<row, database>>
    BY <1>3 DEF DeletionRefused, world, database
  <2> QED BY <2>2, <2>3, QuietPaused
<1>4. CASE RecheckUnderLease(r)
  <2>1. UNCHANGED <<row, database>>
    BY <1>4 DEF RecheckUnderLease, world, database
  <2>2. CASE Finish(r)
    BY <2>1, <2>2, FinishFree, QuietPaused
  <2>3. CASE /\ Goto(r, "beginDeletion") /\ ~Undeletable
             /\ job[r].dueAt = 0 \/ DeletionDue(row, job[r].dueAt)
    <3>1. pc[r] = "recheck" /\ pc'[r] = "beginDeletion"
      BY <1>4, <2>3 DEF RecheckUnderLease, Goto, TypeOK
    <3>2. ~Updatable(row) \/ (job[r].dueAt # 0 /\ job[r].dueAt <= now)
      BY <3>1 DEF RunInv, DueInv
    <3>3. CASE ~Updatable(row)
      BY <2>1, <3>1, <3>3, QuietPaused DEF RunInv, RowInv, StopInv, LeaselessInv, DueInv, PauseRunning, ResumeRunning, Updatable
    <3>4. CASE Updatable(row) /\ job[r].dueAt # 0 /\ job[r].dueAt <= now
      <4>1. row.status = "PENDING_DELETION" /\ ~row.protected
        BY <2>3, <3>4 DEF Undeletable, DeletionDue, Updatable, IsDeletionStatus,
           LiveStatuses, DeletionStatuses
      <4>2. row.due # 0 /\ row.due <= now
        BY <2>3, <3>4 DEF DeletionDue, TypeOK, Rows, Jobs
      <4>3. RunInv(r)'
        BY <2>1, <3>1, <4>1, <4>2 DEF RunInv, RowInv, StopInv, LeaselessInv, DueInv, PauseRunning, ResumeRunning, Updatable
      <4> QED BY <2>1, <4>3, QuietPaused
    <3> QED BY <3>2, <3>3, <3>4
  <2> QED BY <1>4, <2>2, <2>3 DEF RecheckUnderLease
<1>5. CASE BeginDeletion(r)
  <2>1. UNCHANGED database
    BY <1>5 DEF BeginDeletion, world, database
  <2>2. CASE Finish(r) /\ UNCHANGED row
    BY <2>1, <2>2, FinishFree, QuietPaused
  <2>3. CASE row' = Claimed(row, job[r].choice) /\ pc' = [pc EXCEPT ![r] = "reread"]
    <3>1. row'.status = "DELETING" /\ pc'[r] = "reread"
      BY <2>3 DEF Claimed, TypeOK, Rows
    <3>2. RunInv(r)'
      BY <3>1, FreeRun DEF FreeLabels, Labels, Leased, PauseRunning, ResumeRunning
    <3> QED BY <3>1, <3>2 DEF PausedMeansStopped
  <2> QED BY <1>5, <2>2, <2>3 DEF BeginDeletion
<1>6. CASE ReadClaimed(r)
  <2>1. pc'[r] \in {"teardown", "idle"}
    BY <1>6 DEF ReadClaimed, Goto, Finish, TypeOK
  <2>2. RunInv(r)'
    BY <2>1, FreeRun DEF FreeLabels, Labels, Leased, CancelRunning, PauseRunning, ResumeRunning
  <2>3. UNCHANGED <<row, database>>
    BY <1>6 DEF ReadClaimed, world, database
  <2> QED BY <2>2, <2>3, QuietPaused
<1>7. CASE StepDone(r)
  <2>1. pc'[r] = "teardown"
    BY <1>7 DEF StepDone, Goto, Finish, TypeOK
  <2>2. RunInv(r)'
    BY <2>1, FreeRun DEF FreeLabels, Labels, Leased, CancelRunning, PauseRunning, ResumeRunning
  <2>3. PausedMeansStopped'
    BY <1>7, RunStepStops DEF StepDone, PausedMeansStopped, DatabaseStopped
  <2> QED BY <2>2, <2>3
<1>8. CASE StepFailed(r)
  <2>1. row' = row \/ row'.status \in DeletionStatuses
    BY <1>8 DEF StepFailed, FailedAt, TypeOK, Rows, DeletionStatuses
  <2>2. hibernate' = hibernate /\ (pods' => pods) /\ (repl' => repl) /\ (endpoint' => endpoint)
    BY <1>8, RunStepStops DEF StepFailed, world
  <2>3. PausedMeansStopped'
    BY <2>1, <2>2 DEF PausedMeansStopped, DatabaseStopped, DeletionStatuses
  <2> QED BY <1>8, <2>3, FinishFree DEF StepFailed
<1>9. CASE DeleteProjectRecord(r)
  <2>1. PausedMeansStopped'
    BY <1>9 DEF DeleteProjectRecord, PausedMeansStopped, GoneRow, Gone
  <2> QED BY <1>9, <2>1, FinishFree DEF DeleteProjectRecord
<1> QED BY <1>1, <1>2, <1>3, <1>4, <1>5, <1>6, <1>7, <1>8, <1>9

\* The operations that take no lease disturb neither their own run, nor another
\* one, nor what PAUSED says.
LEMMA LeaselessKept ==
  ASSUME "force" \notin Ops, IInv, NEW r \in Runs, now' = now, OthersKept(r), RowMove,
         \/ PurgeBackups(r)
         \/ PurgeRun(r)
         \/ PurgeDelete(r)
         \/ (\E enabled \in BOOLEAN : SetDeletionProtection(r, enabled))
         \/ WriteProtection(r)
         \/ (\E choice \in Choices : ForceDropProject(r, choice))
         \/ ClearProtection(r)
  PROVE  Kept(r) /\ \A s \in Runs \ {r} : RunInv(s)'
<1> TypeOK /\ RunInv(r) /\ PausedMeansStopped
  BY DEF IInv
<1> USE DEF Kept
<1>1. CASE PurgeBackups(r)
  <2>1. pc'[r] = "purge" /\ ~Updatable(row)
    BY <1>1 DEF PurgeBackups, Call, TypeOK, Updatable, LiveStatuses
  <2>2. UNCHANGED <<row, database>>
    BY <1>1 DEF PurgeBackups, world, database
  <2>3. RunInv(r)'
    BY <2>1, <2>2 DEF RunInv, RowInv, StopInv, LeaselessInv, DueInv, PauseRunning, ResumeRunning, Updatable
  <2> QED BY <2>2, <2>3, QuietPaused, OthersOfQuiet
<1>2. CASE PurgeRun(r)
  <2>1. pc[r] = "purge" /\ pc'[r] \in {"purgeDelete", "idle"}
    BY <1>2 DEF PurgeRun, Goto, Finish, TypeOK
  <2>2. ~Updatable(row) /\ UNCHANGED database
    BY <1>2, <2>1 DEF RunInv, LeaselessInv, PurgeRun, database
  <2>3. ~Updatable(row)'
    BY <2>2, DoorKept
  <2>4. RunInv(r)' /\ PausedMeansStopped'
    BY <2>1, <2>3 DEF RunInv, RowInv, StopInv, LeaselessInv, DueInv, PauseRunning, ResumeRunning, PausedMeansStopped, Updatable, LiveStatuses
  <2> QED BY <2>2, <2>4, OthersBehindDoor
<1>3. CASE PurgeDelete(r)
  <2>1. pc[r] = "purgeDelete" /\ UNCHANGED database
    BY <1>3 DEF PurgeDelete, world, database
  <2>2. ~Updatable(row)
    BY <2>1 DEF RunInv, LeaselessInv
  <2>3. PausedMeansStopped'
    BY <1>3 DEF PurgeDelete, PausedMeansStopped, GoneRow, Gone
  <2> QED BY <1>3, <2>1, <2>2, <2>3, FinishFree, OthersBehindDoor DEF PurgeDelete
<1>4. CASE \E enabled \in BOOLEAN : SetDeletionProtection(r, enabled)
  <2>1. PICK enabled \in BOOLEAN : SetDeletionProtection(r, enabled)
    BY <1>4
  <2>2. pc'[r] = "writeProtection" /\ mem'[r] = [row EXCEPT !.protected = enabled]
    BY <2>1 DEF SetDeletionProtection, TypeOK
  <2>3. mem'[r].status # "PENDING_DELETION"
    BY <2>1, <2>2 DEF SetDeletionProtection, TypeOK, Rows
  <2>4. UNCHANGED <<row, database>>
    BY <2>1 DEF SetDeletionProtection, world, database
  <2>5. RunInv(r)'
    BY <2>2, <2>3 DEF RunInv, RowInv, StopInv, LeaselessInv, DueInv, PauseRunning, ResumeRunning
  <2> QED BY <2>4, <2>5, QuietPaused, OthersOfQuiet
<1>5. CASE WriteProtection(r)
  <2>1. /\ row'.status = row.status /\ (row.status = "PENDING_DELETION" => row' = row)
        /\ UNCHANGED database
    BY <1>5 DEF WriteProtection, UpdatableFrom, RunInv, LeaselessInv, world, database
  <2>2. PausedMeansStopped'
    BY <2>1 DEF PausedMeansStopped, DatabaseStopped, database
  <2> QED BY <1>5, <2>1, <2>2, FinishFree, OthersOfQuiet DEF WriteProtection
<1>6. CASE \E choice \in Choices : ForceDropProject(r, choice)
  BY <1>6 DEF ForceDropProject
<1>7. CASE ClearProtection(r)
  BY <1>7 DEF ClearProtection, RunInv, LeaselessInv
<1> QED BY <1>1, <1>2, <1>3, <1>4, <1>5, <1>6, <1>7

--------------------------------------------------------------------------------
(* Every step.                                                             *)

\* A run that changes the row or the database holds the lease, but for the
\* operations that take none.
LEMMA HolderOrQuiet ==
  ASSUME NEW r \in Runs, CallerStarts(r) \/ RunDueDeletions(r) \/ Step(r),
         ~PurgeRun(r), ~PurgeDelete(r), ~WriteProtection(r), ~ClearProtection(r)
  PROVE  pc[r] \in Leased \/ UNCHANGED <<row, database>>
<1> USE DEF Leased, PauseRunning, ResumeRunning, CancelRunning, world, database
<1>1. CASE CallerStarts(r) \/ RunDueDeletions(r)
  BY <1>1 DEF CallerStarts, Pause, Resume, CancelDeletion, ScheduleDeletion,
     RunDueDeletions, PurgeBackups, SetDeletionProtection, ForceDropProject
<1>2. CASE \/ AdmitPause(r) \/ EnterPausing(r) \/ PrePauseBackup(r) \/ PollBackup(r)
           \/ StopReplication(r) \/ StopWorkload(r) \/ AwaitStopped(r)
           \/ RepairReplication(r) \/ WithdrawEndpoint(r) \/ MarkPaused(r)
           \/ FailPause(r) \/ FailBackup(r)
  BY <1>2 DEF AdmitPause, EnterPausing, PrePauseBackup, PollBackup, StopReplication,
     StopWorkload, AwaitStopped, RepairReplication, WithdrawEndpoint, MarkPaused,
     FailPause, FailBackup
<1>3. CASE \/ AdmitResume(r) \/ EnterResuming(r) \/ StartWorkload(r) \/ AwaitReady(r)
           \/ RestartReplication(r) \/ PublishEndpoint(r) \/ MarkActive(r) \/ FailResume(r)
  BY <1>3 DEF AdmitResume, EnterResuming, StartWorkload, AwaitReady,
     RestartReplication, PublishEndpoint, MarkActive, FailResume
<1>4. CASE \/ AdmitDeletion(r) \/ StopWorkloads(r) \/ HoldPause(r) \/ HoldMark(r)
           \/ HoldChoice(r) \/ HoldDeletion(r) \/ DeletionRefused(r)
  BY <1>4 DEF AdmitDeletion, StopWorkloads, HoldPause, HoldMark, HoldChoice, Hold,
     HoldDeletion, DeletionRefused
<1>5. CASE \/ ReadMark(r) \/ StopAgain(r) \/ MarkPendingDeletion(r) \/ ReadChoice(r)
           \/ UpdatePendingChoice(r) \/ ReadCancel(r) \/ RestartRuntime(r)
           \/ RouteSites(r) \/ WriteCancel(r) \/ UnrouteSites(r)
  BY <1>5 DEF ReadMark, StopAgain, MarkPendingDeletion, ReadChoice, UpdatePendingChoice,
     ReadCancel, RestartRuntime, RouteSites, WriteCancel, UnrouteSites
<1>6. CASE \/ RecheckUnderLease(r) \/ BeginDeletion(r) \/ ReadClaimed(r) \/ StepDone(r)
           \/ StepFailed(r) \/ DeleteProjectRecord(r)
  BY <1>6 DEF RecheckUnderLease, BeginDeletion, ReadClaimed, StepDone, StepFailed,
     DeleteProjectRecord
<1> QED BY <1>1, <1>2, <1>3, <1>4, <1>5, <1>6 DEF Step

\* Every step of a run keeps what every run and PAUSED rely on.
LEMMA RunKeeps ==
  ASSUME "force" \notin Ops, IInv, NEW r \in Runs, now' = now,
         CallerStarts(r) \/ RunDueDeletions(r) \/ Step(r)
  PROVE  PausedMeansStopped' /\ \A s \in Runs : RunInv(s)'
<1>1. OthersKept(r) /\ RowMove
  BY RunMoves, RunRowMove DEF IInv
<1>2. CASE \/ PurgeBackups(r) \/ PurgeRun(r) \/ PurgeDelete(r)
           \/ (\E enabled \in BOOLEAN : SetDeletionProtection(r, enabled))
           \/ WriteProtection(r)
           \/ (\E choice \in Choices : ForceDropProject(r, choice))
           \/ ClearProtection(r)
  BY <1>1, <1>2, LeaselessKept DEF Kept
<1>3. CASE ~(\/ PurgeBackups(r) \/ PurgeRun(r) \/ PurgeDelete(r)
             \/ (\E enabled \in BOOLEAN : SetDeletionProtection(r, enabled))
             \/ WriteProtection(r)
             \/ (\E choice \in Choices : ForceDropProject(r, choice))
             \/ ClearProtection(r))
  <2>1. Kept(r)
    BY <1>3, PauseKept, ResumeKept, ScheduleKept, CancelKept, TeardownKept
       DEF CallerStarts, Step
  <2>2. pc[r] \in Leased \/ UNCHANGED <<row, database>>
    BY <1>3, HolderOrQuiet
  <2>3. \A s \in Runs \ {r} : RunInv(s)'
    BY <1>1, <2>2, OthersOfHolder, OthersOfQuiet
  <2> QED BY <2>1, <2>3 DEF Kept
<1> QED BY <1>2, <1>3

\* The inductive invariant is one.
LEMMA Inductive ==
  ASSUME LeaseMayBeLost = FALSE, "force" \notin Ops
  PROVE  TypeOK' /\ IInv /\ [Next]_vars => IInv'
<1> SUFFICES ASSUME TypeOK', IInv, [Next]_vars PROVE IInv'
  OBVIOUS
<1>1. LeaseInv'
  BY LeaseStep DEF IInv
<1>2. PausedMeansStopped' /\ \A s \in Runs : RunInv(s)'
  <2>1. ASSUME NEW r \in Runs, CallerStarts(r) \/ RunDueDeletions(r) \/ Step(r), UNCHANGED env
        PROVE  PausedMeansStopped' /\ \A s \in Runs : RunInv(s)'
    BY <2>1, RunKeeps DEF env
  <2>2. ASSUME NEW r \in Runs, Crash(r)
        PROVE  PausedMeansStopped' /\ \A s \in Runs : RunInv(s)'
    <3>1. TypeOK /\ Finish(r) /\ UNCHANGED <<row, database>> /\ now' = now
      BY <2>2 DEF Crash, IInv, world, database
    <3>2. RunInv(r)' /\ OthersKept(r)
      BY <3>1, FinishFree, FinishMove
    <3>3. \A s \in Runs \ {r} : RunInv(s)'
      BY <3>1, <3>2, OthersOfQuiet
    <3> QED BY <3>1, <3>2, <3>3, QuietPaused
  <2>3. CASE Tick
    <3>1. UNCHANGED <<row, database, pc, mem, job>> /\ now' = now + 1 /\ now \in Nat
      BY <2>3 DEF Tick, IInv, TypeOK, control, world, database
    <3>2. ASSUME NEW s \in Runs PROVE RunInv(s)'
      <4>1. RunInv(s) /\ job[s].dueAt \in Nat /\ row.due \in Nat
        BY DEF IInv, TypeOK, Jobs, Rows
      <4> QED BY <3>1, <4>1 DEF RunInv, RowInv, StopInv, LeaselessInv, DueInv, Updatable, database
    <3> QED BY <3>1, <3>2, QuietPaused
  <2>4. CASE OperatorFollows
    <3>1. UNCHANGED <<row, hibernate, repl, endpoint, pc, mem, job, now>>
      BY <2>4 DEF OperatorFollows, control, env
    <3>2. hibernate /\ ~pods => ~pods'
      BY <2>4 DEF OperatorFollows, IInv, TypeOK
    <3>3. ASSUME NEW s \in Runs PROVE RunInv(s)'
      <4>1. RunInv(s)
        BY DEF IInv
      <4> QED BY <3>1, <3>2, <4>1 DEF RunInv, RowInv, StopInv, LeaselessInv, DueInv, Updatable
    <3> QED BY <3>1, <3>2, <3>3 DEF IInv, PausedMeansStopped, DatabaseStopped
  <2>5. CASE (PurgeRetained /\ UNCHANGED env) \/ UNCHANGED vars
    <3>1. UNCHANGED <<row, database, pc, mem, job, now>>
      BY <2>5 DEF PurgeRetained, vars, control, world, env, database
    <3>2. ASSUME NEW s \in Runs PROVE RunInv(s)'
      <4>1. RunInv(s)
        BY DEF IInv
      <4> QED BY <3>1, <4>1 DEF RunInv, RowInv, StopInv, LeaselessInv, DueInv, Updatable, database
    <3> QED BY <3>1, <3>2, QuietPaused
  <2> QED BY <2>1, <2>2, <2>3, <2>4, <2>5 DEF Next, LoseLease
<1> QED BY <1>1, <1>2 DEF IInv

\* It holds initially.
LEMMA Initially == Init => IInv
<1> SUFFICES ASSUME Init PROVE IInv
  OBVIOUS
<1>1. TypeOK
  <2>1. row \in Rows
    BY DEF Init, Rows, LiveStatuses
  <2> QED BY <2>1, ConstantTypes DEF Init, TypeOK, Labels
<1>2. LeaseInv
  BY RunsAssumption DEF Init, LeaseInv, Leased, PauseRunning, ResumeRunning, CancelRunning
<1>3. ASSUME NEW r \in Runs PROVE RunInv(r)
  BY DEF Init, RunInv, RowInv, StopInv, LeaselessInv, DueInv, PauseRunning, ResumeRunning
<1>4. PausedMeansStopped
  BY DEF Init, PausedMeansStopped
<1> QED BY <1>1, <1>2, <1>3, <1>4 DEF IInv

\* So it holds throughout.
LEMMA Invariant ==
  ASSUME LeaseMayBeLost = FALSE, "force" \notin Ops
  PROVE  Spec => []IInv
<1>1. Init => IInv
  BY Initially
<1>2. TypeOK' /\ IInv /\ [Next]_vars => IInv'
  BY Inductive
<1> QED BY <1>1, <1>2, TypeCorrect, PTL DEF Spec

\* PAUSED and PENDING_DELETION are true: with the lease held and no force drop,
\* a project whose row says so has its database told to stay down, no pod, no
\* replication watcher and no public endpoint.
THEOREM PausedMeansStoppedHolds ==
  ASSUME LeaseMayBeLost = FALSE, "force" \notin Ops
  PROVE  Spec => []PausedMeansStopped
<1>1. IInv => PausedMeansStopped
  BY DEF IInv
<1> QED BY <1>1, Invariant, PTL

--------------------------------------------------------------------------------
(* The grace period.                                                       *)

\* Only the claim of a teardown puts a row into a deletion status.
LEMMA OnlyClaims ==
  ASSUME "force" \notin Ops, IInv, NEW r \in Runs,
         CallerStarts(r) \/ RunDueDeletions(r) \/ Step(r),
         IsDeletionStatus(row'.status), ~IsDeletionStatus(row.status)
  PROVE  pc[r] = "beginDeletion" /\ Updatable(row)
<1> TypeOK /\ RunInv(r)
  BY DEF IInv
<1> row' # row
  OBVIOUS
<1> USE DEF IsDeletionStatus, DeletionStatuses
<1>1. CASE CallerStarts(r) \/ RunDueDeletions(r)
  BY <1>1 DEF CallerStarts, Pause, Resume, CancelDeletion, ScheduleDeletion,
     RunDueDeletions, PurgeBackups, SetDeletionProtection, ForceDropProject
<1>2. CASE \/ AdmitPause(r) \/ PollBackup(r) \/ StopReplication(r) \/ StopWorkload(r)
           \/ AwaitStopped(r) \/ RepairReplication(r) \/ WithdrawEndpoint(r)
           \/ AdmitResume(r) \/ StartWorkload(r) \/ AwaitReady(r)
           \/ RestartReplication(r) \/ PublishEndpoint(r)
  BY <1>2 DEF AdmitPause, PollBackup, StopReplication, StopWorkload, AwaitStopped,
     RepairReplication, WithdrawEndpoint, AdmitResume, StartWorkload, AwaitReady,
     RestartReplication, PublishEndpoint
<1>3. CASE \/ AdmitDeletion(r) \/ StopWorkloads(r) \/ HoldPause(r) \/ HoldMark(r)
           \/ ReadMark(r) \/ StopAgain(r) \/ HoldChoice(r) \/ ReadChoice(r)
           \/ ReadCancel(r) \/ RestartRuntime(r) \/ RouteSites(r) \/ UnrouteSites(r)
           \/ HoldDeletion(r) \/ DeletionRefused(r) \/ RecheckUnderLease(r)
           \/ ReadClaimed(r) \/ StepDone(r)
  BY <1>3 DEF AdmitDeletion, StopWorkloads, HoldPause, HoldMark, HoldChoice, Hold,
     ReadMark, StopAgain, ReadChoice, ReadCancel, RestartRuntime, RouteSites,
     UnrouteSites, HoldDeletion, DeletionRefused, RecheckUnderLease, ReadClaimed, StepDone
<1>4. CASE EnterPausing(r) \/ MarkPaused(r) \/ FailBackup(r) \/ EnterResuming(r)
           \/ MarkActive(r) \/ MarkPendingDeletion(r) \/ WriteCancel(r)
  <2> mem[r] \in Rows
    BY DEF TypeOK
  <2>1. CASE EnterPausing(r)
    <3>1. row' = [mem[r] EXCEPT !.status = "PAUSING"]
      BY <2>1 DEF EnterPausing, Write
    <3> QED BY <3>1 DEF Rows
  <2>2. CASE MarkPaused(r)
    BY <2>2 DEF MarkPaused, Write, Rows
  <2>3. CASE FailBackup(r)
    BY <2>3 DEF FailBackup, Write, Rows
  <2>4. CASE EnterResuming(r)
    BY <2>4 DEF EnterResuming, Write, Rows
  <2>5. CASE MarkActive(r)
    BY <2>5 DEF MarkActive, Write, Rows
  <2>6. CASE MarkPendingDeletion(r)
    BY <2>6 DEF MarkPendingDeletion, Write, Rows
  <2>7. CASE WriteCancel(r)
    BY <2>7 DEF WriteCancel, Write, Rows, SettledStatus
  <2> QED BY <1>4, <2>1, <2>2, <2>3, <2>4, <2>5, <2>6, <2>7
<1>5. CASE PrePauseBackup(r) \/ FailPause(r) \/ FailResume(r) \/ UpdatePendingChoice(r)
  BY <1>5 DEF PrePauseBackup, Write, FailPause, FailResume, UpdatePendingChoice, RunInv,
     RowInv, PauseRunning, ResumeRunning, TypeOK, Rows
<1>6. CASE WriteProtection(r) \/ ClearProtection(r)
  BY <1>6 DEF WriteProtection, ClearProtection, UpdatableFrom, RunInv, LeaselessInv
<1>7. CASE BeginDeletion(r)
  BY <1>7 DEF BeginDeletion, TypeOK, Rows, Updatable
<1>8. CASE StepFailed(r) \/ PurgeRun(r)
  BY <1>8 DEF StepFailed, PurgeRun, FailedAt
<1>9. CASE DeleteProjectRecord(r) \/ PurgeDelete(r)
  BY <1>9 DEF DeleteProjectRecord, PurgeDelete, GoneRow, Gone
<1> QED BY <1>1, <1>2, <1>3, <1>4, <1>5, <1>6, <1>7, <1>8, <1>9 DEF Step

\* The grace period is honoured: with the lease held and no force drop, a
\* teardown starts only on a scheduled, unprotected project whose date has
\* passed, whatever the sweep read before it had the lease.
THEOREM GraceHonouredHolds ==
  ASSUME LeaseMayBeLost = FALSE, "force" \notin Ops
  PROVE  Spec => GraceHonoured
<1>1. ASSUME IInv, [Next]_vars, IsDeletionStatus(row'.status), ~IsDeletionStatus(row.status)
      PROVE  /\ row.status = "PENDING_DELETION" /\ ~row.protected
             /\ row.due # 0 /\ row.due <= now
  <2>1. PICK r \in Runs : CallerStarts(r) \/ RunDueDeletions(r) \/ Step(r)
    BY <1>1 DEF Next, PurgeRetained, Crash, LoseLease, OperatorFollows, Tick, vars
  <2>2. pc[r] = "beginDeletion" /\ Updatable(row)
    BY <1>1, <2>1, OnlyClaims
  <2> QED BY <1>1, <2>2 DEF IInv, RunInv, DueInv
<1> QED BY <1>1, Invariant, PTL DEF Spec, GraceHonoured

--------------------------------------------------------------------------------
(* ACTIVE after a resume.                                                  *)

\* What the resume has achieved by the label it is at.
ServeInv(r) ==
  /\ pc[r] \in {"awaitReady", "restartReplication", "publish", "markActive"} => ~hibernate
  /\ pc[r] \in {"restartReplication", "publish", "markActive"} => pods
  /\ pc[r] \in {"publish", "markActive"} => repl
  /\ pc[r] = "markActive" => endpoint

\* A run that changes the database holds the lease.
LEMMA HolderOrStill ==
  ASSUME NEW r \in Runs, CallerStarts(r) \/ RunDueDeletions(r) \/ Step(r)
  PROVE  pc[r] \in Leased \/ UNCHANGED database
<1>1. CASE PurgeRun(r) \/ PurgeDelete(r) \/ WriteProtection(r) \/ ClearProtection(r)
  BY <1>1 DEF PurgeRun, PurgeDelete, WriteProtection, ClearProtection, world, database
<1> QED BY <1>1, HolderOrQuiet

\* Every step of a run keeps what every resume has achieved.
LEMMA RunServes ==
  ASSUME IInv, \A s \in Runs : ServeInv(s), NEW r \in Runs,
         CallerStarts(r) \/ RunDueDeletions(r) \/ Step(r)
  PROVE  \A s \in Runs : ServeInv(s)'
<1> TypeOK /\ ServeInv(r)
  BY DEF IInv
<1>1. ServeInv(r)'
  <2>1. Arrives(r)
    BY Arrivals
  <2>2. CASE pc'[r] \notin {"awaitReady", "restartReplication", "publish", "markActive"}
    BY <2>2 DEF ServeInv
  <2>3. CASE pc'[r] = "awaitReady"
    BY <2>1, <2>3 DEF Arrives, StartWorkload, Goto, ServeInv, TypeOK
  <2>4. CASE pc'[r] = "restartReplication"
    BY <2>1, <2>4 DEF Arrives, AwaitReady, Goto, ServeInv, TypeOK, world
  <2>5. CASE pc'[r] = "publish"
    <3>1. RestartReplication(r)
      BY <2>1, <2>5 DEF Arrives
    <3>2. pc[r] = "restartReplication" /\ hibernate' = hibernate /\ pods' = pods
      BY <3>1 DEF RestartReplication
    <3>3. repl' = TRUE
      BY <2>5, <3>1 DEF RestartReplication, Goto, TypeOK
    <3> QED BY <2>5, <3>2, <3>3 DEF ServeInv
  <2>6. CASE pc'[r] = "markActive"
    <3>1. PublishEndpoint(r)
      BY <2>1, <2>6 DEF Arrives
    <3>2. /\ pc[r] = "publish" /\ hibernate' = hibernate /\ pods' = pods
          /\ repl' = repl
      BY <3>1 DEF PublishEndpoint
    <3>3. endpoint' = TRUE
      BY <2>6, <3>1 DEF PublishEndpoint, Goto, TypeOK
    <3> QED BY <2>6, <3>2, <3>3 DEF ServeInv
  <2> QED BY <2>2, <2>3, <2>4, <2>5, <2>6
<1>2. ASSUME NEW s \in Runs \ {r} PROVE ServeInv(s)'
  <2>1. pc'[s] = pc[s]
    BY RunMoves DEF OthersKept
  <2>2. CASE UNCHANGED database
    BY <2>1, <2>2 DEF ServeInv, database
  <2>3. CASE pc[r] \in Leased
    <3>1. pc'[s] \notin Leased
      BY <2>1, <2>3 DEF IInv, LeaseInv
    <3> QED BY <3>1 DEF ServeInv, Leased, ResumeRunning
  <2> QED BY <2>2, <2>3, HolderOrStill
<1> QED BY <1>1, <1>2

\* So does every other step: while the row is not a teardown's the database
\* resources are there, so the operator takes no pod away from a cluster that
\* is told to run.
LEMMA StepServes ==
  ASSUME IInv, LeftInv, \A s \in Runs : ServeInv(s), [Next]_vars
  PROVE  \A s \in Runs : ServeInv(s)'
<1> TypeOK
  BY DEF IInv
<1>1. ASSUME NEW r \in Runs, Crash(r) PROVE \A s \in Runs : ServeInv(s)'
  <2>1. OthersKept(r) /\ pc'[r] \in {"idle", "holdMark"} /\ UNCHANGED database
    BY <1>1, FinishMove DEF Crash, world, database
  <2> QED BY <2>1 DEF OthersKept, ServeInv, database
<1>2. CASE OperatorFollows
  <2>1. UNCHANGED <<hibernate, repl, endpoint, pc>>
    BY <1>2 DEF OperatorFollows, control
  <2>2. ASSUME NEW s \in Runs, pc[s] \in ResumeRunning PROVE ~hibernate /\ pods => pods'
    <3>1. row.status = "RESUMING"
      BY <2>2 DEF IInv, RunInv, RowInv
    <3>2. "database" \in left
      BY <3>1 DEF LeftInv, RowLeft, Updatable, LiveStatuses, Resources
    <3> QED BY <1>2, <3>2 DEF OperatorFollows, TypeOK
  <2> QED BY <2>1, <2>2 DEF ServeInv, ResumeRunning
<1>3. CASE PurgeRetained \/ Tick \/ UNCHANGED vars \/ \E r \in Runs : LoseLease(r)
  BY <1>3 DEF PurgeRetained, Tick, LoseLease, vars, control, world, ServeInv
<1> QED BY <1>1, <1>2, <1>3, RunServes DEF Next

\* Only the last write of a resume takes a row from RESUMING to ACTIVE.
LEMMA OnlyResumes ==
  ASSUME IInv, NEW r \in Runs, CallerStarts(r) \/ RunDueDeletions(r) \/ Step(r),
         row.status = "RESUMING", row'.status = "ACTIVE"
  PROVE  pc[r] = "markActive"
<1> TypeOK /\ RunInv(r) /\ mem[r] \in Rows /\ row' # row
  BY DEF IInv, TypeOK
<1>1. CASE CallerStarts(r) \/ RunDueDeletions(r)
  BY <1>1 DEF CallerStarts, Pause, Resume, CancelDeletion, ScheduleDeletion,
     RunDueDeletions, PurgeBackups, SetDeletionProtection, ForceDropProject
<1>2. CASE \/ AdmitPause(r) \/ PollBackup(r) \/ StopReplication(r) \/ StopWorkload(r)
           \/ AwaitStopped(r) \/ RepairReplication(r) \/ WithdrawEndpoint(r)
           \/ AdmitResume(r) \/ StartWorkload(r) \/ AwaitReady(r)
           \/ RestartReplication(r) \/ PublishEndpoint(r)
  BY <1>2 DEF AdmitPause, PollBackup, StopReplication, StopWorkload, AwaitStopped,
     RepairReplication, WithdrawEndpoint, AdmitResume, StartWorkload, AwaitReady,
     RestartReplication, PublishEndpoint
<1>3. CASE \/ AdmitDeletion(r) \/ StopWorkloads(r) \/ HoldPause(r) \/ HoldMark(r)
           \/ ReadMark(r) \/ StopAgain(r) \/ HoldChoice(r) \/ ReadChoice(r)
           \/ ReadCancel(r) \/ RestartRuntime(r) \/ RouteSites(r) \/ UnrouteSites(r)
           \/ HoldDeletion(r) \/ DeletionRefused(r) \/ RecheckUnderLease(r)
           \/ ReadClaimed(r) \/ StepDone(r)
  BY <1>3 DEF AdmitDeletion, StopWorkloads, HoldPause, HoldMark, HoldChoice, Hold,
     ReadMark, StopAgain, ReadChoice, ReadCancel, RestartRuntime, RouteSites,
     UnrouteSites, HoldDeletion, DeletionRefused, RecheckUnderLease, ReadClaimed, StepDone
<1>4. CASE \/ PrePauseBackup(r) \/ MarkPaused(r) \/ FailPause(r) \/ FailBackup(r)
           \/ MarkPendingDeletion(r) \/ UpdatePendingChoice(r) \/ WriteCancel(r)
  BY <1>4 DEF PrePauseBackup, MarkPaused, FailPause, FailBackup, MarkPendingDeletion,
     UpdatePendingChoice, WriteCancel, UpdatableFrom, SettledStatus
<1>5. CASE EnterPausing(r) \/ EnterResuming(r)
  BY <1>5 DEF EnterPausing, EnterResuming, Write, Rows
<1>6. CASE FailResume(r)
  BY <1>6 DEF FailResume, RunInv, RowInv, ResumeRunning
<1>7. CASE WriteProtection(r) \/ ClearProtection(r)
  BY <1>7 DEF WriteProtection, ClearProtection, UpdatableFrom, RunInv, LeaselessInv
<1>8. CASE MarkActive(r)
  BY <1>8 DEF MarkActive
<1>9. CASE BeginDeletion(r)
  BY <1>9 DEF BeginDeletion, Claimed, TypeOK, Rows
<1>10. CASE StepFailed(r) \/ PurgeRun(r)
  BY <1>10 DEF StepFailed, PurgeRun, FailedAt, IsDeletionStatus, DeletionStatuses
<1>11. CASE DeleteProjectRecord(r) \/ PurgeDelete(r)
  BY <1>11 DEF DeleteProjectRecord, PurgeDelete, GoneRow, Gone
<1> QED BY <1>1, <1>2, <1>3, <1>4, <1>5, <1>6, <1>7, <1>8, <1>9, <1>10, <1>11 DEF Step

\* A resume tells the truth: with the lease held and no force drop, it records
\* ACTIVE only while the cluster is told to run, a pod is there, the watcher is
\* installed and the endpoint answers, however long it took since it looked.
THEOREM ResumedMeansServingHolds ==
  ASSUME LeaseMayBeLost = FALSE, "force" \notin Ops
  PROVE  Spec => ResumedMeansServing
<1> DEFINE Serves == \A s \in Runs : ServeInv(s)
<1>1. Init => Serves
  BY DEF Init, ServeInv
<1>2. IInv /\ LeftInv /\ Serves /\ [Next]_vars => Serves'
  BY StepServes
<1>3. ASSUME IInv, Serves, [Next]_vars, row.status = "RESUMING", row'.status = "ACTIVE"
      PROVE  ~hibernate /\ pods /\ repl /\ endpoint
  <2>1. PICK r \in Runs : CallerStarts(r) \/ RunDueDeletions(r) \/ Step(r)
    BY <1>3 DEF Next, PurgeRetained, Crash, LoseLease, OperatorFollows, Tick, vars
  <2> QED BY <1>3, <2>1, OnlyResumes DEF ServeInv
<1> HIDE DEF Serves
<1> QED BY <1>1, <1>2, <1>3, Invariant, LeftInvariant, PTL DEF Spec, ResumedMeansServing

--------------------------------------------------------------------------------
(* The deletion contract.                                                  *)

\* A project that is not being deleted has no date and no backup choice.
Plain(rw) == HoldsCustomerData(rw.status) => rw.due = 0 /\ ~rw.deleteBackups

\* The backups were to go with the project and are gone with it.
GonePurged == row.status = Gone /\ "backups" \notin left

\* They are to go with a project under teardown.
Confirmed == IsDeletionStatus(row.status) /\ row.deleteBackups

\* What a run's copy and its request say of dates and choices.
ChoiceInv(r) ==
  /\ Plain(mem[r])
  /\ pc[r] \in {"enterPausing", "enterResuming", "stopAgain", "markPending"} =>
       HoldsCustomerData(row.status) /\ HoldsCustomerData(mem[r].status)
  /\ pc[r] = "writeChoice" => mem[r] = row
  /\ pc[r] \in {"holdDeletion", "recheck", "beginDeletion"} =>
       ~Updatable(row) \/ job[r].choice = "unset"
  /\ pc[r] \in {"reread", "teardown"} =>
       \/ GonePurged /\ job[r].choice = "delete"
       \/ IsDeletionStatus(row.status) /\ (job[r].choice = "delete" <=> row.deleteBackups)
  /\ pc[r] \in {"purge", "purgeDelete"} => GonePurged \/ Confirmed

RowChoice ==
  /\ Plain(row)
  /\ row.status = "BACKUPS_PENDING_DELETE" => row.deleteBackups

ChoicesInv == RowChoice /\ \A r \in Runs : ChoiceInv(r)

\* What one step of a run does to the row, as the contract sees it.
LiveWrite ==
  /\ HoldsCustomerData(row.status) /\ HoldsCustomerData(row'.status)
  /\ row'.due = 0 /\ ~row'.deleteBackups

Scheduled(r) ==
  /\ pc[r] = "markPending"
  /\ HoldsCustomerData(row.status) /\ row'.status = "PENDING_DELETION"
  /\ row'.due = now + Grace

Rechosen(r) ==
  /\ pc[r] = "writeChoice"
  /\ row.status = "PENDING_DELETION" /\ row'.status = "PENDING_DELETION"
  /\ row'.due = row.due

Cancelled(r) ==
  /\ pc[r] = "writeCancel"
  /\ row.status = "PENDING_DELETION" /\ row'.status = SettledStatus
  /\ row'.due = 0 /\ ~row'.deleteBackups

Begun(r) ==
  /\ pc[r] = "beginDeletion"
  /\ row.status = "PENDING_DELETION" /\ row.due <= now /\ row'.status = "DELETING"
  /\ row'.due = row.due /\ row'.deleteBackups = row.deleteBackups

TornOn(r) ==
  /\ pc[r] \in {"beginDeletion", "teardown", "purge"}
  /\ IsDeletionStatus(row.status) /\ IsDeletionStatus(row'.status)
  /\ row'.due = row.due /\ (row.deleteBackups => row'.deleteBackups)
  /\ pc[r] # "beginDeletion" => row'.deleteBackups = row.deleteBackups
  /\ row'.status = "BACKUPS_PENDING_DELETE" => row'.deleteBackups

Dropped(r) ==
  /\ pc[r] = "purgeDelete" \/ (pc[r] = "teardown" /\ job[r].step = "record")
  /\ ~Updatable(row) /\ row' = GoneRow

RowDeal(r) ==
  \/ row' = row
  \/ LiveWrite \/ Scheduled(r) \/ Rechosen(r) \/ Cancelled(r) \/ Begun(r) \/ TornOn(r)
  \/ Dropped(r)

\* The general writes of a project that is not being deleted.
LEMMA LiveWrites ==
  ASSUME IInv, ChoicesInv, NEW r \in Runs,
         \/ EnterPausing(r) \/ PrePauseBackup(r) \/ MarkPaused(r) \/ FailPause(r)
         \/ FailBackup(r) \/ EnterResuming(r) \/ MarkActive(r) \/ FailResume(r)
         \/ WriteProtection(r)
  PROVE  row' = row \/ LiveWrite
<1> /\ mem[r] \in Rows /\ row \in Rows
    /\ RunInv(r) /\ ChoiceInv(r) /\ Plain(mem[r])
  BY DEF IInv, TypeOK, ChoicesInv, ChoiceInv
<1> USE DEF UpdatableFrom, LiveWrite, HoldsCustomerData, Plain, Rows
<1>1. CASE EnterPausing(r)
  BY <1>1 DEF EnterPausing, Write, ChoiceInv
<1>2. CASE PrePauseBackup(r)
  BY <1>2 DEF PrePauseBackup, Write, RunInv, RowInv, PauseRunning
<1>3. CASE MarkPaused(r) \/ FailPause(r) \/ FailBackup(r)
  BY <1>3 DEF MarkPaused, FailPause, FailBackup, RunInv, RowInv, PauseRunning
<1>4. CASE EnterResuming(r)
  BY <1>4 DEF EnterResuming, Write, ChoiceInv
<1>5. CASE MarkActive(r) \/ FailResume(r)
  BY <1>5 DEF MarkActive, FailResume, RunInv, RowInv, ResumeRunning
<1>6. CASE WriteProtection(r)
  BY <1>6 DEF WriteProtection, RunInv, LeaselessInv, Updatable, LiveStatuses
<1> QED BY <1>1, <1>2, <1>3, <1>4, <1>5, <1>6

\* Every step of a run does one of these.
LEMMA RunDeal ==
  ASSUME IInv, LeftInv, ChoicesInv, NEW r \in Runs,
         CallerStarts(r) \/ RunDueDeletions(r) \/ Step(r)
  PROVE  RowDeal(r)
<1> /\ TypeOK /\ mem[r] \in Rows /\ row \in Rows /\ job[r].choice \in Choices
    /\ RunInv(r) /\ ChoiceInv(r) /\ RunLeft(r)
  BY DEF IInv, TypeOK, Jobs, ChoicesInv, LeftInv
<1> USE DEF RowDeal
<1>1. CASE CallerStarts(r) \/ RunDueDeletions(r)
  BY <1>1 DEF CallerStarts, Pause, Resume, CancelDeletion, ScheduleDeletion,
     RunDueDeletions, PurgeBackups, SetDeletionProtection, ForceDropProject
<1>2. CASE \/ AdmitPause(r) \/ PollBackup(r) \/ StopReplication(r) \/ StopWorkload(r)
           \/ AwaitStopped(r) \/ RepairReplication(r) \/ WithdrawEndpoint(r)
           \/ AdmitResume(r) \/ StartWorkload(r) \/ AwaitReady(r)
           \/ RestartReplication(r) \/ PublishEndpoint(r)
  BY <1>2 DEF AdmitPause, PollBackup, StopReplication, StopWorkload, AwaitStopped,
     RepairReplication, WithdrawEndpoint, AdmitResume, StartWorkload, AwaitReady,
     RestartReplication, PublishEndpoint
<1>3. CASE \/ AdmitDeletion(r) \/ StopWorkloads(r) \/ HoldPause(r) \/ HoldMark(r)
           \/ ReadMark(r) \/ StopAgain(r) \/ HoldChoice(r) \/ ReadChoice(r)
           \/ ReadCancel(r) \/ RestartRuntime(r) \/ RouteSites(r) \/ UnrouteSites(r)
           \/ HoldDeletion(r) \/ DeletionRefused(r) \/ RecheckUnderLease(r)
           \/ ReadClaimed(r) \/ StepDone(r)
  BY <1>3 DEF AdmitDeletion, StopWorkloads, HoldPause, HoldMark, HoldChoice, Hold,
     ReadMark, StopAgain, ReadChoice, ReadCancel, RestartRuntime, RouteSites,
     UnrouteSites, HoldDeletion, DeletionRefused, RecheckUnderLease, ReadClaimed, StepDone
<1>4. CASE \/ EnterPausing(r) \/ PrePauseBackup(r) \/ MarkPaused(r) \/ FailPause(r)
           \/ FailBackup(r) \/ EnterResuming(r) \/ MarkActive(r) \/ FailResume(r)
           \/ WriteProtection(r)
  BY <1>4, LiveWrites
<1>5. CASE MarkPendingDeletion(r)
  BY <1>5 DEF MarkPendingDeletion, UpdatableFrom, SettledStatus, Scheduled,
     HoldsCustomerData, Rows
<1>6. CASE UpdatePendingChoice(r)
  BY <1>6 DEF UpdatePendingChoice, UpdatableFrom, ChoiceInv, Rechosen, Rows
<1>7. CASE WriteCancel(r)
  BY <1>7 DEF WriteCancel, UpdatableFrom, Cancelled, Rows
<1>8. CASE ClearProtection(r)
  BY <1>8 DEF ClearProtection, RunInv, LeaselessInv
<1>9. CASE BeginDeletion(r)
  <2>1. CASE UNCHANGED row
    BY <2>1
  <2>2. CASE /\ row' = Claimed(row, job[r].choice) /\ row.status # Gone
             /\ ~PurgeAlreadyConfirmed(row, job[r].choice)
    <3>1. pc[r] = "beginDeletion"
      BY <1>9 DEF BeginDeletion
    <3>2. CASE IsDeletionStatus(row.status)
      BY <2>2, <3>1, <3>2, ClaimedChange DEF PurgeAlreadyConfirmed, TornOn, IsDeletionStatus,
         DeletionStatuses
    <3>3. CASE Updatable(row)
      <4>1. row.status = "PENDING_DELETION" /\ row.due <= now /\ job[r].choice = "unset"
        BY <3>1, <3>3 DEF RunInv, DueInv, ChoiceInv
      <4>2. EffectiveBackupIntent(row, job[r].choice) = row.deleteBackups
        BY <4>1 DEF EffectiveBackupIntent
      <4> QED BY <2>2, <3>1, <4>1, <4>2, ClaimedChange DEF Begun
    <3> QED BY <2>2, <3>2, <3>3 DEF Updatable, IsDeletionStatus, Rows
  <2> QED BY <1>9, <2>1, <2>2 DEF BeginDeletion
<1>10. CASE StepFailed(r)
  <2>1. CASE job[r].step = "backups"
    <3>1. pc[r] = "teardown" /\ row' = FailedAt(row, "BACKUPS_PENDING_DELETE")
      BY <1>10, <2>1 DEF StepFailed
    <3>2. job[r].choice = "delete"
      BY <2>1 DEF RunLeft, StepInv
    <3>3. row.status # Gone => row.deleteBackups /\ IsDeletionStatus(row.status)
      BY <3>1, <3>2 DEF ChoiceInv, GonePurged
    <3> QED BY <3>1, <3>3, FailedChange DEF TornOn, DeletionStatuses
  <2>2. CASE job[r].step # "backups"
    <3>1. pc[r] = "teardown" /\ row' = FailedAt(row, "DELETING")
      BY <1>10, <2>2 DEF StepFailed
    <3>2. row.status # Gone => IsDeletionStatus(row.status)
      BY <3>1 DEF ChoiceInv, GonePurged
    <3> QED BY <3>1, <3>2, FailedChange DEF TornOn, DeletionStatuses
  <2> QED BY <2>1, <2>2
<1>11. CASE PurgeRun(r)
  <2>1. pc[r] = "purge" /\ row' \in {row, FailedAt(row, "BACKUPS_PENDING_DELETE")}
    BY <1>11 DEF PurgeRun
  <2>2. row.status # Gone => row.deleteBackups /\ IsDeletionStatus(row.status)
    BY <2>1 DEF ChoiceInv, GonePurged, Confirmed
  <2> QED BY <2>1, <2>2, FailedChange DEF TornOn, DeletionStatuses
<1>12. CASE DeleteProjectRecord(r) \/ PurgeDelete(r)
  BY <1>12 DEF DeleteProjectRecord, PurgeDelete, Dropped, RunLeft, TornInv
<1> QED BY <1>1, <1>2, <1>3, <1>4, <1>5, <1>6, <1>7, <1>8, <1>9, <1>10, <1>11, <1>12 DEF Step

\* Two rows say the same of the deletion.
SameDeal(a, b) == a.status = b.status /\ a.due = b.due /\ a.deleteBackups = b.deleteBackups

\* A run's copy is the one it had, the row before or after the step, or none.
MemDeal(r) ==
  \/ SameDeal(mem'[r], mem[r]) \/ SameDeal(mem'[r], row) \/ SameDeal(mem'[r], row')
  \/ mem'[r] = GoneRow

\* Every step of a run leaves it with such a copy.
LEMMA RunMem ==
  ASSUME "force" \notin Ops, TypeOK, NEW r \in Runs,
         CallerStarts(r) \/ RunDueDeletions(r) \/ Step(r)
  PROVE  MemDeal(r)
<1> USE DEF MemDeal, SameDeal
<1>1. CASE mem' = mem \/ (\E label : Goto(r, label) \/ Read(r, label)) \/ Finish(r) \/ AfterStop(r)
  BY <1>1 DEF Goto, Read, Finish, AfterStop, TypeOK
<1>2. CASE CallerStarts(r) \/ RunDueDeletions(r)
  <2>1. CASE \E enabled \in BOOLEAN : SetDeletionProtection(r, enabled)
    <3>1. PICK enabled \in BOOLEAN : SetDeletionProtection(r, enabled)
      BY <2>1
    <3>2. mem'[r] = [row EXCEPT !.protected = enabled]
      BY <3>1 DEF SetDeletionProtection, TypeOK
    <3> QED BY <3>2 DEF TypeOK, Rows
  <2>2. CASE ~\E enabled \in BOOLEAN : SetDeletionProtection(r, enabled)
    <3>1. mem' = mem
      BY <1>2, <2>2 DEF CallerStarts, Pause, Resume, CancelDeletion, Call, ScheduleDeletion,
         RunDueDeletions, PurgeBackups, ForceDropProject
    <3> QED BY <3>1, <1>1
  <2> QED BY <2>1, <2>2
<1>3. CASE EnterPausing(r) \/ EnterResuming(r)
  BY <1>1, <1>3 DEF EnterPausing, EnterResuming, Write, TypeOK
<1>4. CASE PrePauseBackup(r)
  <2>1. CASE mem' = [mem EXCEPT ![r] = [mem[r] EXCEPT !.episode = TRUE]]
    <3>1. mem'[r] = [mem[r] EXCEPT !.episode = TRUE] /\ mem[r] \in Rows
      BY <2>1 DEF TypeOK
    <3> QED BY <3>1 DEF Rows
  <2> QED BY <1>1, <1>4, <2>1 DEF PrePauseBackup, Write
<1>5. CASE \/ AdmitPause(r) \/ PollBackup(r) \/ StopReplication(r) \/ StopWorkload(r)
           \/ AwaitStopped(r) \/ RepairReplication(r) \/ WithdrawEndpoint(r)
           \/ MarkPaused(r) \/ FailPause(r) \/ FailBackup(r)
  BY <1>1, <1>5 DEF AdmitPause, PollBackup, StopReplication, StopWorkload, AwaitStopped,
     RepairReplication, WithdrawEndpoint, MarkPaused, FailPause, FailBackup
<1>6. CASE \/ AdmitResume(r) \/ StartWorkload(r) \/ AwaitReady(r) \/ RestartReplication(r)
           \/ PublishEndpoint(r) \/ MarkActive(r) \/ FailResume(r)
  BY <1>1, <1>6 DEF AdmitResume, StartWorkload, AwaitReady, RestartReplication,
     PublishEndpoint, MarkActive, FailResume
<1>7. CASE AdmitDeletion(r)
  BY <1>1, <1>7 DEF AdmitDeletion, TypeOK, Rows, HoldsCustomerData, IsDeletionStatus,
     LiveStatuses, DeletionStatuses
<1>8. CASE \/ StopWorkloads(r) \/ HoldPause(r) \/ HoldMark(r) \/ ReadMark(r)
           \/ StopAgain(r) \/ MarkPendingDeletion(r) \/ HoldChoice(r) \/ ReadChoice(r)
           \/ UpdatePendingChoice(r)
  BY <1>1, <1>8 DEF StopWorkloads, Stopped, HoldPause, HoldMark, HoldChoice, Hold, ReadMark,
     StopAgain, MarkPendingDeletion, ReadChoice, UpdatePendingChoice
<1>9. CASE \/ ReadCancel(r) \/ RestartRuntime(r) \/ RouteSites(r) \/ WriteCancel(r)
           \/ UnrouteSites(r)
  BY <1>1, <1>9 DEF ReadCancel, RestartRuntime, RouteSites, WriteCancel, UnrouteSites
<1>10. CASE \/ HoldDeletion(r) \/ DeletionRefused(r) \/ RecheckUnderLease(r)
            \/ BeginDeletion(r) \/ ReadClaimed(r) \/ StepDone(r) \/ StepFailed(r)
            \/ DeleteProjectRecord(r)
  BY <1>1, <1>10 DEF HoldDeletion, DeletionRefused, RecheckUnderLease, BeginDeletion,
     ReadClaimed, StepDone, StepFailed, DeleteProjectRecord
<1>11. CASE PurgeRun(r) \/ PurgeDelete(r) \/ WriteProtection(r) \/ ClearProtection(r)
  BY <1>1, <1>11 DEF PurgeRun, PurgeDelete, WriteProtection, ClearProtection
<1> QED BY <1>2, <1>3, <1>4, <1>5, <1>6, <1>7, <1>8, <1>9, <1>10, <1>11 DEF Step

\* What the row says of dates and choices stays true.
LEMMA RowChoiceKept ==
  ASSUME RowChoice, NEW r \in Runs, RowDeal(r)
  PROVE  RowChoice'
BY DEF RowChoice, Plain, RowDeal, LiveWrite, Scheduled, Rechosen, Cancelled, Begun, TornOn,
   Dropped, HoldsCustomerData, IsDeletionStatus, DeletionStatuses, SettledStatus, GoneRow, Gone

\* A row no general write may touch stays one, a dropped one too.
LEMMA DealDoor ==
  ASSUME NEW r \in Runs, RowDeal(r)
  PROVE  /\ ~Updatable(row) => ~Updatable(row)'
         /\ row.status = Gone => row'.status = Gone
BY DEF RowDeal, LiveWrite, Scheduled, Rechosen, Cancelled, Begun, TornOn, Dropped,
   HoldsCustomerData, Updatable, LiveStatuses, IsDeletionStatus, DeletionStatuses, GoneRow, Gone

\* A run that holds the lease can rely on the status of the row: nobody else
\* schedules, cancels, changes the choice or claims the row.
LEMMA OthersChoice ==
  ASSUME IInv, LeftInv, ChoicesInv, NEW r \in Runs, OthersKept(r), RowDeal(r),
         left' \subseteq left, NEW s \in Runs \ {r}
  PROVE  ChoiceInv(s)'
<1> ChoiceInv(s) /\ ChoiceInv(r) /\ RunLeft(r) /\ RunInv(s)
  BY DEF ChoicesInv, LeftInv, IInv
<1>1. pc'[s] = pc[s] /\ mem'[s] = mem[s] /\ job'[s] = job[s]
  BY DEF OthersKept
<1>2. pc[s] \in Leased =>
        row' = row \/ LiveWrite \/ (TornOn(r) /\ pc[r] = "purge")
          \/ (row' = GoneRow /\ ~Updatable(row) /\ pc[r] = "purgeDelete")
  <2>1. pc[s] \in Leased => pc[r] \notin Leased
    BY DEF IInv, LeaseInv
  <2> QED BY <2>1 DEF RowDeal, Scheduled, Rechosen, Cancelled, Begun, TornOn, Dropped, Leased,
             CancelRunning
<1>3. Plain(mem[s])'
  BY <1>1 DEF ChoiceInv, Plain
<1>4. pc[s] \in {"enterPausing", "enterResuming", "stopAgain", "markPending"} =>
        HoldsCustomerData(row'.status) /\ HoldsCustomerData(mem'[s].status)
  BY <1>1, <1>2 DEF ChoiceInv, LiveWrite, TornOn, Updatable, HoldsCustomerData,
     IsDeletionStatus, DeletionStatuses, LiveStatuses, Leased
<1>5. pc[s] = "writeChoice" => mem'[s] = row'
  BY <1>1, <1>2 DEF ChoiceInv, RunInv, RowInv, LiveWrite, TornOn, Updatable, HoldsCustomerData,
     IsDeletionStatus, DeletionStatuses, LiveStatuses, Leased
<1>6. pc[s] \in {"holdDeletion", "recheck", "beginDeletion"} =>
        ~Updatable(row)' \/ job'[s].choice = "unset"
  BY <1>1, DealDoor DEF ChoiceInv
<1>7. GonePurged => GonePurged'
  BY DealDoor DEF GonePurged
<1>8. pc[s] \in {"reread", "teardown"} =>
        \/ GonePurged' /\ job'[s].choice = "delete"
        \/ IsDeletionStatus(row'.status) /\ (job'[s].choice = "delete" <=> row'.deleteBackups)
  <2> SUFFICES ASSUME pc[s] \in {"reread", "teardown"}, IsDeletionStatus(row.status),
                      job[s].choice = "delete" <=> row.deleteBackups
               PROVE  \/ GonePurged' /\ job'[s].choice = "delete"
                      \/ /\ IsDeletionStatus(row'.status)
                         /\ job'[s].choice = "delete" <=> row'.deleteBackups
    BY <1>1, <1>7 DEF ChoiceInv
  <2>1. CASE row' = row
    BY <1>1, <2>1
  <2>2. CASE TornOn(r) /\ pc[r] = "purge"
    BY <1>1, <2>2 DEF TornOn
  <2>3. CASE row' = GoneRow /\ pc[r] = "purgeDelete"
    <3>1. row.deleteBackups /\ "backups" \notin left
      BY <2>3 DEF ChoiceInv, GonePurged, Confirmed, RunLeft, PurgeInv, IsDeletionStatus,
         DeletionStatuses, Gone
    <3> QED BY <1>1, <2>3, <3>1 DEF GonePurged, GoneRow
  <2>4. ~LiveWrite
    BY DEF LiveWrite, HoldsCustomerData, IsDeletionStatus, DeletionStatuses
  <2> QED BY <1>2, <2>1, <2>2, <2>3, <2>4 DEF Leased
<1>9. pc[s] \in {"purge", "purgeDelete"} => GonePurged' \/ Confirmed'
  <2> SUFFICES ASSUME Confirmed PROVE GonePurged' \/ Confirmed'
    BY <1>7 DEF ChoiceInv
  <2>1. CASE row' = row \/ TornOn(r)
    BY <2>1 DEF Confirmed, TornOn
  <2>2. CASE Dropped(r) /\ pc[r] = "purgeDelete"
    BY <2>2 DEF Dropped, RunLeft, PurgeInv, GonePurged, GoneRow
  <2>3. CASE Dropped(r) /\ pc[r] = "teardown" /\ job[r].step = "record"
    <3>1. job[r].choice = "delete"
      BY <2>3 DEF ChoiceInv, GonePurged, Confirmed
    <3> QED BY <2>3, <3>1 DEF Dropped, RunLeft, StepInv, GonePurged, GoneRow
  <2> QED BY <2>1, <2>2, <2>3 DEF RowDeal, LiveWrite, Scheduled, Rechosen, Cancelled, Begun,
             Dropped, Confirmed, HoldsCustomerData, IsDeletionStatus, DeletionStatuses
<1> QED BY <1>1, <1>3, <1>4, <1>5, <1>6, <1>8, <1>9 DEF ChoiceInv

\* A run keeps what it says of dates and choices.
LEMMA OwnChoice ==
  ASSUME "force" \notin Ops, IInv, LeftInv, ChoicesInv, NEW r \in Runs,
         CallerStarts(r) \/ RunDueDeletions(r) \/ Step(r)
  PROVE  ChoiceInv(r)'
<1> /\ TypeOK /\ ChoiceInv(r) /\ RowChoice /\ RunInv(r)
    /\ mem[r] \in Rows /\ row \in Rows /\ job[r] \in Jobs /\ job[r].choice \in Choices
  BY DEF ChoicesInv, IInv, TypeOK, Jobs
<1>1. Arrives(r)
  BY Arrivals
<1>2. Plain(mem[r])'
  <2>1. RowChoice'
    BY RunDeal, RowChoiceKept
  <2>2. MemDeal(r)
    BY RunMem
  <2> QED BY <2>1, <2>2 DEF RowChoice, MemDeal, SameDeal, ChoiceInv, Plain, GoneRow, Gone,
             HoldsCustomerData
<1>3. pc'[r] \in {"enterPausing", "enterResuming", "stopAgain", "markPending"} =>
        HoldsCustomerData(row'.status) /\ HoldsCustomerData(mem'[r].status)
  <2> USE DEF HoldsCustomerData
  <2>1. CASE pc'[r] = "enterPausing"
    BY <1>1, <2>1 DEF Arrives, AdmitPause, Read, Finish, AfterStop, Pausable, TypeOK
  <2>2. CASE pc'[r] = "enterResuming"
    BY <1>1, <2>2 DEF Arrives, AdmitResume, Read, Finish, Resumable, TypeOK
  <2>3. CASE pc'[r] = "stopAgain"
    BY <1>1, <2>3 DEF Arrives, ReadMark, Read, Finish, SettledStatus, TypeOK
  <2>4. CASE pc'[r] = "markPending"
    BY <1>1, <2>4 DEF Arrives, StopAgain, Stopped, Goto, Finish, TypeOK, ChoiceInv
  <2> QED BY <2>1, <2>2, <2>3, <2>4
<1>4. pc'[r] = "writeChoice" => mem'[r] = row'
  BY <1>1 DEF Arrives, ReadChoice, Read, Finish, TypeOK
<1>5. pc'[r] \in {"holdDeletion", "recheck", "beginDeletion"} =>
        ~Updatable(row)' \/ job'[r].choice = "unset"
  <2>1. CASE pc'[r] = "holdDeletion" /\ AdmitDeletion(r)
    <3>1. row' = row /\ IsDeletionStatus(row.status)
      BY <2>1 DEF AdmitDeletion, Goto, Finish, TypeOK, Rows, HoldsCustomerData,
         IsDeletionStatus, LiveStatuses, DeletionStatuses
    <3> QED BY <3>1 DEF Updatable, IsDeletionStatus, LiveStatuses, DeletionStatuses
  <2>2. CASE RunDueDeletions(r)
    BY <2>2 DEF RunDueDeletions, NoJob, TypeOK
  <2>3. CASE ClearProtection(r) \/ \E choice \in Choices : ForceDropProject(r, choice)
    BY <2>3 DEF ClearProtection, ForceDropProject, RunInv, LeaselessInv
  <2>4. CASE pc'[r] = "recheck"
    BY <1>1, <2>4 DEF Arrives, HoldDeletion, ChoiceInv, Updatable
  <2>5. CASE pc'[r] = "beginDeletion"
    BY <1>1, <2>5 DEF Arrives, RecheckUnderLease, Goto, Finish, ChoiceInv, Updatable, TypeOK
  <2> QED BY <1>1, <2>1, <2>2, <2>3, <2>4, <2>5 DEF Arrives
<1>6. pc'[r] \in {"reread", "teardown"} =>
        \/ GonePurged' /\ job'[r].choice = "delete"
        \/ IsDeletionStatus(row'.status) /\ (job'[r].choice = "delete" <=> row'.deleteBackups)
  <2>1. CASE pc'[r] = "reread"
    <3>1. row' = Claimed(row, job[r].choice) /\ job'[r].choice = InForce(row, job[r].choice)
      BY <1>1, <2>1 DEF Arrives, BeginDeletion, Finish, TypeOK, Jobs
    <3> QED BY <3>1, ClaimedChange DEF InForce, IsDeletionStatus, DeletionStatuses
  <2>2. CASE pc'[r] = "teardown" /\ ReadClaimed(r)
    BY <2>2 DEF ReadClaimed, Goto, Finish, TypeOK, ChoiceInv, GonePurged, world
  <2>3. CASE StepDone(r)
    <3>1. job'[r].choice = job[r].choice /\ row' = row /\ left' \subseteq left /\ pc[r] = "teardown"
      BY <2>3 DEF StepDone, RunStep, TypeOK, Jobs
    <3> QED BY <3>1 DEF ChoiceInv, GonePurged
  <2> QED BY <1>1, <2>1, <2>2, <2>3 DEF Arrives
<1>7. pc'[r] \in {"purge", "purgeDelete"} => GonePurged' \/ Confirmed'
  <2>1. CASE pc'[r] = "purge"
    BY <1>1, <2>1 DEF Arrives, PurgeBackups, RowChoice, Confirmed, IsDeletionStatus,
       DeletionStatuses
  <2>2. CASE pc'[r] = "purgeDelete"
    BY <1>1, <2>2 DEF Arrives, PurgeRun, Goto, Finish, TypeOK, ChoiceInv, GonePurged, Confirmed
  <2> QED BY <2>1, <2>2
<1> QED BY <1>2, <1>3, <1>4, <1>5, <1>6, <1>7 DEF ChoiceInv

\* The invariant of the choices is kept by every step.
LEMMA ChoicesStep ==
  ASSUME LeaseMayBeLost = FALSE, "force" \notin Ops, IInv, LeftInv, ChoicesInv, [Next]_vars
  PROVE  ChoicesInv'
<1> TypeOK /\ RowChoice
  BY DEF IInv, ChoicesInv
<1>1. ASSUME NEW r \in Runs, CallerStarts(r) \/ RunDueDeletions(r) \/ Step(r)
      PROVE  ChoicesInv'
  <2>1. OthersKept(r) /\ RowDeal(r) /\ ChoiceInv(r)'
    BY <1>1, RunMoves, RunDeal, OwnChoice
  <2>2. left' \subseteq left
    BY <1>1, RunLeftChange DEF LeftChange
  <2>3. \A s \in Runs \ {r} : ChoiceInv(s)'
    BY <2>1, <2>2, OthersChoice
  <2> QED BY <2>1, <2>3, RowChoiceKept DEF ChoicesInv
<1>2. ASSUME NEW r \in Runs, Crash(r) PROVE ChoicesInv'
  <2>1. Finish(r) /\ UNCHANGED <<row, left>>
    BY <1>2 DEF Crash, world
  <2>2. OthersKept(r) /\ RowDeal(r) /\ pc'[r] = "idle" /\ mem'[r] = GoneRow
    BY <2>1, FinishMove DEF RowDeal, Finish, TypeOK
  <2>3. ChoiceInv(r)'
    BY <2>2 DEF ChoiceInv, Plain, GoneRow, Gone, HoldsCustomerData
  <2>4. \A s \in Runs \ {r} : ChoiceInv(s)'
    BY <2>1, <2>2, OthersChoice
  <2> QED BY <2>2, <2>3, <2>4, RowChoiceKept DEF ChoicesInv
<1>3. CASE PurgeRetained \/ OperatorFollows \/ Tick \/ UNCHANGED vars
  <2>1. UNCHANGED <<row, pc, mem, job>> /\ left' \subseteq left
    BY <1>3 DEF PurgeRetained, OperatorFollows, Tick, vars, control, world
  <2>2. RowChoice' /\ (GonePurged => GonePurged') /\ (Confirmed => Confirmed')
    BY <2>1 DEF RowChoice, Plain, GonePurged, Confirmed
  <2>3. ASSUME NEW s \in Runs PROVE ChoiceInv(s)'
    <3>1. ChoiceInv(s)
      BY DEF ChoicesInv
    <3> QED BY <2>1, <2>2, <3>1 DEF ChoiceInv, Plain, Updatable
  <2> QED BY <2>2, <2>3 DEF ChoicesInv
<1> QED BY <1>1, <1>2, <1>3 DEF Next, LoseLease

\* So it holds throughout.
LEMMA ChoicesInvariant ==
  ASSUME LeaseMayBeLost = FALSE, "force" \notin Ops
  PROVE  Spec => []ChoicesInv
<1>1. Init => ChoicesInv
  <2> SUFFICES ASSUME Init PROVE ChoicesInv
    OBVIOUS
  <2>1. RowChoice
    BY DEF Init, RowChoice, Plain
  <2>2. ASSUME NEW r \in Runs PROVE ChoiceInv(r)
    BY DEF Init, ChoiceInv, Plain, GoneRow, Gone, HoldsCustomerData
  <2> QED BY <2>1, <2>2 DEF ChoicesInv
<1>2. IInv /\ LeftInv /\ ChoicesInv /\ [Next]_vars => ChoicesInv'
  BY ChoicesStep
<1> QED BY <1>1, <1>2, Invariant, LeftInvariant, PTL DEF Spec

--------------------------------------------------------------------------------
(* Every step is one of the contract's, or none.                           *)

\* What the contract says of the lifecycle's variables, as in Contract.
Phase(status) ==
  CASE status = Gone               -> "gone"
    [] status = "PENDING_DELETION" -> "grace"
    [] IsDeletionStatus(status)    -> "deleting"
    [] OTHER                       -> "live"

Backups == BackupsConfigured /\ "backups" \in left

\* The phases, one by one.
LEMMA Phases ==
  ASSUME NEW status \in LiveStatuses \cup DeletionStatuses \cup {Gone}
  PROVE  /\ Phase(status) = "gone" <=> status = Gone
         /\ Phase(status) = "grace" <=> status = "PENDING_DELETION"
         /\ Phase(status) = "deleting" <=> IsDeletionStatus(status)
         /\ Phase(status) = "live" <=> HoldsCustomerData(status)
BY DEF Phase, Gone, IsDeletionStatus, DeletionStatuses, HoldsCustomerData, LiveStatuses

\* The contract's actions over the lifecycle's variables.
LEMMA ContractActions ==
  /\ UNCHANGED Contract!cvars <=>
       UNCHANGED <<Phase(row.status), row.due, row.deleteBackups, Backups, retained, now>>
  /\ Contract!Schedule <=>
       /\ Phase(row.status) = "live" /\ Phase(row.status)' = "grace"
       /\ row'.due = now + Grace /\ row'.deleteBackups \in BOOLEAN
       /\ UNCHANGED <<Backups, retained, now>>
  /\ Contract!ChangeChoice <=>
       /\ Phase(row.status) = "grace" /\ row'.deleteBackups = ~row.deleteBackups
       /\ UNCHANGED <<Phase(row.status), row.due, Backups, retained, now>>
  /\ Contract!Cancel <=>
       /\ Phase(row.status) = "grace" /\ Phase(row.status)' = "live"
       /\ row'.due = 0 /\ row'.deleteBackups = FALSE
       /\ UNCHANGED <<Backups, retained, now>>
  /\ Contract!Begin <=>
       /\ Phase(row.status) = "grace" /\ row.due <= now /\ Phase(row.status)' = "deleting"
       /\ UNCHANGED <<row.due, row.deleteBackups, Backups, retained, now>>
  /\ Contract!Confirm <=>
       /\ Phase(row.status) = "deleting" /\ ~row.deleteBackups /\ row'.deleteBackups = TRUE
       /\ UNCHANGED <<Phase(row.status), row.due, Backups, retained, now>>
  /\ Contract!DeleteBackups <=>
       /\ Phase(row.status) = "deleting" /\ row.deleteBackups /\ Backups' = FALSE
       /\ UNCHANGED <<Phase(row.status), row.due, row.deleteBackups, retained, now>>
  /\ Contract!KeepBackups <=>
       /\ Phase(row.status) = "deleting" /\ ~row.deleteBackups /\ retained' = now + Retention
       /\ UNCHANGED <<Phase(row.status), row.due, row.deleteBackups, Backups, now>>
  /\ Contract!Drop <=>
       /\ Phase(row.status) = "deleting" /\ Phase(row.status)' = "gone"
       /\ Backups => ~row.deleteBackups /\ retained # 0
       /\ row'.due = 0 /\ row'.deleteBackups = FALSE
       /\ UNCHANGED <<Backups, retained, now>>
  /\ Contract!Expire <=>
       /\ retained # 0 /\ retained <= now
       /\ Backups' = FALSE /\ retained' \in {retained, 0}
       /\ UNCHANGED <<Phase(row.status), row.due, row.deleteBackups, now>>
  /\ Contract!Tick <=>
       /\ now' = now + 1
       /\ UNCHANGED <<Phase(row.status), row.due, row.deleteBackups, Backups, retained>>
BY DEF Phase, Backups, Contract!cvars, Contract!Schedule, Contract!ChangeChoice, Contract!Cancel,
   Contract!Begin, Contract!Confirm, Contract!DeleteBackups, Contract!KeepBackups, Contract!Drop,
   Contract!Expire, Contract!Tick

\* A write to the row that removes nothing.
LEMMA DealKept ==
  ASSUME TypeOK, TypeOK', RowLeft, NEW r \in Runs, RunLeft(r), ChoiceInv(r), RowChoice,
         RowDeal(r), UNCHANGED <<left, retained, now>>
  PROVE  [Contract!Next]_(Contract!cvars)
<1> row \in Rows /\ row' \in Rows
  BY DEF TypeOK
<1> /\ row.status \in LiveStatuses \cup DeletionStatuses \cup {Gone}
    /\ row'.status \in LiveStatuses \cup DeletionStatuses \cup {Gone}
    /\ row.deleteBackups \in BOOLEAN /\ row'.deleteBackups \in BOOLEAN
  BY DEF Rows
<1> UNCHANGED Backups
  BY DEF Backups
<1>1. CASE row' = row
  BY <1>1, ContractActions
<1>2. CASE LiveWrite
  <2>1. Phase(row.status) = "live" /\ Phase(row'.status) = "live"
    BY <1>2, Phases DEF LiveWrite
  <2>2. row.due = row'.due /\ row.deleteBackups = row'.deleteBackups
    BY <1>2 DEF LiveWrite, RowChoice, Plain
  <2> QED BY <2>1, <2>2, ContractActions
<1>3. CASE Scheduled(r)
  <2>1. Phase(row.status) = "live" /\ Phase(row'.status) = "grace"
    BY <1>3, Phases DEF Scheduled
  <2>2. Contract!Schedule
    BY <1>3, <2>1, ContractActions DEF Scheduled
  <2> QED BY <2>2 DEF Contract!Next
<1>4. CASE Rechosen(r)
  <2>1. Phase(row.status) = "grace" /\ Phase(row'.status) = "grace" /\ row'.due = row.due
    BY <1>4, Phases DEF Rechosen
  <2>2. CASE row'.deleteBackups = row.deleteBackups
    BY <2>1, <2>2, ContractActions
  <2>3. CASE row'.deleteBackups = ~row.deleteBackups
    <3>1. Contract!ChangeChoice
      BY <2>1, <2>3, ContractActions
    <3> QED BY <3>1 DEF Contract!Next
  <2> QED BY <2>2, <2>3
<1>5. CASE Cancelled(r)
  <2>1. Phase(row.status) = "grace" /\ Phase(row'.status) = "live"
    BY <1>5, Phases DEF Cancelled, SettledStatus, HoldsCustomerData
  <2>2. Contract!Cancel
    BY <1>5, <2>1, ContractActions DEF Cancelled
  <2> QED BY <2>2 DEF Contract!Next
<1>6. CASE Begun(r)
  <2>1. Phase(row.status) = "grace" /\ Phase(row'.status) = "deleting"
    BY <1>6, Phases DEF Begun, IsDeletionStatus, DeletionStatuses
  <2>2. Contract!Begin
    BY <1>6, <2>1, ContractActions DEF Begun
  <2> QED BY <2>2 DEF Contract!Next
<1>7. CASE TornOn(r)
  <2>1. Phase(row.status) = "deleting" /\ Phase(row'.status) = "deleting" /\ row'.due = row.due
    BY <1>7, Phases DEF TornOn
  <2>2. CASE row'.deleteBackups = row.deleteBackups
    BY <2>1, <2>2, ContractActions
  <2>3. CASE ~row.deleteBackups /\ row'.deleteBackups = TRUE
    <3>1. Contract!Confirm
      BY <2>1, <2>3, ContractActions
    <3> QED BY <3>1 DEF Contract!Next
  <2> QED BY <1>7, <2>2, <2>3 DEF TornOn
<1>8. CASE Dropped(r)
  <2>1. CASE row.status = Gone
    BY <1>1, <1>8, <2>1 DEF Dropped, RowLeft
  <2>2. CASE row.status # Gone
    <3>1. IsDeletionStatus(row.status)
      BY <1>8, <2>2 DEF Dropped, Updatable, IsDeletionStatus
    <3>2. Phase(row.status) = "deleting" /\ Phase(row'.status) = "gone"
      BY <1>8, <3>1, Phases DEF Dropped, GoneRow
    <3>3. Backups => ~row.deleteBackups /\ retained # 0
      <4>1. CASE pc[r] = "purgeDelete"
        BY <4>1 DEF RunLeft, PurgeInv, Backups
      <4>2. CASE pc[r] = "teardown" /\ job[r].step = "record"
        BY <2>2, <4>2 DEF RunLeft, StepInv, Settled, ChoiceInv, GonePurged, Backups
      <4> QED BY <1>8, <4>1, <4>2 DEF Dropped
    <3>4. Contract!Drop
      BY <1>8, <3>2, <3>3, ContractActions DEF Dropped, GoneRow
    <3> QED BY <3>4 DEF Contract!Next
  <2> QED BY <2>1, <2>2
<1> QED BY <1>1, <1>2, <1>3, <1>4, <1>5, <1>6, <1>7, <1>8 DEF RowDeal

\* A teardown step or a purge that removes something.
LEMMA RemovalKept ==
  ASSUME TypeOK, TypeOK', NEW r \in Runs, RunLeft(r), ChoiceInv(r),
         StepDone(r) \/ StepFailed(r) \/ PurgeRun(r), now' = now
  PROVE  [Contract!Next]_(Contract!cvars)
<1> row \in Rows /\ row' \in Rows /\ row.status \in LiveStatuses \cup DeletionStatuses \cup {Gone}
  BY DEF TypeOK, Rows
<1>1. UNCHANGED <<Phase(row.status), row.due, row.deleteBackups>>
  <2>1. row' \in {row, FailedAt(row, "DELETING"), FailedAt(row, "BACKUPS_PENDING_DELETE")}
    BY DEF StepDone, StepFailed, PurgeRun
  <2>2. CASE row' = row
    BY <2>2
  <2>3. CASE row' # row
    <3>1. /\ row.status # Gone /\ IsDeletionStatus(row'.status)
          /\ row'.due = row.due /\ row'.deleteBackups = row.deleteBackups
      BY <2>1, <2>3, FailedChange DEF DeletionStatuses
    <3>2. IsDeletionStatus(row.status)
      BY <2>1, <2>3 DEF FailedAt
    <3>3. Phase(row.status) = "deleting" /\ Phase(row'.status) = "deleting"
      BY <3>1, <3>2, Phases DEF Rows
    <3> QED BY <3>1, <3>3
  <2> QED BY <2>2, <2>3
<1>2. CASE UNCHANGED <<Backups, retained>>
  BY <1>1, <1>2, ContractActions
<1>3. ASSUME "backups" \notin left', retained' = retained,
             GonePurged \/ Confirmed
      PROVE  [Contract!Next]_(Contract!cvars)
  <2>1. CASE GonePurged
    BY <1>2, <1>3, <2>1 DEF GonePurged, Backups
  <2>2. CASE Confirmed
    <3>1. Phase(row.status) = "deleting" /\ Backups' = FALSE
      BY <1>3, <2>2, Phases DEF Confirmed, Backups
    <3>2. Contract!DeleteBackups
      BY <1>1, <1>3, <2>2, <3>1, ContractActions DEF Confirmed
    <3> QED BY <3>2 DEF Contract!Next
  <2> QED BY <1>3, <2>1, <2>2
<1>4. CASE PurgeRun(r)
  <2>1. retained' = retained /\ left' \in {left, left \ {"backups"}} /\ pc[r] = "purge"
    BY <1>4 DEF PurgeRun
  <2> QED BY <1>2, <1>3, <2>1 DEF ChoiceInv, Backups
<1>5. CASE StepDone(r) \/ StepFailed(r)
  <2>1. pc[r] = "teardown" /\ (UNCHANGED world \/ RunStep(job[r].step))
    BY <1>5 DEF StepDone, StepFailed
  <2>2. CASE UNCHANGED world
    BY <1>2, <2>2 DEF world, Backups
  <2>3. CASE RunStep(job[r].step) /\ job[r].step = "backups"
    <3>1. "backups" \notin left' /\ retained' = retained
      BY <2>3 DEF RunStep
    <3>2. GonePurged \/ Confirmed
      BY <2>1, <2>3 DEF RunLeft, StepInv, ChoiceInv, Confirmed
    <3> QED BY <1>3, <3>1, <3>2
  <2>4. CASE RunStep(job[r].step) /\ job[r].step = "retain" /\ BackupsConfigured
    <3>1. UNCHANGED Backups /\ retained' = now + Retention
      BY <2>4 DEF RunStep, Backups
    <3>2. IsDeletionStatus(row.status) /\ ~row.deleteBackups
      BY <2>1, <2>4 DEF RunLeft, StepInv, ChoiceInv
    <3>3. Contract!KeepBackups
      BY <1>1, <3>1, <3>2, Phases, ContractActions
    <3> QED BY <3>3 DEF Contract!Next
  <2>5. CASE RunStep(job[r].step) /\ job[r].step # "backups"
             /\ ~(job[r].step = "retain" /\ BackupsConfigured)
    <3>1. UNCHANGED <<Backups, retained>>
      BY <2>5 DEF RunStep, Backups
    <3> QED BY <1>2, <3>1
  <2> QED BY <2>1, <2>2, <2>3, <2>4, <2>5
<1> QED BY <1>4, <1>5

\* Every step of the lifecycle is one of the contract's, or none.
LEMMA ContractStep ==
  ASSUME LeaseMayBeLost = FALSE, "force" \notin Ops, TypeOK', IInv, LeftInv, ChoicesInv,
         [Next]_vars
  PROVE  [Contract!Next]_(Contract!cvars)
<1> TypeOK /\ RowLeft /\ RowChoice
  BY DEF IInv, LeftInv, ChoicesInv
<1>1. ASSUME NEW r \in Runs, CallerStarts(r) \/ RunDueDeletions(r) \/ Step(r), UNCHANGED env
      PROVE  [Contract!Next]_(Contract!cvars)
  <2>1. RunLeft(r) /\ ChoiceInv(r) /\ now' = now
    BY <1>1 DEF LeftInv, ChoicesInv, env
  <2>2. CASE StepDone(r) \/ StepFailed(r) \/ PurgeRun(r)
    BY <2>1, <2>2, RemovalKept
  <2>3. CASE UNCHANGED <<left, retained>>
    BY <1>1, <2>1, <2>3, RunDeal, DealKept
  <2> QED BY <1>1, <2>2, <2>3, RunLeftChange DEF LeftChange
<1>2. CASE PurgeRetained /\ UNCHANGED env
  <2>1. /\ row' = row /\ now' = now /\ "backups" \notin left'
        /\ retained # 0 /\ retained <= now /\ retained' \in {retained, 0}
    BY <1>2 DEF PurgeRetained, env
  <2>2. Backups' = FALSE
    BY <2>1 DEF Backups
  <2>3. Contract!Expire
    BY <2>1, <2>2, ContractActions
  <2> QED BY <2>3 DEF Contract!Next
<1>3. CASE Tick
  <2>1. now' = now + 1 /\ UNCHANGED <<row, left, retained>>
    BY <1>3 DEF Tick, world
  <2>2. Contract!Tick
    BY <2>1, ContractActions DEF Backups
  <2> QED BY <2>2 DEF Contract!Next
<1>4. CASE (\E r \in Runs : Crash(r)) \/ OperatorFollows \/ UNCHANGED vars
  <2>1. UNCHANGED <<row, left, retained, now>>
    BY <1>4 DEF Crash, OperatorFollows, vars, world, env
  <2> QED BY <2>1, ContractActions DEF Backups
<1> QED BY <1>1, <1>2, <1>3, <1>4 DEF Next, LoseLease

\* The lifecycle implements the deletion contract: with the lease held and no
\* force drop, grace period, cancel, backup choice and retention behave as
\* promised, for any number of runs of delete, cancel, sweep, purge, pause and
\* resume, in any order, with teardowns that fail or die at any step.
THEOREM ContractKeptHolds ==
  ASSUME LeaseMayBeLost = FALSE, "force" \notin Ops
  PROVE  Spec => ContractKept
<1>1. Init => Contract!Init
  <2> SUFFICES ASSUME Init PROVE Contract!Init
    OBVIOUS
  <2>1. row.status = "ACTIVE" /\ row.due = 0 /\ row.deleteBackups = FALSE
    BY DEF Init
  <2> QED BY <2>1, FlagsAssumption DEF Init, Contract!Init, Gone, IsDeletionStatus,
             DeletionStatuses
<1>2. TypeOK' /\ IInv /\ LeftInv /\ ChoicesInv /\ [Next]_vars => [Contract!Next]_(Contract!cvars)
  BY ContractStep
<1> QED BY <1>1, <1>2, TypeCorrect, Invariant, LeftInvariant, ChoicesInvariant, PTL
        DEF Spec, ContractKept, Contract!Spec
================================================================================
