----------------------------- MODULE InstanceStore -----------------------------
(***************************************************************************)
(* The project row of the control plane and the rules its store enforces.  *)
(*                                                                         *)
(* Every lifecycle operation of the control plane works on one row of      *)
(* database_instances.  A writer holds a copy of the whole row and writes  *)
(* the whole row back, so the store's only defences are predicates in the  *)
(* UPDATE itself: a row a teardown owns takes no general write, and a      *)
(* pinned write lands only on the status its writer expects.  This module  *)
(* has no variables: it defines the rows, the status predicates and those  *)
(* rules, for the modules that have a row as their state.                  *)
(*                                                                         *)
(* Only the columns the lifecycle decides on are kept.  A project with a   *)
(* database is modelled; the statuses of its creation and restore are not. *)
(***************************************************************************)
EXTENDS Naturals

LiveStatuses == {"ACTIVE", "PAUSING", "PAUSED", "RESUMING", "PENDING_DELETION"}

DeletionStatuses == {"DELETING", "BACKUPS_PENDING_DELETE"}

\* The status that stands for "there is no row".
Gone == "GONE"

Rows == [status        : LiveStatuses \cup DeletionStatuses \cup {Gone},
         protected     : BOOLEAN,   \* deletion_protection
         due           : Nat,       \* deletion_due_at, 0 when NULL
         deleteBackups : BOOLEAN,   \* deletion_delete_backups
         episode       : BOOLEAN]   \* pause_backup_id is set

GoneRow == [status |-> Gone, protected |-> FALSE, due |-> 0,
            deleteBackups |-> FALSE, episode |-> FALSE]

IsDeletionStatus(status) == status \in DeletionStatuses

\* A project in one of these has data worth a grace period.
HoldsCustomerData(status) == status \in {"ACTIVE", "PAUSED", "PAUSING", "RESUMING"}

\* The status a stopped project holds while its deletion is pending or once
\* it is cancelled.
SettledStatus == "PAUSED"

--------------------------------------------------------------------------------
(* The general writes: Update and UpdateIfStatus.                          *)

\* Mutant: a general write that no longer refuses a row under teardown.
UpdatableMutant(row) == row.status # Gone

\* Update matches the row: it exists and no teardown owns it.
Updatable(row) == row.status \in LiveStatuses

\* Mutant: the expected status is not part of the predicate.
UpdatableFromMutant(row, expected) == Updatable(row)

\* UpdateIfStatus matches the row: Update would, and the status is expected.
UpdatableFrom(row, expected) == Updatable(row) /\ row.status = expected

--------------------------------------------------------------------------------
(* The teardown's own writes.                                              *)

\* What a DELETE says about backups: nothing, delete them, keep them.
Choices == {"unset", "delete", "keep"}

\* The claim refuses to take back a purge that was already confirmed.
PurgeAlreadyConfirmed(row, choice) ==
  choice = "keep" /\ row.deleteBackups /\ IsDeletionStatus(row.status)

\* Mutant: a retried DELETE that says nothing forgets the recorded choice.
EffectiveBackupIntentMutant(row, choice) == choice = "delete"

\* The backup decision in force from what the row records and what is asked.
EffectiveBackupIntent(row, choice) ==
  CASE choice = "unset"  -> row.deleteBackups
    [] choice = "delete" -> TRUE
    [] choice = "keep"   -> FALSE

\* Mutant: the claim records the name of a step where a status belongs.
ClaimedMutant(row, choice) ==
  [row EXCEPT !.status = "DELETE_BACKUPS",
              !.deleteBackups = EffectiveBackupIntent(row, choice)]

\* BeginDeletion: the row as the claim leaves it.
Claimed(row, choice) ==
  [row EXCEPT !.status = "DELETING",
              !.deleteBackups = EffectiveBackupIntent(row, choice)]

\* RecordDeletionFailure touches only a row a teardown owns.
FailedAt(row, status) ==
  IF IsDeletionStatus(row.status) THEN [row EXCEPT !.status = status] ELSE row

--------------------------------------------------------------------------------
\* Mutant: a teardown that stopped part way is not the sweep's to retry.
DeletionDueMutant(row, at) ==
  row.due # 0 /\ row.due <= at /\ row.status = "PENDING_DELETION"

\* The sweep owes the row its hard delete at time `at`.
DeletionDue(row, at) ==
  /\ row.due # 0
  /\ row.due <= at
  /\ row.status = "PENDING_DELETION" \/ IsDeletionStatus(row.status)
================================================================================
