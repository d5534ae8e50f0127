---------------------------- MODULE DeletionContract ----------------------------
(***************************************************************************)
(* What deleting a project promises its owner.                             *)
(*                                                                         *)
(* A project is deleted in two moves: it is scheduled, and a grace period  *)
(* later it is torn down.  Until the teardown begins the owner may change  *)
(* the backup choice or cancel; from then on nothing is taken back, and    *)
(* the project's record goes only when the choice made about its backups   *)
(* has been carried out: they are deleted, or they are dated and kept      *)
(* until that date.                                                        *)
(*                                                                         *)
(* ProjectLifecycle is shown to implement this specification.              *)
(***************************************************************************)
EXTENDS Naturals

CONSTANTS Grace,     \* length of the grace period
          Retention  \* how long kept backups are kept

VARIABLES
  phase,      \* "live", "grace", "deleting" or "gone"
  due,        \* when the grace period ends, 0 when none runs
  purge,      \* the owner's choice: the backups go with the project
  backups,    \* there are backups
  keptUntil,  \* the date of kept backups, 0 when they are not dated
  clock

cvars == <<phase, due, purge, backups, keptUntil, clock>>

Init ==
  /\ phase = "live" /\ due = 0 /\ purge = FALSE
  /\ backups \in BOOLEAN /\ keptUntil = 0 /\ clock = 1

Schedule ==
  /\ phase = "live" /\ phase' = "grace"
  /\ due' = clock + Grace /\ purge' \in BOOLEAN
  /\ UNCHANGED <<backups, keptUntil, clock>>

\* A repeated request changes the choice and not the date.
ChangeChoice ==
  /\ phase = "grace" /\ purge' = ~purge
  /\ UNCHANGED <<phase, due, backups, keptUntil, clock>>

Cancel ==
  /\ phase = "grace" /\ phase' = "live"
  /\ due' = 0 /\ purge' = FALSE
  /\ UNCHANGED <<backups, keptUntil, clock>>

Begin ==
  /\ phase = "grace" /\ due <= clock /\ phase' = "deleting"
  /\ UNCHANGED <<due, purge, backups, keptUntil, clock>>

\* During the teardown the choice can only move towards deleting.
Confirm ==
  /\ phase = "deleting" /\ ~purge /\ purge' = TRUE
  /\ UNCHANGED <<phase, due, backups, keptUntil, clock>>

DeleteBackups ==
  /\ phase = "deleting" /\ purge /\ backups' = FALSE
  /\ UNCHANGED <<phase, due, purge, keptUntil, clock>>

\* A retried teardown dates them again.
KeepBackups ==
  /\ phase = "deleting" /\ ~purge /\ keptUntil' = clock + Retention
  /\ UNCHANGED <<phase, due, purge, backups, clock>>

Drop ==
  /\ phase = "deleting" /\ phase' = "gone"
  /\ backups => ~purge /\ keptUntil # 0
  /\ due' = 0 /\ purge' = FALSE
  /\ UNCHANGED <<backups, keptUntil, clock>>

\* A purge that does not record its end is repeated.
Expire ==
  /\ keptUntil # 0 /\ keptUntil <= clock
  /\ backups' = FALSE /\ keptUntil' \in {keptUntil, 0}
  /\ UNCHANGED <<phase, due, purge, clock>>

Tick ==
  /\ clock' = clock + 1
  /\ UNCHANGED <<phase, due, purge, backups, keptUntil>>

Next == \/ Schedule \/ ChangeChoice \/ Cancel \/ Begin \/ Confirm
        \/ DeleteBackups \/ KeepBackups \/ Drop \/ Expire \/ Tick

Spec == Init /\ [][Next]_cvars
================================================================================
