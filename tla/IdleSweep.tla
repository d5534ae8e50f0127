--------------------------------- MODULE IdleSweep ---------------------------------
(***************************************************************************)
(* The idle-pause sweep, as one project of an auto-pausing tier sees it:   *)
(* the marks its use leaves, the leader's sweep that reads them once and   *)
(* comes to the project lastUse, the warning, the pause, and the retry of a  *)
(* pause or resume that stopped part way.                                  *)
(*                                                                         *)
(* The instants on the row and in project_activity are ages in whole units *)
(* of time, each capped at the age past which the code tells no difference, *)
(* which an instant that was never written has too.  A warning is kept as  *)
(* whether it is as recent as the project's last use.                      *)
(***************************************************************************)
EXTENDS Integers

CONSTANTS
  Day,            \* units of time in a day
  PauseAfterDays, \* AutoPauseAfterDays of the tier
  ResumeGrace,    \* how long a resumed project is left alone
  StuckAfter,     \* how long an unwritten row is taken for a running operation
  BackoffBase, BackoffCeiling,
  Budget,         \* idlePauseTickBudget
  Window,         \* the gap between two activity writes
  MaxWork,        \* bound on the database's work counter
  MaxFaults,      \* bound on failures in one behaviour
  Unread          \* no reading of the counter is stored

Horizon == PauseAfterDays * Day

ASSUME SweepAssumption ==
  /\ Day \in Nat \ {0} /\ PauseAfterDays \in Nat /\ PauseAfterDays >= 2
  /\ ResumeGrace \in 1..Horizon /\ StuckAfter \in Nat \ {0}
  /\ BackoffBase \in Nat \ {0} /\ BackoffCeiling \in Nat /\ BackoffBase <= BackoffCeiling
  /\ Budget \in 0..Horizon /\ Budget <= StuckAfter /\ Budget <= BackoffCeiling
  /\ Window \in Nat \ {0}
  /\ MaxWork \in Nat /\ MaxFaults \in Nat /\ Unread \notin Int

VARIABLES
  status,     \* of the project's row
  workload,   \* "up" or "down"
  op,         \* the operation that holds the project's lease: its kind, and the
              \* retry bookkeeping of the row as it read it
  resumed,    \* since last_active_at
  updated,    \* since updated_at
  spacing,    \* the wait that pause_attempts stands for
  tried,      \* since pause_last_attempt_at
  seen,       \* since the project's last recorded use, or its creation
  warning,    \* "given" when idle_warned_at is no older than that or than the
              \* resume, else "none"
  claimed,    \* since the recorder's last write for the project
  engine,     \* "platform": its use is seen by the API; "wired": its database is
              \* asked; "blind": it should be, but no reader is wired
  work,       \* the database's counter of client work
  reading,    \* the one stored at an earlier sweep
  phase,      \* the sweep: "idle", "listed", "judged" or "busy" in an operation
  plan,       \* what its reading of the row calls for
  elapsed,    \* since it read the clock
  lastUse,    \* "after" when the last use, or resume, is later than that, else "before"
  faults,     \* failures so far
  used,       \* since the clients' last use; no code reads it
  trail,      \* "gaps" when a use may have left no mark, else "full"; no code reads it
  told,       \* warnings sent in this idle stretch; no code reads it
  looked      \* "yes" once a sweep could have warned in it, else "no"; no code reads it

row    == <<status, resumed, updated, spacing, tried>>
marks  == <<seen, warning, trail, told, looked>>
data   == <<work, reading, engine>>
walk   == <<phase, plan, elapsed, lastUse>>
vars   == <<row, workload, op, marks, claimed, data, walk, faults, used>>

Smaller(a, b) == IF a < b THEN a ELSE b
Older(age, cap) == Smaller(age + 1, cap)

NoOp == [kind |-> "none", spacing |-> BackoffBase, tried |-> BackoffCeiling]
Idle == op.kind = "none"

Fault == faults < MaxFaults /\ faults' = faults + 1
Perhaps(failed) == IF failed THEN Fault ELSE UNCHANGED faults

\* The sweep has done what it decided, and is idle or in an operation.
Leave(p) == phase' = p /\ plan' = "skip" /\ elapsed' = 0 /\ lastUse' = "before"

\* The project is used, or resumed, while the sweep is on its way.
Overtake == 
  /\ lastUse' = IF phase \in {"listed", "judged"} THEN "after" ELSE "before"
  /\ UNCHANGED <<phase, plan, elapsed>>

--------------------------------------------------------------------------------
(* Use of the project.                                                     *)

\* TouchProjectActivity: a use that is so old is recorded, and takes the place of
\* what was recorded, the warning too.
Touch(age) ==
  /\ seen' = age
  /\ warning' = "none"
  /\ told' = 0 /\ looked' = "no"

\* Record: a use of the API, written at most once per window.  A write that
\* fails gives the window back.
Record(failed) ==
  /\ used' = 0
  /\ IF claimed < Window
     THEN ~failed /\ UNCHANGED <<marks, claimed, walk, faults>>
     ELSE /\ Perhaps(failed)
          /\ IF failed
             THEN /\ claimed' = Window /\ trail' = "gaps"
                  /\ UNCHANGED <<seen, warning, told, looked, walk>>
             ELSE /\ claimed' = 0 /\ Touch(0) /\ Overtake
                  /\ trail' = IF engine = "platform" THEN "full" ELSE trail
  /\ UNCHANGED <<row, workload, op, data>>

\* Clients of the database itself, where they reach it directly.
Work ==
  /\ engine # "platform" /\ workload = "up" /\ work < MaxWork
  /\ work' = work + 1
  /\ used' = 0
  /\ UNCHANGED <<row, workload, op, marks, claimed, reading, engine, walk, faults>>

\* The counter starts again with the server, and may come back to the value
\* that was read before.
RestartDatabase ==
  /\ engine # "platform" /\ workload = "up"
  /\ work' = 0
  /\ trail' = "gaps"
  /\ UNCHANGED <<row, workload, op, seen, warning, told, looked, claimed, reading, engine,
                 walk, faults, used>>

--------------------------------------------------------------------------------
(* Pauses and resumes, by the customer or by the sweep.                    *)

Admit(kind, next) ==
  /\ op' = [kind |-> kind, spacing |-> spacing, tried |-> tried]
  /\ status' = next
  /\ updated' = 0
  /\ UNCHANGED <<resumed, spacing, tried>>

Pausable  == status \in {"ACTIVE", "PAUSING"}
Resumable == status \in {"PAUSED", "RESUMING"} \/ (status = "PAUSING" /\ workload = "down")

StartPause ==
  /\ Idle /\ Pausable
  /\ Admit("pause", "PAUSING")
  /\ UNCHANGED <<workload, marks, claimed, data, walk, faults, used>>

StartResume ==
  /\ Idle /\ Resumable
  /\ Admit("resume", "RESUMING")
  /\ UNCHANGED <<workload, marks, claimed, data, walk, faults, used>>

\* A sweep that ran the operation goes on.
Return == IF phase = "busy" THEN Leave("idle") ELSE UNCHANGED walk

\* The operation writes its last state, with the retry bookkeeping given, and
\* the lease goes.
Finish(next, s, t) ==
  /\ status' = next
  /\ spacing' = s /\ tried' = t
  /\ updated' = 0
  /\ op' = NoOp
  /\ UNCHANGED <<claimed, engine, reading, used>>

\* markPaused, which clears the backoff.
PauseDone ==
  /\ op.kind = "pause"
  /\ workload' = "down"
  /\ Finish("PAUSED", BackoffBase, BackoffCeiling)
  /\ Return
  /\ UNCHANGED <<resumed, marks, work, faults>>

\* failPause: a backup that did not complete brings the project back to ACTIVE,
\* any other step leaves it PAUSING.
PauseFails(step) ==
  /\ op.kind = "pause"
  /\ Fault
  /\ workload' \in (IF step = "backup" THEN {workload} ELSE {workload, "down"})
  /\ Finish(IF step = "backup" THEN "ACTIVE" ELSE "PAUSING", op.spacing, op.tried)
  /\ Return
  /\ UNCHANGED <<resumed, marks, work>>

\* The server is up again, its counter at zero.
ResumeDone ==
  /\ op.kind = "resume"
  /\ workload' = "up"
  /\ work' = 0
  /\ Finish("ACTIVE", BackoffBase, BackoffCeiling)
  /\ resumed' = 0
  /\ warning' = "none"
  /\ IF phase = "busy" THEN Leave("idle") ELSE Overtake
  /\ trail' = IF engine = "platform" THEN trail ELSE "gaps"
  /\ told' = 0 /\ looked' = "no"
  /\ UNCHANGED <<seen, faults>>

\* failResume.
ResumeFails ==
  /\ op.kind = "resume"
  /\ Fault
  /\ workload' \in {workload, "up"}
  /\ work' = IF workload' = workload THEN work ELSE 0
  /\ trail' = IF workload' # workload /\ engine # "platform" THEN "gaps" ELSE trail
  /\ Finish("RESUMING", op.spacing, op.tried)
  /\ Return
  /\ UNCHANGED <<resumed, seen, warning, told, looked>>

\* The process that runs the operation dies, and its lease runs out.
OperationDies ==
  /\ ~Idle
  /\ Fault
  /\ op' = NoOp
  /\ Return
  /\ UNCHANGED <<row, workload, marks, claimed, data, used>>

\* A teardown takes the project.
Depart ==
  /\ Idle /\ status # "DELETING"
  /\ status' = "DELETING"
  /\ updated' = 0
  /\ UNCHANGED <<resumed, spacing, tried, workload, op, marks, claimed, data, walk, faults, used>>

--------------------------------------------------------------------------------
(* The sweep: what it reads and decides.                                   *)

\* effectiveLastSeen.
LastSeen == Smaller(seen, resumed)

\* pauseRetryDue.
PauseRetryDue == tried >= spacing

Stuck == updated >= StuckAfter
ResumedRecently == resumed < ResumeGrace

\* The pause, the warning, or neither; "warned" when one is due and was given.
IdlePlan(idle, w) ==
  IF idle >= Horizon THEN "pause"
  ELSE IF idle < Horizon - Day THEN "keep"
  ELSE IF w = "given" THEN "warned" ELSE "warn"

\* Mutant: only the pauses are tried again.
PlanMutant ==
  CASE status = "PAUSING" /\ Stuck /\ PauseRetryDue  -> "retryPause"
    [] status = "ACTIVE" /\ ~ResumedRecently         -> IdlePlan(LastSeen, warning)
    [] OTHER                                         -> "skip"

\* sweepOne, as far as the rows that the sweep has read decide it.
Plan ==
  CASE status = "PAUSING" /\ Stuck /\ PauseRetryDue  -> "retryPause"
    [] status = "RESUMING" /\ Stuck /\ PauseRetryDue -> "retryResume"
    [] status = "ACTIVE" /\ ~ResumedRecently         -> IdlePlan(LastSeen, warning)
    [] OTHER                                         -> "skip"

\* RunOnce reads the rows, the activity and the clock; the projects before this
\* one take time.
List ==
  /\ phase = "idle"
  /\ plan' = Plan /\ elapsed' = 0 /\ lastUse' = "before"
  /\ phase' = "listed"
  /\ UNCHANGED <<row, workload, op, marks, claimed, data, faults, used>>

\* The sweep does not come to the project or leaves it: a tier does not resolve,
\* the counter cannot be read, a use, a warning or an attempt cannot be written,
\* the projects before it have spent the budget of the tick, the process dies.
GiveUp ==
  /\ phase \in {"listed", "judged"}
  /\ Fault
  /\ Leave("idle")
  /\ UNCHANGED <<row, workload, op, marks, claimed, data, used>>

ToJudge == plan \in {"pause", "warn", "warned", "keep"}

SkipProject ==
  /\ phase = "listed"
  /\ plan = "skip" \/ (ToJudge /\ engine = "blind")
  /\ Leave("idle")
  /\ UNCHANGED <<row, workload, op, marks, claimed, data, faults, used>>

\* Mutant: the reading is stored first, and stays when its use is not recorded.
ReadWorkMutant(saved) ==
  /\ phase = "listed" /\ ToJudge /\ engine = "wired" /\ reading # work
  /\ reading' = work
  /\ IF saved
     THEN /\ Touch(elapsed) /\ trail' = "full"
          /\ plan' = IdlePlan(0, "none") /\ phase' = "judged"
          /\ UNCHANGED <<elapsed, lastUse, faults>>
     ELSE Fault /\ Leave("idle") /\ UNCHANGED marks
  /\ UNCHANGED <<row, workload, op, claimed, work, engine, used>>

\* Mutant: the reading is not stored.
ReadWorkUnsaved(saved) ==
  /\ phase = "listed" /\ ToJudge /\ engine = "wired" /\ reading # work
  /\ Touch(elapsed) /\ lastUse' = "before"
  /\ plan' = IdlePlan(0, "none")
  /\ phase' = "judged"
  /\ UNCHANGED <<row, workload, op, trail, claimed, data, elapsed, faults, used>>

\* withEngineActivity: a counter that has moved is a use, recorded as of the
\* sweep's clock before the reading is stored.
ReadWork(saved) ==
  /\ phase = "listed" /\ ToJudge /\ engine = "wired" /\ reading # work
  /\ Touch(elapsed) /\ lastUse' = "before"
  /\ trail' = IF saved THEN "full" ELSE trail
  /\ Perhaps(~saved)
  /\ reading' = IF saved THEN work ELSE reading
  /\ plan' = IdlePlan(0, "none")
  /\ phase' = "judged"
  /\ UNCHANGED <<row, workload, op, claimed, work, engine, elapsed, used>>

\* No other use than what the rows tell.
NoWork ==
  /\ phase = "listed" /\ ToJudge
  /\ engine = "platform" \/ (engine = "wired" /\ reading = work)
  /\ phase' = "judged"
  /\ UNCHANGED <<row, workload, op, marks, claimed, data, plan, elapsed, lastUse, faults, used>>

--------------------------------------------------------------------------------
(* The sweep: what it does.                                                *)

\* A sweep that finds nothing to do could have warned, unless the project has
\* been used since.
Keep ==
  /\ phase = "judged" /\ plan \in {"keep", "warned"}
  /\ looked' = IF plan = "warned" /\ lastUse = "before" THEN "yes" ELSE looked
  /\ Leave("idle")
  /\ UNCHANGED <<row, workload, op, seen, warning, trail, told, claimed, data, faults, used>>

\* Mutant: the warning is dated when it is written.
MarkIdleWarnedMutant == warning' = "given"

\* MarkIdleWarned: the warning is dated by the sweep's clock.
MarkIdleWarned == warning' = IF lastUse = "before" THEN "given" ELSE "none"

\* warn; the delivery may fail, and is not tried again.
Warn ==
  /\ phase = "judged" /\ plan = "warn"
  /\ MarkIdleWarned
  /\ looked' = IF lastUse = "before" THEN "yes" ELSE looked
  /\ told' = IF lastUse = "before" THEN told + 1 ELSE told
  /\ Leave("idle")
  /\ UNCHANGED <<row, workload, op, seen, trail, claimed, data, faults, used>>

\* The sweep calls Pause or Resume, which reads the row again under the lease:
\* refused while another operation holds it, done with when the row calls for
\* nothing.
Call(kind) ==
  IF kind = "pause" /\ Idle /\ Pausable
  THEN Admit("pause", "PAUSING") /\ Leave("busy")
  ELSE IF kind = "resume" /\ Idle /\ Resumable
  THEN Admit("resume", "RESUMING") /\ Leave("busy")
  ELSE Leave("idle") /\ UNCHANGED <<row, op>>

PauseIdle ==
  /\ phase = "judged" /\ plan = "pause"
  /\ Call("pause")
  /\ UNCHANGED <<workload, marks, claimed, data, faults, used>>

\* Mutant: the wait doubles without a ceiling.
RecordPauseAttemptMutant ==
  /\ spacing' = 2 * spacing /\ tried' = elapsed /\ updated' = elapsed
  /\ phase' = "judged" /\ UNCHANGED <<plan, elapsed, lastUse>>

\* RecordPauseAttempt, dated by the sweep's clock.  The wait doubles up to its
\* ceiling.
RecordPauseAttempt ==
  /\ spacing' = Smaller(2 * spacing, BackoffCeiling)
  /\ tried' = elapsed /\ updated' = elapsed
  /\ phase' = "judged" /\ UNCHANGED <<plan, elapsed, lastUse>>

\* retryStuckPause and retryStuckResume count the attempt, on any row that no
\* teardown has taken.
CountAttempt ==
  /\ phase = "listed" /\ plan \in {"retryPause", "retryResume"}
  /\ IF status = "DELETING"
     THEN Leave("idle") /\ UNCHANGED row
     ELSE RecordPauseAttempt /\ UNCHANGED <<status, resumed>>
  /\ UNCHANGED <<workload, op, marks, claimed, data, faults, used>>

RetryStuck ==
  /\ phase = "judged" /\ plan \in {"retryPause", "retryResume"}
  /\ Call(IF plan = "retryPause" THEN "pause" ELSE "resume")
  /\ UNCHANGED <<workload, marks, claimed, data, faults, used>>

Tick ==
  /\ phase \in {"listed", "judged"} => elapsed < Budget
  /\ resumed' = Older(resumed, Horizon) /\ updated' = Older(updated, StuckAfter)
  /\ tried' = Older(tried, BackoffCeiling) /\ seen' = Older(seen, Horizon)
  /\ claimed' = Older(claimed, Window) /\ used' = Older(used, Horizon)
  /\ op' = [op EXCEPT !.tried = Older(@, BackoffCeiling)]
  /\ elapsed' = IF phase \in {"listed", "judged"} THEN elapsed + 1 ELSE 0
  /\ UNCHANGED <<status, spacing, workload, warning, lastUse, trail, told, looked, data,
                 phase, plan, faults>>

--------------------------------------------------------------------------------
\* A new project, running.
Init ==
  /\ status = "ACTIVE" /\ workload = "up" /\ op = NoOp
  /\ resumed = Horizon /\ updated = 0 /\ spacing = BackoffBase /\ tried = BackoffCeiling
  /\ seen = 0 /\ warning = "none" /\ claimed = Window
  /\ engine \in {"platform", "wired", "blind"} /\ work = 0 /\ reading = Unread
  /\ phase = "idle" /\ plan = "skip" /\ elapsed = 0 /\ lastUse = "before"
  /\ faults = 0
  /\ used = 0 /\ trail = "full" /\ told = 0 /\ looked = "no"

Uses == Work \/ RestartDatabase \/ \E failed \in BOOLEAN : Record(failed)

Ends ==
  \/ PauseDone \/ ResumeDone \/ ResumeFails \/ OperationDies
  \/ \E step \in {"backup", "stop"} : PauseFails(step)

Sweeps ==
  \/ List \/ GiveUp \/ SkipProject \/ NoWork \/ Keep \/ Warn \/ PauseIdle
  \/ CountAttempt \/ RetryStuck
  \/ \E saved \in BOOLEAN : ReadWork(saved)

Next == Uses \/ StartPause \/ StartResume \/ Depart \/ Ends \/ Sweeps \/ Tick

Spec == Init /\ [][Next]_vars

\* The sweep's ticker fires for ever and its ticks go on; the waits of a pause and
\* of a resume are bounded; time passes.
FairSpec == Spec /\ WF_vars(Sweeps) /\ WF_vars(Ends) /\ WF_vars(Tick)

--------------------------------------------------------------------------------
(* What is checked.                                                        *)

\* Every variable holds a value of its kind; the wait between two retries stays
\* between its base and its ceiling.
TypeOK ==
  /\ status \in {"ACTIVE", "PAUSING", "PAUSED", "RESUMING", "DELETING"}
  /\ workload \in {"up", "down"}
  /\ op \in [kind : {"none", "pause", "resume"}, spacing : BackoffBase..BackoffCeiling,
             tried : 0..BackoffCeiling]
  /\ resumed \in 0..Horizon /\ seen \in 0..Horizon /\ used \in 0..Horizon
  /\ updated \in 0..StuckAfter /\ tried \in 0..BackoffCeiling /\ claimed \in 0..Window
  /\ spacing \in BackoffBase..BackoffCeiling
  /\ warning \in {"none", "given"} /\ lastUse \in {"before", "after"}
  /\ trail \in {"full", "gaps"} /\ looked \in {"no", "yes"}
  /\ engine \in {"platform", "wired", "blind"}
  /\ work \in 0..MaxWork /\ reading \in 0..MaxWork \cup {Unread}
  /\ phase \in {"idle", "listed", "judged", "busy"}
  /\ plan \in {"skip", "pause", "warn", "warned", "keep", "retryPause", "retryResume"}
  /\ elapsed \in 0..Budget /\ faults \in 0..MaxFaults /\ told \in Nat

\* In one idle stretch the owner is warned once: never twice, and never not at
\* all when a sweep looked at the project on its last day, whatever was written
\* to its activity while an earlier sweep was on its way.
WarnedOnce == told <= 1 /\ (looked = "yes" => told = 1)

\* The sweep takes the project's idleness for the reason to pause it.
IdlePauseBegins == phase = "judged" /\ plan = "pause" /\ phase' = "busy"

\* A project is paused for idleness only when no client used it for the whole
\* of the tier's days, give or take the recorder's window and the length of a
\* tick: unless the use left no mark, or came after the sweep had read the clock.
PausedWhenUnused ==
  [][IdlePauseBegins => used + Window + Budget > Horizon \/ trail = "gaps" \/ used <= elapsed]_vars

\* A pause or a resume that stopped part way is brought to an end, through
\* failures, crashes and operations of the customer that come between.
StuckEnds == status \in {"PAUSING", "RESUMING"} ~> status \notin {"PAUSING", "RESUMING"}

\* A project that no client uses does not run for ever, unless nothing can tell
\* its use: no record of the sweep's own is taken for one again and again.
IdleEnds ==
  (status = "ACTIVE" /\ used = Horizon /\ engine # "blind")
    ~> (status # "ACTIVE" \/ used < Horizon)

\* A resumed project is left alone by the sweep for the grace period.
ResumeStands ==
  [][phase = "judged" /\ phase' = "busy" /\ status' = "PAUSING" => resumed >= ResumeGrace]_vars
================================================================================
