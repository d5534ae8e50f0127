------------------------------ MODULE IdleSweepProofs ------------------------------
(***************************************************************************)
(* The idle-pause sweep, for any lengths of the day, the grace, the window *)
(* and the waits: one warning per idle stretch, and no pause of a project  *)
(* whose use was recorded.                                                 *)
(***************************************************************************)
EXTENDS IdleSweep, TLAPS

\* The warning on record is the one that was sent in this stretch.  A sweep that
\* a use has overtaken finds none; any other finds what it read.
Told ==
  /\ told = IF warning = "given" THEN 1 ELSE 0
  /\ looked = "yes" => warning = "given"
  /\ lastUse = "after" => warning = "none"
  /\ lastUse = "before" /\ plan = "warn" => warning = "none"
  /\ lastUse = "before" /\ plan = "warned" => warning = "given"
  /\ phase \in {"idle", "busy"} => plan = "skip"

\* What a recorded use amounts to: it is no older than the clients' last use by
\* more than the recorder's window and the length of a tick.
Marked ==
  /\ claimed < Window => seen <= claimed + Budget
  /\ trail = "full" /\ (engine = "platform" \/ reading = work) => seen < used + Window + Budget
  /\ trail = "full" /\ engine # "platform" /\ reading # Unread => reading <= work

\* What a sweep on its way to pause the project has seen.
Aimed ==
  /\ phase \in {"listed", "judged"} /\ plan = "pause" => seen = Horizon \/ used <= elapsed
  /\ phase = "judged" /\ plan = "pause"
       => used + Window + Budget > Horizon \/ trail = "gaps" \/ used <= elapsed

SInv == TypeOK /\ Told /\ Marked /\ Aimed

--------------------------------------------------------------------------------
\* The horizon is a positive number of units, and a warning does not come on the
\* first day.
LEMMA HorizonKind ==
  Day \in Nat /\ Day > 0 /\ Horizon \in Nat /\ Horizon >= Day /\ Horizon - Day > 0
  <1>1. Day \in Nat /\ Day > 0 /\ PauseAfterDays \in Nat /\ PauseAfterDays >= 2
    BY SweepAssumption
  <1>2. PauseAfterDays * Day \in Nat /\ PauseAfterDays * Day >= 2 * Day
    BY <1>1
  <1> QED BY <1>1, <1>2 DEF Horizon

\* The assumptions on the constants, with the horizon as a number.
LEMMA Bounds ==
  /\ Horizon \in Nat /\ ResumeGrace \in Nat /\ StuckAfter \in Nat /\ StuckAfter > 0
  /\ BackoffBase \in Nat /\ BackoffBase > 0 /\ BackoffCeiling \in Nat
  /\ BackoffBase <= BackoffCeiling
  /\ Budget \in Nat /\ Budget <= Horizon /\ Budget <= StuckAfter /\ Budget <= BackoffCeiling
  /\ Window \in Nat /\ Window > 0 /\ MaxWork \in Nat /\ MaxFaults \in Nat
  /\ Unread \notin Int
  BY HorizonKind, SweepAssumption

LEMMA InitS == Init => SInv
  <1> USE Bounds, HorizonKind
  <1> SUFFICES ASSUME Init PROVE SInv OBVIOUS
  <1>1. TypeOK BY DEF Init, TypeOK, NoOp
  <1>2. Told BY DEF Init, Told
  <1>3. Marked /\ Aimed BY DEF Init, Marked, Aimed
  <1> QED BY <1>1, <1>2, <1>3 DEF SInv

\* The clients' use of the project.
LEMMA UsesS ==
  ASSUME SInv, Uses
  PROVE  SInv'
  <1> USE Bounds
  <1> USE DEF SInv, row, marks, data, walk
  <1>1. CASE Work
    <2>1. TypeOK' BY <1>1 DEF Work, TypeOK
    <2>2. Told' BY <1>1 DEF Work, Told
    <2>3. Marked'
      <3>1. trail' = "full" /\ reading' # Unread => reading' < work'
        BY <1>1 DEF Work, Marked, TypeOK
      <3>2. engine' # "platform" /\ work' \in Int /\ reading' \in Int \cup {Unread}
        BY <1>1 DEF Work, TypeOK
      <3>3. claimed' < Window => seen' <= claimed' + Budget BY <1>1 DEF Work, Marked
      <3> QED BY <3>1, <3>2, <3>3 DEF Marked
    <2>4. Aimed' BY <1>1 DEF Work, Aimed, TypeOK
    <2> QED BY <2>1, <2>2, <2>3, <2>4
  <1>2. CASE RestartDatabase
    <2>1. TypeOK' BY <1>2 DEF RestartDatabase, TypeOK
    <2> QED BY <1>2, <2>1 DEF RestartDatabase, Told, Marked, Aimed
  <1>3. ASSUME NEW failed \in BOOLEAN, Record(failed) PROVE SInv'
    <2>1. CASE claimed < Window
      <3>1. used' = 0 /\ UNCHANGED <<row, workload, op, data, marks, claimed, walk, faults>>
        BY <1>3, <2>1 DEF Record
      <3>2. TypeOK' BY <3>1 DEF TypeOK
      <3>3. Told' BY <3>1 DEF Told
      <3>4. Marked' BY <2>1, <3>1 DEF Marked, TypeOK
      <3>5. Aimed' BY <3>1 DEF Aimed, TypeOK
      <3> QED BY <3>2, <3>3, <3>4, <3>5
    <2>2. CASE ~(claimed < Window) /\ failed
      <3>1. /\ used' = 0 /\ claimed' = Window /\ trail' = "gaps" /\ Fault
            /\ UNCHANGED <<row, workload, op, data, seen, warning, told, looked, walk>>
        BY <1>3, <2>2 DEF Record, Perhaps
      <3>2. TypeOK' BY <3>1 DEF TypeOK, Fault
      <3>3. Told' BY <3>1 DEF Told
      <3>4. Marked' BY <3>1 DEF Marked
      <3>5. Aimed' BY <3>1 DEF Aimed, TypeOK
      <3> QED BY <3>2, <3>3, <3>4, <3>5
    <2>3. CASE ~(claimed < Window) /\ ~failed
      <3>1. /\ used' = 0 /\ claimed' = 0
            /\ trail' = IF engine = "platform" THEN "full" ELSE trail
            /\ seen' = 0 /\ warning' = "none" /\ told' = 0 /\ looked' = "no"
            /\ lastUse' = IF phase \in {"listed", "judged"} THEN "after" ELSE "before"
            /\ UNCHANGED <<row, workload, op, data, phase, plan, elapsed, faults>>
        BY <1>3, <2>3 DEF Record, Perhaps, Touch, Overtake
      <3>2. TypeOK' BY <3>1 DEF TypeOK
      <3>3. Told' BY <3>1 DEF Told, TypeOK
      <3>4. Marked' BY <3>1 DEF Marked, TypeOK
      <3>5. Aimed' BY <3>1 DEF Aimed, TypeOK
      <3> QED BY <3>2, <3>3, <3>4, <3>5
    <2> QED BY <2>1, <2>2, <2>3
  <1> QED BY <1>1, <1>2, <1>3 DEF Uses

\* The customer's operations and the teardown leave the marks and the sweep alone.
LEMMA StartsS ==
  ASSUME SInv, StartPause \/ StartResume \/ Depart
  PROVE  SInv'
  <1> USE Bounds
  <1> USE DEF SInv, row, marks, data, walk
  <1>1. UNCHANGED <<marks, claimed, data, walk, faults, used>>
    BY DEF StartPause, StartResume, Depart
  <1>2. TypeOK'
    <2>1. CASE StartPause BY <2>1 DEF StartPause, Admit, TypeOK
    <2>2. CASE StartResume BY <2>2 DEF StartResume, Admit, TypeOK
    <2>3. CASE Depart BY <2>3 DEF Depart, TypeOK
    <2> QED BY <2>1, <2>2, <2>3
  <1>3. Told' BY <1>1 DEF Told
  <1>4. Marked' BY <1>1 DEF Marked
  <1>5. Aimed' BY <1>1 DEF Aimed
  <1> QED BY <1>2, <1>3, <1>4, <1>5

\* A sweep that waited for its operation has no plan.
LEMMA ReturnS ==
  ASSUME SInv, Return, UNCHANGED <<seen, warning, told, looked, claimed, used, engine, reading>>,
         UNCHANGED <<trail, work>> \/ trail' = "gaps" \/ (engine = "platform" /\ UNCHANGED trail)
  PROVE  Told' /\ Marked' /\ Aimed'
  <1> USE Bounds
  <1> USE DEF SInv, walk, Return, Leave
  <1>1. Told' BY DEF Told, TypeOK
  <1>2. Marked' BY DEF Marked
  <1>3. Aimed' BY DEF Aimed
  <1> QED BY <1>1, <1>2, <1>3

\* The ends of an operation.
LEMMA EndsS ==
  ASSUME SInv, Ends
  PROVE  SInv'
  <1> USE Bounds
  <1> USE DEF SInv, row, marks, data
  <1>1. CASE PauseDone
    <2>1. TypeOK' BY <1>1 DEF PauseDone, Finish, NoOp, Return, Leave, walk, TypeOK
    <2>2. Told' /\ Marked' /\ Aimed' BY <1>1, ReturnS DEF PauseDone, Finish
    <2> QED BY <2>1, <2>2
  <1>2. ASSUME NEW step \in {"backup", "stop"}, PauseFails(step) PROVE SInv'
    <2>1. TypeOK'
      <3>1. op.spacing \in BackoffBase..BackoffCeiling /\ op.tried \in 0..BackoffCeiling
        BY DEF TypeOK
      <3>2. workload' \in {"up", "down"} BY <1>2 DEF PauseFails, TypeOK
      <3> QED BY <1>2, <3>1, <3>2 DEF PauseFails, Finish, NoOp, Return, Leave, walk, TypeOK, Fault
    <2>2. Told' /\ Marked' /\ Aimed' BY <1>2, ReturnS DEF PauseFails, Finish
    <2> QED BY <2>1, <2>2
  <1>3. CASE ResumeDone
    <2>1. /\ workload' = "up" /\ work' = 0 /\ warning' = "none" /\ told' = 0 /\ looked' = "no"
          /\ trail' = IF engine = "platform" THEN trail ELSE "gaps"
          /\ resumed' = 0 /\ updated' = 0 /\ status' = "ACTIVE" /\ op' = NoOp
          /\ spacing' = BackoffBase /\ tried' = BackoffCeiling
          /\ UNCHANGED <<claimed, engine, reading, used, seen, faults>>
          /\ IF phase = "busy" THEN Leave("idle") ELSE Overtake
      BY <1>3 DEF ResumeDone, Finish
    <2>2. /\ lastUse' = IF phase \in {"listed", "judged"} THEN "after" ELSE "before"
          /\ IF phase = "busy" THEN phase' = "idle" /\ plan' = "skip" /\ elapsed' = 0
             ELSE UNCHANGED <<phase, plan, elapsed>>
      BY <2>1 DEF Leave, Overtake
    <2>3. TypeOK' BY <2>1, <2>2 DEF TypeOK, NoOp
    <2>4. Told' BY <2>1, <2>2 DEF Told, TypeOK
    <2>5. Marked' BY <2>1 DEF Marked
    <2>6. Aimed' BY <2>1, <2>2 DEF Aimed, TypeOK
    <2> QED BY <2>3, <2>4, <2>5, <2>6
  <1>4. CASE ResumeFails
    <2>1. TypeOK'
      <3>1. op.spacing \in BackoffBase..BackoffCeiling /\ op.tried \in 0..BackoffCeiling
        BY DEF TypeOK
      <3>2. workload' \in {"up", "down"} /\ work' \in 0..MaxWork /\ trail' \in {"full", "gaps"}
        BY <1>4 DEF ResumeFails, TypeOK
      <3> QED BY <1>4, <3>1, <3>2 DEF ResumeFails, Finish, NoOp, Return, Leave, walk, TypeOK, Fault
    <2>2. \/ UNCHANGED <<trail, work>> \/ trail' = "gaps"
          \/ (engine = "platform" /\ UNCHANGED trail)
      BY <1>4 DEF ResumeFails
    <2>3. Told' /\ Marked' /\ Aimed' BY <1>4, <2>2, ReturnS DEF ResumeFails, Finish
    <2> QED BY <2>1, <2>3
  <1>5. CASE OperationDies
    <2>1. TypeOK' BY <1>5 DEF OperationDies, NoOp, Return, Leave, walk, TypeOK, Fault
    <2>2. Told' /\ Marked' /\ Aimed' BY <1>5, ReturnS DEF OperationDies
    <2> QED BY <2>1, <2>2
  <1> QED BY <1>1, <1>2, <1>3, <1>4, <1>5 DEF Ends

\* A sweep that leaves without a write of its own to the marks.
LEMMA LeaveS ==
  ASSUME SInv, NEW p \in {"idle", "busy"}, Leave(p), UNCHANGED <<marks, claimed, data, used>>
  PROVE  Told' /\ Marked' /\ Aimed'
  <1> USE DEF SInv, marks, data, Leave
  <1>1. Told' BY DEF Told, TypeOK
  <1>2. Marked' BY DEF Marked
  <1>3. Aimed' BY DEF Aimed
  <1> QED BY <1>1, <1>2, <1>3

\* A call that is admitted or refused leaves the row in its kind.
LEMMA CallS ==
  ASSUME SInv, NEW kind \in {"pause", "resume"}, Call(kind),
         UNCHANGED <<workload, marks, claimed, data, faults, used>>
  PROVE  SInv'
  <1> USE Bounds
  <1> USE DEF SInv, row, marks, data
  <1>1. \E p \in {"idle", "busy"} : Leave(p) BY DEF Call
  <1>2. TypeOK'
    <2>1. /\ status' \in {"ACTIVE", "PAUSING", "PAUSED", "RESUMING", "DELETING"}
          /\ op' \in [kind : {"none", "pause", "resume"}, spacing : BackoffBase..BackoffCeiling,
                      tried : 0..BackoffCeiling]
          /\ updated' \in 0..StuckAfter
          /\ UNCHANGED <<resumed, spacing, tried>>
      BY DEF Call, Admit, TypeOK
    <2> QED BY <1>1, <2>1 DEF Leave, TypeOK
  <1>3. Told' /\ Marked' /\ Aimed' BY <1>1, LeaveS
  <1> QED BY <1>2, <1>3

\* What the sweep decides.
LEMMA PlanKind ==
  ASSUME TypeOK
  PROVE  /\ Plan \in {"skip", "pause", "warn", "warned", "keep", "retryPause", "retryResume"}
         /\ Plan = "pause" => seen = Horizon
         /\ Plan = "warn" => warning = "none"
         /\ Plan = "warned" => warning = "given"
  <1> USE Bounds, HorizonKind
  <1>1. LastSeen \in 0..Horizon /\ LastSeen <= seen BY DEF LastSeen, Smaller, TypeOK
  <1>2. /\ IdlePlan(LastSeen, warning) \in {"pause", "warn", "warned", "keep"}
        /\ IdlePlan(LastSeen, warning) = "pause" => seen = Horizon
        /\ IdlePlan(LastSeen, warning) = "warn" => warning = "none"
        /\ IdlePlan(LastSeen, warning) = "warned" => warning = "given"
    BY <1>1 DEF IdlePlan, TypeOK
  <1> QED BY <1>2 DEF Plan

\* A project that has just been used is kept.
LEMMA KeptKind == IdlePlan(0, "none") = "keep"
  BY HorizonKind DEF IdlePlan

\* The steps of the sweep.
LEMMA SweepsS ==
  ASSUME SInv, Sweeps
  PROVE  SInv'
  <1> USE Bounds
  <1> USE DEF SInv, row, marks, data
  <1>1. CASE List
    <2>1. TypeOK' BY <1>1, PlanKind DEF List, TypeOK
    <2>2. Told' BY <1>1, PlanKind DEF List, Told
    <2>3. Marked' BY <1>1 DEF List, Marked
    <2>4. Aimed' BY <1>1, PlanKind DEF List, Aimed
    <2> QED BY <2>1, <2>2, <2>3, <2>4
  <1>2. CASE GiveUp \/ SkipProject
    <2>1. Leave("idle") /\ UNCHANGED <<row, workload, op, marks, claimed, data, used>>
      BY <1>2 DEF GiveUp, SkipProject
    <2>2. faults' \in 0..MaxFaults BY <1>2 DEF GiveUp, SkipProject, Fault, TypeOK
    <2>3. TypeOK' BY <2>1, <2>2 DEF Leave, TypeOK
    <2>4. Told' /\ Marked' /\ Aimed' BY <2>1, LeaveS
    <2> QED BY <2>3, <2>4
  <1>3. CASE NoWork
    <2>1. TypeOK' BY <1>3 DEF NoWork, TypeOK
    <2>2. Told' BY <1>3 DEF NoWork, Told
    <2>3. Marked' BY <1>3 DEF NoWork, Marked
    <2>4. Aimed' BY <1>3 DEF NoWork, Aimed, Marked, TypeOK
    <2> QED BY <2>1, <2>2, <2>3, <2>4
  <1>4. CASE Keep
    <2>1. TypeOK' BY <1>4 DEF Keep, Leave, TypeOK
    <2>2. Told' BY <1>4 DEF Keep, Leave, Told, TypeOK
    <2>3. Marked' /\ Aimed' BY <1>4 DEF Keep, Leave, Marked, Aimed
    <2> QED BY <2>1, <2>2, <2>3
  <1>5. CASE Warn
    <2>1. TypeOK' BY <1>5 DEF Warn, MarkIdleWarned, Leave, TypeOK
    <2>2. Told' BY <1>5 DEF Warn, MarkIdleWarned, Leave, Told, TypeOK
    <2>3. Marked' /\ Aimed' BY <1>5 DEF Warn, Leave, Marked, Aimed
    <2> QED BY <2>1, <2>2, <2>3
  <1>6. CASE PauseIdle BY <1>6, CallS DEF PauseIdle
  <1>7. CASE RetryStuck
    <2>1. \E kind \in {"pause", "resume"} : Call(kind) BY <1>7 DEF RetryStuck
    <2> QED BY <1>7, <2>1, CallS DEF RetryStuck
  <1>8. CASE CountAttempt
    <2>1. CASE status = "DELETING"
      <3>1. Leave("idle") /\ UNCHANGED <<row, workload, op, marks, claimed, data, faults, used>>
        BY <1>8, <2>1 DEF CountAttempt
      <3>2. TypeOK' BY <3>1 DEF Leave, TypeOK
      <3> QED BY <3>1, <3>2, LeaveS
    <2>2. CASE status # "DELETING"
      <3>1. /\ spacing' = Smaller(2 * spacing, BackoffCeiling)
            /\ tried' = elapsed /\ updated' = elapsed /\ phase' = "judged"
            /\ plan \in {"retryPause", "retryResume"} /\ phase = "listed"
            /\ UNCHANGED <<plan, elapsed, lastUse, status, resumed, workload, op, marks, claimed,
                           data, faults, used>>
        BY <1>8, <2>2 DEF CountAttempt, RecordPauseAttempt
      <3>2. spacing' \in BackoffBase..BackoffCeiling BY <3>1 DEF Smaller, TypeOK
      <3>3. TypeOK' BY <3>1, <3>2 DEF TypeOK
      <3>4. Told' BY <3>1 DEF Told
      <3>5. Marked' /\ Aimed' BY <3>1 DEF Marked, Aimed
      <3> QED BY <3>3, <3>4, <3>5
    <2> QED BY <2>1, <2>2
  <1>9. ASSUME NEW saved \in BOOLEAN, ReadWork(saved) PROVE SInv'
    <2>1. /\ seen' = elapsed /\ warning' = "none" /\ told' = 0 /\ looked' = "no"
          /\ lastUse' = "before" /\ plan' = "keep" /\ phase' = "judged"
          /\ \/ trail' = "full" /\ reading' = work
             \/ UNCHANGED <<trail, reading>>
          /\ UNCHANGED <<row, workload, op, claimed, work, engine, elapsed, used>>
      BY <1>9, KeptKind DEF ReadWork, Touch
    <2>2. faults' \in 0..MaxFaults BY <1>9 DEF ReadWork, Perhaps, Fault, TypeOK
    <2>3. TypeOK' BY <2>1, <2>2 DEF TypeOK
    <2>4. Told' BY <2>1 DEF Told
    <2>5. Marked' BY <2>1 DEF Marked, TypeOK
    <2>6. Aimed' BY <2>1 DEF Aimed
    <2> QED BY <2>3, <2>4, <2>5, <2>6
  <1> QED BY <1>1, <1>2, <1>3, <1>4, <1>5, <1>6, <1>7, <1>8, <1>9 DEF Sweeps

\* Time passes.
LEMMA TickS ==
  ASSUME SInv, Tick
  PROVE  SInv'
  <1> USE Bounds
  <1> USE DEF SInv, Tick, data, Older, Smaller
  <1>1. TypeOK'
    <2>1. op' \in [kind : {"none", "pause", "resume"}, spacing : BackoffBase..BackoffCeiling,
                   tried : 0..BackoffCeiling]
      <3>1. op \in [kind : {"none", "pause", "resume"}, spacing : BackoffBase..BackoffCeiling,
                    tried : 0..BackoffCeiling]
        BY DEF TypeOK
      <3>2. Older(op.tried, BackoffCeiling) \in 0..BackoffCeiling BY <3>1
      <3> QED BY <3>1, <3>2
    <2>2. /\ resumed' \in 0..Horizon /\ seen' \in 0..Horizon /\ used' \in 0..Horizon
          /\ updated' \in 0..StuckAfter /\ tried' \in 0..BackoffCeiling /\ claimed' \in 0..Window
          /\ elapsed' \in 0..Budget
      BY DEF TypeOK
    <2> QED BY <2>1, <2>2 DEF TypeOK
  <1>2. Told' BY DEF Told
  <1>3. Marked' BY DEF Marked, TypeOK
  <1>4. Aimed' BY DEF Aimed, TypeOK
  <1> QED BY <1>1, <1>2, <1>3, <1>4

\* Every step keeps the invariant.
LEMMA StepS ==
  ASSUME SInv, [Next]_vars
  PROVE  SInv'
  <1>1. CASE UNCHANGED vars
    BY <1>1 DEF vars, row, marks, data, walk, SInv, TypeOK, Told, Marked, Aimed
  <1> QED BY <1>1, UsesS, StartsS, EndsS, SweepsS, TickS DEF Next

LEMMA AlwaysS == Spec => []SInv
  <1>1. SInv /\ [Next]_vars => SInv' BY StepS
  <1> QED BY InitS, <1>1, PTL DEF Spec

\* The variables keep their kinds, and the wait between two retries its bounds.
THEOREM TypeCorrect == Spec => []TypeOK
  <1>1. SInv => TypeOK BY DEF SInv
  <1> QED BY <1>1, AlwaysS, PTL

\* In one idle stretch the owner is warned once.
THEOREM WarnedOnceHolds == Spec => []WarnedOnce
  <1>1. SInv => WarnedOnce BY DEF SInv, Told, WarnedOnce
  <1> QED BY <1>1, AlwaysS, PTL

\* No project is paused for idleness within the tier's days of a recorded use.
THEOREM PausedWhenUnusedHolds == Spec => PausedWhenUnused
  <1>1. SInv /\ [Next]_vars
          => [IdlePauseBegins
                => used + Window + Budget > Horizon \/ trail = "gaps" \/ used <= elapsed]_vars
    BY DEF SInv, Aimed, IdlePauseBegins
  <1> QED BY <1>1, AlwaysS, PTL DEF Spec, PausedWhenUnused
================================================================================
