# A TLA+ verification of the Excalibase control plane

Excalibase is a multi-tenant backend platform.  Its control plane (`src/server-go`) runs as
several replicas over one Postgres store: it creates, pauses, resumes, deletes and restores
projects (a database, a function runtime, sites, applications, backups, credentials), and it runs
the background work of every project (scheduled tasks, crons, idle pauses, deletion sweeps).

This directory models the parts where several replicas, callers and background sweeps work on the
same project, checks them with TLC, and proves the central properties with TLAPS.

## 1. Inventory

| Component | State | Operations | What is hard |
|---|---|---|---|
| Pause and resume (`service/pause.go`, `provisioner/postgresql.go`) | the project's status, the hibernation annotation, pods, replication watcher, public endpoint | pause, resume and their failure paths | hours between reading and writing the row; a database operator that follows in its own time; retries from a half-done state |
| Project lease (`service/project_operation_claim.go`, `storage/postgres/pg_advisory_lock.go`) | one Postgres session lock per project | claim, release | the session may die under its holder |
| Scheduled deletion (`service/deletion_grace.go`, `deletion_sweeper.go`, `app_project_stop.go`) | status `PENDING_DELETION`, due date, backup choice | schedule, change choice, cancel, sweep, purge of kept backups | a decision read before the lease; cancel against sweep; partial failure of a cancel |
| Teardown (`service/provisioning.go`) | status `DELETING` or `BACKUPS_PENDING_DELETE`, what is left | claim, ordered steps, failure record, backup-purge retry, row removal, protection toggle | a crash between steps, two teardowns with different choices, lease-less writes |
| Instance store (`storage/postgres/pg_instances.go`, `pg_instances_limit.go`, `domain/enums.go`) | the row | whole-row updates, plain or pinned to a status; the teardown claim | a whole-row write undoes what it did not read |
| Operator force drop (`handler/admin.go`) | – | clears protection, then tears down | writes without the lease |
| Deferred tasks (`scheduler/worker.go`, `scheduler.go`, `row_guard.go`, `fanout.go`, `handler/function_scheduler_internal.go`) | rows of `excalibase_scheduled_functions`; a sweep's batch | schedule, cancel, claim, reap, dispatch, settle | nothing but the claim's age ties a row to a sweep; lost outcomes; deadlines |
| Crons and leadership (`scheduler/cron.go`, `cron_sync.go`, `schedule.go`, `fanout.go`, `handler/cron_sync.go`, `service/leadership.go`) | cron rows, `last_enqueued_at`, a leader lock in a pooled session, the backoff of a project | election, tick, walk, enqueue, deploy, delete | a session that ends under its leader; rows that are stale when they are acted on; a lock left in the pool |
| Idle pause (`service/idle_pause_scheduler.go`, `idle_pause_engine_activity.go`, `activity_recorder.go`) | the last recorded use, the last warning, the last reading of the database's work counter, the retry bookkeeping | record a use, sweep, warn, pause, retry what is stuck | the sweep acts on rows it read up to half an hour ago; a lost reading loses a use |
| Git builds (`sitebuilds/`) | `site_builds` rows with leases, the connections, the runs of every replica | push, preview, rebuild, claim, run, deploy, requeue, expire, cancel, disconnect | nothing but the lease ties a build to a replica; a deploy is not undone when the lease turns out lost |
| Major version upgrades (`service/major_upgrade*.go`, `storage/postgres/pg_major_upgrades.go`, `provisioner/docker_major_upgrade.go`) | the run's row with its owner and heartbeat, the project's row, two containers and a dump | start, back up, convert, put back, recover, finish | a crash between any two calls; answers that are lost; an actor that lost its run and still acts |
| In-place restore (`service/restore_in_place.go`) | status `RESTORING` | restore, confirm, roll back | crash recovery |
| Sites, applications, edge functions | published version, containers | publish, deploy | – |
| Vault, authentication, API handlers, object storage, proxies, mail, metrics, MCP, front end | – | – | mostly sequential or I/O |

How they interact: callers and sweeps start *runs*; a run takes the project's lease, reads the row,
calls the cluster and writes the row back; the store refuses a write whose row a teardown owns and,
for most writers, one whose status moved.  The deletion sweep starts teardowns, a scheduled deletion
first pauses, and the deletion of a project stops its applications, runtime and sites.  Scheduled
tasks live in each project's own database and share nothing with the lifecycle but the runtime they
invoke; the cron walk of the leading replica adds tasks to the same table, and task and cron sweeps
share a replica's memory of projects that do not answer.  The idle sweep calls the pause and resume
of the lifecycle.  Builds share nothing with the rest but the sites and applications they publish to.
A major upgrade takes the project's lease and writes its row as the lifecycle does; its runs are
found again by a sweep of their own.  `PROJECT.json` lists every component, the modelled ones and the others, and the hazards,
each at its line.

## 2. Modules

| Module | What it is |
|---|---|
| `InstanceStore` | the row and the predicates of the store's guarded writes, as operators |
| `ProjectLifecycle` | the lifecycle of one project: every operation above down to "Operator force drop" |
| `DeletionContract` | abstract: what deleting a project promises its owner |
| `MCProjectLifecycle` | `ProjectLifecycle` with the symmetry of its runs |
| `ProjectLifecycleProofs`, `LifecycleTeardownProofs`, `LifecycleInvariantProofs` | theorems about it, each module on top of the one before: kinds, the one-way door and the lease; what a teardown leaves; pause, resume, grace and the deletion contract |
| `TaskQueue`, `TaskQueueProofs` | the deferred tasks of one project and the sweeps of every replica |
| `Leadership` | the leader lock: the session that holds it and the leases replicas believe in |
| `CronRegistry`, `CronRegistryProofs` | the cron registry of one project, the replicas that walk it (it extends `Leadership`) and the deploys that rewrite it |
| `MCCronRegistry` | its schedules for TLC |
| `IdleSweep`, `IdleSweepProofs` | one project under the idle sweep |
| `BuildQueue`, `BuildQueueProofs` | the queue of git builds of one project and the dispatchers of every replica |
| `MCBuildQueue` | its scopes for TLC |
| `MajorUpgrade`, `MajorUpgradeProofs` | one major version upgrade of a single host's Postgres, its driver and its recoveries |

### ProjectLifecycle

A member of `Runs` is a slot for one call in some replica.  `pc[r]` is the call to the store, the
cluster or the lease that the run makes next, `mem[r]` its in-memory copy of the row, `job[r]` what
it was asked.  Each such call is one step, so runs overtake each other exactly where the code can be
overtaken.  `row` is the stored row; `hibernate`, `pods`, `repl`, `endpoint` and `serving` are what
the cluster runs; `left` is what a teardown has still to remove, `retained` the date of kept backups.

The row has five fields, those that a lifecycle operation decides by: status, deletion protection,
due date, the confirmed backup choice and whether the pause episode already has its backup.
Writes are whole rows: a run writes back `mem[r]` with its own changes, as the code does.  The
store's guards are `Updatable` (the row is not owned by a teardown), `UpdatableFrom` (and still has
the expected status) and `EffectiveBackupIntent` (a confirmed purge is not taken back).

Correspondence choices:

- *A crash* (`Crash`) ends a run at any label and frees the lease, since the session dies with the
  process.  It also stands for a store error that returns from the middle of an operation.
- *A lost lease* (`LoseLease`, when `LeaseMayBeLost`) frees the lease and leaves the run going.
- The in-process mutex of `PauseService` only orders runs inside one replica and is left out: the
  runs of the model may be in different replicas.
- The configuration is fully wired (backups, sites, applications, vault); `BackupsConfigured` is the
  one switch, because it decides steps.  Projects without a database and the creation and restore
  statuses are left out.
- A cluster call that may fail is a choice of outcome.  Waiting for pods or readiness is one step
  that succeeds when the observation holds, or times out.
- Reading the clock and writing the due date are one step.
- Names, messages, reasons and logging are left out.

### TaskQueue

A row has a status, its attempts, the time until it is due and the age of its claim; a sweep has its
elapsed time, the rows it claimed and has not come to, those it is invoking, and the attempts it
read.  Time is relative, so the state space is finite without a bound on the clock.  `ClaimDue` is
the whole transaction of `claimDue`: reap, close the oversized, claim, each up to the batch size.
Since it is atomic, `SKIP LOCKED` never visibly skips.  The order by due time is abstracted: any due
rows up to the limit may be taken, which allows more than the code does.

Whether `reject` refuses a row is a choice, since what is deployed, and the lookup's success, change
from sweep to sweep.  `runs` counts invocations and is read by no action.  A tenant's own writes to
the table are left out.  A replica sweeps one project at a time, so the platform-wide semaphore is
not contended inside a sweep; `Concurrency` is the project's.

`TimingAssumption`, `Timeout < Lease`, is the relation of the defaults (30 s for a sweep, 5 min for
a claim).  Both are configurable and nothing in the code compares them; without it two sweeps can
hold one row.

### Leadership and CronRegistry

`owner` is the replica in whose session the advisory lock is held at the server, `lease` the replicas
that keep a lease object; the two differ after a session ends, and after a release whose unlock
failed or whose session had taken the lock twice, which leaves the lock with a pooled connection.  A
tick checks its leadership once, reads the rows (`ListJobs`), and walks them with its copy `todo[r]`
and the clock it read: every row is a step, so deploys, deletions and a second walk come between.
`registry[n].left` is the time until `last_enqueued_at`; `latest` and `gap` record what was really
queued and are read by no action.  Times of day, the 64-bit wrap of an interval and the clip to the
minimum cadence are modelled; a cron expression is one that fires every so many units, or one that
matches no date, whose next run is the zero time.  A deploy is one step, with its failure to commit the
cron transaction (`DeployUncommitted`); `deployed` keeps the functions that some job names as its
module, the only ones a tick asks for.  The backoff
of a failing project (`quiet`) is shared by cron and task ticks, as in `Fanout`.

`MidTickLoss` says whether the leader's session may end between the check and the end of the walk.
Without it the properties hold and are proved; with it `DoubleEnqueue` shows what happens.

### IdleSweep

All times are ages, so the state space is finite.  `seen`, `warning`, `reading`, `resumed`,
`updated`, `spacing` and `tried` are columns; `plan` is what the sweep's reading of the rows calls
for, and is carried out in later steps during which `elapsed` grows up to `Budget`.  A pause or a
resume is one operation that is admitted, holds the project's lease and ends well, badly or by the
death of its process: its steps are the subject of `ProjectLifecycle`.  `used`, `trail`, `told` and
`looked` record what happened and are read by no action.  `trail` is "gaps" when a use may have left no
mark: a failed write of a use, or a counter restarted with its server.  `FindAll` and
`ListProjectActivity` are one read.

### BuildQueue

Each transaction of the store is a step; a run is at the stage between two of its calls.  Builds are
numbered in the order they are queued, and commits in the order they are pushed.  Scopes are one
site's production, a preview of it, and an app, all of one project: the caps of the claim are counted
by kind.  `live[s]` is the build that a scope serves.  A run may fail at any stage.  `LateReplica`
says whether a replica may go on for the length of a whole newer build without noticing that its
lease is gone; `holdLease` asks every third of a lease, so this takes heartbeats that fail for that
long.  With it `NewerStands` fails (a deploy is not pinned to the lease); all runs and
`NewerStandsHolds` are without it.

### MajorUpgrade

An actor is the driver that started the run or a recovery that claimed it; `pc[a]` is the call it
makes next.  Each statement of the platform database and each call to the container engine is one
step, and its answer (`Answers`) is `done`, `refused` (nothing happened) or `unheard` (it took effect
and the answer was lost); an actor whose context is cut gets only refusals from the calls that look
at it (`OwnAnswers`).  `swap[a]`, `cont[a]` and `target[a]` are what the actor knows: the containers
it made and renamed, the container its copy of the project names, the one it would put back.  The
containers hold the numbers of the rows clients wrote, so that "all of the data" is `1..writes`.

- `Die` ends an actor anywhere.  `Outage` is a database outage longer than `majorUpgradeFenceAfter`:
  the lease's session is gone and `keepAlive` cuts the context.
- `GoStale` has the one timing assumption, the one `major_upgrade_run.go:19-30` states: between the
  fence and the staleness of the heartbeat lies a minute, in which the call in flight ends.  The
  three steps that do not look at the context (`Uncut`) are over by then.
- `RecordAnswered` says that a `recordContainer` that answers an error changed nothing.  With it all
  properties hold and are proved; without it see section 5.
- One run of one project.  The Kubernetes engine, where the cluster's operator converts the data, the
  preflight checks and the status view are left out.  In `Recover` and `WaitServing` reads and the
  calls after them are one step.  Credentials, statistics and the first backup after the conversion
  cannot stop the run and change nothing modelled.

## 3. Runs

| Run | Shows |
|---|---|
| `Lifecycle` | Two overlapping runs of pause, resume, delete, cancel, sweep and the lease-less protection toggle, with a crash: one operation at a time; `PAUSED` and `PENDING_DELETION` only over a stopped database; a resume records `ACTIVE` only over a serving one; no teardown inside the grace period; the row goes last |
| `LostLease` | force drops, protection toggles and the expiry of kept backups, with the lease lost under a run and a crash: the store's guards still keep the door, the confirmed purge, dated backups and the clean end |
| `SweepLiveness` | delete, cancel, sweep, purge and retention implement `DeletionContract`; a scheduled deletion ends, and every lease taken on the way is given back |
| `TaskQueue` | no task in two sweeps' hands, the retry budget, final statuses, capped waits; every scheduled task, an oversized one too, comes to a final status |
| `CronRegistry` | one replica walks at a time; no two runs of a job closer than the minimum interval; `last_enqueued_at` is the latest run queued; the next slot of a schedule is the next one; a job within the window, on a schedule that has a next run, keeps being enqueued, whatever the lock's session, the sweeps and the deploys go through |
| `IdleSweep` | one warning per idle stretch; no pause of a project whose recorded uses reach into the horizon; stuck pauses and resumes end; an unused project is paused |
| `BuildQueue` | one build waiting per scope; no deploy over a newer one; outcomes final; every build ends |
| `MajorUpgrade` | no row a client wrote is lost; an `ACTIVE` project names a container with all of its data; the recorded outcome is what happened; only the owner of the run touches the host; every run ends and the project leaves `UPGRADING` |

Four more runs end in a violation; each shows a place where the code does other than a comment of
the repository says (section 5).

**Bounds.**  Two runs (or two replicas) are enough to interleave: every hazard listed is between two
operations, and a third party (the operator, the retention purge, a lost session, the clock) is an
action of its own.  Grace and retention are one tick and the clock stops at 1 to 3, so that a
deletion can be scheduled, cancelled and scheduled again, come due, or be acted on by its first date.  One
crash lets a retry meet each half-done state.  Tasks: two tasks and up to three attempts, a sweep of
one tick and a lease of two: a row can fail, wait, be reaped and exhaust its budget.  One of the two
tasks is oversized, so the batch does not limit a claim in this run; the same properties were also run
with two ordinary tasks, `Batch` = 1 and two attempts, where it does, and the safety ones are proved for
any batch.  In `LostLease` the resume is a caller that is always refused, and keeps the run from
coming to rest; pauses under a lost lease are left to the theorems, and were also run with force drops
alone (`MaxTime` = 1).  `MaxTime`,
`MaxCrashes`, `MaxDelay` and `BackoffCap` are the named bounds; the theorems hold for all of them.
Crons: two replicas and three job names with a window of `MaxJobs` = 2 rows, so that a walk has a
second row and a third job stands beyond the window until a redeploy lets it in; two functions whose
bundles take over, drop and re-add jobs; and four schedules: a daily one that may be due right now, an
interval that wraps to less than the minimum cadence, one that wraps to nothing and a cron expression
that matches no date.  With one fault a backoff is never longer than its first step, so its cap is that step.  The idle sweep: one project of each kind of
engine, a horizon of a few ticks and a sweep that lasts up to `Budget`.  Builds: two builds and one
commit on two replicas, with one fault of each run's choice and one requeue by a full spool; two builds
suffice because every property is about a build and a newer or older one of its scope.  The upgrade:
three actors and two faults, so that a recovery can be interrupted and recovered, and two rows, one
before and one during the run (four actors and three faults were also run, for the invariants and for
`UInv`).  `MaxFaults`
bounds crashes, failing writes, lost sessions and the like together.  Deadlock is checked in every
run but `BuildQueue` and `StalePush`, where the bound on builds lets the system come to rest.
Lifecycle runs are interchangeable: symmetry is used where no liveness is checked.

**Fairness.**  A run in flight keeps taking steps (`WF` on `Step(r)`): every wait in the code has a
timeout and every path returns.  The clock ticks.  `SweepLiveness` adds that the sweep's ticker
fires, that callers leave the project alone from some time on (a cancel repeated for ever can hold
the lease whenever a sweep comes by), and that teardown steps stop failing, which is up to the
cluster.  Its runs are deletions, cancels, sweeps, purge retries and the expiry of kept
backups: that a resume gives its lease back is not checked as liveness.  `TaskQueue` assumes that each replica's ticker fires, that a sweep reaches its end or
its deadline, and that a replica whose claims fail again and again does not fail them all (`SF` on
`ClaimDue(w)`).  Nothing is assumed about invocations or about the writes of their outcomes.
`CronRegistry`, `IdleSweep` and `BuildQueue` assume that tickers fire and that a tick or a run, once
begun, goes on (each is bounded by a timeout), that time passes, that an orphaned session ends in the end (the pool
closes connections at their lifetime, `storage/postgres/store.go:53`), and for builds that a replica
that was stopped is started again.  `MajorUpgrade` assumes that an actor that lives goes on, that a
heartbeat nobody sends goes stale, that the recovery sweep claims what it finds and that a load ends.  Faults are bounded by `MaxFaults` in number and free in time.

## 4. Proofs

Proved by TLAPS for every value of the constants that satisfies the named assumptions:

- `ProjectLifecycleProofs`: `TypeCorrect`; `OneWayDoorHolds`: once a teardown owns the row, it is
  never written live again, with leases lost and force drops included.  No invariant beyond types is
  needed: it follows from the store's guards, whatever copy of the row a run holds.
  `OneOperationHolds`, if leases are not lost.  The invariant is `LeaseInv`: a run is at a leased
  label exactly when the lease is its own.
- `LifecycleTeardownProofs`: what a dropped project leaves behind, with leases lost, force drops,
  and any number of teardowns of one project side by side.  `LeftInv` follows the order of
  `deletionSteps`: a teardown at a step has removed everything before it (`StepInv`, with `Before`
  as the table of what that is), a row that waits for its purge is past everything up to the backups
  (`RowLeft`), and before a drop the backups are gone or dated (`Settled`).  It holds because nothing
  puts a resource back once a teardown owns the row.  From it: `KeptBackupsAreDatedHolds` and
  `ConfirmedPurgeStandsHolds` without assumptions; `GoneMeansStoppedHolds`, also without any: whoever
  drops the row, no endpoint, database, workload or site is left; and `GoneMeansCleanHolds` (nothing
  but backups is left) if no purge retry is made.  That assumption is needed: the retry drops the
  row of a teardown that stopped at its backups, whose later steps never ran (section 5).
- `LifecycleInvariantProofs`, if leases are not lost and no force drop is made:
  `PausedMeansStoppedHolds`, `ResumedMeansServingHolds`, `GraceHonouredHolds` and `ContractKeptHolds`.
  Both assumptions are needed for the first: the force drop's write is not pinned to a status (section 5), and without the
  lease `PAUSING` may come round, so that a late write of `PAUSED` passes the status pin although
  `pause.go:657` calls the pin the backstop for that case.
  None is inductive.  `IInv` adds what each label knows: a pausing or resuming run owns the status it wrote
  (`RowInv`); each label of the pause is past something that really is stopped (`StopInv`) and each
  label of the resume past something that is up (`ServeInv`); a run
  without the lease is only at labels where it does no harm (`LeaselessInv`); a run about to claim
  the row has a reason that still stands (`DueInv`).  The proof is one step per action, with frame
  lemmas for what the step of one run leaves of the others.
- `ContractKeptHolds` is the refinement: `ProjectLifecycle` implements `DeletionContract` under the
  mapping given with `Contract`.  The contract forbids to delete backups the owner chose to keep and to
  drop a record before the choice is carried out, but the code acts on a copy of the choice
  that it read earlier.  `ChoicesInv` says why that is sound: from the label where a teardown reads the row
  again, its copy and the row agree, and a purge retry only exists where the purge is confirmed.
  `Phases` gives the mapped phase of each status, `ContractActions` unfolds the actions of the contract under the mapping,
  `DealKept` and `RemovalKept` map the steps that move the row and those that remove resources, and
  `ContractStep` puts them together.
- `TaskQueueProofs`: `OneWorkerPerTaskHolds`, `BudgetKeptHolds`, `FinalStaysHolds` and `TypeCorrect`.
  `QInv` says
  that what a sweep holds is running, was claimed since the sweep began (so its age is at most the
  sweep's, which is at most `Timeout`, which is below `Lease`: the reap cannot take it), and is in
  one place of one sweep; and that every invocation is paid for by an attempt, except the current
  one.  `TypeCorrect` adds the limits (`Bounded`): attempts end at `MaxAttempts`, since a row that is
  not final has one left, and a wait ends at the cap of the backoff, whose powers of two are
  natural numbers because they count the subsets of finite sets (`PowerType`).
- `CronRegistryProofs`: `TypeCorrect`, `BookkeepingHolds` and `NextSlotHolds` whoever walks, and with
  `~MidTickLoss` `OneWalkerHolds` and `CadenceHolds`.  `Books` (kinds and bookkeeping) is inductive by
  itself, so `last_enqueued_at` tells of the latest run queued even where two replicas walk at once: what is
  lost with the session is the cadence, never the record.  `Alone` adds that a replica that walks holds
  the lock (`Leads`) and that its copy of a row is no fresher about the next run than the registry is
  (`Fresh`): a row it may enqueue is one whose last run is past.  `NextSlot` is arithmetic:
  `RemainderMoves` says how a remainder moves with time, `UntilIs` that the delay of the code ends at the first
  moment with the right remainder, and `SlotOf` reads the three kinds of slot as such remainders.
- `IdleSweepProofs`: `TypeCorrect`, `WarnedOnceHolds` and `PausedWhenUnusedHolds`.  `SInv` ties the
  warning to the idle stretch (`Told`), the marks to the real uses where the trail is full
  (`Marked`), and the sweep's plan to what the rows said when they were read (`Aimed`).
- `BuildQueueProofs`: `TypeCorrect`, `OneWaitingHolds`, `OutcomeStandsHolds` and, with `~LateReplica`,
  `NewerStandsHolds`.  `QInv` says of two builds of a scope that are not over that the older runs and
  the newer waits (`Shape`), and that a run's build is its replica's or is over (`Attended`).  `OInv`
  adds that a scope serves nothing newer than what may still deploy there (`Older`), and that a run
  which lost its build is older than whatever its scope has queued or running (`Late`).  `Moves`
  summarises what a step does to rows and runs; the two order properties follow from it alone.
- `MajorUpgradeProofs`: `TypeCorrect` and `OnlyOwnerActsHolds` without assumptions; `DataKeptHolds`,
  `ActiveHasAllHolds` and `OutcomeTrueHolds` with `RecordAnswered`.  `Ownership` says that whoever is
  at work owns the run or is cut off and between calls that look at the context, and that a stale run
  has no other owner at work; with `Moves`, what an actor's step may do, it gives `OnlyOwnerActs`.
  `UInv` adds what the host holds on either side of the mark (`OnFrom`, `OnTo`: before it the old
  container is complete, and the new one, once it exists, is off the network and loads a dump of
  everything), what an ended run left (`EndInv`), what an actor's own variables say even after it lost
  the run (`Sure`), and what the owner may rely on at each stage (`Knows`).  `Knows` is claimed of the
  owner alone, which is why ownership comes first: an actor that is not the owner changes nothing
  (`Others`), so each action is proved for the owner.

Every invariant and every action property of a passing run is stated by a theorem, some under the
assumptions above.  Only model-checked, because fairness is out of the prover's reach: `LeaseComesBack`
and `ScheduledEnds` of the lifecycle, `Settles` of the task queue, `KeepsRunning` of the registry,
`StuckEnds` and `IdleEnds` of the idle sweep, `BuildEnds` of the build queue and `RunEnds` of the upgrade.

## 5. Where the code and its comments disagree

Runs that end in a violation:

- `StaleProtection`: a whole-row write of a pause or a deletion undoes a protection just switched on.
- `DoubleEnqueue`: a leader that loses its session in the middle of a tick enqueues jobs beside its
  successor; `last_enqueued_at` is written unconditionally and is no lock.
- `UndoneResume`: a sweep that listed a stuck pause retries it after the customer's resume completed.
- `StalePush`: two pushes that both pass the head check are queued in the wrong order, and the newer
  is cancelled as superseded by "a newer commit".

Seen in the models and not run on their own: a `recordContainer` that took effect and whose answer was
lost (`major_upgrade_docker.go:161`) is put back without the row, which then names a removed container
under an `ACTIVE` project (`RecordAnswered = FALSE` violates `ActiveHasAll`); an actor that dies
between renaming the old container back and recording it leaves the row naming a removed container, and
the next recovery ends the run `FAILED`; a read that fails in `Recover` ends the run `FAILED` too,
although the conversion could have been finished or put back; a run whose new server does not come up
in `WaitServing` is recorded `COMPLETED` with a warning; the backup-purge retry removes the row although the
teardown's steps after the backups never ran (`provisioning.go:1497`); the force drop's unpinned
write puts a stale `PAUSED` back over a resumed database (`handler/admin.go:151`); a retry of a
half-done pause whose backup fails records `ACTIVE` over a stopped database (`pause.go:499`); a cancel
refused at its write leaves the function runtime running (`deletion_grace.go:391`); a task that is
claimed and cut off before its dispatch often enough is failed without being invoked, where
`worker.go:148` says it goes back to pending; a pause whose backup fails is tried again at every tick,
since the doubling wait of `idle_pause_scheduler.go:33` is for stuck pauses only; a work counter that
restarts and comes back to the stored reading is taken for no use
(`idle_pause_engine_activity.go:84`); a deploy takes over another function's cron row of the same name
(`cron_sync.go:38`); an interval whose 64-bit duration wraps to nothing (`cron.go:313`) is accepted by
`ValidateSchedule`, which bounds neither part of it, and is skipped by every tick, although
`schedule.go:38` says that a bad schedule "fails the deploy instead of being saved and never firing" and
`cron.go:101` that "every schedule a deploy accepts is one the runner can run" (`KeepsRunning` without
`HasNext` in `Owed` fails on it, and the row still takes its place in the window); a cron expression that
matches no date, such as the 30th of February, is accepted too, and the zero time that stands for its next
run is clipped to the minimum (`cron.go:231`), so that it runs at every `MinInterval`, where
`schedule.go:13` says that a schedule "the runner would never run as written" is refused; a cron
transaction that does not commit after the deploy is only logged (`function.go:682`), and the registry
keeps the jobs of the bundle before; a build whose outcome cannot be written after its deploy ends `FAILED` and live
(`dispatcher.go:288`).

`PROJECT.json` quotes the lines.

## 6. Plan

Done: `InstanceStore`, `ProjectLifecycle`, `DeletionContract`, `TaskQueue`, `Leadership`,
`CronRegistry`, `IdleSweep`, `BuildQueue`, `MajorUpgrade` and their proofs.  Next, in this order:

1. In-place restore as a further operation of the lifecycle, with the statuses it adds.
2. Application deploys and the publication of a site's version.
3. Theorems: how much of the lifecycle survives a lost lease, beyond what needs no lease already; the
   safety part of the liveness arguments (what a run that waits is waiting for, and that someone
   who can end the wait exists).

## 7. Not modelled

Provisioning and restore of a project, beyond what the lifecycle reads of their statuses; the
clients of Kubernetes and Docker, which render and send manifests; HTTP handlers, authentication and
permissions, which decide one request from one reading; object storage, proxies, logs, metrics and
mail, which are I/O; the front end.  The Kubernetes engine of the major upgrade, the readiness cache of the fanout, the trimming of old builds,
sign-in and grants of the git host, and the Jobs of a build in the cluster are left out of the
components that are modelled.
