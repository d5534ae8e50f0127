------------------------------- MODULE CronRegistry -------------------------------
(***************************************************************************)
(* The cron half of the function scheduler, for one project: the registry  *)
(* that deploys write and the leader's tick that walks it and puts the     *)
(* next run of each job into the task queue.                               *)
(*                                                                         *)
(* Leadership is asked for once per tick; the walk that follows reads the  *)
(* registry in one statement and decides each row from that snapshot.      *)
(*                                                                         *)
(* Time is relative: a row counts down to its last_enqueued_at, a walk     *)
(* counts how long ago it read the clock, and the clock itself is the time *)
(* of day.                                                                 *)
(***************************************************************************)
EXTENDS Integers, FiniteSets, Leadership

CONSTANTS
  Functions,     \* function ids
  Modules,       \* the ones cron jobs name as their module
  Names,         \* cron names, as numbers: the listing is ordered by name
  Schedules,     \* as bundles write them
  Bundles,       \* what the deploys of a function may declare: jobs by name
  Day, Hour,     \* the length of a day and of an hour
  MinInterval,   \* the finest cadence the platform honours
  MaxJobs,       \* rows one tick reads
  SweepTimeout,  \* ProjectTimeout
  MinBackoff, MaxBackoff,
  Word,          \* a duration holds -Word .. Word-1
  MidTickLoss,   \* whether the lock's session may end under a running tick
  MaxFaults,     \* bound on failures in one behaviour
  Missing        \* no row

ASSUME TimeAssumption ==
  /\ Hour \in Nat \ {0} /\ Day \in Nat \ {0} /\ Day % Hour = 0
  /\ MinInterval \in Nat \ {0} /\ SweepTimeout \in 0..Day /\ SweepTimeout <= MinInterval
  /\ MinBackoff \in Nat \ {0} /\ MaxBackoff \in Nat /\ MinBackoff <= MaxBackoff
  /\ Word \in Nat \ {0} /\ MaxFaults \in Nat /\ MidTickLoss \in BOOLEAN
ASSUME ScheduleAssumption ==
  Schedules \subseteq [kind : {"interval", "daily", "hourly", "cron"}, at : Nat]
ASSUME BundleAssumption ==
  \A f \in Functions :
    Bundles[f] \subseteq UNION {[N -> [module : Modules, schedule : Schedules]] : N \in SUBSET Names}
ASSUME NameAssumption == Names \subseteq Nat /\ MaxJobs \in Nat \ {0} /\ Modules \subseteq Functions

VARIABLES
  clock,      \* time of day
  registry,   \* excalibase_cron_jobs
  deployed,   \* the modules of jobs that the platform's store knows as functions
  phase,      \* each replica's tick: "idle", "elect", "list" or "walk"
  todo,       \* the rows the walk has read and not come to yet
  elapsed,    \* since the walk read the clock
  quiet,      \* the sweep's memory of the project's failures
  faults,     \* failures so far
  latest,     \* until a job's latest run is due, or since then; no code reads it
  gap         \* between the due times of its last two runs; no code reads it

jobs  == <<registry, latest, gap>>
ticks == <<phase, todo, elapsed, quiet>>
vars  == <<leadership, clock, deployed, faults, jobs, ticks>>

NoRows == [n \in Names |-> Missing]
Left(rows) == {n \in Names : rows[n] # Missing}

Least(S) == CHOOSE x \in S : \A y \in S : x <= y
Larger(a, b) == IF a > b THEN a ELSE b
Smaller(a, b) == IF a < b THEN a ELSE b

--------------------------------------------------------------------------------
(* Schedules.                                                              *)

\* A Go duration of so many units, as 64 bits keep it.
Duration(d) == ((d + Word) % (2 * Word)) - Word

\* How long until the time of day t, or the minute m of an hour, comes next.
NextDailyUTC(c, t)  == IF t > c THEN t - c ELSE t - c + Day
NextHourlyUTC(c, m) == IF m > (c % Hour) THEN m - (c % Hour) ELSE m - (c % Hour) + Hour

\* Mutant: a slot that is now counts as the next one.
NextDelayMutant(s, c) ==
  CASE s.kind = "interval" -> Duration(s.at)
    [] s.kind = "daily"    -> IF s.at >= c THEN s.at - c ELSE s.at - c + Day
    [] s.kind = "hourly"   -> NextHourlyUTC(c, s.at)
    [] s.kind = "cron"     -> IF s.at = 0 THEN -Word ELSE s.at - (c % s.at)

\* nextDueAt: how long until the next run.  A cron expression is represented by
\* one that fires every s.at units, or, when that is 0, by one that matches no
\* date: its next run is the zero time, which is long past.
NextDelay(s, c) ==
  CASE s.kind = "interval" -> Duration(s.at)
    [] s.kind = "daily"    -> NextDailyUTC(c, s.at)
    [] s.kind = "hourly"   -> NextHourlyUTC(c, s.at)
    [] s.kind = "cron"     -> IF s.at = 0 THEN -Word ELSE s.at - (c % s.at)

\* Whether nextDueAt finds a next run: an interval's duration may have wrapped.
HasNext(s) == s.kind = "interval" => Duration(s.at) > 0

\* ValidateSchedule, which a deploy runs.  An interval's parts are whole and
\* their sum is not 0; no bound is set on them, and a cron expression need not
\* match a date.
ValidSchedule(s) ==
  /\ s.kind = "interval" => s.at > 0
  /\ s.kind = "daily"  => s.at \in 0..Day - 1
  /\ s.kind = "hourly" => s.at \in 0..Hour - 1

\* A row of the registry.
Row == [owner : Functions, module : Modules, left : Nat,
        schedule : {s \in Schedules : ValidSchedule(s)}]

\* Mutant: only a time that has passed is clipped.
NextEnqueueMutant(s, c) == Larger(NextDelay(s, c), 1)

\* nextEnqueue: clipped to the platform's minimum cadence.
NextEnqueue(s, c) == Larger(NextDelay(s, c), MinInterval)

--------------------------------------------------------------------------------
(* Deploys.                                                                *)

Fault == faults < MaxFaults /\ faults' = faults + 1

\* Mutant: a name that is already there is inserted afresh.
UpsertMutant(f, n, job) ==
  [owner |-> f, module |-> job.module, schedule |-> job.schedule, left |-> 0]

\* upsertCronRows: a row that is there keeps its last_enqueued_at only.
Upsert(f, n, job) ==
  [owner |-> f, module |-> job.module, schedule |-> job.schedule,
   left |-> IF registry[n] = Missing THEN 0 ELSE registry[n].left]

\* SyncCronJobs: the function's other rows go, the bundle's are written.
Synced(f, bundle) ==
  [n \in Names |-> IF n \in DOMAIN bundle THEN Upsert(f, n, bundle[n])
                   ELSE IF registry[n] # Missing /\ registry[n].owner = f THEN Missing
                   ELSE registry[n]]

\* beginCronSync: every schedule of the bundle is one the runner knows.
Accepted(bundle) == \A n \in DOMAIN bundle : ValidSchedule(bundle[n].schedule)

\* Create: the function is saved, the runtime takes its bundle and the cron
\* transaction commits.  A deploy that fails on the way puts everything back.
\* A job that was not there starts a history of its own.
Deploy(f, bundle) ==
  /\ Accepted(bundle)
  /\ deployed' = deployed \cup ({f} \cap Modules)
  /\ registry' = Synced(f, bundle)
  /\ LET new == {n \in DOMAIN bundle : registry[n] = Missing} IN
       /\ latest' = [n \in Names |-> IF n \in new THEN -MinInterval ELSE latest[n]]
       /\ gap' = [n \in Names |-> IF n \in new THEN MinInterval ELSE gap[n]]
  /\ UNCHANGED <<leadership, clock, faults, ticks>>

\* The runtime has the bundle and the cron transaction does not commit, which
\* is only logged: the registry keeps the rows of the bundle before.
DeployUncommitted(f) ==
  /\ Fault
  /\ \E bundle \in Bundles[f] : Accepted(bundle)
  /\ deployed' = deployed \cup ({f} \cap Modules)
  /\ UNCHANGED <<leadership, clock, jobs, ticks>>

\* Delete takes the function out of the store and leaves its cron rows.
DeleteFunction(f) ==
  /\ f \in deployed
  /\ deployed' = deployed \ {f}
  /\ UNCHANGED <<leadership, clock, faults, jobs, ticks>>

--------------------------------------------------------------------------------
(* The tick of a replica: the election.                                    *)

GoTo(r, p) == phase' = [phase EXCEPT ![r] = p]

BackedOff(r) == quiet[r].wait > 0

BeginTick(r) ==
  /\ phase[r] = "idle"
  /\ GoTo(r, "elect")
  /\ UNCHANGED <<leadership, clock, deployed, faults, jobs, todo, elapsed, quiet>>

\* forEachProject leaves a project alone inside its quiet window.
Lead(r) ==
  /\ GoTo(r, IF BackedOff(r) THEN "idle" ELSE "list")
  /\ UNCHANGED <<clock, deployed, jobs, todo, elapsed, quiet>>

\* Mutant: a lease once taken is believed for good.
StillLeadsMutant(r) ==
  /\ phase[r] = "elect" /\ r \in lease
  /\ Lead(r)
  /\ UNCHANGED <<leadership, faults>>

\* IsLeader answers from the lease it holds.
StillLeads(r) ==
  /\ phase[r] = "elect" /\ Valid(r)
  /\ Lead(r)
  /\ UNCHANGED <<leadership, faults>>

\* The ping is not answered, for a good reason or for none; the lease goes.
StandDown(r) ==
  /\ phase[r] = "elect"
  /\ IF Valid(r) THEN Fault ELSE UNCHANGED faults
  /\ Release(r)
  /\ UNCHANGED <<clock, deployed, jobs, ticks>>

TakeOver(r) ==
  /\ phase[r] = "elect"
  /\ Acquire(r)
  /\ Lead(r)
  /\ UNCHANGED faults

\* Another session holds the lock, or asking for it failed.
NotLeader(r) ==
  /\ phase[r] = "elect" /\ r \notin lease
  /\ IF owner = None THEN Fault ELSE UNCHANGED faults
  /\ GoTo(r, "idle")
  /\ UNCHANGED <<leadership, clock, deployed, jobs, todo, elapsed, quiet>>

--------------------------------------------------------------------------------
(* The tick of a replica: the walk.                                        *)

\* Mutant: the last row of the window is left out.
WindowMutant == {n \in Left(registry) : Cardinality({m \in Left(registry) : m <= n}) < MaxJobs}

\* ORDER BY name LIMIT MaxJobs.
Window == {n \in Left(registry) : Cardinality({m \in Left(registry) : m < n}) < MaxJobs}

ListJobs(r) ==
  /\ phase[r] = "list"
  /\ todo' = [todo EXCEPT ![r] = [n \in Names |-> IF n \in Window THEN registry[n] ELSE Missing]]
  /\ elapsed' = [elapsed EXCEPT ![r] = 0]
  /\ GoTo(r, "walk")
  /\ UNCHANGED <<leadership, clock, deployed, faults, jobs, quiet>>

\* The walk comes to the row of n.
At(r, n) == phase[r] = "walk" /\ n \in Left(todo[r]) /\ n = Least(Left(todo[r]))

Passed(r, n) ==
  /\ todo' = [todo EXCEPT ![r][n] = Missing]
  /\ UNCHANGED <<leadership, clock, deployed, phase, elapsed, quiet>>

\* The time of day the walk read before its first row.
ReadAt(r) == (clock + Day - elapsed[r]) % Day

\* The row names a deployed module, no run of it waits in the future, and its
\* schedule has a next run.
Admissible(r, n) ==
  /\ todo[r][n].module \in deployed
  /\ todo[r][n].left = 0
  /\ HasNext(todo[r][n].schedule)

SkipJob(r, n) ==
  /\ At(r, n) /\ ~Admissible(r, n)
  /\ Passed(r, n)
  /\ UNCHANGED <<jobs, faults>>

\* The UPDATE is by name, and touches nothing when the row has gone.
Bumped(n, due) ==
  IF registry[n] = Missing THEN registry ELSE [registry EXCEPT ![n].left = due]

\* enqueue: the task and last_enqueued_at in one transaction.
EnqueueJob(r, n) ==
  /\ At(r, n) /\ Admissible(r, n)
  /\ LET due == NextEnqueue(todo[r][n].schedule, ReadAt(r)) - elapsed[r] IN
       /\ registry' = Bumped(n, due)
       /\ latest' = [latest EXCEPT ![n] = due]
       /\ gap' = [gap EXCEPT ![n] = Smaller(due - latest[n], MinInterval)]
  /\ Passed(r, n)
  /\ UNCHANGED faults

\* The transaction fails: it is logged and the walk goes on.
EnqueueFails(r, n) ==
  /\ At(r, n) /\ Admissible(r, n)
  /\ Fault
  /\ Passed(r, n)
  /\ UNCHANGED jobs

\* No failure yet: how long the first one will cost, and no wait.
Calm == [next |-> MinBackoff, wait |-> 0]

\* Mutant: the wait doubles for ever.
BackOffMutant(q) == [next |-> 2 * q.next, wait |-> q.next]

\* backOff: a failure puts the project out of the sweep, for twice as long
\* each time, up to the cap.
BackOff(q) == [next |-> Smaller(2 * q.next, MaxBackoff), wait |-> q.next]

\* The tick leaves the project, remembering how it went.
Leave(r, memory) ==
  /\ GoTo(r, "idle")
  /\ todo' = [todo EXCEPT ![r] = NoRows]
  /\ elapsed' = [elapsed EXCEPT ![r] = 0]
  /\ quiet' = [quiet EXCEPT ![r] = memory]

EndTick(r) ==
  /\ phase[r] = "walk" /\ Left(todo[r]) = {}
  /\ Leave(r, Calm)
  /\ UNCHANGED <<leadership, clock, deployed, faults, jobs>>

\* The database does not answer.
SweepFails(r) ==
  /\ phase[r] \in {"list", "walk"}
  /\ Fault
  /\ Leave(r, BackOff(quiet[r]))
  /\ UNCHANGED <<leadership, clock, deployed, jobs>>

\* The sweep's deadline comes, which counts as a failure.
Deadline(r) ==
  /\ phase[r] = "walk" /\ elapsed[r] = SweepTimeout
  /\ Fault
  /\ Leave(r, BackOff(quiet[r]))
  /\ UNCHANGED <<leadership, clock, deployed, jobs>>

\* The task half sweeps the same project between two cron ticks, and shares
\* the memory of its failures.
TaskTick(r) ==
  /\ phase[r] = "idle" /\ ~BackedOff(r)
  /\ \/ /\ quiet' = [quiet EXCEPT ![r] = Calm]
        /\ UNCHANGED faults
     \/ /\ Fault
        /\ quiet' = [quiet EXCEPT ![r] = BackOff(quiet[r])]
  /\ UNCHANGED <<leadership, clock, deployed, jobs, phase, todo, elapsed>>

--------------------------------------------------------------------------------
(* The platform's database, the replicas and the clock.                    *)

\* The session that holds the lock ends: under a running tick only where
\* MidTickLoss says so.
LoseSession(r) ==
  /\ phase[r] \in {"list", "walk"} => MidTickLoss
  /\ r \in lease
  /\ Fault
  /\ SessionEnds(r)
  /\ UNCHANGED <<clock, deployed, jobs, ticks>>

\* A session that outlived its lease ends: the pool closes a connection that
\* has reached its lifetime, the server one whose peer has gone.
SessionExpires(r) ==
  /\ r \notin lease
  /\ SessionEnds(r)
  /\ UNCHANGED <<clock, deployed, faults, jobs, ticks>>

Crash(r) ==
  /\ Fault
  /\ ReplicaDies(r)
  /\ Leave(r, Calm)
  /\ UNCHANGED <<clock, deployed, jobs>>

Tick ==
  /\ \A r \in Replicas : phase[r] = "walk" => elapsed[r] < SweepTimeout
  /\ clock' = (clock + 1) % Day
  /\ elapsed' = [r \in Replicas |-> IF phase[r] = "walk" THEN elapsed[r] + 1 ELSE 0]
  /\ quiet' = [r \in Replicas |-> [quiet[r] EXCEPT !.wait = Larger(@ - 1, 0)]]
  /\ registry' = [n \in Names |-> IF registry[n] = Missing THEN Missing
                                  ELSE [registry[n] EXCEPT !.left = Larger(@ - 1, 0)]]
  /\ latest' = [n \in Names |-> Larger(latest[n] - 1, -MinInterval)]
  /\ UNCHANGED <<leadership, deployed, faults, gap, phase, todo>>

--------------------------------------------------------------------------------
Init ==
  /\ LeadershipInit
  /\ clock \in 0..Day - 1
  /\ registry = NoRows
  /\ deployed = {}
  /\ phase = [r \in Replicas |-> "idle"]
  /\ todo = [r \in Replicas |-> NoRows]
  /\ elapsed = [r \in Replicas |-> 0]
  /\ quiet = [r \in Replicas |-> Calm]
  /\ faults = 0
  /\ latest = [n \in Names |-> -MinInterval]
  /\ gap = [n \in Names |-> MinInterval]

Deploys(f) == DeleteFunction(f) \/ DeployUncommitted(f) \/ \E bundle \in Bundles[f] : Deploy(f, bundle)

Elects(r) == BeginTick(r) \/ StillLeads(r) \/ StandDown(r) \/ TakeOver(r) \/ NotLeader(r)

Walks(r) ==
  \/ ListJobs(r) \/ EndTick(r) \/ SweepFails(r) \/ Deadline(r)
  \/ \E n \in Names : SkipJob(r, n) \/ EnqueueJob(r, n) \/ EnqueueFails(r, n)

Suffers(r) == TaskTick(r) \/ LoseSession(r) \/ SessionExpires(r) \/ Crash(r)

Next ==
  \/ \E f \in Functions : Deploys(f)
  \/ \E r \in Replicas : Elects(r) \/ Walks(r) \/ Suffers(r)
  \/ Tick

Spec == Init /\ [][Next]_vars

\* Every replica's ticker fires for ever and its tick goes on to its end or to
\* its deadline; connections have a lifetime; time passes.
FairSpec ==
  /\ Spec
  /\ \A r \in Replicas :
       WF_vars(Elects(r) \/ Walks(r)) /\ WF_vars(SessionExpires(r))
  /\ WF_vars(Tick)

--------------------------------------------------------------------------------
(* What is checked.                                                        *)

\* Every variable holds a value of its kind; no project is kept out of the
\* sweep for longer than the cap, however often it failed.
TypeOK ==
  /\ LeadershipTypeOK
  /\ clock \in 0..Day - 1
  /\ registry \in [Names -> Row \cup {Missing}]
  /\ deployed \subseteq Modules
  /\ phase \in [Replicas -> {"idle", "elect", "list", "walk"}]
  /\ todo \in [Replicas -> [Names -> Row \cup {Missing}]]
  /\ elapsed \in [Replicas -> 0..SweepTimeout]
  /\ quiet \in [Replicas -> [next : MinBackoff..MaxBackoff, wait : 0..MaxBackoff]]
  /\ faults \in 0..MaxFaults
  /\ latest \in [Names -> Int] /\ gap \in [Names -> Int]

\* No two replicas walk the registry at a time, though each asked for the
\* leadership only once, before its walk.
OneWalker ==
  \A q, r \in Replicas :
    phase[q] \in {"list", "walk"} /\ phase[r] \in {"list", "walk"} => q = r

\* The runs of a job are never due closer together than the platform's minimum,
\* across redeploys that change its schedule or its owner, failovers, lost
\* transactions and walks that are cut short: no slot is queued twice.
Cadence == \A n \in Names : gap[n] >= MinInterval

\* last_enqueued_at tells of the latest run that was queued: no transaction, no
\* redeploy and no walk from an old snapshot parts the two.
BookkeepingMatches ==
  \A n \in Left(registry) : registry[n].left = Larger(latest[n], 0)

\* Whether a schedule fires at the time of day c.
FiresAt(s, c) == CASE s.kind = "daily"  -> c % Day = s.at
                   [] s.kind = "hourly" -> c % Hour = s.at
                   [] s.kind = "cron"   -> c % s.at = 0

\* The schedules that name slots of the day.
Slotted ==
  [kind : {"daily"}, at : 0..Day - 1] \cup [kind : {"hourly"}, at : 0..Hour - 1]
    \cup [kind : {"cron"}, at : {k \in 1..Day : Day % k = 0}]

\* A schedule with slots is due at the next slot after now: never at one that
\* is now, never past one.
NextSlot ==
  \A s \in Slotted :
    LET d == NextDelay(s, clock) IN
      d > 0 /\ FiresAt(s, clock + d) /\ \A e \in 1..d - 1 : ~FiresAt(s, clock + e)

\* A job of a deployed function, among the first MaxJobs by name and on a
\* schedule that has a next run, has none ahead of it.
Owed(n) ==
  /\ registry[n] # Missing /\ HasNext(registry[n].schedule)
  /\ registry[n].module \in deployed /\ registry[n].left = 0
  /\ Cardinality({m \in Names : m < n /\ registry[m] # Missing}) < MaxJobs

\* A registered job goes on being queued: through failures of the database, of
\* the leader and of its session, beside jobs that never run and jobs beyond the
\* window, some replica comes round to it.  An interval that wraps to nothing is
\* not covered: a deploy takes it and no tick ever queues it.
KeepsRunning == \A n \in Names : Owed(n) ~> ~Owed(n)
================================================================================
