---------------------------- MODULE CronRegistryProofs ----------------------------
(***************************************************************************)
(* The cron registry, for any replicas, functions, jobs and schedules.     *)
(* Whoever walks, last_enqueued_at tells of the latest run queued and a    *)
(* schedule is due at its next slot.  While the lock's session outlives    *)
(* every tick, one replica walks at a time and no two runs of a job are    *)
(* due closer together than the platform's minimum.                        *)
(***************************************************************************)
EXTENDS CronRegistry, TLAPS

\* A replica that lists or walks holds the lock in its session.
Leads ==
  \A r \in Replicas : phase[r] \in {"list", "walk"} => r \in lease /\ owner = r

\* What a walk still has to do and would queue is due no later than the clock the
\* walk read: the latest run of the job lay in the past then.
Fresh ==
  \A r \in Replicas, n \in Names :
    /\ phase[r] = "walk" /\ todo[r][n] # Missing /\ todo[r][n].left = 0
    => latest[n] <= -elapsed[r]

\* What holds whoever walks, and what a walk alone adds to it.
Books == TypeOK /\ BookkeepingMatches
Alone == Leads /\ Fresh /\ Cadence

CInv == Books /\ Alone

--------------------------------------------------------------------------------
(* Schedules.                                                              *)

\* A remainder is a natural number below the divisor.
LEMMA Remainder ==
  ASSUME NEW a \in Int, NEW b \in Nat \ {0}
  PROVE  a % b \in 0..b - 1
  BY SMT

\* What is left of a multiple and a bit is the bit.
LEMMA RemainderOf ==
  ASSUME NEW b \in Nat \ {0}, NEW q \in Nat, NEW r \in 0..b - 1
  PROVE  (b * q + r) % b = r
  BY SMT

\* Going e further moves the remainder by e, and past a multiple back to its
\* start.
LEMMA RemainderMoves ==
  ASSUME NEW b \in Nat \ {0}, NEW a \in Nat, NEW e \in Nat, (a % b) + e < 2 * b
  PROVE  (a + e) % b = IF (a % b) + e < b THEN (a % b) + e ELSE (a % b) + e - b
  <1> DEFINE q == a \div b
             r == a % b
  <1>1. q \in Nat /\ r = a - b * q
    BY SMT
  <1>2. r \in 0..b - 1
    BY Remainder
  <1> HIDE DEF q, r
  <1>3. b * q \in Nat /\ b * (q + 1) = b * q + b
    BY <1>1
  <1>4. CASE r + e < b
    <2>1. a + e = b * q + (r + e) /\ r + e \in 0..b - 1
      BY <1>1, <1>2, <1>3, <1>4
    <2>2. (a + e) % b = r + e
      BY <1>1, <2>1, RemainderOf
    <2> QED BY <1>4, <2>2 DEF r
  <1>5. CASE r + e >= b
    <2>1. a + e = b * (q + 1) + (r + e - b) /\ r + e - b \in 0..b - 1
      BY <1>1, <1>2, <1>3, <1>5 DEF r
    <2>2. q + 1 \in Nat
      BY <1>1
    <2>3. (b * (q + 1) + (r + e - b)) % b = r + e - b
      BY <2>1, <2>2, RemainderOf
    <2> QED BY <1>2, <1>5, <2>1, <2>3 DEF r
  <1> QED BY <1>2, <1>4, <1>5

\* How long from c until the remainder is t again.
Until(c, b, t) == IF t > (c % b) THEN t - (c % b) ELSE t - (c % b) + b

\* It is, then and not before.
LEMMA UntilIs ==
  ASSUME NEW b \in Nat \ {0}, NEW c \in Nat, NEW t \in 0..b - 1
  PROVE  /\ Until(c, b, t) \in Nat \ {0}
         /\ (c + Until(c, b, t)) % b = t
         /\ \A e \in 1..Until(c, b, t) - 1 : (c + e) % b # t
  <1> DEFINE m == c % b
             d == Until(c, b, t)
  <1>1. m \in 0..b - 1
    BY Remainder
  <1>2. d = IF t > m THEN t - m ELSE t - m + b
    BY DEF Until
  <1>3. ASSUME NEW e \in Nat, m + e < 2 * b
        PROVE  (c + e) % b = IF m + e < b THEN m + e ELSE m + e - b
    BY <1>3, RemainderMoves
  <1> HIDE DEF m, d
  <1>4. d \in Nat \ {0} /\ m + d < 2 * b /\ (m + d = t \/ m + d = t + b)
    BY <1>1, <1>2
  <1>5. (c + d) % b = t
    <2>1. (c + d) % b = IF m + d < b THEN m + d ELSE m + d - b
      BY <1>3, <1>4
    <2>2. m + d = t => m + d < b
      OBVIOUS
    <2>3. m + d = t + b => ~(m + d < b) /\ m + d - b = t
      BY <1>1, <1>4
    <2> QED BY <1>4, <2>1, <2>2, <2>3
  <1>6. ASSUME NEW e \in 1..d - 1 PROVE (c + e) % b # t
    <2>1. e \in Nat /\ m + e < 2 * b
      BY <1>1, <1>4
    <2>2. (c + e) % b = IF m + e < b THEN m + e ELSE m + e - b
      BY <1>3, <2>1
    <2>3. m + e # t /\ m + e # t + b
      BY <1>1, <1>2
    <2> QED BY <1>1, <2>1, <2>2, <2>3
  <1> QED BY <1>4, <1>5, <1>6 DEF d

\* Every schedule with slots is due at its next slot.
LEMMA SlotOf ==
  ASSUME NEW s \in Slotted, NEW c \in 0..Day - 1
  PROVE  LET d == NextDelay(s, c) IN
           d > 0 /\ FiresAt(s, c + d) /\ \A e \in 1..d - 1 : ~FiresAt(s, c + e)
  <1>1. Day \in Nat \ {0} /\ Hour \in Nat \ {0} /\ c \in Nat
    BY TimeAssumption
  <1>2. ASSUME NEW b \in Nat \ {0}, NEW t \in 0..b - 1, NextDelay(s, c) = Until(c, b, t),
               \A x \in Nat : FiresAt(s, x) <=> x % b = t
        PROVE  LET d == NextDelay(s, c) IN
                 d > 0 /\ FiresAt(s, c + d) /\ \A e \in 1..d - 1 : ~FiresAt(s, c + e)
    <2> DEFINE d == NextDelay(s, c)
    <2>1. /\ d \in Nat \ {0} /\ (c + d) % b = t
          /\ \A e \in 1..d - 1 : (c + e) % b # t
      BY <1>1, <1>2, UntilIs
    <2> HIDE DEF d
    <2>2. d > 0 /\ FiresAt(s, c + d)
      BY <1>1, <1>2, <2>1
    <2>3. ASSUME NEW e \in 1..d - 1 PROVE ~FiresAt(s, c + e)
      <3>1. c + e \in Nat
        BY <1>1, <2>1
      <3>2. FiresAt(s, c + e) <=> (c + e) % b = t
        BY <1>2, <3>1
      <3> QED BY <2>1, <3>2
    <2> QED BY <2>2, <2>3 DEF d
  <1>3. CASE s \in [kind : {"daily"}, at : 0..Day - 1]
    <2>1. s.kind = "daily" /\ s.at \in 0..Day - 1
      BY <1>3
    <2>2. c % Day = c
      BY <1>1, SMT
    <2>3. NextDelay(s, c) = Until(c, Day, s.at)
      BY <2>1, <2>2 DEF NextDelay, NextDailyUTC, Until
    <2>4. \A x \in Nat : FiresAt(s, x) <=> x % Day = s.at
      BY <2>1 DEF FiresAt
    <2> QED BY <1>1, <1>2, <2>1, <2>3, <2>4
  <1>4. CASE s \in [kind : {"hourly"}, at : 0..Hour - 1]
    <2>1. s.kind = "hourly" /\ s.at \in 0..Hour - 1
      BY <1>4
    <2>2. NextDelay(s, c) = Until(c, Hour, s.at)
      BY <2>1 DEF NextDelay, NextHourlyUTC, Until
    <2>3. \A x \in Nat : FiresAt(s, x) <=> x % Hour = s.at
      BY <2>1 DEF FiresAt
    <2> QED BY <1>1, <1>2, <2>1, <2>2, <2>3
  <1>5. CASE s \in [kind : {"cron"}, at : {k \in 1..Day : Day % k = 0}]
    <2>1. s.kind = "cron" /\ s.at \in Nat \ {0} /\ 0 \in 0..s.at - 1
      BY <1>1, <1>5
    <2>2. NextDelay(s, c) = s.at - (c % s.at)
      BY <2>1 DEF NextDelay
    <2>3. Until(c, s.at, 0) = s.at - (c % s.at)
      <3>1. c % s.at \in 0..s.at - 1
        BY <1>1, <2>1, Remainder
      <3> QED BY <2>1, <3>1 DEF Until
    <2>4. \A x \in Nat : FiresAt(s, x) <=> x % s.at = 0
      BY <2>1 DEF FiresAt
    <2> QED BY <1>2, <2>1, <2>2, <2>3, <2>4
  <1> QED BY <1>3, <1>4, <1>5 DEF Slotted

\* A schedule a deploy accepts has a next run in whole units of time, if any.
LEMMA DelayKind ==
  ASSUME NEW s \in {t \in Schedules : ValidSchedule(t)}, NEW c \in 0..Day - 1
  PROVE  NextDelay(s, c) \in Int
  <1> USE TimeAssumption, ScheduleAssumption
  <1>1. s.kind \in {"interval", "daily", "hourly", "cron"} /\ s.at \in Nat
    OBVIOUS
  <1>2. CASE s.kind = "interval"
    BY <1>1, <1>2, Remainder DEF NextDelay, Duration
  <1>3. CASE s.kind = "daily"
    BY <1>1, <1>3 DEF NextDelay, NextDailyUTC
  <1>4. CASE s.kind = "hourly"
    BY <1>1, <1>4, Remainder DEF NextDelay, NextHourlyUTC
  <1>5. CASE s.kind = "cron"
    <2>1. CASE s.at = 0
      BY <1>5, <2>1 DEF NextDelay
    <2>2. CASE s.at # 0
      <3>1. s.at \in Nat \ {0} /\ c \in Int BY <1>1, <2>2
      <3>2. c % s.at \in 0..s.at - 1 BY <3>1, Remainder
      <3> QED BY <1>1, <1>5, <2>2, <3>2 DEF NextDelay
    <2> QED BY <2>1, <2>2
  <1> QED BY <1>1, <1>2, <1>3, <1>4, <1>5

\* What is queued is never closer than the platform's minimum.
LEMMA EnqueueKind ==
  ASSUME NEW s \in {t \in Schedules : ValidSchedule(t)}, NEW c \in 0..Day - 1
  PROVE  NextEnqueue(s, c) \in Nat /\ NextEnqueue(s, c) >= MinInterval
  BY TimeAssumption, DelayKind DEF NextEnqueue, Larger

--------------------------------------------------------------------------------
(* The invariant.                                                          *)

LEMMA InitC == Init => CInv
  BY TimeAssumption, NoneAssumption
  DEF Init, CInv, Books, Alone, TypeOK, LeadershipInit, LeadershipTypeOK, NoRows, Calm, Leads,
      Fresh, BookkeepingMatches, Cadence, Left

\* A deploy, or the deletion of a function, touches no tick.
LEMMA DeployC ==
  ASSUME Books, NEW f \in Functions, Deploys(f)
  PROVE  Books' /\ (Alone => Alone')
  <1> USE TimeAssumption, NameAssumption
  <1>1. CASE DeleteFunction(f)
    BY <1>1 DEF Books, Alone, DeleteFunction, leadership, jobs, ticks, TypeOK, LeadershipTypeOK,
                Leads, BookkeepingMatches, Left, Fresh, Cadence
  <1>2. CASE \E bundle \in Bundles[f] : Deploy(f, bundle)
    <2> PICK bundle \in Bundles[f] : Deploy(f, bundle) BY <1>2
    <2> USE DEF Deploy, Accepted, leadership, ticks
    <2>1. \A n \in DOMAIN bundle : /\ n \in Names
                                   /\ bundle[n] \in [module : Modules, schedule : Schedules]
      <3> PICK N \in SUBSET Names : bundle \in [N -> [module : Modules, schedule : Schedules]]
        BY BundleAssumption
      <3> QED OBVIOUS
    <2>2. \A n \in Names : registry'[n] =
            IF n \in DOMAIN bundle THEN Upsert(f, n, bundle[n])
            ELSE IF registry[n] # Missing /\ registry[n].owner = f THEN Missing
            ELSE registry[n]
      BY DEF Synced
    <2>3. \A n \in DOMAIN bundle : Upsert(f, n, bundle[n]) \in Row
      BY <2>1 DEF Books, TypeOK, Upsert, Row
    <2>4. TypeOK'
      <3>1. registry' \in [Names -> Row \cup {Missing}]
        BY <2>2, <2>3 DEF Books, TypeOK, Synced
      <3> QED BY <3>1 DEF Books, TypeOK, LeadershipTypeOK
    <2>5. BookkeepingMatches'
      <3> SUFFICES ASSUME NEW n \in Names, registry'[n] # Missing
                   PROVE  registry'[n].left = Larger(latest'[n], 0)
        BY DEF BookkeepingMatches, Left
      <3>a. latest'[n] = IF n \in DOMAIN bundle /\ registry[n] = Missing THEN -MinInterval
                         ELSE latest[n]
        OBVIOUS
      <3>b. n \in DOMAIN bundle => registry'[n].left =
              IF registry[n] = Missing THEN 0 ELSE registry[n].left
        <4> HIDE DEF Deploy
        <4>1. n \in DOMAIN bundle => registry'[n] = Upsert(f, n, bundle[n]) BY <2>2
        <4>2. Upsert(f, n, bundle[n]).left = IF registry[n] = Missing THEN 0 ELSE registry[n].left
          BY DEF Upsert
        <4> QED BY <4>1, <4>2
      <3> HIDE DEF Deploy
      <3>1. CASE n \in DOMAIN bundle /\ registry[n] = Missing
        BY <3>a, <3>b, <3>1 DEF Larger
      <3>2. CASE n \in DOMAIN bundle /\ registry[n] # Missing
        BY <3>a, <3>b, <3>2 DEF Books, BookkeepingMatches, Left
      <3>3. CASE n \notin DOMAIN bundle
        BY <2>2, <3>a, <3>3 DEF Books, BookkeepingMatches, Left
      <3> QED BY <3>1, <3>2, <3>3
    <2>6. Leads => Leads' BY DEF Leads
    <2>7. Fresh => Fresh'
      <3>1. UNCHANGED <<phase, todo, elapsed>> OBVIOUS
      <3>2. \A n \in Names : latest'[n] \in {latest[n], -MinInterval}
        BY DEF Books, TypeOK
      <3>3. \A r \in Replicas : elapsed[r] \in Int /\ elapsed[r] <= MinInterval
        BY DEF Books, TypeOK
      <3> HIDE DEF Deploy
      <3> QED BY <3>1, <3>2, <3>3 DEF Fresh
    <2>8. Cadence => Cadence' BY DEF Cadence
    <2> QED BY <2>4, <2>5, <2>6, <2>7, <2>8 DEF Books, Alone
  <1>3. CASE DeployUncommitted(f)
    <2> USE DEF DeployUncommitted, leadership, jobs, ticks, Fault
    <2>1. Books => TypeOK' BY <1>3 DEF Books, TypeOK, LeadershipTypeOK
    <2> QED BY <1>3, <2>1 DEF Books, Alone, Leads, BookkeepingMatches, Left, Fresh, Cadence
  <1> QED BY <1>1, <1>2, <1>3 DEF Deploys

\* A step of the election leaves the walks of others alone.
LEMMA ElectC ==
  ASSUME Books, NEW r \in Replicas, Elects(r)
  PROVE  Books' /\ (Alone => Alone')
  <1> USE TimeAssumption, NoneAssumption
  <1> USE DEF Books, Alone, leadership, jobs, ticks, GoTo, Fault
  <1>1. CASE BeginTick(r)
    BY <1>1 DEF BeginTick, TypeOK, LeadershipTypeOK, Leads, BookkeepingMatches, Left, Fresh, Cadence
  <1>2. CASE StillLeads(r)
    BY <1>2 DEF StillLeads, Lead, Valid, TypeOK, LeadershipTypeOK, Leads, BookkeepingMatches,
                Left, Fresh, Cadence
  <1>3. CASE StandDown(r)
    <2>1. TypeOK' BY <1>3 DEF StandDown, Release, TypeOK, LeadershipTypeOK
    <2>2. Leads => Leads' BY <1>3 DEF StandDown, Release, Leads, TypeOK
    <2> QED BY <1>3, <2>1, <2>2 DEF StandDown, BookkeepingMatches, Left, Fresh, Cadence
  <1>4. CASE TakeOver(r)
    <2>1. TypeOK' BY <1>4 DEF TakeOver, Acquire, Lead, TypeOK, LeadershipTypeOK
    <2>2. Leads => Leads' BY <1>4 DEF TakeOver, Acquire, Lead, Leads, TypeOK, LeadershipTypeOK
    <2> QED BY <1>4, <2>1, <2>2
            DEF TakeOver, Lead, BookkeepingMatches, Left, Fresh, Cadence, TypeOK
  <1>5. CASE NotLeader(r)
    BY <1>5 DEF NotLeader, TypeOK, LeadershipTypeOK, Leads, BookkeepingMatches, Left, Fresh, Cadence
  <1> QED BY <1>1, <1>2, <1>3, <1>4, <1>5 DEF Elects

\* Leaving the walk keeps the invariant, whatever is remembered of it.
LEMMA LeaveC ==
  ASSUME Books, NEW r \in Replicas, NEW memory \in [next : MinBackoff..MaxBackoff, wait : 0..MaxBackoff],
         Leave(r, memory), UNCHANGED <<clock, deployed, jobs>>, faults' \in 0..MaxFaults,
         LeadershipTypeOK',
         \A q \in Replicas \ {r} : Valid(q) => Valid(q)'
  PROVE  Books' /\ (Alone => Alone')
  <1> USE DEF Books, Alone, Leave, GoTo, jobs
  <1>1. TypeOK'
    BY TimeAssumption DEF TypeOK, NoRows
  <1>2. Leads => Leads' BY DEF Leads, TypeOK, Valid
  <1>3. Fresh => Fresh' BY DEF Fresh, TypeOK, NoRows
  <1> QED BY <1>1, <1>2, <1>3 DEF BookkeepingMatches, Left, Cadence

\* The memory of a failure is a memory.
LEMMA BackOffKind ==
  ASSUME TypeOK, NEW r \in Replicas
  PROVE  /\ Calm \in [next : MinBackoff..MaxBackoff, wait : 0..MaxBackoff]
         /\ BackOff(quiet[r]) \in [next : MinBackoff..MaxBackoff, wait : 0..MaxBackoff]
  <1>1. quiet[r].next \in MinBackoff..MaxBackoff BY DEF TypeOK
  <1>2. Smaller(2 * quiet[r].next, MaxBackoff) \in MinBackoff..MaxBackoff
    BY <1>1, TimeAssumption DEF Smaller
  <1> QED BY <1>1, <1>2, TimeAssumption DEF Calm, BackOff

\* The ends of a walk.
LEMMA EndC ==
  ASSUME Books, NEW r \in Replicas, EndTick(r) \/ SweepFails(r) \/ Deadline(r)
  PROVE  Books' /\ (Alone => Alone')
  <1> USE DEF Books
  <1>1. TypeOK OBVIOUS
  <1>2. UNCHANGED leadership BY DEF EndTick, SweepFails, Deadline
  <1>3. LeadershipTypeOK' BY <1>1, <1>2 DEF TypeOK, LeadershipTypeOK, leadership
  <1>4. \A q \in Replicas \ {r} : Valid(q) => Valid(q)' BY <1>2 DEF Valid, leadership
  <1>5. faults' \in 0..MaxFaults
    BY TimeAssumption DEF EndTick, SweepFails, Deadline, Fault, TypeOK
  <1>6. PICK memory \in [next : MinBackoff..MaxBackoff, wait : 0..MaxBackoff] :
          Leave(r, memory) /\ UNCHANGED <<clock, deployed, jobs>>
    BY BackOffKind DEF EndTick, SweepFails, Deadline
  <1> QED BY <1>3, <1>4, <1>5, <1>6, LeaveC

\* Only one replica walks.
LEMMA WalksAlone ==
  ASSUME Leads PROVE OneWalker
  BY NoneAssumption DEF Leads, OneWalker

\* The listing reads the registry as it is, and starts the walk's clock.
LEMMA ListC ==
  ASSUME Books, NEW r \in Replicas, ListJobs(r)
  PROVE  Books' /\ (Alone => Alone')
  <1> USE TimeAssumption
  <1> USE DEF Books, Alone, ListJobs, leadership, jobs, GoTo
  <1>1. TypeOK' BY DEF TypeOK, LeadershipTypeOK, Window, Left
  <1>2. Leads => Leads' BY DEF Leads, TypeOK
  <1>3. Fresh => Fresh'
    <2> SUFFICES ASSUME Fresh, NEW q \in Replicas, NEW n \in Names, phase'[q] = "walk",
                        todo'[q][n] # Missing, todo'[q][n].left = 0
                 PROVE  latest'[n] <= -elapsed'[q]
      BY DEF Fresh
    <2>1. CASE q # r BY <2>1 DEF Fresh, TypeOK
    <2>2. CASE q = r
      <3>1. registry[n] # Missing /\ registry[n].left = 0 /\ elapsed'[q] = 0
        BY <2>2 DEF TypeOK
      <3>2. Larger(latest[n], 0) = 0 BY <3>1 DEF BookkeepingMatches, Left
      <3>3. latest[n] <= 0 BY <3>2 DEF Larger, TypeOK
      <3> QED BY <3>1, <3>3 DEF TypeOK
    <2> QED BY <2>1, <2>2
  <1> QED BY <1>1, <1>2, <1>3 DEF BookkeepingMatches, Left, Cadence

\* A row the walk passes over.
LEMMA PassC ==
  ASSUME Books, NEW r \in Replicas, NEW n \in Names, SkipJob(r, n) \/ EnqueueFails(r, n)
  PROVE  Books' /\ (Alone => Alone')
  <1> USE TimeAssumption
  <1>1. TypeOK /\ BookkeepingMatches BY DEF Books
  <1>2. /\ todo' = [todo EXCEPT ![r][n] = Missing]
        /\ UNCHANGED <<owner, lease, clock, deployed, phase, elapsed, quiet>>
        /\ UNCHANGED <<registry, latest, gap>>
    BY DEF SkipJob, EnqueueFails, Passed, leadership, jobs
  <1>3. faults' \in 0..MaxFaults
    <2>1. faults' = faults \/ Fault BY DEF SkipJob, EnqueueFails
    <2> QED BY <1>1, <2>1 DEF Fault, TypeOK
  <1>4. TypeOK'
    <2>1. todo' \in [Replicas -> [Names -> Row \cup {Missing}]]
      BY <1>1, <1>2 DEF TypeOK
    <2> QED BY <1>1, <1>2, <1>3, <2>1 DEF TypeOK, LeadershipTypeOK
  <1>5. Leads => Leads' BY <1>2 DEF Leads
  <1>6. Fresh => Fresh'
    <2>1. \A q \in Replicas, m \in Names :
            todo'[q][m] = todo[q][m] \/ todo'[q][m] = Missing
      BY <1>1, <1>2 DEF TypeOK
    <2> QED BY <1>1, <1>2, <2>1 DEF Fresh
  <1> QED BY <1>1, <1>2, <1>4, <1>5, <1>6 DEF Books, Alone, BookkeepingMatches, Left, Cadence

\* A run is queued: it is the latest, the row says so, and it is due long enough
\* after the one before.
LEMMA EnqueueC ==
  ASSUME Books, NEW r \in Replicas, NEW n \in Names, EnqueueJob(r, n)
  PROVE  Books' /\ (Alone => Alone')
  <1> USE TimeAssumption
  <1> DEFINE due == NextEnqueue(todo[r][n].schedule, ReadAt(r)) - elapsed[r]
  <1>1. TypeOK /\ BookkeepingMatches BY DEF Books
  <1>2. phase[r] = "walk" /\ todo[r][n] # Missing /\ todo[r][n].left = 0
    BY DEF EnqueueJob, At, Admissible, Left
  <1>3. todo[r][n].schedule \in {t \in Schedules : ValidSchedule(t)}
    BY <1>1, <1>2 DEF TypeOK, Row
  <1>4. ReadAt(r) \in 0..Day - 1
    <2>1. clock + Day - elapsed[r] \in Int /\ Day \in Nat \ {0} BY <1>1 DEF TypeOK
    <2> QED BY <2>1, Remainder DEF ReadAt
  <1>5. due \in Nat /\ due >= MinInterval - elapsed[r]
    BY <1>1, <1>3, <1>4, EnqueueKind DEF TypeOK
  <1>6. /\ registry' = Bumped(n, due)
        /\ latest' = [latest EXCEPT ![n] = due]
        /\ gap' = [gap EXCEPT ![n] = Smaller(due - latest[n], MinInterval)]
        /\ todo' = [todo EXCEPT ![r][n] = Missing]
        /\ UNCHANGED <<owner, lease, clock, deployed, phase, elapsed, quiet, faults>>
    BY DEF EnqueueJob, Passed, leadership
  <1> HIDE DEF due
  <1>7. TypeOK'
    <2>1. registry' \in [Names -> Row \cup {Missing}]
      <3>1. CASE registry[n] = Missing BY <1>1, <1>6, <3>1 DEF TypeOK, Bumped
      <3>2. CASE registry[n] # Missing
        <4>1. registry[n] \in Row BY <1>1, <3>2 DEF TypeOK
        <4>2. [registry[n] EXCEPT !.left = due] \in Row BY <1>5, <4>1 DEF Row
        <4>3. registry' = [registry EXCEPT ![n] = [registry[n] EXCEPT !.left = due]]
          BY <1>6, <3>2 DEF Bumped
        <4> QED BY <1>1, <4>2, <4>3 DEF TypeOK
      <3> QED BY <3>1, <3>2
    <2>2. latest' \in [Names -> Int] /\ gap' \in [Names -> Int]
      BY <1>1, <1>5, <1>6 DEF TypeOK, Smaller
    <2>3. todo' \in [Replicas -> [Names -> Row \cup {Missing}]]
      BY <1>1, <1>6 DEF TypeOK
    <2> QED BY <1>1, <1>6, <2>1, <2>2, <2>3 DEF TypeOK, LeadershipTypeOK
  <1>8. Leads => Leads' BY <1>6 DEF Leads
  <1>9. BookkeepingMatches'
    <2> SUFFICES ASSUME NEW m \in Names, registry'[m] # Missing
                 PROVE  registry'[m].left = Larger(latest'[m], 0)
      BY DEF BookkeepingMatches, Left
    <2>1. CASE m # n
      BY <1>1, <1>6, <2>1 DEF BookkeepingMatches, Left, Bumped, TypeOK
    <2>2. CASE m = n
      BY <1>1, <1>5, <1>6, <2>2 DEF Bumped, Larger, TypeOK
    <2> QED BY <2>1, <2>2
  <1>10. Alone => Fresh'
    <2> SUFFICES ASSUME Leads, Fresh, NEW q \in Replicas, NEW m \in Names, phase'[q] = "walk",
                        todo'[q][m] # Missing, todo'[q][m].left = 0
                 PROVE  latest'[m] <= -elapsed'[q]
      BY DEF Alone, Fresh
    <2>1. q = r BY <1>2, <1>6, WalksAlone DEF OneWalker
    <2>2. m # n BY <1>1, <1>6, <2>1 DEF TypeOK
    <2> QED BY <1>1, <1>6, <2>1, <2>2 DEF Fresh, TypeOK
  <1>11. Alone => Cadence'
    <2> SUFFICES ASSUME Fresh, Cadence PROVE Cadence'
      BY DEF Alone
    <2>1. latest[n] <= -elapsed[r] BY <1>1, <1>2 DEF Fresh
    <2>2. Smaller(due - latest[n], MinInterval) >= MinInterval
      BY <1>1, <1>5, <2>1 DEF Smaller, TypeOK
    <2> QED BY <1>1, <1>6, <2>2 DEF Cadence, TypeOK
  <1> QED BY <1>7, <1>8, <1>9, <1>10, <1>11 DEF Books, Alone

\* What befalls a replica; no session ends under its tick.
LEMMA SufferC ==
  ASSUME Books, NEW r \in Replicas, Suffers(r)
  PROVE  Books' /\ (~MidTickLoss /\ Alone => Alone')
  <1> USE TimeAssumption, NoneAssumption
  <1>1. CASE TaskTick(r)
    <2> USE DEF Books, Alone, leadership, jobs
    <2>1. TypeOK'
      <3>1. faults' \in 0..MaxFaults
        <4>1. faults' = faults \/ Fault BY <1>1 DEF TaskTick
        <4> QED BY <4>1 DEF Fault, TypeOK
      <3>2. quiet' \in [Replicas -> [next : MinBackoff..MaxBackoff, wait : 0..MaxBackoff]]
        <4>1. PICK m \in [next : MinBackoff..MaxBackoff, wait : 0..MaxBackoff] :
                quiet' = [quiet EXCEPT ![r] = m]
          BY <1>1, BackOffKind DEF TaskTick
        <4> QED BY <4>1 DEF TypeOK
      <3> QED BY <1>1, <3>1, <3>2 DEF TaskTick, TypeOK, LeadershipTypeOK
    <2>2. BookkeepingMatches' /\ (Leads => Leads') /\ (Fresh => Fresh') /\ (Cadence => Cadence')
      BY <1>1 DEF TaskTick, Leads, Fresh, BookkeepingMatches, Left, Cadence
    <2> QED BY <2>1, <2>2
  <1>2. CASE LoseSession(r)
    <2> USE DEF Books, Alone, jobs, ticks
    <2>1. TypeOK' BY <1>2 DEF LoseSession, SessionEnds, TypeOK, LeadershipTypeOK, Fault
    <2>2. ~MidTickLoss /\ Leads => Leads' BY <1>2 DEF LoseSession, SessionEnds, Leads, TypeOK
    <2> QED BY <1>2, <2>1, <2>2 DEF LoseSession, Fresh, BookkeepingMatches, Left, Cadence
  <1>3. CASE SessionExpires(r)
    <2> USE DEF Books, Alone, jobs, ticks
    <2>1. TypeOK' BY <1>3 DEF SessionExpires, SessionEnds, TypeOK, LeadershipTypeOK
    <2>2. Leads => Leads' BY <1>3 DEF SessionExpires, SessionEnds, Leads, TypeOK
    <2> QED BY <1>3, <2>1, <2>2 DEF SessionExpires, Fresh, BookkeepingMatches, Left, Cadence
  <1>4. CASE Crash(r)
    <2>1. LeadershipTypeOK'
      BY <1>4 DEF Crash, ReplicaDies, Books, TypeOK, LeadershipTypeOK
    <2>2. \A q \in Replicas \ {r} : Valid(q) => Valid(q)'
      BY <1>4 DEF Crash, ReplicaDies, Valid
    <2>3. faults' \in 0..MaxFaults BY <1>4 DEF Crash, Fault, Books, TypeOK
    <2>4. Leave(r, Calm) /\ UNCHANGED <<clock, deployed, jobs>> BY <1>4 DEF Crash
    <2>5. Calm \in [next : MinBackoff..MaxBackoff, wait : 0..MaxBackoff]
      BY BackOffKind DEF Books
    <2> QED BY <2>1, <2>2, <2>3, <2>4, <2>5, LeaveC
  <1> QED BY <1>1, <1>2, <1>3, <1>4 DEF Suffers

\* Time passes for rows, runs and walks alike.
LEMMA TickC ==
  ASSUME Books, Tick
  PROVE  Books' /\ (Alone => Alone')
  <1> USE TimeAssumption
  <1> USE DEF Tick, leadership
  <1>1. TypeOK /\ BookkeepingMatches BY DEF Books
  <1>2. TypeOK'
    <2>1. clock' \in 0..Day - 1 BY <1>1, Remainder DEF TypeOK
    <2>2. registry' \in [Names -> Row \cup {Missing}]
      <3>1. \A n \in Names : registry'[n] \in Row \cup {Missing}
        <4> SUFFICES ASSUME NEW n \in Names, registry[n] # Missing
                     PROVE  [registry[n] EXCEPT !.left = Larger(@ - 1, 0)] \in Row
          OBVIOUS
        <4>1. registry[n] \in Row BY <1>1 DEF TypeOK
        <4>2. Larger(registry[n].left - 1, 0) \in Nat BY <4>1 DEF Row, Larger
        <4> QED BY <4>1, <4>2 DEF Row
      <3> QED BY <3>1
    <2>3. quiet' \in [Replicas -> [next : MinBackoff..MaxBackoff, wait : 0..MaxBackoff]]
      <3> SUFFICES ASSUME NEW r \in Replicas
                   PROVE  [quiet[r] EXCEPT !.wait = Larger(@ - 1, 0)]
                            \in [next : MinBackoff..MaxBackoff, wait : 0..MaxBackoff]
        OBVIOUS
      <3>1. quiet[r] \in [next : MinBackoff..MaxBackoff, wait : 0..MaxBackoff]
        BY <1>1 DEF TypeOK
      <3>2. Larger(quiet[r].wait - 1, 0) \in 0..MaxBackoff BY <3>1 DEF Larger
      <3> QED BY <3>1, <3>2
    <2>4. latest' \in [Names -> Int] BY <1>1 DEF TypeOK, Larger
    <2>5. elapsed' \in [Replicas -> 0..SweepTimeout] BY <1>1 DEF TypeOK
    <2> QED BY <1>1, <2>1, <2>2, <2>3, <2>4, <2>5 DEF TypeOK, LeadershipTypeOK
  <1>3. Leads => Leads' BY DEF Leads
  <1>4. BookkeepingMatches'
    <2> SUFFICES ASSUME NEW n \in Names, registry'[n] # Missing
                 PROVE  registry'[n].left = Larger(latest'[n], 0)
      BY DEF BookkeepingMatches, Left
    <2>1. registry[n] # Missing /\ registry'[n].left = Larger(registry[n].left - 1, 0)
      BY <1>1 DEF TypeOK, Row
    <2>2. registry[n].left = Larger(latest[n], 0)
      BY <1>1, <2>1 DEF BookkeepingMatches, Left
    <2> QED BY <1>1, <2>1, <2>2 DEF Larger, TypeOK
  <1>5. Fresh => Fresh' BY <1>1 DEF Fresh, TypeOK, Larger
  <1>6. Cadence => Cadence' BY DEF Cadence
  <1> QED BY <1>2, <1>3, <1>4, <1>5, <1>6 DEF Books, Alone

\* Every step keeps the invariant.
LEMMA StepC ==
  ASSUME Books, [Next]_vars
  PROVE  Books' /\ (~MidTickLoss /\ Alone => Alone')
  <1>1. CASE UNCHANGED vars
    BY <1>1 DEF Books, Alone, vars, leadership, jobs, ticks, TypeOK, LeadershipTypeOK, Leads,
                BookkeepingMatches, Left, Fresh, Cadence
  <1>2. ASSUME NEW r \in Replicas, Walks(r) PROVE Books' /\ (Alone => Alone')
    BY <1>2, ListC, PassC, EnqueueC, EndC DEF Walks
  <1> QED BY <1>1, <1>2, DeployC, ElectC, SufferC, TickC DEF Next

\* The registry and the runs agree, whoever walks.
LEMMA AlwaysBooks == Spec => []Books
  <1>1. Init => Books BY InitC DEF CInv
  <1>2. Books /\ [Next]_vars => Books' BY StepC
  <1> QED BY <1>1, <1>2, PTL DEF Spec

\* While the session that holds the lock outlives every tick, the whole
\* invariant holds of the cron registry.
LEMMA Always == ASSUME ~MidTickLoss PROVE Spec => []CInv
  <1>1. Init => CInv BY InitC
  <1>2. CInv /\ [Next]_vars => CInv' BY StepC DEF CInv
  <1> QED BY <1>1, <1>2, PTL DEF Spec

\* The variables keep their kinds, and no project is kept out of the sweep for
\* longer than the backoff's cap, whether or not a leader loses its session
\* under a tick.
THEOREM TypeCorrect == Spec => []TypeOK
  <1>1. Books => TypeOK BY DEF Books
  <1> QED BY <1>1, AlwaysBooks, PTL

\* One replica at a time walks the registry.
THEOREM OneWalkerHolds == ASSUME ~MidTickLoss PROVE Spec => []OneWalker
  <1>1. CInv => OneWalker BY WalksAlone DEF CInv, Alone
  <1> QED BY <1>1, Always, PTL

\* No two runs of a job are due closer together than the platform's minimum.
THEOREM CadenceHolds == ASSUME ~MidTickLoss PROVE Spec => []Cadence
  <1>1. CInv => Cadence BY DEF CInv, Alone
  <1> QED BY <1>1, Always, PTL

\* last_enqueued_at tells of the latest run queued, even while two replicas walk
\* the registry because a leader lost its session and did not notice.
THEOREM BookkeepingHolds == Spec => []BookkeepingMatches
  <1>1. Books => BookkeepingMatches BY DEF Books
  <1> QED BY <1>1, AlwaysBooks, PTL

\* A daily, hourly or cron schedule is due at the next of its slots after now:
\* never at one that is now, which would run it twice, and never past one, for
\* any length of the day and of the hour and at any time of day.
THEOREM NextSlotHolds == Spec => []NextSlot
  <1>1. TypeOK => NextSlot
    <2> SUFFICES ASSUME clock \in 0..Day - 1, NEW s \in Slotted
                 PROVE  LET d == NextDelay(s, clock) IN
                          /\ d > 0 /\ FiresAt(s, clock + d)
                          /\ \A e \in 1..d - 1 : ~FiresAt(s, clock + e)
      BY DEF TypeOK, NextSlot
    <2> QED BY SlotOf
  <1> QED BY <1>1, TypeCorrect, PTL
================================================================================
