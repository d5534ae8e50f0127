-------------------------------- MODULE BuildQueue --------------------------------
(***************************************************************************)
(* The queue of git builds (site_builds) and the dispatchers that run it.  *)
(*                                                                         *)
(* A webhook or a member asks for a build of a branch's head; Enqueue      *)
(* writes it and supersedes what its scope had waiting. Every replica      *)
(* claims queued builds, runs each under a lease it keeps extending,       *)
(* deploys the output and records the outcome. A build whose replica went  *)
(* away is failed by another one; a stopping replica hands its builds      *)
(* back; a disconnect cancels them wherever they are.                      *)
(*                                                                         *)
(* Each transaction of the store is one step: Enqueue and the requeues     *)
(* hold the target's lock, ClaimNext the dispatch lock, the others are     *)
(* single statements. Builds are numbered in the order they are queued.    *)
(* A scope is one site's production, one preview of a site, or one app;    *)
(* all scopes belong to one project.                                       *)
(***************************************************************************)
EXTENDS Integers, FiniteSets

CONSTANTS
  Replicas, Nobody,
  Sites, Previews, Apps,      \* scopes
  SiteOf,                     \* the site a preview belongs to
  Slots,                      \* builds running at once across the install
  SiteCap, PreviewCap, AppCap,\* and in the project, by kind
  MaxSpoolRequeues,           \* builds a full spool may add to a push
  MaxAttempts,                \* starts within one run
  LateReplica,                \* whether a lost lease may go unnoticed for a whole build
  MaxBuilds, MaxCommits, MaxFaults

Scopes  == Sites \cup Previews \cup Apps
Builds  == 1..MaxBuilds
Commits == 0..MaxCommits
Ended   == {"SUCCEEDED", "FAILED", "CANCELLED"}
Stages  == {"idle", "starting", "building", "delivering", "deployed"}

ASSUME ScopeAssumption ==
  /\ Sites \cap Apps = {} /\ Previews \cap (Sites \cup Apps) = {}
  /\ SiteOf \in [Previews -> Sites] /\ Nobody \notin Replicas /\ Sites \cup Apps # {}
ASSUME BoundAssumption ==
  /\ Slots \in Nat \ {0} /\ SiteCap \in Nat \ {0} /\ PreviewCap \in Nat \ {0}
  /\ AppCap \in Nat \ {0} /\ MaxSpoolRequeues \in Nat /\ MaxAttempts \in Nat \ {0}
  /\ MaxBuilds \in Nat /\ MaxCommits \in Nat /\ MaxFaults \in Nat
  /\ LateReplica \in BOOLEAN

VARIABLES
  head,       \* the branch's newest commit
  asked,      \* builds whose commit was read from the branch, not queued yet
  connected,  \* the sites and apps with a repository
  leaving,    \* the ones whose disconnect has not cancelled the builds yet
  appsOn,     \* the appgitbuilds flag: "on" or "off"
  made,       \* builds written so far
  what,       \* a build's scope, commit and trigger
  status, holder, requeues, place,   \* its row
  delayed,    \* builds whose retry_at is to come
  lapsed,     \* builds whose lease_until has passed
  turn,       \* the next place in line
  stage, by, attempt,                \* the run of a build: where, whose, which start
  stopped,    \* replicas whose shutdown grace is spent
  live,       \* the build each scope serves; 0 is none
  faults

source == <<head, asked, connected, leaving, appsOn>>
queue  == <<made, what, status, holder, requeues, place, delayed, lapsed, turn>>
runs   == <<stage, by, attempt, stopped>>
vars   == <<source, queue, runs, live, faults>>

Target(s) == IF s \in Previews THEN SiteOf[s] ELSE s
Targets   == Sites \cup Apps
Kind(s)   == IF s \in Apps THEN "app" ELSE "site"
Scope(b)  == what[b].scope

Requests == [scope : Scopes, commit : Commits, trigger : {"push", "preview", "rebuild"}]

Fault == faults < MaxFaults /\ faults' = faults + 1

--------------------------------------------------------------------------------
(* Asking for a build.                                                     *)

\* A bound: builds written and asked for.
Room == made + Cardinality(asked) < MaxBuilds

Push ==
  /\ head < MaxCommits
  /\ head' = head + 1
  /\ UNCHANGED <<asked, connected, leaving, appsOn, queue, runs, live, faults>>

\* handlePush of the head's delivery, first or repeated, up to queuePush's
\* enqueue for one target: a delivery of an older commit is ignored.
HandlePush(t) ==
  /\ head > 0 /\ Room /\ t \in connected
  /\ t \in Apps => appsOn = "on"
  /\ asked' = asked \cup {[scope |-> t, commit |-> head, trigger |-> "push"]}
  /\ UNCHANGED <<head, connected, leaving, appsOn, queue, runs, live, faults>>

\* handlePullRequest, and a push to a previewed branch.
HandlePreview(s) ==
  /\ head > 0 /\ Room /\ Target(s) \in connected
  /\ asked' = asked \cup {[scope |-> s, commit |-> head, trigger |-> "preview"]}
  /\ UNCHANGED <<head, connected, leaving, appsOn, queue, runs, live, faults>>

\* Rebuild and RebuildApp up to the enqueue: buildHead reads the branch.
Rebuild(s) ==
  /\ head > 0 /\ Room /\ s \in connected
  /\ asked' = asked \cup {[scope |-> s, commit |-> head, trigger |-> "rebuild"]}
  /\ UNCHANGED <<head, connected, leaving, appsOn, queue, runs, live, faults>>

\* deliverySQL: the delivery has a build already.
Delivered(q) ==
  /\ q.trigger # "rebuild"
  /\ \E b \in 1..made : what[b] = q

\* The builds waiting in a scope.
Waiting(s) == {b \in 1..made : Scope(b) = s /\ status[b] = "QUEUED"}

\* supersedeSQL.
Superseded(s) ==
  [b \in Builds |-> IF b \in Waiting(s) THEN "CANCELLED" ELSE status[b]]

\* insertBuildSQL: the row of the next build.
Insert(q, statuses, first) ==
  /\ made < MaxBuilds
  /\ made' = made + 1
  /\ what' = [what EXCEPT ![made + 1] = q]
  /\ status' = [statuses EXCEPT ![made + 1] = first]
  /\ place' = [place EXCEPT ![made + 1] = turn]
  /\ turn' = turn + 1
  /\ UNCHANGED <<holder, requeues, delayed, lapsed>>

Answer(q) ==
  /\ q \in asked
  /\ asked' = asked \ {q}
  /\ UNCHANGED <<head, connected, leaving, appsOn, runs, live, faults>>

\* Enqueue of a build within the hour's budget.
Enqueue(q) ==
  /\ Answer(q)
  /\ ~Delivered(q)
  /\ q.scope \in Apps => appsOn = "on"
  /\ Insert(q, Superseded(q.scope), "QUEUED")

\* overCap: past the budget a push or a preview is written FAILED.
EnqueueOverCap(q) ==
  /\ Answer(q)
  /\ ~Delivered(q) /\ q.trigger # "rebuild"
  /\ q.scope \in Apps => appsOn = "on"
  /\ Insert(q, status, "FAILED")

\* The delivery is queued already, app builds went off, or a rebuild is refused.
EnqueueNothing(q) ==
  /\ Answer(q)
  /\ Delivered(q) \/ q.trigger = "rebuild" \/ (q.scope \in Apps /\ appsOn = "off")
  /\ UNCHANGED queue

--------------------------------------------------------------------------------
(* Claiming.                                                               *)

Running == {b \in 1..made : status[b] = "RUNNING"}
RunningIn(s) == {b \in Running : Scope(b) = s}

\* The running builds the project's cap for this scope counts, and the cap.
Counted(s) == {b \in Running : Kind(Scope(b)) = Kind(s) /\ (Scope(b) \in Previews <=> s \in Previews)}
Cap(s) == IF s \in Previews THEN PreviewCap ELSE IF s \in Apps THEN AppCap ELSE SiteCap

\* Mutant: the project's cap alone decides.
FitsMutant(s) == Cardinality(Counted(s)) < Cap(s)

\* A queued build's scope is free and its project under the cap.
Fits(s) == RunningIn(s) = {} /\ Cardinality(Counted(s)) < Cap(s)

\* claimableSQL: an app takes the last slot only while no site build could.
Claimable(b) ==
  /\ status[b] = "QUEUED" /\ b \notin delayed
  /\ Scope(b) \in Apps => appsOn = "on"
  /\ Cardinality(Running) < Slots
  /\ \/ Scope(b) \notin Apps
     \/ Cardinality(Running) < Slots - 1
     \/ \A c \in 1..made : status[c] = "QUEUED" /\ Scope(c) \notin Apps => ~Fits(Scope(c))
  /\ Fits(Scope(b))

\* ClaimNext: the longest waiting of those.
ClaimNext(r, b) ==
  /\ r \notin stopped
  /\ b \in 1..made /\ Claimable(b)
  /\ \A c \in 1..made : Claimable(c) => place[b] <= place[c]
  /\ status' = [status EXCEPT ![b] = "RUNNING"]
  /\ holder' = [holder EXCEPT ![b] = r]
  /\ stage' = [stage EXCEPT ![b] = "starting"]
  /\ by' = [by EXCEPT ![b] = r]
  /\ attempt' = [attempt EXCEPT ![b] = 1]
  /\ UNCHANGED <<source, made, what, requeues, place, delayed, lapsed, turn, stopped, live, faults>>

--------------------------------------------------------------------------------
(* What a replica writes about the builds it runs.                         *)

\* Mutant: the outcome is written whoever holds the build.
OwnsMutant(b) == TRUE

\* The pin of every write: this holder still runs the build.
Owns(b) == status[b] = "RUNNING" /\ holder[b] = by[b]

\* The run is over and its goroutine gone.
Done(b) ==
  /\ stage' = [stage EXCEPT ![b] = "idle"]
  /\ by' = [by EXCEPT ![b] = Nobody]
  /\ attempt' = [attempt EXCEPT ![b] = 1]
  /\ UNCHANGED <<source, stopped>>

\* The row leaves its holder.
GiveUp(b, s) ==
  /\ status' = [status EXCEPT ![b] = s]
  /\ holder' = [holder EXCEPT ![b] = Nobody]
  /\ lapsed' = lapsed \ {b}

Unrecorded == UNCHANGED queue

\* FinishBuild.
FinishBuild(b, s) ==
  \/ Owns(b) /\ GiveUp(b, s) /\ UNCHANGED <<made, what, requeues, place, delayed, turn>>
  \/ ~Owns(b) /\ Unrecorded

\* Mutant: the build goes back whatever has been queued since.
AfterRunMutant(b) == "QUEUED"

\* requeueSQL: a build that something newer waits for is cancelled instead.
AfterRun(b) == IF Waiting(Scope(b)) = {} THEN "QUEUED" ELSE "CANCELLED"

\* RequeueBuild: its place and count stay.
RequeueBuild(b) ==
  \/ Owns(b) /\ GiveUp(b, AfterRun(b)) /\ UNCHANGED <<made, what, requeues, place, delayed, turn>>
  \/ ~Owns(b) /\ Unrecorded

\* RetryBuildLater: counted, and out of the line for a while.
RetryBuildLater(b) ==
  \/ /\ Owns(b) /\ GiveUp(b, AfterRun(b))
     /\ requeues' = [requeues EXCEPT ![b] = @ + 1]
     /\ delayed' = delayed \cup {b}
     /\ UNCHANGED <<made, what, place, turn>>
  \/ ~Owns(b) /\ Unrecorded

\* The write fails and is not tried again: the row stays RUNNING, unattended.
RecordLost(b) ==
  /\ stage[b] # "idle"
  /\ Fault /\ Done(b)
  /\ UNCHANGED <<queue, live>>

\* retry_at passes: the build is last in line from now on.
DelayEnds(b) ==
  /\ b \in delayed
  /\ delayed' = delayed \ {b}
  /\ place' = [place EXCEPT ![b] = turn]
  /\ turn' = turn + 1
  /\ UNCHANGED <<source, made, what, status, holder, requeues, lapsed, runs, live, faults>>

--------------------------------------------------------------------------------
(* A run.                                                                  *)

At(b, s) == stage[b] = s /\ by[b] \notin stopped
Goes(b, s) ==
  /\ stage' = [stage EXCEPT ![b] = s]
  /\ UNCHANGED <<by, source, stopped, queue, faults>>

\* The connection, read before a run and again before its deploy.
Sourced(b) ==
  /\ Target(Scope(b)) \in connected
  /\ Scope(b) \in Apps => appsOn = "on"

\* checkSource, preflight and the Job's start.
Start(b) ==
  /\ At(b, "starting") /\ Sourced(b)
  /\ Goes(b, "building") /\ UNCHANGED <<attempt, live>>

\* retry: the sandbox could not start a step.
StartFailed(b) ==
  /\ At(b, "building") /\ attempt[b] < MaxAttempts
  /\ Goes(b, "starting")
  /\ attempt' = [attempt EXCEPT ![b] = @ + 1]
  /\ UNCHANGED live

\* await answers RunReady and stillDeployable agrees.
Built(b) ==
  /\ At(b, "building") /\ Sourced(b)
  /\ Goes(b, "delivering") /\ UNCHANGED <<attempt, live>>

\* Any step of the run refuses it or fails.
RunFails(b) ==
  /\ stage[b] \in {"starting", "building", "delivering"} /\ by[b] \notin stopped
  /\ Done(b) /\ FinishBuild(b, "FAILED") /\ UNCHANGED <<live, faults>>

\* Replicas that extend their leases learn of a lost one before a newer build
\* of the scope gets as far as its deploy.
Unnoticed(b) ==
  \E c \in 1..made : c < b /\ Scope(c) = Scope(b) /\ stage[c] # "idle" /\ ~Owns(c)

\* The deploy or the publish takes effect.
Deliver(b) ==
  /\ At(b, "delivering")
  /\ LateReplica \/ ~Unnoticed(b)
  /\ live' = [live EXCEPT ![Scope(b)] = b]
  /\ Goes(b, "deployed") /\ UNCHANGED attempt

\* Mutant: the count is not looked at.
MayRetryMutant(b) == TRUE

\* run: a build whose image found no room goes back so many times.
MayRetry(b) == requeues[b] < MaxSpoolRequeues

\* appKind.deliver gives the image up.
NoRoom(b) ==
  /\ At(b, "delivering") /\ Scope(b) \in Apps
  /\ Done(b) /\ UNCHANGED <<live, faults>>
  /\ \/ MayRetry(b) /\ RetryBuildLater(b)
     \/ ~MayRetry(b) /\ FinishBuild(b, "FAILED")

Succeed(b) ==
  /\ At(b, "deployed")
  /\ Done(b) /\ FinishBuild(b, "SUCCEEDED") /\ UNCHANGED <<live, faults>>

\* The grace is spent: whatever the run came to, the build goes back.
HandBack(b) ==
  /\ stage[b] # "idle" /\ by[b] \in stopped
  /\ Done(b) /\ RequeueBuild(b) /\ UNCHANGED <<live, faults>>

\* holdLease: the heartbeat finds the build taken away and ends the run.
StandDown(b) ==
  /\ stage[b] # "idle" /\ ~Owns(b)
  /\ Done(b) /\ UNCHANGED <<queue, live, faults>>

\* holdLease: the heartbeat extends the lease, one that ran out too.
ExtendLease(b) ==
  /\ stage[b] # "idle" /\ Owns(b) /\ b \in lapsed
  /\ lapsed' = lapsed \ {b}
  /\ UNCHANGED <<source, made, what, status, holder, requeues, place, delayed, turn, runs, live, faults>>

--------------------------------------------------------------------------------
(* Leases, shutdowns and faults.                                           *)

RunsOut(b) ==
  /\ b \in Running \ lapsed
  /\ lapsed' = lapsed \cup {b}
  /\ UNCHANGED <<source, made, what, status, holder, requeues, place, delayed, turn, runs, live>>

\* lease_until passes: nobody runs the build any more,
Lapse(b) == stage[b] = "idle" /\ RunsOut(b) /\ UNCHANGED faults

\* or holdLease could not reach the database for that long.
HeartbeatsFail(b) == stage[b] # "idle" /\ RunsOut(b) /\ Fault

Dropped(S, s) == [b \in Builds |-> IF b \in S THEN s ELSE status[b]]
Freed(S) == [b \in Builds |-> IF b \in S THEN Nobody ELSE holder[b]]

\* Mutant: only builds of replicas known to be stopping.
LostMutant == {b \in lapsed : holder[b] \in stopped}

Lost == {b \in lapsed : status[b] = "RUNNING"}

\* ExpireLostBuilds.
ExpireLost ==
  /\ Replicas \ stopped # {} /\ Lost # {}
  /\ status' = Dropped(Lost, "FAILED") /\ holder' = Freed(Lost)
  /\ lapsed' = lapsed \ Lost
  /\ UNCHANGED <<source, made, what, requeues, place, delayed, turn, runs, live, faults>>

\* cancelSwitchedOff.
CancelSwitchedOff ==
  LET apps == {b \in 1..made : status[b] = "QUEUED" /\ Scope(b) \in Apps} IN
  /\ Replicas \ stopped # {} /\ appsOn = "off" /\ apps # {}
  /\ status' = Dropped(apps, "CANCELLED")
  /\ UNCHANGED <<source, made, what, holder, requeues, place, delayed, lapsed, turn, runs, live, faults>>

SwitchApps ==
  /\ Fault
  /\ appsOn' = IF appsOn = "on" THEN "off" ELSE "on"
  /\ UNCHANGED <<head, asked, connected, leaving, queue, runs, live>>

\* The replica's process dies and a new one takes its place.
Crash(r) ==
  /\ Fault
  /\ \E b \in Builds : by[b] = r
  /\ stage' = [b \in Builds |-> IF by[b] = r THEN "idle" ELSE stage[b]]
  /\ attempt' = [b \in Builds |-> IF by[b] = r THEN 1 ELSE attempt[b]]
  /\ by' = [b \in Builds |-> IF by[b] = r THEN Nobody ELSE by[b]]
  /\ UNCHANGED <<source, queue, stopped, live>>

\* stop, once the shutdown grace is spent; a replica that runs nothing is
\* simply gone.
Stop(r) ==
  /\ r \notin stopped /\ Fault
  /\ \E b \in Builds : by[b] = r
  /\ stopped' = stopped \cup {r}
  /\ UNCHANGED <<source, queue, stage, by, attempt, live>>

Restart(r) ==
  /\ r \in stopped /\ \A b \in Builds : by[b] # r
  /\ stopped' = stopped \ {r}
  /\ UNCHANGED <<source, queue, stage, by, attempt, live, faults>>

--------------------------------------------------------------------------------
(* Connections.                                                            *)

\* Disconnect: the connection goes first,
Disconnect(t) ==
  /\ t \in connected /\ Fault
  /\ connected' = connected \ {t}
  /\ leaving' = leaving \cup {t}
  /\ UNCHANGED <<head, asked, appsOn, queue, runs, live>>

\* and then what the site or app has queued and running.
CancelBuilds(t) ==
  LET its == {b \in 1..made : Target(Scope(b)) = t /\ status[b] \in {"QUEUED", "RUNNING"}} IN
  /\ t \in leaving
  /\ leaving' = leaving \ {t}
  /\ status' = Dropped(its, "CANCELLED") /\ holder' = Freed(its)
  /\ lapsed' = lapsed \ its
  /\ UNCHANGED <<head, asked, connected, appsOn, made, what, requeues, place, delayed, turn, runs, live, faults>>

\* Connect saves the connection and asks for a build of the head.
Connect(t) ==
  /\ t \notin connected
  /\ connected' = connected \cup {t}
  /\ asked' = IF head = 0 \/ ~Room THEN asked
              ELSE asked \cup {[scope |-> t, commit |-> head, trigger |-> "rebuild"]}
  /\ UNCHANGED <<head, leaving, appsOn, queue, runs, live, faults>>

--------------------------------------------------------------------------------
Blank == [scope |-> CHOOSE s \in Scopes : TRUE, commit |-> 0, trigger |-> "rebuild"]

Init ==
  /\ head = 0 /\ asked = {} /\ connected = Targets /\ leaving = {} /\ appsOn = "on"
  /\ made = 0 /\ turn = 0 /\ delayed = {} /\ lapsed = {} /\ stopped = {} /\ faults = 0
  /\ what = [b \in Builds |-> Blank]
  /\ status = [b \in Builds |-> "none"]
  /\ holder = [b \in Builds |-> Nobody]
  /\ requeues = [b \in Builds |-> 0]
  /\ place = [b \in Builds |-> 0]
  /\ stage = [b \in Builds |-> "idle"]
  /\ by = [b \in Builds |-> Nobody]
  /\ attempt = [b \in Builds |-> 1]
  /\ live = [s \in Scopes |-> 0]

Ask ==
  \/ Push
  \/ \E s \in Targets : HandlePush(s) \/ Rebuild(s)
  \/ \E s \in Previews : HandlePreview(s)
Intake == \E q \in asked : Enqueue(q) \/ EnqueueOverCap(q) \/ EnqueueNothing(q)
Claim == \E r \in Replicas, b \in Builds : ClaimNext(r, b)

\* A step that takes the run of b on.
Proceed(b) ==
  \/ Start(b) \/ StartFailed(b) \/ Built(b) \/ RunFails(b)
  \/ Deliver(b) \/ NoRoom(b) \/ Succeed(b) \/ HandBack(b)

Lease(b) == RecordLost(b) \/ DelayEnds(b) \/ StandDown(b) \/ ExtendLease(b)
            \/ Lapse(b) \/ HeartbeatsFail(b)

Upkeep ==
  \/ ExpireLost \/ CancelSwitchedOff \/ SwitchApps
  \/ \E r \in Replicas : Crash(r) \/ Stop(r) \/ Restart(r)
  \/ \E t \in Targets : Disconnect(t) \/ CancelBuilds(t) \/ Connect(t)

Next == Ask \/ Intake \/ Claim \/ (\E b \in Builds : Proceed(b) \/ Lease(b)) \/ Upkeep

Spec == Init /\ [][Next]_vars

\* Every dispatcher keeps polling, a claimed build keeps running (await and
\* deliver are bounded by timeouts), heartbeats come, time passes for leases
\* and delays, and a stopped replica is started again.
FairSpec ==
  /\ Spec /\ WF_vars(Claim) /\ WF_vars(ExpireLost) /\ WF_vars(CancelSwitchedOff)
  /\ \A b \in Builds : /\ WF_vars(Proceed(b)) /\ WF_vars(StandDown(b))
                       /\ WF_vars(DelayEnds(b)) /\ WF_vars(Lapse(b))
  /\ \A r \in Replicas : WF_vars(Restart(r))

--------------------------------------------------------------------------------
(* Properties.                                                             *)

\* The rows and the runs are well formed; no push costs more builds than the
\* spool's requeues allow (dispatcher.run against MaxSpoolRequeues).
TypeOK ==
  /\ head \in Commits /\ asked \subseteq Requests
  /\ connected \subseteq Targets /\ leaving \subseteq Targets /\ appsOn \in {"on", "off"}
  /\ made \in 0..MaxBuilds /\ turn \in Nat
  /\ what \in [Builds -> Requests]
  /\ status \in [Builds -> {"none", "QUEUED", "RUNNING"} \cup Ended]
  /\ holder \in [Builds -> Replicas \cup {Nobody}]
  /\ requeues \in [Builds -> 0..MaxSpoolRequeues]
  /\ place \in [Builds -> Nat]
  /\ delayed \subseteq Builds /\ lapsed \subseteq Builds
  /\ stage \in [Builds -> Stages] /\ by \in [Builds -> Replicas \cup {Nobody}]
  /\ attempt \in [Builds -> 1..MaxAttempts]
  /\ stopped \subseteq Replicas /\ live \in [Scopes -> 0..MaxBuilds] /\ faults \in 0..MaxFaults

\* At most one build of a scope waits, however enqueues, claims, retries and
\* builds handed back come between one another (buildTargetLock).
OneWaiting == \A s \in Scopes : \A b, c \in Waiting(s) : b = c

\* No build deploys over a newer one of its scope, through requeues, retries,
\* shutdowns, crashes, disconnects and expired leases (buildTargetLock).
NewerStands == [][\A s \in Scopes : live[s] <= live'[s]]_vars

\* What is recorded of a build stays: a replica that lost it cannot write
\* its own outcome over a cancellation, an expiry or a success.
OutcomeStands == [][\A b \in Builds : status[b] \in Ended => status'[b] = status[b]]_vars

\* Every build that is queued ends, whatever happens to the replica it is on.
BuildEnds == \A b \in Builds : status[b] \in {"QUEUED", "RUNNING"} ~> status[b] \in Ended

\* A queued build is superseded only by one of a newer commit, as the reason
\* written on it says (supersededReason).
SupersededByNewer ==
  [][\A b \in 1..made : status[b] = "QUEUED" /\ status'[b] = "CANCELLED" /\ made' > made
        => what[b].commit <= what'[made'].commit]_vars
================================================================================
