----------------------------- MODULE BuildQueueProofs -----------------------------
(***************************************************************************)
(* Proofs about BuildQueue, for every number of replicas, scopes, builds,  *)
(* slots and faults.                                                       *)
(***************************************************************************)
EXTENDS BuildQueue, TLAPS

Active(b) == status[b] \in {"QUEUED", "RUNNING"}

\* A build that is not written yet has no row and no run.
Unmade == \A b \in Builds : b > made => status[b] = "none" /\ stage[b] = "idle"

\* Of two builds of one scope that are not over, the older runs and the newer
\* waits.
Shape ==
  \A b, c \in Builds :
    b < c /\ what[b].scope = what[c].scope /\ Active(b) /\ Active(c)
      => status[b] = "RUNNING" /\ status[c] = "QUEUED"

\* A build somebody runs is that replica's, or is over.
Attended ==
  \A b \in Builds :
    stage[b] # "idle" => \/ status[b] = "RUNNING" /\ holder[b] = by[b]
                         \/ status[b] \in Ended

QInv == TypeOK /\ Unmade /\ Shape /\ Attended

USE DEF Builds

\* Before anything is asked.
LEMMA QInit == Init => QInv
  BY ScopeAssumption, BoundAssumption DEF Init, QInv, TypeOK, Unmade, Shape, Attended, Active, Blank, Requests, Commits,
     Scopes, Targets, Ended, Stages

LEMMA MadeBuilds == QInv => 1..made \subseteq Builds
<1> SUFFICES ASSUME QInv, NEW b \in 1..made PROVE b \in Builds
  OBVIOUS
<1>1. made \in 0..MaxBuilds BY DEF QInv, TypeOK
<1> QED BY <1>1, BoundAssumption

LEMMA FaultsCounted == QInv /\ Fault => faults' \in 0..MaxFaults
<1> SUFFICES ASSUME QInv, Fault PROVE faults' \in 0..MaxFaults
  OBVIOUS
<1>1. faults \in 0..MaxFaults BY DEF QInv, TypeOK
<1> QED BY <1>1, BoundAssumption DEF Fault

\* Steps that leave rows and runs alone.
LEMMA SourceSteps ==
  ASSUME QInv, UNCHANGED <<queue, stage, by, attempt, live>>, head' \in Commits, asked' \subseteq Requests,
         connected' \subseteq Targets, leaving' \subseteq Targets, appsOn' \in {"on", "off"},
         stopped' \subseteq Replicas, faults' \in 0..MaxFaults
  PROVE  QInv'
  BY DEF QInv, TypeOK, Unmade, Shape, Attended, Active, queue

LEMMA AskSteps == ASSUME QInv, Ask PROVE QInv'
<1>1. head' \in Commits /\ asked' \subseteq Requests
  BY BoundAssumption DEF Ask, Push, HandlePush, HandlePreview, Rebuild, QInv, TypeOK, Requests, Commits, Scopes, Targets
<1>2. UNCHANGED <<connected, leaving, appsOn, queue, stage, by, attempt, stopped, live, faults>>
  BY DEF Ask, Push, HandlePush, HandlePreview, Rebuild, runs
<1> QED BY <1>1, <1>2, SourceSteps DEF QInv, TypeOK

\* A build is written: QUEUED after its scope's queue was superseded, or FAILED.
LEMMA InsertSteps ==
  ASSUME QInv, NEW q \in Requests, NEW statuses, NEW first,
         Insert(q, statuses, first), UNCHANGED <<head, connected, leaving, appsOn, runs, live, faults>>,
         asked' \subseteq Requests,
         \/ statuses = Superseded(q.scope) /\ first = "QUEUED"
         \/ statuses = status /\ first = "FAILED"
  PROVE  QInv'
<1> DEFINE new == made + 1
<1>1. new \in Builds /\ made' = new /\ status[new] = "none" /\ stage[new] = "idle"
  BY BoundAssumption DEF QInv, TypeOK, Unmade, Insert
<1>2. /\ what' = [what EXCEPT ![new] = q]
      /\ status' = [statuses EXCEPT ![new] = first]
      /\ UNCHANGED <<holder, requeues, delayed, lapsed, stage, by, attempt, stopped>>
      /\ place' = [place EXCEPT ![new] = turn] /\ turn' = turn + 1
  BY DEF Insert, runs
<1>3. /\ statuses \in [Builds -> {"none", "QUEUED", "RUNNING"} \cup Ended]
      /\ \A b \in Builds : statuses[b] = status[b] \/ (status[b] = "QUEUED" /\ statuses[b] = "CANCELLED")
  BY DEF QInv, TypeOK, Superseded, Waiting, Ended
<1>4. \A b \in Builds : b # new => status'[b] = statuses[b] /\ what'[b] = what[b]
  BY <1>1, <1>2, <1>3 DEF QInv, TypeOK
<1>5. status'[new] = first /\ what'[new] = q
  BY <1>1, <1>2, <1>3 DEF QInv, TypeOK
<1>6. TypeOK'
  <2>1. status' \in [Builds -> {"none", "QUEUED", "RUNNING"} \cup Ended]
    BY <1>1, <1>2, <1>3 DEF Ended
  <2>2. what' \in [Builds -> Requests]
    BY <1>1, <1>2 DEF QInv, TypeOK
  <2>3. place' \in [Builds -> Nat] /\ turn' \in Nat
    BY <1>1, <1>2 DEF QInv, TypeOK
  <2> QED BY <1>1, <1>2, <2>1, <2>2, <2>3 DEF QInv, TypeOK
<1>7. Unmade'
  BY <1>1, <1>2, <1>3, <1>4 DEF QInv, TypeOK, Unmade
<1>8. Attended'
  BY <1>1, <1>2, <1>3, <1>4, <1>5 DEF QInv, Attended, Ended
<1>9. Shape'
  <2> SUFFICES ASSUME NEW b \in Builds, NEW c \in Builds, b < c, what'[b].scope = what'[c].scope,
                      Active(b)', Active(c)'
               PROVE  status'[b] = "RUNNING" /\ status'[c] = "QUEUED"
    BY DEF Shape
  <2>1. CASE b # new /\ c # new
    BY <2>1, <1>3, <1>4 DEF QInv, Shape, Active
  <2>2. CASE c = new
    <3>1. b <= made /\ b # new BY <2>2, <1>1 DEF QInv, TypeOK
    <3>2. first = "QUEUED" /\ statuses = Superseded(q.scope) /\ what[b].scope = q.scope /\ status'[b] = statuses[b]
      BY <2>2, <3>1, <1>4, <1>5 DEF Active
    <3>3. status[b] # "QUEUED"
      BY <3>1, <3>2 DEF Superseded, Waiting, Scope, Active
    <3> QED BY <3>2, <3>3, <1>3, <1>5, <2>2 DEF Active
  <2>3. CASE b = new
    <3>1. c > made BY <2>3, <1>1 DEF QInv, TypeOK
    <3>2. statuses[c] = "none" BY <3>1, <1>3 DEF QInv, Unmade
    <3> QED BY <2>3, <3>2, <1>4 DEF Active
  <2> QED BY <2>1, <2>2, <2>3
<1> QED BY <1>6, <1>7, <1>8, <1>9 DEF QInv

LEMMA IntakeSteps == ASSUME QInv, Intake PROVE QInv'
<1> PICK q \in asked : Enqueue(q) \/ EnqueueOverCap(q) \/ EnqueueNothing(q)
  BY DEF Intake
<1>1. q \in Requests /\ asked' \subseteq Requests /\ UNCHANGED <<head, connected, leaving, appsOn, runs, live, faults>>
  BY DEF QInv, TypeOK, Enqueue, EnqueueOverCap, EnqueueNothing, Answer
<1>2. CASE Enqueue(q)
  BY <1>1, <1>2, InsertSteps DEF Enqueue
<1>3. CASE EnqueueOverCap(q)
  BY <1>1, <1>3, InsertSteps DEF EnqueueOverCap
<1>4. CASE EnqueueNothing(q)
  BY <1>1, <1>4, SourceSteps DEF EnqueueNothing, QInv, TypeOK, runs
<1> QED BY <1>2, <1>3, <1>4

LEMMA ClaimSteps == ASSUME QInv, Claim PROVE QInv'
<1> PICK r \in Replicas, b \in Builds : ClaimNext(r, b)
  BY DEF Claim
<1>1. /\ status[b] = "QUEUED" /\ b <= made
      /\ \A c \in 1..made : what[c].scope = what[b].scope => status[c] # "RUNNING"
  BY DEF ClaimNext, Claimable, Fits, RunningIn, Running, Scope
<1>2. /\ status' = [status EXCEPT ![b] = "RUNNING"] /\ holder' = [holder EXCEPT ![b] = r]
      /\ stage' = [stage EXCEPT ![b] = "starting"] /\ by' = [by EXCEPT ![b] = r]
      /\ attempt' = [attempt EXCEPT ![b] = 1]
      /\ UNCHANGED <<source, made, what, requeues, place, delayed, lapsed, turn, stopped, live, faults>>
  BY DEF ClaimNext
<1>3. TypeOK'
  <2>1. status' \in [Builds -> {"none", "QUEUED", "RUNNING"} \cup Ended]
    BY <1>2 DEF QInv, TypeOK
  <2>2. stage' \in [Builds -> Stages]
    BY <1>2 DEF QInv, TypeOK, Stages
  <2>3. /\ holder' \in [Builds -> Replicas \cup {Nobody}] /\ by' \in [Builds -> Replicas \cup {Nobody}]
        /\ attempt' \in [Builds -> 1..MaxAttempts]
    BY <1>2, BoundAssumption DEF QInv, TypeOK
  <2> QED BY <1>2, <2>1, <2>2, <2>3 DEF QInv, TypeOK, source
<1>4. Unmade' /\ Attended'
  BY <1>1, <1>2 DEF QInv, TypeOK, Unmade, Attended
<1>5. Shape'
  BY <1>1, <1>2 DEF QInv, TypeOK, Unmade, Shape, Active
<1> QED BY <1>3, <1>4, <1>5 DEF QInv

\* A run ends; its row is left alone, or given up by its holder.
LEMMA EndOfRun ==
  ASSUME QInv, NEW b \in Builds, Done(b), live' = live, faults' \in 0..MaxFaults,
         \/ UNCHANGED queue
         \/ /\ Owns(b)
            /\ \E s \in Ended \cup {AfterRun(b)} : GiveUp(b, s)
            /\ made' = made /\ what' = what
            /\ requeues' \in [Builds -> 0..MaxSpoolRequeues] /\ place' \in [Builds -> Nat]
            /\ delayed' \subseteq Builds /\ turn' \in Nat
  PROVE  QInv'
<1>1. /\ stage' = [stage EXCEPT ![b] = "idle"] /\ by' = [by EXCEPT ![b] = Nobody]
      /\ attempt' = [attempt EXCEPT ![b] = 1] /\ UNCHANGED <<source, stopped>>
  BY DEF Done
<1>2. /\ stage' \in [Builds -> Stages] /\ by' \in [Builds -> Replicas \cup {Nobody}]
      /\ attempt' \in [Builds -> 1..MaxAttempts]
  BY <1>1, BoundAssumption DEF QInv, TypeOK, Stages
<1>3. CASE UNCHANGED queue
  BY <1>1, <1>2, <1>3 DEF QInv, TypeOK, Unmade, Shape, Attended, Active, queue, source
<1>4. CASE /\ Owns(b)
           /\ \E s \in Ended \cup {AfterRun(b)} : GiveUp(b, s)
           /\ made' = made /\ what' = what
           /\ requeues' \in [Builds -> 0..MaxSpoolRequeues] /\ place' \in [Builds -> Nat]
           /\ delayed' \subseteq Builds /\ turn' \in Nat
  <2> PICK s \in Ended \cup {AfterRun(b)} : GiveUp(b, s)
    BY <1>4
  <2>1. /\ status' = [status EXCEPT ![b] = s] /\ holder' = [holder EXCEPT ![b] = Nobody]
        /\ lapsed' = lapsed \ {b}
    BY DEF GiveUp
  <2>2. status[b] = "RUNNING" /\ b <= made
    BY <1>4 DEF Owns, QInv, Unmade, TypeOK
  <2>3. s \in Ended \/ (s = "QUEUED" /\ \A c \in 1..made : what[c].scope = what[b].scope => status[c] # "QUEUED")
    BY DEF AfterRun, Waiting, Scope, Ended
  <2>4. TypeOK'
    <3>1. status' \in [Builds -> {"none", "QUEUED", "RUNNING"} \cup Ended]
      BY <2>1, <2>3 DEF QInv, TypeOK
    <3>2. holder' \in [Builds -> Replicas \cup {Nobody}] /\ lapsed' \subseteq Builds
      BY <2>1 DEF QInv, TypeOK
    <3> QED BY <1>1, <1>2, <1>4, <3>1, <3>2 DEF QInv, TypeOK, source
  <2>5. Unmade'
    BY <1>1, <1>4, <2>1, <2>2 DEF QInv, TypeOK, Unmade
  <2>6. Attended'
    BY <1>1, <2>1, <2>3 DEF QInv, TypeOK, Attended
  <2>7. Shape'
    <3> SUFFICES ASSUME NEW x \in Builds, NEW y \in Builds, x < y, what[x].scope = what[y].scope,
                        Active(x)', Active(y)'
                 PROVE  status'[x] = "RUNNING" /\ status'[y] = "QUEUED"
      BY <1>4 DEF Shape
    <3>1. CASE x # b /\ y # b
      BY <3>1, <2>1 DEF QInv, TypeOK, Shape, Active
    <3>2. CASE x = b
      <4>1. status[y] = "QUEUED" /\ y <= made
        BY <3>2, <2>1, <2>2 DEF QInv, TypeOK, Shape, Unmade, Active
      <4>2. s \in Ended
        BY <4>1, <3>2, <2>3 DEF QInv, TypeOK
      <4> QED BY <4>2, <3>2, <2>1 DEF QInv, TypeOK, Active, Ended
    <3>3. CASE y = b
      <4>1. ~Active(x)
        BY <3>3, <2>2 DEF QInv, Shape, Active
      <4> QED BY <4>1, <3>3, <2>1 DEF QInv, TypeOK, Active
    <3> QED BY <3>1, <3>2, <3>3
  <2> QED BY <2>4, <2>5, <2>6, <2>7 DEF QInv
<1> QED BY <1>3, <1>4

\* A run goes on to another stage.
LEMMA StageSteps ==
  ASSUME QInv, NEW b \in Builds, NEW s \in Stages \ {"idle"}, stage[b] # "idle", Goes(b, s),
         attempt' \in [Builds -> 1..MaxAttempts], live' \in [Scopes -> 0..MaxBuilds]
  PROVE  QInv'
<1>1. stage' = [stage EXCEPT ![b] = s] /\ UNCHANGED <<by, source, stopped, queue, faults>>
  BY DEF Goes
<1>2. stage' \in [Builds -> Stages]
  BY <1>1 DEF QInv, TypeOK
<1> QED BY <1>1, <1>2 DEF QInv, TypeOK, Unmade, Shape, Attended, Active, queue, source

LEMMA ProceedSteps == ASSUME QInv, NEW b \in Builds, Proceed(b) PROVE QInv'
<1>1. CASE Start(b)
  BY <1>1, StageSteps DEF Start, At, QInv, TypeOK, Stages
<1>2. CASE StartFailed(b)
  <2>1. attempt \in [Builds -> 1..MaxAttempts] BY DEF QInv, TypeOK
  <2>2. attempt[b] + 1 \in 1..MaxAttempts /\ attempt' = [attempt EXCEPT ![b] = @ + 1]
    BY <1>2, <2>1, BoundAssumption DEF StartFailed
  <2>3. attempt' \in [Builds -> 1..MaxAttempts] BY <2>1, <2>2
  <2> QED BY <1>2, <2>3, StageSteps DEF StartFailed, At, QInv, TypeOK, Stages
<1>3. CASE Built(b)
  BY <1>3, StageSteps DEF Built, At, QInv, TypeOK, Stages
<1>4. CASE Deliver(b)
  <2>1. live' \in [Scopes -> 0..MaxBuilds]
    BY <1>4 DEF Deliver, QInv, TypeOK, Scope, Requests
  <2> QED BY <1>4, <2>1, StageSteps DEF Deliver, At, QInv, TypeOK, Stages
<1>5. CASE RunFails(b)
  BY <1>5, EndOfRun DEF RunFails, FinishBuild, Unrecorded, Ended, QInv, TypeOK
<1>6. CASE NoRoom(b)
  <2>1. CASE ~MayRetry(b)
    BY <1>6, <2>1, EndOfRun DEF NoRoom, FinishBuild, Unrecorded, Ended, QInv, TypeOK
  <2>2. CASE MayRetry(b) /\ ~Owns(b)
    BY <1>6, <2>2, EndOfRun DEF NoRoom, RetryBuildLater, Unrecorded, QInv, TypeOK
  <2>3. CASE MayRetry(b) /\ Owns(b)
    <3>1. /\ GiveUp(b, AfterRun(b)) /\ requeues' = [requeues EXCEPT ![b] = @ + 1]
          /\ delayed' = delayed \cup {b} /\ UNCHANGED <<made, what, place, turn>>
      BY <1>6, <2>3 DEF NoRoom, RetryBuildLater
    <3>2. requeues' \in [Builds -> 0..MaxSpoolRequeues]
      <4>1. requeues \in [Builds -> 0..MaxSpoolRequeues] BY DEF QInv, TypeOK
      <4>2. requeues[b] + 1 \in 0..MaxSpoolRequeues
        BY <4>1, <2>3, BoundAssumption DEF MayRetry
      <4> QED BY <3>1, <4>1, <4>2
    <3> QED BY <1>6, <2>3, <3>1, <3>2, EndOfRun DEF NoRoom, QInv, TypeOK
  <2> QED BY <2>1, <2>2, <2>3
<1>7. CASE Succeed(b)
  BY <1>7, EndOfRun DEF Succeed, FinishBuild, Unrecorded, Ended, QInv, TypeOK
<1>8. CASE HandBack(b)
  BY <1>8, EndOfRun DEF HandBack, RequeueBuild, Unrecorded, QInv, TypeOK
<1> QED BY <1>1, <1>2, <1>3, <1>4, <1>5, <1>6, <1>7, <1>8 DEF Proceed

LEMMA LeaseSteps == ASSUME QInv, NEW b \in Builds, Lease(b) PROVE QInv'
<1>1. CASE RecordLost(b)
  BY <1>1, EndOfRun, FaultsCounted DEF RecordLost
<1>2. CASE DelayEnds(b)
  <2>1. place' \in [Builds -> Nat] /\ turn' \in Nat /\ delayed' \subseteq Builds
    BY <1>2 DEF DelayEnds, QInv, TypeOK
  <2> QED BY <1>2, <2>1 DEF DelayEnds, QInv, TypeOK, Unmade, Shape, Attended, Active, source, runs
<1>3. CASE StandDown(b)
  BY <1>3, EndOfRun DEF StandDown, QInv, TypeOK
<1>4. CASE ExtendLease(b) \/ Lapse(b) \/ HeartbeatsFail(b)
  <2>0. faults' \in 0..MaxFaults
    BY <1>4, FaultsCounted DEF ExtendLease, Lapse, HeartbeatsFail, QInv, TypeOK
  <2>1. lapsed' \subseteq Builds
    BY <1>4, MadeBuilds DEF ExtendLease, Lapse, HeartbeatsFail, RunsOut, Running, QInv, TypeOK
  <2>2. UNCHANGED <<source, made, what, status, holder, requeues, place, delayed, turn, runs, live>>
    BY <1>4 DEF ExtendLease, Lapse, HeartbeatsFail, RunsOut
  <2> QED BY <2>0, <2>1, <2>2 DEF QInv, TypeOK, Unmade, Shape, Attended, Active, source, runs
<1> QED BY <1>1, <1>2, <1>3, <1>4 DEF Lease

\* Builds that are not over end, wherever they are.
LEMMA DroppedSteps ==
  ASSUME QInv, NEW S \in SUBSET Builds, \A b \in S : Active(b), NEW s \in {"FAILED", "CANCELLED"},
         status' = Dropped(S, s), holder' \in {holder, Freed(S)},
         lapsed' \subseteq Builds, leaving' \subseteq Targets,
         UNCHANGED <<head, asked, connected, appsOn, made, what, requeues, place, delayed, turn, runs, live, faults>>
  PROVE  QInv'
<1>1. /\ status' \in [Builds -> {"none", "QUEUED", "RUNNING"} \cup Ended]
      /\ \A b \in Builds : status'[b] = IF b \in S THEN s ELSE status[b]
  BY DEF QInv, TypeOK, Dropped, Ended
<1>2. holder' \in [Builds -> Replicas \cup {Nobody}] /\ \A b \in Builds \ S : holder'[b] = holder[b]
  BY DEF QInv, TypeOK, Freed
<1>3. TypeOK'
  BY <1>1, <1>2 DEF QInv, TypeOK, runs
<1>4. Unmade' /\ Shape' /\ Attended'
  BY <1>1, <1>2 DEF QInv, TypeOK, Unmade, Shape, Attended, Active, runs, Ended
<1> QED BY <1>3, <1>4 DEF QInv

LEMMA UpkeepSteps == ASSUME QInv, Upkeep PROVE QInv'
<1> USE DEF QInv, TypeOK
<1>1. CASE ExpireLost
  <2>1. Lost \in SUBSET Builds /\ \A b \in Lost : Active(b)
    BY DEF Lost, Active
  <2> QED BY <1>1, <2>1, DroppedSteps DEF ExpireLost, source
<1>2. CASE CancelSwitchedOff
  <2> DEFINE S == {b \in 1..made : status[b] = "QUEUED" /\ Scope(b) \in Apps}
  <2>1. S \in SUBSET Builds /\ \A b \in S : Active(b)
    BY MadeBuilds DEF Active
  <2> QED BY <1>2, <2>1, DroppedSteps DEF CancelSwitchedOff, source
<1>3. CASE SwitchApps
  BY <1>3, SourceSteps, FaultsCounted DEF SwitchApps, runs
<1>4. ASSUME NEW r \in Replicas, Crash(r) PROVE QInv'
  <2>1. stage' \in [Builds -> Stages]
    BY <1>4 DEF Crash, Stages
  <2>3. by' \in [Builds -> Replicas \cup {Nobody}]
    BY <1>4 DEF Crash
  <2>4. 1 \in 1..MaxAttempts
    BY BoundAssumption
  <2>5. attempt' \in [Builds -> 1..MaxAttempts]
    BY <1>4, <2>4 DEF Crash
  <2>6. faults' \in 0..MaxFaults
    BY <1>4, FaultsCounted DEF Crash
  <2>2. \A b \in Builds : stage'[b] = "idle" \/ (stage'[b] = stage[b] /\ by'[b] = by[b])
    BY <1>4 DEF Crash
  <2> QED BY <1>4, <2>1, <2>2, <2>3, <2>5, <2>6 DEF Crash, Unmade, Shape, Attended, Active, queue, source
<1>5. ASSUME NEW r \in Replicas, Stop(r) \/ Restart(r) PROVE QInv'
  BY <1>5, SourceSteps, FaultsCounted DEF Stop, Restart, source
<1>6. ASSUME NEW t \in Targets, Disconnect(t) PROVE QInv'
  BY <1>6, SourceSteps, FaultsCounted DEF Disconnect, runs
<1>7. ASSUME NEW t \in Targets, Connect(t) PROVE QInv'
  <2>1. asked' \subseteq Requests
    BY <1>7 DEF Connect, Requests, Targets, Scopes
  <2> QED BY <1>7, <2>1, SourceSteps DEF Connect, runs
<1>8. ASSUME NEW t \in Targets, CancelBuilds(t) PROVE QInv'
  <2> DEFINE S == {b \in 1..made : Target(Scope(b)) = t /\ status[b] \in {"QUEUED", "RUNNING"}}
  <2>1. S \in SUBSET Builds /\ \A b \in S : Active(b)
    BY MadeBuilds DEF Active
  <2> QED BY <1>8, <2>1, DroppedSteps DEF CancelBuilds
<1> QED BY <1>1, <1>2, <1>3, <1>4, <1>5, <1>6, <1>7, <1>8 DEF Upkeep

LEMMA QStep == ASSUME QInv, [Next]_vars PROVE QInv'
<1>1. CASE UNCHANGED vars
  BY <1>1, SourceSteps DEF vars, source, runs, QInv, TypeOK
<1> QED BY <1>1, AskSteps, IntakeSteps, ClaimSteps, ProceedSteps, LeaseSteps, UpkeepSteps DEF Next

\* The queue's rows and the replicas' runs stay well formed, and the requeues
\* of a full spool within MaxSpoolRequeues (dispatcher.run).
THEOREM TypeCorrect == Spec => []TypeOK
<1>1. QInv => TypeOK BY DEF QInv
<1> QED BY <1>1, QInit, QStep, PTL DEF Spec

\* No interleaving of enqueues, claims, requeues and retries leaves two builds
\* of one scope waiting (Enqueue and requeue under buildTargetLock).
THEOREM OneWaitingHolds == Spec => []OneWaiting
<1>1. QInv => OneWaiting
  <2> SUFFICES ASSUME QInv, NEW s \in Scopes, NEW b \in Waiting(s), NEW c \in Waiting(s), b # c PROVE FALSE
    BY DEF OneWaiting
  <2>1. b \in Builds /\ c \in Builds BY MadeBuilds DEF Waiting
  <2>2. b < c \/ c < b BY <2>1
  <2> QED BY <2>1, <2>2 DEF QInv, Shape, Waiting, Scope, Active
<1> QED BY <1>1, QInit, QStep, PTL DEF Spec

--------------------------------------------------------------------------------
(* What a step does to rows and runs: a build that is over stays so, only  *)
(* the build being written becomes active, and a run is started by a claim *)
(* alone.                                                                  *)
Moves ==
  /\ made' \in Int /\ made <= made'
  /\ \A b \in 1..made : what'[b].scope = what[b].scope
  /\ \A b \in Builds :
       /\ status[b] \in Ended => status'[b] = status[b]
       /\ Active(b)' => Active(b) \/ b > made
       /\ stage'[b] # "idle" => stage[b] # "idle" \/ (Active(b) /\ Owns(b)')

\* Steps that write no row and start no run.
LEMMA NoRowMoves ==
  ASSUME QInv, UNCHANGED <<made, what, status>>, \A b \in Builds : stage'[b] # "idle" => stage[b] # "idle"
  PROVE  Moves
  BY DEF QInv, TypeOK, Moves, Active

LEMMA InsertMoves ==
  ASSUME QInv, NEW q \in asked, Enqueue(q) \/ EnqueueOverCap(q)
  PROVE  Moves
<1>1. PICK statuses \in {Superseded(q.scope), status}, first \in {"QUEUED", "FAILED"} : Insert(q, statuses, first)
  BY DEF Enqueue, EnqueueOverCap
<1>2. made + 1 \in Builds /\ made' = made + 1 /\ made \in Int /\ status[made + 1] = "none"
  BY <1>1, BoundAssumption DEF QInv, TypeOK, Unmade, Insert
<1>3. \A b \in Builds : b # made + 1 => status'[b] = statuses[b]
  BY <1>1 DEF Insert, QInv, TypeOK, Superseded
<1>4. \A b \in Builds : statuses[b] = status[b] \/ (status[b] = "QUEUED" /\ statuses[b] = "CANCELLED")
  BY DEF QInv, TypeOK, Superseded, Waiting
<1>5. \A b \in 1..made : what'[b] = what[b]
  BY <1>1, <1>2, MadeBuilds DEF Insert, QInv, TypeOK
<1>6. stage' = stage
  BY DEF Enqueue, EnqueueOverCap, Answer, runs
<1> QED BY <1>2, <1>3, <1>4, <1>5, <1>6 DEF Moves, Active, Ended

LEMMA ClaimMoves == ASSUME QInv, Claim PROVE Moves
<1> PICK r \in Replicas, b \in Builds : ClaimNext(r, b)
  BY DEF Claim
<1>1. /\ status' = [status EXCEPT ![b] = "RUNNING"] /\ holder' = [holder EXCEPT ![b] = r]
      /\ stage' = [stage EXCEPT ![b] = "starting"] /\ by' = [by EXCEPT ![b] = r]
      /\ made' = made /\ what' = what /\ status[b] = "QUEUED"
  BY DEF ClaimNext, Claimable
<1> QED BY <1>1 DEF QInv, TypeOK, Moves, Active, Owns, Ended

\* A run ends and its holder gives its row up, or leaves it alone.
LEMMA EndMoves ==
  ASSUME QInv, NEW b \in Builds, Done(b),
         UNCHANGED queue \/ (Owns(b) /\ made' = made /\ what' = what /\ \E s : GiveUp(b, s))
  PROVE  Moves
<1>1. stage' = [stage EXCEPT ![b] = "idle"]
  BY DEF Done
<1>2. CASE UNCHANGED queue
  BY <1>1, <1>2, NoRowMoves DEF QInv, TypeOK, queue
<1>3. CASE Owns(b) /\ made' = made /\ what' = what /\ \E s : GiveUp(b, s)
  <2>1. PICK s : status' = [status EXCEPT ![b] = s]
    BY <1>3 DEF GiveUp
  <2> QED BY <1>1, <1>3, <2>1 DEF QInv, TypeOK, Moves, Active, Owns, Ended
<1> QED BY <1>2, <1>3

LEMMA ProceedMoves == ASSUME QInv, NEW b \in Builds, Proceed(b) PROVE Moves
<1>1. CASE Start(b) \/ StartFailed(b) \/ Built(b) \/ Deliver(b)
  <2>1. PICK s \in Stages : stage' = [stage EXCEPT ![b] = s] /\ stage[b] # "idle"
    BY <1>1 DEF Start, StartFailed, Built, Deliver, Goes, At, Stages
  <2>2. UNCHANGED <<made, what, status>>
    BY <1>1 DEF Start, StartFailed, Built, Deliver, Goes, queue
  <2> QED BY <2>1, <2>2, NoRowMoves DEF QInv, TypeOK
<1>2. CASE RunFails(b) \/ Succeed(b)
  BY <1>2, EndMoves DEF RunFails, Succeed, FinishBuild, Unrecorded
<1>3. CASE NoRoom(b)
  BY <1>3, EndMoves DEF NoRoom, FinishBuild, RetryBuildLater, Unrecorded
<1>4. CASE HandBack(b)
  BY <1>4, EndMoves DEF HandBack, RequeueBuild, Unrecorded
<1> QED BY <1>1, <1>2, <1>3, <1>4 DEF Proceed

LEMMA LeaseMoves == ASSUME QInv, NEW b \in Builds, Lease(b) PROVE Moves
<1>1. CASE RecordLost(b) \/ StandDown(b)
  BY <1>1, EndMoves DEF RecordLost, StandDown
<1>2. CASE DelayEnds(b) \/ ExtendLease(b) \/ Lapse(b) \/ HeartbeatsFail(b)
  <2>1. UNCHANGED <<made, what, status, stage>>
    BY <1>2 DEF DelayEnds, ExtendLease, Lapse, HeartbeatsFail, RunsOut, runs
  <2> QED BY <2>1, NoRowMoves
<1> QED BY <1>1, <1>2 DEF Lease

\* Builds that are not over end.
LEMMA DropMoves ==
  ASSUME QInv, NEW S, \A b \in S : Active(b), NEW s \in Ended, status' = Dropped(S, s),
         UNCHANGED <<made, what, stage>>
  PROVE  Moves
  BY DEF QInv, TypeOK, Moves, Active, Dropped, Ended

LEMMA UpkeepMoves == ASSUME QInv, Upkeep PROVE Moves
<1>1. CASE ExpireLost
  <2>1. \A b \in Lost : Active(b) BY DEF Lost, Active
  <2> QED BY <1>1, <2>1, DropMoves DEF ExpireLost, Ended, runs
<1>2. CASE CancelSwitchedOff
  <2> DEFINE S == {b \in 1..made : status[b] = "QUEUED" /\ Scope(b) \in Apps}
  <2>1. \A b \in S : Active(b) BY DEF Active
  <2> QED BY <1>2, <2>1, DropMoves DEF CancelSwitchedOff, Ended, runs
<1>3. CASE \E t \in Targets : CancelBuilds(t)
  <2> PICK t \in Targets : CancelBuilds(t) BY <1>3
  <2> DEFINE S == {b \in 1..made : Target(Scope(b)) = t /\ status[b] \in {"QUEUED", "RUNNING"}}
  <2>1. \A b \in S : Active(b) BY DEF Active
  <2> QED BY <2>1, DropMoves DEF CancelBuilds, Ended, runs
<1>4. CASE \E r \in Replicas : Crash(r)
  BY <1>4, NoRowMoves DEF Crash, queue
<1>5. CASE \/ SwitchApps
           \/ \E r \in Replicas : Stop(r) \/ Restart(r)
           \/ \E t \in Targets : Disconnect(t) \/ Connect(t)
  <2>1. UNCHANGED <<made, what, status, stage>>
    BY <1>5 DEF SwitchApps, Stop, Restart, Disconnect, Connect, queue, runs
  <2> QED BY <2>1, NoRowMoves
<1> QED BY <1>1, <1>2, <1>3, <1>4, <1>5 DEF Upkeep

LEMMA StepMoves == ASSUME QInv, [Next]_vars PROVE Moves
<1>1. CASE UNCHANGED vars \/ Ask
  <2>1. UNCHANGED <<made, what, status, stage>>
    BY <1>1 DEF vars, Ask, Push, HandlePush, HandlePreview, Rebuild, queue, runs
  <2> QED BY <2>1, NoRowMoves
<1>2. CASE Intake
  <2> PICK q \in asked : Enqueue(q) \/ EnqueueOverCap(q) \/ EnqueueNothing(q)
    BY <1>2 DEF Intake
  <2>1. CASE EnqueueNothing(q)
    BY <2>1, NoRowMoves DEF EnqueueNothing, Answer, queue, runs
  <2> QED BY <2>1, InsertMoves
<1> QED BY <1>1, <1>2, ClaimMoves, ProceedMoves, LeaseMoves, UpkeepMoves DEF Next

\* What is recorded of a build stays, whichever replica writes last (the
\* holder pins of FinishBuild and requeueSQL).
THEOREM OutcomeStandsHolds == Spec => OutcomeStands
<1>1. QInv /\ [Next]_vars => [\A b \in Builds : status[b] \in Ended => status'[b] = status[b]]_vars
  BY StepMoves DEF Moves
<1> QED BY <1>1, QInit, QStep, PTL DEF Spec, OutcomeStands

--------------------------------------------------------------------------------
(* The order of deploys. A scope never serves a build newer than one that  *)
(* may still deploy, and a run whose build was taken away is older than    *)
(* whatever its scope has queued or running.                               *)
Older ==
  \A b \in Builds :
    Active(b) \/ stage[b] # "idle" => live[what[b].scope] <= b

Late ==
  \A b, c \in Builds :
    stage[b] # "idle" /\ ~Owns(b) /\ Active(c) /\ what[b].scope = what[c].scope => b < c

LiveMade == \A s \in Scopes : live[s] <= made

OInv == QInv /\ Older /\ Late /\ LiveMade

LEMMA OInit == Init => OInv
<1> SUFFICES ASSUME Init PROVE OInv
  OBVIOUS
<1>1. QInv BY QInit
<1>2. Older /\ Late /\ LiveMade
  BY DEF Init, Older, Late, LiveMade, Active
<1> QED BY <1>1, <1>2 DEF OInv

\* Runs only lose builds to newer ones, whatever a step does to the rows.
LEMMA LateKept == ASSUME OInv, QInv', Moves PROVE Late'
<1> SUFFICES ASSUME NEW b \in Builds, NEW c \in Builds, stage'[b] # "idle", ~Owns(b)', Active(c)',
                    what'[b].scope = what'[c].scope
             PROVE  b < c
  BY DEF Late
<1>1. stage[b] # "idle"
  BY DEF Moves
<1>2. b <= made /\ made \in Int
  BY <1>1 DEF OInv, QInv, TypeOK, Unmade
<1>3. CASE c > made
  BY <1>2, <1>3
<1>4. CASE c <= made
  <2>1. Active(c) /\ what[b].scope = what[c].scope
    BY <1>2, <1>4 DEF Moves
  <2>2. CASE ~Owns(b)
    BY <1>1, <2>1, <2>2 DEF OInv, Late
  <2>3. CASE Owns(b)
    <3>1. status[b] = "RUNNING" BY <2>3 DEF Owns
    <3>2. c # b
      BY DEF QInv, Attended, Active, Owns, Ended
    <3>3. ~(c < b)
      BY <2>1, <3>1 DEF OInv, QInv, Shape, Active
    <3> QED BY <3>2, <3>3
  <2> QED BY <2>2, <2>3
<1> QED BY <1>2, <1>3, <1>4

\* Every step but a deploy leaves what is served alone.
LEMMA LiveSteps == ASSUME [Next]_vars PROVE live' = live \/ \E b \in Builds : Deliver(b)
<1>1. ASSUME NEW b \in Builds, Proceed(b) PROVE live' = live \/ Deliver(b)
  BY <1>1 DEF Proceed, Start, StartFailed, Built, RunFails, NoRoom, Succeed, HandBack
<1>2. ASSUME NEW b \in Builds, Lease(b) PROVE live' = live
  BY <1>2 DEF Lease, RecordLost, DelayEnds, StandDown, ExtendLease, Lapse, HeartbeatsFail, RunsOut
<1>3. Upkeep => live' = live
  BY DEF Upkeep, ExpireLost, CancelSwitchedOff, SwitchApps, Crash, Stop, Restart, Disconnect, CancelBuilds, Connect
<1>4. Ask \/ Intake \/ Claim => live' = live
  BY DEF Ask, Push, HandlePush, HandlePreview, Rebuild, Intake, Enqueue, EnqueueOverCap, EnqueueNothing, Answer,
         Claim, ClaimNext
<1> QED BY <1>1, <1>2, <1>3, <1>4 DEF Next, vars

\* A build deploys only over what is no newer, and nothing older is left that
\* could still deploy.
LEMMA DeliverSteps ==
  ASSUME OInv, ~LateReplica, NEW b \in Builds, Deliver(b)
  PROVE  /\ \A s \in Scopes : live[s] <= live'[s]
         /\ Older' /\ LiveMade'
<1>1. /\ stage[b] = "delivering" /\ ~Unnoticed(b)
      /\ live' = [live EXCEPT ![what[b].scope] = b]
      /\ UNCHANGED <<made, what, status, by>> /\ stage' = [stage EXCEPT ![b] = "deployed"]
  BY DEF Deliver, At, Goes, Scope, queue
<1>2. live \in [Scopes -> 0..MaxBuilds] /\ what[b].scope \in Scopes /\ made \in Int /\ b <= made
  <2>1. live \in [Scopes -> 0..MaxBuilds] /\ made \in Int
    BY DEF OInv, QInv, TypeOK
  <2>2. what[b].scope \in Scopes
    BY DEF OInv, QInv, TypeOK, Requests
  <2>3. b <= made
    BY <1>1, <2>1 DEF OInv, QInv, Unmade
  <2> QED BY <2>1, <2>2, <2>3
<1>3. live[what[b].scope] <= b
  BY <1>1 DEF OInv, Older
<1>4. \A s \in Scopes : live[s] <= live'[s]
  BY <1>1, <1>2, <1>3, BoundAssumption
<1>5. LiveMade'
  BY <1>1, <1>2 DEF OInv, LiveMade
<1>6. Older'
  <2> SUFFICES ASSUME NEW x \in Builds, Active(x)' \/ stage'[x] # "idle" PROVE live'[what[x].scope] <= x
    BY <1>1 DEF Older
  <2>1. Active(x) \/ stage[x] # "idle"
    BY <1>1 DEF Active, OInv, QInv, TypeOK
  <2>2. CASE what[x].scope # what[b].scope
    BY <1>1, <1>2, <2>1, <2>2 DEF OInv, Older, QInv, TypeOK, Requests
  <2>3. CASE what[x].scope = what[b].scope
    <3>1. live'[what[x].scope] = b
      BY <1>1, <1>2, <2>3
    <3>2. ASSUME x < b PROVE FALSE
      <4>1. CASE Active(x) /\ Owns(b)
        BY <3>2, <2>3, <4>1 DEF OInv, QInv, Shape, Active, Owns
      <4>2. CASE Active(x) /\ ~Owns(b)
        BY <1>1, <3>2, <2>3, <4>2 DEF OInv, Late
      <4>3. CASE ~Active(x)
        <5>1. stage[x] # "idle" /\ ~Owns(x) /\ x \in 1..made
          BY <2>1, <4>3, <1>2, <3>2 DEF Active, Owns
        <5> QED BY <5>1, <1>1, <3>2, <2>3 DEF Unnoticed, Scope
      <4> QED BY <4>1, <4>2, <4>3
    <3> QED BY <3>1, <3>2
  <2> QED BY <2>2, <2>3
<1> QED BY <1>4, <1>5, <1>6

LEMMA OStep ==
  ASSUME OInv, ~LateReplica, [Next]_vars
  PROVE  OInv' /\ \A s \in Scopes : live[s] <= live'[s]
<1>1. QInv' /\ Moves
  BY QStep, StepMoves DEF OInv
<1>2. Late'
  BY <1>1, LateKept
<1>3. CASE live' = live
  <2>1. LiveMade'
    <3>1. live \in [Scopes -> 0..MaxBuilds] /\ made \in Int BY DEF OInv, QInv, TypeOK
    <3> QED BY <1>1, <1>3, <3>1 DEF OInv, LiveMade, Moves
  <2>2. Older'
    <3> SUFFICES ASSUME NEW b \in Builds, Active(b)' \/ stage'[b] # "idle" PROVE live[what'[b].scope] <= b
      BY <1>3 DEF Older
    <3>1. live \in [Scopes -> 0..MaxBuilds] /\ made \in 0..MaxBuilds /\ what'[b].scope \in Scopes
      BY <1>1 DEF OInv, QInv, TypeOK, Requests
    <3>2. CASE b > made
      BY <3>1, <3>2 DEF OInv, LiveMade
    <3>3. CASE b <= made
      <4>1. what'[b].scope = what[b].scope BY <1>1, <3>1, <3>3 DEF Moves
      <4>2. Active(b) \/ stage[b] # "idle" BY <1>1, <3>1, <3>3 DEF Moves
      <4> QED BY <4>1, <4>2 DEF OInv, Older
    <3> QED BY <3>1, <3>2, <3>3
  <2>3. \A s \in Scopes : live[s] <= live'[s]
    BY <1>3 DEF OInv, QInv, TypeOK
  <2> QED BY <1>1, <1>2, <2>1, <2>2, <2>3 DEF OInv
<1>4. CASE \E b \in Builds : Deliver(b)
  BY <1>1, <1>2, <1>4, DeliverSteps DEF OInv
<1> QED BY <1>3, <1>4, LiveSteps

\* No build deploys over a newer one of its scope, where a replica learns of a
\* lost lease within the time a newer build takes (holdLease's heartbeat
\* against runBuild): the deploys themselves are not pinned to the lease.
THEOREM NewerStandsHolds == ASSUME ~LateReplica PROVE Spec => NewerStands
<1>1. OInv /\ [Next]_vars => OInv'
  BY OStep
<1>2. OInv /\ [Next]_vars => [\A s \in Scopes : live[s] <= live'[s]]_vars
  BY OStep
<1> QED BY <1>1, <1>2, OInit, PTL DEF Spec, NewerStands
================================================================================
