----------------------------- MODULE TaskQueueProofs -----------------------------
(***************************************************************************)
(* The deferred-task queue, for any tasks, replicas and limits: no task is *)
(* in two sweeps' hands, a final status is final and the retry budget      *)
(* holds.  All three rest on one fact, that a sweep's deadline comes       *)
(* before the lease of what it claimed runs out; so do the limits that     *)
(* TypeOK states, of attempts, of waits and of how long a sweep runs.      *)
(***************************************************************************)
EXTENDS TaskQueue, TLAPS, FiniteSetTheorems

\* The kinds of the variables, as far as the argument needs them.
Kinds ==
  /\ status \in [Tasks -> Statuses]
  /\ attempts \in [Tasks -> Nat]
  /\ age \in [Tasks -> Nat]
  /\ sweep \in [Workers -> {"idle", "claim", "drain"}]
  /\ elapsed \in [Workers -> Nat]
  /\ claimed \in [Workers -> SUBSET Tasks]
  /\ inflight \in [Workers -> SUBSET Tasks]
  /\ seen \in [Workers -> [Tasks -> Nat]]
  /\ runs \in [Tasks -> Nat]

\* No sweep runs on past its deadline.
InTime == \A w \in Workers : elapsed[w] <= Timeout

\* What a draining sweep holds is running, was claimed since the sweep began and
\* has the attempts the sweep read.
Holding ==
  \A w \in Workers : \A t \in Held(w) :
    /\ sweep[w] = "drain" /\ status[t] = "running"
    /\ age[t] <= elapsed[w] /\ seen[w][t] = attempts[t]

\* A row is in one place of one sweep.
Apart ==
  /\ \A w \in Workers : claimed[w] \cap inflight[w] = {}
  /\ OneWorkerPerTask

\* Every invocation is paid for by an attempt, but for the one of a row that is
\* running, whose attempt is still to be counted.
Budget ==
  \A t \in Tasks :
    /\ status[t] = "absent" => attempts[t] = 0 /\ runs[t] = 0
    /\ status[t] = "pending" => attempts[t] < MaxAttempts /\ runs[t] <= attempts[t]
    /\ status[t] = "running" => attempts[t] < MaxAttempts /\ runs[t] <= attempts[t] + 1
    /\ status[t] \in Final => runs[t] <= MaxAttempts
    /\ \A w \in Workers : t \in claimed[w] => runs[t] <= attempts[t]

QInv == Kinds /\ InTime /\ Holding /\ Apart /\ Budget

\* Init, the empty queue, satisfies the invariant.
LEMMA InitQ == Init => QInv
  BY LimitAssumption, TimingAssumption
  DEF Init, QInv, Kinds, InTime, Holding, Apart, Budget, Held, OneWorkerPerTask, Statuses, Final

\* A call of the runtime touches rows no sweep holds.
LEMMA CallQ ==
  ASSUME QInv, NEW t \in Tasks, NEW delay \in 0..MaxDelay, Schedule(t, delay) \/ Cancel(t)
  PROVE  QInv'
  <1> USE LimitAssumption DEF QInv, Schedule, Cancel, rows, sweeps
  <1>1. Kinds' BY DEF Kinds, Statuses, Final
  <1>2. InTime' BY DEF InTime
  <1>3. Holding' BY DEF Holding, Held, Kinds
  <1>4. Apart' BY DEF Apart, OneWorkerPerTask, Held
  <1>5. Budget' BY DEF Budget, Kinds, Statuses, Final
  <1> QED BY <1>1, <1>2, <1>3, <1>4, <1>5

\* What a row looks like after the reap, when only lapsed claims are taken back.
LEMMA ReapQ ==
  ASSUME QInv, NEW taken \in SUBSET Expired, NEW t \in Tasks
  PROVE  /\ AfterReap(t, taken).status \in Statuses
         /\ AfterReap(t, taken).attempts \in Nat
         /\ t \in taken => \A w \in Workers : t \notin Held(w)
         /\ AfterReap(t, taken).status = "pending" =>
              /\ \A w \in Workers : t \notin Held(w)
              /\ AfterReap(t, taken).attempts < MaxAttempts
              /\ runs[t] <= AfterReap(t, taken).attempts
         /\ t \in taken =>
              /\ AfterReap(t, taken).status \in {"pending", "failed"}
              /\ runs[t] <= MaxAttempts
         /\ t \notin taken => /\ AfterReap(t, taken).status = status[t]
                              /\ AfterReap(t, taken).attempts = attempts[t]
  <1> USE DEF QInv
  <1>1. t \in taken => status[t] = "running" /\ age[t] > Lease
    BY DEF Expired
  <1>2. t \in taken => \A w \in Workers : t \notin Held(w)
    <2> SUFFICES ASSUME t \in taken, NEW w \in Workers, t \in Held(w) PROVE FALSE
      OBVIOUS
    <2>1. age[t] <= elapsed[w] /\ elapsed[w] <= Timeout
      BY DEF Holding, InTime
    <2> QED BY <1>1, <2>1, TimingAssumption DEF Kinds
  <1>3. \A w \in Workers : t \in Held(w) => status[t] = "running"
    BY DEF Holding
  <1>4. t \notin taken => /\ AfterReap(t, taken).status = status[t]
                          /\ AfterReap(t, taken).attempts = attempts[t]
    BY DEF AfterReap
  <1>5. t \in taken => /\ AfterReap(t, taken).attempts = attempts[t] + 1
                       /\ AfterReap(t, taken).status =
                            (IF attempts[t] + 1 >= MaxAttempts THEN "failed" ELSE "pending")
    BY DEF AfterReap, Reaped
  <1> QED BY <1>1, <1>2, <1>3, <1>4, <1>5, LimitAssumption DEF Kinds, Budget, Statuses, Final

\* What the claim leaves when it takes back `taken`, closes `closed` and claims
\* `batch`.
Claiming(w, taken, closed, batch) ==
  /\ status' = [t \in Tasks |-> IF t \in closed THEN "failed"
                                ELSE IF t \in batch THEN "running"
                                ELSE AfterReap(t, taken).status]
  /\ attempts' = [t \in Tasks |-> AfterReap(t, taken).attempts]
  /\ age' = [t \in Tasks |-> IF t \in taken \cup batch THEN 0 ELSE age[t]]
  /\ claimed' = [claimed EXCEPT ![w] = batch]
  /\ seen' = [seen EXCEPT ![w] = [t \in Tasks |-> IF t \in batch
                                                  THEN AfterReap(t, taken).attempts
                                                  ELSE 0]]

\* A claim is such a step.
LEMMA ClaimShape ==
  ASSUME NEW w \in Workers, ClaimDue(w)
  PROVE  \E taken \in Limited(Expired) :
           \E closed \in Limited(Due(taken) \cap Oversized),
              batch \in Limited(Due(taken) \ Oversized) : Claiming(w, taken, closed, batch)
  BY DEF ClaimDue, Claiming

\* The claim takes rows that are in no sweep's hands.
LEMMA ClaimQ ==
  ASSUME QInv, NEW w \in Workers, ClaimDue(w)
  PROVE  QInv'
  <1>1. PICK taken \in Limited(Expired) :
          \E closed \in Limited(Due(taken) \cap Oversized),
             batch \in Limited(Due(taken) \ Oversized) : Claiming(w, taken, closed, batch)
    BY ClaimShape
  <1>2. PICK closed \in Limited(Due(taken) \cap Oversized),
             batch \in Limited(Due(taken) \ Oversized) :
            /\ status' = [t \in Tasks |-> IF t \in closed THEN "failed"
                                          ELSE IF t \in batch THEN "running"
                                          ELSE AfterReap(t, taken).status]
            /\ attempts' = [t \in Tasks |-> AfterReap(t, taken).attempts]
            /\ age' = [t \in Tasks |-> IF t \in taken \cup batch THEN 0 ELSE age[t]]
            /\ claimed' = [claimed EXCEPT ![w] = batch]
            /\ seen' = [seen EXCEPT ![w] = [t \in Tasks |-> IF t \in batch
                                                            THEN AfterReap(t, taken).attempts
                                                            ELSE 0]]
    BY <1>1 DEF Claiming
  <1>3. /\ sweep[w] = "claim" /\ sweep' = [sweep EXCEPT ![w] = "drain"]
        /\ UNCHANGED <<wait, elapsed, inflight, runs>>
    BY DEF ClaimDue
  <1>4. taken \in SUBSET Expired
    BY DEF Limited
  <1>5. \A t \in closed \cup batch : t \in Tasks /\ AfterReap(t, taken).status = "pending"
    BY DEF Limited, Due
  <1>6. claimed[w] = {} /\ inflight[w] = {}
    BY <1>3 DEF QInv, Holding, Held
  <1>7. \A t \in Tasks :
           /\ AfterReap(t, taken).status \in Statuses
           /\ AfterReap(t, taken).attempts \in Nat
           /\ t \in taken => \A v \in Workers : t \notin Held(v)
           /\ AfterReap(t, taken).status = "pending" =>
                /\ \A v \in Workers : t \notin Held(v)
                /\ AfterReap(t, taken).attempts < MaxAttempts
                /\ runs[t] <= AfterReap(t, taken).attempts
           /\ t \in taken =>
                /\ AfterReap(t, taken).status \in {"pending", "failed"}
                /\ runs[t] <= MaxAttempts
           /\ t \notin taken => /\ AfterReap(t, taken).status = status[t]
                                /\ AfterReap(t, taken).attempts = attempts[t]
    BY ReapQ, <1>4
  <1>8. \A t \in batch : t \notin closed
    BY DEF Limited
  <1>9. Kinds'
    BY <1>2, <1>3, <1>5, <1>7 DEF QInv, Kinds, Statuses, Final
  <1>10. InTime'
    BY <1>3 DEF QInv, InTime
  <1>11. Holding'
    <2> SUFFICES ASSUME NEW v \in Workers, NEW t \in Held(v)'
                 PROVE  /\ sweep'[v] = "drain" /\ status'[t] = "running"
                        /\ age'[t] <= elapsed'[v] /\ seen'[v][t] = attempts'[t]
      BY DEF Holding
    <2>1. CASE v = w
      <3>1. t \in batch
        BY <1>2, <1>3, <1>6, <2>1 DEF Held, QInv, Kinds
      <3> QED BY <3>1, <2>1, <1>2, <1>3, <1>5, <1>8 DEF QInv, Kinds
    <2>2. CASE v # w
      <3>1. t \in Held(v)
        BY <1>2, <1>3, <2>2 DEF Held, QInv, Kinds
      <3>2. /\ sweep[v] = "drain" /\ status[t] = "running" /\ t \in Tasks
            /\ age[t] <= elapsed[v] /\ seen[v][t] = attempts[t]
        BY <3>1 DEF QInv, Holding, Held, Kinds
      <3>3. t \notin taken /\ t \notin batch /\ t \notin closed
        BY <3>1, <3>2, <1>5, <1>7
      <3> QED BY <3>2, <3>3, <2>2, <1>2, <1>3, <1>7 DEF QInv, Kinds
    <2> QED BY <2>1, <2>2
  <1>12. Apart'
    <2>1. \A v \in Workers : v # w => claimed'[v] = claimed[v]
      BY <1>2 DEF QInv, Kinds
    <2>2. claimed'[w] = batch /\ inflight' = inflight
      BY <1>2, <1>3 DEF QInv, Kinds
    <2>3. \A v \in Workers : batch \cap Held(v) = {}
      BY <1>5, <1>7
    <2> QED BY <2>1, <2>2, <2>3, <1>6 DEF QInv, Apart, OneWorkerPerTask, Held
  <1>13. Budget'
    <2> SUFFICES ASSUME NEW t \in Tasks
                 PROVE  /\ status'[t] = "absent" => attempts'[t] = 0 /\ runs'[t] = 0
                        /\ status'[t] = "pending" =>
                             attempts'[t] < MaxAttempts /\ runs'[t] <= attempts'[t]
                        /\ status'[t] = "running" =>
                             attempts'[t] < MaxAttempts /\ runs'[t] <= attempts'[t] + 1
                        /\ status'[t] \in Final => runs'[t] <= MaxAttempts
                        /\ \A v \in Workers : t \in claimed'[v] => runs'[t] <= attempts'[t]
      BY DEF Budget
    <2>1. /\ attempts'[t] = AfterReap(t, taken).attempts /\ runs'[t] = runs[t]
          /\ status'[t] = (IF t \in closed THEN "failed" ELSE IF t \in batch THEN "running"
                           ELSE AfterReap(t, taken).status)
      BY <1>2, <1>3
    <2>2. CASE t \in closed \cup batch
      <3>1. /\ AfterReap(t, taken).attempts < MaxAttempts
            /\ runs[t] <= AfterReap(t, taken).attempts
        BY <2>2, <1>5, <1>7
      <3> QED BY <3>1, <2>1, <2>2, <1>7, LimitAssumption DEF QInv, Kinds, Final
    <2>3. CASE t \notin closed \cup batch
      <3>1. \A v \in Workers : t \in claimed'[v] => t \in claimed[v]
        BY <2>3, <1>2 DEF QInv, Kinds
      <3>2. \A v \in Workers : t \in claimed[v] => t \notin taken
        BY <1>7 DEF Held
      <3>3. CASE t \in taken
        BY <3>1, <3>2, <3>3, <2>1, <2>3, <1>7 DEF Final
      <3>4. CASE t \notin taken
        <4>1. status'[t] = status[t] /\ attempts'[t] = attempts[t]
          BY <3>4, <2>1, <2>3, <1>7
        <4> QED BY <4>1, <2>1, <3>1 DEF QInv, Budget
      <3> QED BY <3>3, <3>4
    <2> QED BY <2>2, <2>3
  <1> QED BY <1>9, <1>10, <1>11, <1>12, <1>13 DEF QInv

\* A sweep begins with empty hands, and ends with them: rows are left as they are.
LEMMA SweepQ ==
  ASSUME QInv, NEW w \in Workers,
         BeginSweep(w) \/ EndSweep(w) \/ Deadline(w) \/ Crash(w)
  PROVE  QInv'
  <1>1. CASE BeginSweep(w)
    <2>1. claimed[w] = {} /\ inflight[w] = {}
      BY <1>1 DEF BeginSweep, QInv, Holding, Held
    <2> USE <1>1, <2>1, TimingAssumption DEF BeginSweep, QInv, rows
    <2>2. Kinds' BY DEF Kinds
    <2>3. InTime' BY DEF InTime, Kinds
    <2>4. Holding' BY DEF Holding, Held, Kinds
    <2>5. Apart' BY DEF Apart, OneWorkerPerTask, Held
    <2>6. Budget' BY DEF Budget
    <2> QED BY <2>2, <2>3, <2>4, <2>5, <2>6
  <1>2. CASE EndSweep(w) \/ Deadline(w) \/ Crash(w)
    <2>1. Abandon(w)
      BY <1>2 DEF EndSweep, Deadline, Crash
    <2> USE <2>1, TimingAssumption DEF Abandon, QInv, rows
    <2>2. Kinds' BY DEF Kinds
    <2>3. InTime' BY DEF InTime, Kinds
    <2>4. Holding' BY DEF Holding, Held, Kinds
    <2>5. Apart' BY DEF Apart, OneWorkerPerTask, Held, Kinds
    <2>6. Budget' BY DEF Budget, Kinds
    <2> QED BY <2>2, <2>3, <2>4, <2>5, <2>6
  <1> QED BY <1>1, <1>2

\* A row that leaves one sweep's hands was in no other's, so whatever is written
\* of it concerns no other sweep.
LEMMA DropQ ==
  ASSUME QInv, NEW w \in Workers, NEW t \in Held(w), Drop(w, t),
         status' \in [Tasks -> Statuses], attempts' \in [Tasks -> Nat],
         \A u \in Tasks : u # t => status'[u] = status[u] /\ attempts'[u] = attempts[u],
         UNCHANGED <<age, runs>>
  PROVE  Kinds' /\ InTime' /\ Holding' /\ Apart'
  <1> USE DEF QInv
  <1>1. \A v \in Workers : /\ claimed'[v] \subseteq claimed[v]
                           /\ inflight'[v] \subseteq inflight[v]
                           /\ t \notin claimed'[v] /\ t \notin inflight'[v]
    BY DEF Drop, Apart, OneWorkerPerTask, Held, Kinds
  <1>2. \A v \in Workers, u \in Tasks : u # t => seen'[v][u] = seen[v][u]
    BY DEF Drop, Kinds
  <1>3. Kinds'
    BY DEF Drop, Kinds
  <1>4. InTime'
    BY DEF Drop, InTime
  <1>5. Holding'
    <2> SUFFICES ASSUME NEW v \in Workers, NEW u \in Held(v)'
                 PROVE  /\ sweep'[v] = "drain" /\ status'[u] = "running"
                        /\ age'[u] <= elapsed'[v] /\ seen'[v][u] = attempts'[u]
      BY DEF Holding
    <2>1. u \in Held(v) /\ u # t
      BY <1>1 DEF Held
    <2>2. u \in Tasks
      BY <2>1 DEF Held, Kinds
    <2> QED BY <2>1, <2>2, <1>2 DEF Holding, Drop
  <1>6. Apart'
    BY <1>1 DEF Apart, OneWorkerPerTask, Held
  <1> QED BY <1>3, <1>4, <1>5, <1>6

\* A row begun, settled or let go.
LEMMA WorkQ ==
  ASSUME QInv, NEW w \in Workers, NEW t \in Tasks, Work(w, t)
  PROVE  QInv'
  <1> USE DEF QInv
  <1>1. t \in Held(w)
    BY DEF Work, Refuse, Dispatch, Admitted, MarkSkipped, Complete, Fail, Panic, OutcomeLost, Held
  <1>2. /\ status[t] = "running" /\ seen[w][t] = attempts[t]
        /\ attempts[t] < MaxAttempts /\ runs[t] <= attempts[t] + 1
    BY <1>1 DEF Holding, Budget
  <1>3. CASE Dispatch(w, t)
    <2>1. runs[t] <= attempts[t]
      BY <1>3 DEF Dispatch, Admitted, Budget
    <2> USE <1>3 DEF Dispatch, rows
    <2>2. Kinds' BY DEF Kinds
    <2>3. InTime' BY DEF InTime
    <2>4. \A v \in Workers : Held(v)' = Held(v)
      BY <1>3 DEF Held, Kinds, Admitted
    <2>5. Holding' BY <2>4 DEF Holding
    <2>6. Apart'
      BY <2>4 DEF Apart, OneWorkerPerTask, Kinds
    <2>7. \A v \in Workers : t \notin claimed'[v]
      BY <1>1 DEF Apart, OneWorkerPerTask, Held, Kinds
    <2>8. \A v \in Workers : claimed'[v] \subseteq claimed[v]
      BY DEF Kinds
    <2>9. Budget'
      BY <2>1, <2>7, <2>8, <1>2 DEF Budget, Kinds, Final
    <2> QED BY <2>2, <2>3, <2>5, <2>6, <2>9
  <1>4. ASSUME Drop(w, t), status' \in [Tasks -> Statuses], attempts' \in [Tasks -> Nat],
               \A u \in Tasks : u # t => status'[u] = status[u] /\ attempts'[u] = attempts[u],
               UNCHANGED <<age, runs>>,
               \/ status'[t] \in Final
               \/ status'[t] = "pending" /\ attempts'[t] < MaxAttempts /\ runs[t] <= attempts'[t]
               \/ status'[t] = "running" /\ attempts'[t] = attempts[t]
        PROVE  QInv'
    <2>1. Kinds' /\ InTime' /\ Holding' /\ Apart'
      BY <1>1, <1>4, DropQ
    <2>2. \A v \in Workers : claimed'[v] \subseteq claimed[v] /\ t \notin claimed'[v]
      BY <1>1, <1>4 DEF Drop, Apart, OneWorkerPerTask, Held, Kinds
    <2>3. runs[t] \in Nat /\ attempts[t] \in Nat /\ runs[t] <= MaxAttempts
      BY <1>2, LimitAssumption DEF Kinds
    <2>4. Budget'
      BY <2>2, <2>3, <1>2, <1>4 DEF Budget, Final
    <2> QED BY <2>1, <2>4
  <1>5. CASE Refuse(w, t) \/ MarkSkipped(w, t) \/ Panic(w, t)
    BY <1>4, <1>5 DEF Refuse, MarkSkipped, Panic, Kinds, Statuses, Final
  <1>6. CASE Complete(w, t)
    BY <1>4, <1>6 DEF Complete, Kinds, Statuses, Final
  <1>7. CASE OutcomeLost(w, t)
    BY <1>2, <1>4, <1>7 DEF OutcomeLost, Kinds, rows
  <1>8. CASE Fail(w, t)
    <2>1. attempts[t] \in Nat /\ ClampAttempts(seen[w][t]) + 1 = attempts[t] + 1
      BY <1>2, LimitAssumption DEF ClampAttempts, Kinds
    <2>2. /\ attempts' = [attempts EXCEPT ![t] = attempts[t] + 1]
          /\ IF attempts[t] + 1 >= MaxAttempts
             THEN status' = [status EXCEPT ![t] = "failed"]
             ELSE status' = [status EXCEPT ![t] = "pending"]
          /\ Drop(w, t) /\ UNCHANGED <<age, runs>>
      BY <2>1, <1>8 DEF Fail
    <2>3. /\ status' \in [Tasks -> Statuses] /\ attempts' \in [Tasks -> Nat]
          /\ \A u \in Tasks : u # t => status'[u] = status[u] /\ attempts'[u] = attempts[u]
      <3>1. PICK s \in {"failed", "pending"} : status' = [status EXCEPT ![t] = s]
        BY <2>2
      <3>2. s \in Statuses
        BY DEF Statuses, Final
      <3> QED BY <2>1, <2>2, <3>1, <3>2 DEF Kinds
    <2>4. attempts'[t] = attempts[t] + 1
      BY <2>2 DEF Kinds
    <2>5. CASE attempts[t] + 1 >= MaxAttempts
      <3>1. status'[t] \in Final
        BY <2>2, <2>5 DEF Kinds, Final
      <3> QED BY <1>4, <2>2, <2>3, <3>1
    <2>6. CASE ~(attempts[t] + 1 >= MaxAttempts)
      <3>1. status'[t] = "pending"
        BY <2>2, <2>6 DEF Kinds
      <3>2. attempts'[t] < MaxAttempts /\ runs[t] <= attempts'[t]
        BY <1>2, <2>1, <2>4, <2>6, LimitAssumption
      <3> QED BY <1>4, <2>2, <2>3, <3>1, <3>2
    <2> QED BY <2>5, <2>6
  <1> QED BY <1>3, <1>5, <1>6, <1>7, <1>8 DEF Work

\* Time passes for a row and for the sweep that holds it alike.
LEMMA TickQ ==
  ASSUME QInv, Tick
  PROVE  QInv'
  <1> USE TimingAssumption DEF QInv, Tick
  <1>1. Kinds' BY DEF Kinds
  <1>2. InTime' BY DEF InTime, Kinds
  <1>3. Holding'
    <2> SUFFICES ASSUME NEW w \in Workers, NEW t \in Held(w)
                 PROVE  /\ sweep'[w] = "drain" /\ status'[t] = "running"
                        /\ age'[t] <= elapsed'[w] /\ seen'[w][t] = attempts'[t]
      BY DEF Holding, Held
    <2>1. /\ sweep[w] = "drain" /\ status[t] = "running" /\ t \in Tasks
          /\ age[t] <= elapsed[w] /\ seen[w][t] = attempts[t]
      BY DEF Holding, Held, Kinds
    <2>2. elapsed'[w] = elapsed[w] + 1 /\ age'[t] \in {age[t], age[t] + 1}
      BY <2>1 DEF Kinds
    <2> QED BY <2>1, <2>2 DEF Kinds
  <1>4. Apart' BY DEF Apart, OneWorkerPerTask, Held
  <1>5. Budget' BY DEF Budget
  <1> QED BY <1>1, <1>2, <1>3, <1>4, <1>5

\* Every step keeps the invariant.
LEMMA NextQ == QInv /\ [Next]_vars => QInv'
  <1> SUFFICES ASSUME QInv, [Next]_vars PROVE QInv'
    OBVIOUS
  <1>1. CASE UNCHANGED vars
    BY <1>1 DEF vars, rows, sweeps, QInv, Kinds, InTime, Holding, Apart, Budget, Held, OneWorkerPerTask
  <1>2. CASE \E t \in Tasks : Cancel(t) \/ (\E delay \in 0..MaxDelay : Schedule(t, delay))
    <2>1. 0 \in 0..MaxDelay
      BY LimitAssumption
    <2> QED BY <1>2, <2>1, CallQ
  <1>3. CASE \E w \in Workers : \/ BeginSweep(w) \/ ClaimDue(w) \/ EndSweep(w)
                                \/ Deadline(w) \/ Crash(w)
    BY <1>3, ClaimQ, SweepQ
  <1>4. CASE \E w \in Workers, t \in Tasks : Work(w, t)
    BY <1>4, WorkQ
  <1>5. CASE Tick
    BY <1>5, TickQ
  <1> QED BY <1>1, <1>2, <1>3, <1>4, <1>5 DEF Next

\* The invariant holds of every behaviour of the queue.
LEMMA QueueInvariant == Spec => []QInv
  BY InitQ, NextQ, PTL DEF Spec

\* No two replicas ever work on one task at a time, whatever claims lapse,
\* sweeps overrun or replicas die.
THEOREM OneWorkerPerTaskHolds == Spec => []OneWorkerPerTask
  <1>1. QInv => OneWorkerPerTask
    BY DEF QInv, Apart
  <1> QED BY <1>1, QueueInvariant, PTL

\* No task is invoked more often than the retry budget allows, however its
\* invocations, the writes of their outcomes and its sweeps fail.
THEOREM BudgetKeptHolds == Spec => []BudgetKept
  <1>1. QInv => BudgetKept
    <2> SUFFICES ASSUME QInv, NEW t \in Tasks PROVE runs[t] <= MaxAttempts
      BY DEF BudgetKept
    <2> QED BY LimitAssumption DEF QInv, Budget, Kinds, Statuses
  <1> QED BY <1>1, QueueInvariant, PTL

\* A task that has ended is never written or invoked again, by a late sweep, a
\* reap, a cancel or a retried call.
THEOREM FinalStaysHolds == Spec => FinalStays
  <1>1. QInv /\ [Next]_vars =>
          [\A t \in Tasks : status[t] \in Final => status'[t] = status[t] /\ runs'[t] = runs[t]]_vars
    <2> SUFFICES ASSUME QInv, Next, NEW t \in Tasks, status[t] \in Final
                 PROVE  status'[t] = status[t] /\ runs'[t] = runs[t]
      BY DEF vars
    <2> USE DEF QInv
    <2>1. \A w \in Workers : t \notin Held(w)
      BY DEF Holding, Final
    <2>2. CASE \E u \in Tasks : Cancel(u) \/ (\E delay \in 0..MaxDelay : Schedule(u, delay))
      BY <2>2 DEF Cancel, Schedule, Final, Kinds
    <2>3. ASSUME NEW w \in Workers, ClaimDue(w)
          PROVE  status'[t] = status[t] /\ runs'[t] = runs[t]
      <3>1. PICK taken \in Limited(Expired) :
              \E closed \in Limited(Due(taken) \cap Oversized),
                 batch \in Limited(Due(taken) \ Oversized) : Claiming(w, taken, closed, batch)
        BY <2>3, ClaimShape
      <3>2. PICK closed \in Limited(Due(taken) \cap Oversized),
                 batch \in Limited(Due(taken) \ Oversized) : Claiming(w, taken, closed, batch)
        BY <3>1
      <3>3. t \notin taken
        BY DEF Limited, Expired, Final
      <3>4. AfterReap(t, taken).status = status[t]
        BY <3>3 DEF AfterReap
      <3>5. t \notin closed /\ t \notin batch
        BY <3>4 DEF Limited, Due, Final
      <3> QED BY <3>2, <3>4, <3>5, <2>3 DEF ClaimDue, Claiming
    <2>4. ASSUME NEW w \in Workers, BeginSweep(w) \/ EndSweep(w) \/ Deadline(w) \/ Crash(w)
          PROVE  status'[t] = status[t] /\ runs'[t] = runs[t]
      BY <2>4 DEF BeginSweep, EndSweep, Deadline, Crash, Abandon, rows
    <2>5. ASSUME NEW w \in Workers, NEW u \in Tasks, Work(w, u)
          PROVE  status'[t] = status[t] /\ runs'[t] = runs[t]
      <3>1. u \in Held(w)
        BY <2>5 DEF Work, Refuse, Dispatch, Admitted, MarkSkipped, Complete, Fail, Panic,
                    OutcomeLost, Held
      <3>2. u # t
        BY <3>1, <2>1
      <3> QED BY <3>2, <2>5 DEF Work, Refuse, Dispatch, MarkSkipped, Complete, Fail, Panic,
                                OutcomeLost, Kinds, rows
    <2>6. CASE Tick
      BY <2>6 DEF Tick
    <2> QED BY <2>2, <2>3, <2>4, <2>5, <2>6 DEF Next
  <1> QED BY <1>1, QueueInvariant, PTL DEF Spec, FinalStays

--------------------------------------------------------------------------------
(* The bounds.                                                             *)

MaxWait == IF MaxDelay > BackoffCap THEN MaxDelay ELSE BackoffCap

\* Waits, ages and attempts stay within their limits.
Bounded ==
  /\ wait \in [Tasks -> 0..MaxWait]
  /\ \A t \in Tasks : age[t] <= Lease + 1 /\ attempts[t] <= MaxAttempts

\* A power of two is a natural number: there are that many subsets of a set.
LEMMA PowerType ==
  ASSUME NEW n \in Nat
  PROVE  2^n \in Nat
  <1>1. IsFiniteSet(1..n) /\ Cardinality(1..n) = n
    BY FS_Interval
  <1>2. IsFiniteSet(SUBSET (1..n)) /\ Cardinality(SUBSET (1..n)) = 2^n
    BY <1>1, FS_SUBSET
  <1> QED BY <1>2, FS_CardinalityType

\* The backoff never exceeds its cap, however often a task has failed.
LEMMA BackoffBound ==
  ASSUME NEW n \in Nat \ {0}
  PROVE  BackoffDelay(n) \in 0..MaxWait
  <1>1. n - 1 \in Nat
    OBVIOUS
  <1>2. 2^(n - 1) \in Nat
    BY <1>1, PowerType
  <1>3. BackoffDelay(n) \in 0..BackoffCap
    BY <1>2, LimitAssumption DEF BackoffDelay
  <1> QED BY <1>3, LimitAssumption DEF MaxWait

\* Settling a row leaves the others', and counts at most one attempt.
LEMMA WorkBounded ==
  ASSUME QInv, Bounded, NEW w \in Workers, NEW t \in Tasks, Work(w, t)
  PROVE  Bounded'
  <1> USE DEF QInv
  <1>1. t \in Held(w)
    BY DEF Work, Refuse, Dispatch, Admitted, MarkSkipped, Complete, Fail, Panic, OutcomeLost, Held
  <1>2. seen[w][t] = attempts[t] /\ attempts[t] < MaxAttempts /\ attempts[t] \in Nat
    BY <1>1 DEF Holding, Budget, Kinds
  <1>3. CASE Refuse(w, t) \/ Dispatch(w, t) \/ MarkSkipped(w, t) \/ Panic(w, t) \/ OutcomeLost(w, t)
    <2>1. UNCHANGED <<attempts, wait, age>>
      BY <1>3 DEF Refuse, Dispatch, MarkSkipped, Panic, OutcomeLost, rows
    <2> QED BY <2>1 DEF Bounded
  <1>4. ASSUME attempts' = [attempts EXCEPT ![t] = attempts[t] + 1], age' = age,
               wait' \in [Tasks -> 0..MaxWait]
        PROVE  Bounded'
    <2>1. ASSUME NEW u \in Tasks PROVE attempts'[u] <= MaxAttempts
      BY <1>2, <1>4, <2>1, LimitAssumption DEF Kinds, Bounded
    <2> QED BY <1>4, <2>1 DEF Bounded
  <1>5. CASE Complete(w, t)
    BY <1>4, <1>5 DEF Complete, Bounded
  <1>6. CASE Fail(w, t)
    <2>1. ClampAttempts(seen[w][t]) + 1 = attempts[t] + 1
      BY <1>2, LimitAssumption DEF ClampAttempts
    <2>2. /\ attempts' = [attempts EXCEPT ![t] = attempts[t] + 1] /\ age' = age
          /\ wait' = wait \/ wait' = [wait EXCEPT ![t] = BackoffDelay(attempts[t] + 1)]
      BY <1>6, <2>1 DEF Fail
    <2>3. BackoffDelay(attempts[t] + 1) \in 0..MaxWait
      BY <1>2, BackoffBound
    <2>4. wait' \in [Tasks -> 0..MaxWait]
      BY <2>2, <2>3 DEF Bounded
    <2> QED BY <1>4, <2>2, <2>4
  <1> QED BY <1>3, <1>5, <1>6 DEF Work

\* The claim starts the age of what it takes, and counts an attempt for what it
\* takes back, which had one left.
LEMMA ClaimBounded ==
  ASSUME QInv, Bounded, NEW w \in Workers, ClaimDue(w)
  PROVE  Bounded'
  <1> USE DEF QInv
  <1>1. PICK taken \in Limited(Expired) :
          \E closed \in Limited(Due(taken) \cap Oversized),
             batch \in Limited(Due(taken) \ Oversized) : Claiming(w, taken, closed, batch)
    BY ClaimShape
  <1>2. PICK closed \in Limited(Due(taken) \cap Oversized),
             batch \in Limited(Due(taken) \ Oversized) : Claiming(w, taken, closed, batch)
    BY <1>1
  <1>3. wait' = wait
    BY DEF ClaimDue
  <1>4. ASSUME NEW t \in Tasks PROVE age'[t] <= Lease + 1
    BY <1>2, <1>4, TimingAssumption DEF Claiming, Bounded
  <1>5. ASSUME NEW t \in Tasks PROVE attempts'[t] <= MaxAttempts
    <2>1. attempts'[t] = AfterReap(t, taken).attempts
      BY <1>2, <1>5 DEF Claiming
    <2>2. CASE t \in taken
      <3>1. status[t] = "running"
        BY <2>2 DEF Limited, Expired
      <3>2. attempts[t] < MaxAttempts /\ attempts[t] \in Nat
        BY <1>5, <3>1 DEF Budget, Kinds
      <3> QED BY <2>1, <2>2, <3>2, LimitAssumption DEF AfterReap, Reaped
    <2>3. CASE t \notin taken
      BY <1>5, <2>1, <2>3 DEF AfterReap, Bounded
    <2> QED BY <2>2, <2>3
  <1> QED BY <1>3, <1>4, <1>5 DEF Bounded

\* Every variable holds a value of its kind: no wait is beyond the cap of the
\* backoff or of what a caller may ask, no sweep runs past its deadline and no
\* row counts more attempts than the platform allows.
THEOREM TypeCorrect == Spec => []TypeOK
  <1>1. Init => Bounded
    BY LimitAssumption, TimingAssumption DEF Init, Bounded, MaxWait
  <1>2. ASSUME QInv, Bounded, [Next]_vars PROVE Bounded'
    <2>1. ASSUME NEW t \in Tasks, NEW delay \in 0..MaxDelay, Cancel(t) \/ Schedule(t, delay)
          PROVE  Bounded'
      <3>1. delay \in 0..MaxWait
        BY LimitAssumption DEF MaxWait
      <3> QED BY <1>2, <2>1, <3>1 DEF Cancel, Schedule, Bounded
    <2>2. CASE Tick
      <3>1. ASSUME NEW t \in Tasks PROVE age'[t] <= Lease + 1
        BY <1>2, <2>2, <3>1, TimingAssumption DEF Tick, Bounded, QInv, Kinds
      <3>2. wait' \in [Tasks -> 0..MaxWait]
        <4>1. ASSUME NEW t \in Tasks
              PROVE  (IF wait[t] > 0 THEN wait[t] - 1 ELSE 0) \in 0..MaxWait
          <5>1. wait[t] \in 0..MaxWait /\ MaxWait \in Nat
            BY <1>2, <4>1, LimitAssumption DEF Bounded, MaxWait
          <5> QED BY <5>1
        <4> QED BY <2>2, <4>1 DEF Tick
      <3> QED BY <1>2, <2>2, <3>1, <3>2 DEF Tick, Bounded
    <2>3. ASSUME NEW w \in Workers, BeginSweep(w) \/ EndSweep(w) \/ Deadline(w) \/ Crash(w)
          PROVE  Bounded'
      BY <1>2, <2>3 DEF BeginSweep, EndSweep, Deadline, Crash, Abandon, rows, Bounded
    <2>4. CASE UNCHANGED vars
      BY <1>2, <2>4 DEF vars, rows, Bounded
    <2>5. 0 \in 0..MaxDelay
      BY LimitAssumption
    <2> QED BY <1>2, <2>1, <2>2, <2>3, <2>4, <2>5, WorkBounded, ClaimBounded DEF Next
  <1>3. QInv /\ Bounded => TypeOK
    <2> SUFFICES ASSUME QInv, Bounded PROVE TypeOK
      OBVIOUS
    <2>1. attempts \in [Tasks -> 0..MaxAttempts]
      BY LimitAssumption DEF QInv, Kinds, Bounded
    <2>2. age \in [Tasks -> 0..Lease + 1]
      BY TimingAssumption DEF QInv, Kinds, Bounded
    <2>3. elapsed \in [Workers -> 0..Timeout]
      BY TimingAssumption DEF QInv, Kinds, InTime
    <2> QED BY <2>1, <2>2, <2>3 DEF QInv, Kinds, Bounded, MaxWait, TypeOK
  <1> QED BY <1>1, <1>2, <1>3, QueueInvariant, PTL DEF Spec
================================================================================
