-------------------------------- MODULE TaskQueue --------------------------------
(***************************************************************************)
(* The deferred-task queue of one project: rows of                         *)
(* excalibase_scheduled_functions, written by the runtime's scheduler      *)
(* calls and drained by the sweeps of every control-plane replica.         *)
(*                                                                         *)
(* A sweep claims due rows in one transaction, dispatches them a few at a  *)
(* time and writes each outcome with an UPDATE by id, under one deadline   *)
(* for the whole sweep.  Nothing but the claim's age ties a row to the     *)
(* sweep that took it: a row left 'running' for longer than the claim      *)
(* lease is put back by the next sweep of any replica.                     *)
(*                                                                         *)
(* Time is relative: each row counts how long until it is due and how long *)
(* ago it was claimed, and each sweep how long it has run.                 *)
(***************************************************************************)
EXTENDS Naturals, FiniteSets

CONSTANTS
  Tasks,        \* task ids
  Oversized,    \* tasks beyond the size bounds the sweeps are configured with
  Workers,      \* one sweep at a time in each replica
  MaxAttempts,  \* the retry budget
  Batch,        \* rows claimed by one sweep
  Concurrency,  \* invocations in flight in one sweep
  Timeout,      \* ProjectTimeout: how long a sweep may take
  Lease,        \* ClaimLease: how long a claim may last
  MaxDelay,     \* bound on how far ahead a task is scheduled
  BackoffCap    \* the cap of backoffDelay

ASSUME TaskAssumption   == Oversized \subseteq Tasks
ASSUME LimitAssumption  == /\ MaxAttempts \in Nat \ {0} /\ Batch \in Nat \ {0}
                           /\ Concurrency \in Nat \ {0}
                           /\ MaxDelay \in Nat /\ BackoffCap \in Nat
ASSUME TimingAssumption == Timeout \in Nat /\ Lease \in Nat /\ Timeout < Lease

VARIABLES
  status,    \* of each row; "absent" before it is scheduled
  attempts,
  wait,      \* until scheduled_for
  age,       \* since claimed_at, counted up to just past the lease
  sweep,     \* each worker's sweep: "idle", "claim" or "drain"
  elapsed,   \* how long the sweep has run
  claimed,   \* rows a sweep has claimed and not come to yet
  inflight,  \* rows a sweep is invoking
  seen,      \* the attempts of a row as its sweep read them
  runs       \* invocations of each task so far; no code reads it

rows    == <<status, attempts, wait, age>>
sweeps  == <<sweep, elapsed, claimed, inflight, seen>>
vars    == <<rows, sweeps, runs>>

Final == {"completed", "failed", "skipped", "cancelled"}
Statuses == {"absent", "pending", "running"} \cup Final

Held(w) == claimed[w] \cup inflight[w]

--------------------------------------------------------------------------------
(* What the runtime's calls do.                                            *)

\* A task is recorded once: a retried call carries the same id and changes
\* nothing.
Schedule(t, delay) ==
  /\ status[t] = "absent"
  /\ status' = [status EXCEPT ![t] = "pending"]
  /\ wait' = [wait EXCEPT ![t] = delay]
  /\ UNCHANGED <<attempts, age, sweeps, runs>>

\* Mutant: a task that has started is cancelled too.
CancelMutant(t) ==
  /\ status[t] \in {"pending", "running"}
  /\ status' = [status EXCEPT ![t] = "cancelled"]
  /\ UNCHANGED <<attempts, wait, age, sweeps, runs>>

\* A cancel reaches pending rows only.
Cancel(t) ==
  /\ status[t] = "pending"
  /\ status' = [status EXCEPT ![t] = "cancelled"]
  /\ UNCHANGED <<attempts, wait, age, sweeps, runs>>

--------------------------------------------------------------------------------
(* claimDue.                                                               *)

\* What a statement with LIMIT batch may take of a set of rows.
Limited(S) ==
  {T \in SUBSET S : Cardinality(T) = (IF Cardinality(S) < Batch THEN Cardinality(S) ELSE Batch)}

\* Mutant: a claim is taken back whatever its age.
ExpiredMutant == {t \in Tasks : status[t] = "running"}

\* The rows whose claim lease has run out.
Expired == {t \in Tasks : status[t] = "running" /\ age[t] > Lease}

\* reapAbandonedSQL: each reap spends an attempt, and the last one fails.
Reaped(t) == [status   |-> IF attempts[t] + 1 >= MaxAttempts THEN "failed" ELSE "pending",
              attempts |-> attempts[t] + 1]

\* The row as the reap leaves it, when it takes the rows in `taken`.
AfterReap(t, taken) ==
  IF t \in taken THEN Reaped(t) ELSE [status |-> status[t], attempts |-> attempts[t]]

\* Mutant: only a row that was never tried is picked up.
DueMutant(taken) ==
  {t \in Tasks : AfterReap(t, taken) = [status |-> "pending", attempts |-> 0] /\ wait[t] = 0}

Due(taken) == {t \in Tasks : AfterReap(t, taken).status = "pending" /\ wait[t] = 0}

\* One transaction: reap, close the oversized, claim what is left of the due.
ClaimDue(w) ==
  /\ sweep[w] = "claim"
  /\ \E taken \in Limited(Expired) :
       \E closed \in Limited(Due(taken) \cap Oversized),
          batch \in Limited(Due(taken) \ Oversized) :
         /\ status' = [t \in Tasks |-> IF t \in closed THEN "failed"
                                       ELSE IF t \in batch THEN "running"
                                       ELSE AfterReap(t, taken).status]
         /\ attempts' = [t \in Tasks |-> AfterReap(t, taken).attempts]
         /\ age' = [t \in Tasks |-> IF t \in taken \cup batch THEN 0 ELSE age[t]]
         /\ claimed' = [claimed EXCEPT ![w] = batch]
         /\ seen' = [seen EXCEPT ![w] = [t \in Tasks |-> IF t \in batch
                                                         THEN AfterReap(t, taken).attempts
                                                         ELSE 0]]
  /\ sweep' = [sweep EXCEPT ![w] = "drain"]
  /\ UNCHANGED <<wait, elapsed, inflight, runs>>

--------------------------------------------------------------------------------
(* The rest of a sweep.                                                    *)

\* sweepProject: the deadline runs from before the claim.
BeginSweep(w) ==
  /\ sweep[w] = "idle"
  /\ sweep' = [sweep EXCEPT ![w] = "claim"]
  /\ elapsed' = [elapsed EXCEPT ![w] = 0]
  /\ UNCHANGED <<rows, claimed, inflight, seen, runs>>

\* A row leaves the sweep's hands.
Drop(w, t) ==
  /\ claimed' = [claimed EXCEPT ![w] = @ \ {t}]
  /\ inflight' = [inflight EXCEPT ![w] = @ \ {t}]
  /\ seen' = [seen EXCEPT ![w][t] = 0]
  /\ UNCHANGED <<sweep, elapsed>>

\* reject: a row that names no deployed function, or whose lookup fails, is
\* closed.  What is deployed changes from sweep to sweep.
Refuse(w, t) ==
  /\ t \in claimed[w]
  /\ status' = [status EXCEPT ![t] = "failed"]
  /\ Drop(w, t)
  /\ UNCHANGED <<attempts, wait, age, runs>>

\* A slot is free for a row that may run.
Admitted(w, t) ==
  t \in claimed[w] /\ Cardinality(inflight[w]) < Concurrency

Dispatch(w, t) ==
  /\ Admitted(w, t)
  /\ claimed' = [claimed EXCEPT ![w] = @ \ {t}]
  /\ inflight' = [inflight EXCEPT ![w] = @ \cup {t}]
  /\ runs' = [runs EXCEPT ![t] = @ + 1]
  /\ UNCHANGED <<rows, sweep, elapsed, seen>>

\* The project may not be served: the task is closed and nothing dispatched.
MarkSkipped(w, t) ==
  /\ Admitted(w, t)
  /\ status' = [status EXCEPT ![t] = "skipped"]
  /\ Drop(w, t)
  /\ UNCHANGED <<attempts, wait, age, runs>>

Complete(w, t) ==
  /\ t \in inflight[w]
  /\ status' = [status EXCEPT ![t] = "completed"]
  /\ attempts' = [attempts EXCEPT ![t] = @ + 1]
  /\ Drop(w, t)
  /\ UNCHANGED <<wait, age, runs>>

ClampAttempts(n) == IF n > MaxAttempts THEN MaxAttempts ELSE n

\* Mutant: the wait doubles for ever.
BackoffDelayMutant(n) == 2^(n - 1)

BackoffDelay(n) == IF 2^(n - 1) > BackoffCap THEN BackoffCap ELSE 2^(n - 1)

\* Mutant: the last attempt is not the last.
FailMutant(w, t) ==
  /\ t \in inflight[w]
  /\ LET next == ClampAttempts(seen[w][t]) + 1 IN
       /\ attempts' = [attempts EXCEPT ![t] = next]
       /\ status' = [status EXCEPT ![t] = IF next > MaxAttempts THEN "failed" ELSE "pending"]
       /\ wait' = [wait EXCEPT ![t] = BackoffDelay(next)]
  /\ Drop(w, t)
  /\ UNCHANGED <<age, runs>>

\* The invocation failed: the attempts the sweep read are counted up, and the
\* row waits for its next attempt or has used them all.
Fail(w, t) ==
  /\ t \in inflight[w]
  /\ LET next == ClampAttempts(seen[w][t]) + 1 IN
       /\ attempts' = [attempts EXCEPT ![t] = next]
       /\ IF next >= MaxAttempts
          THEN status' = [status EXCEPT ![t] = "failed"] /\ UNCHANGED wait
          ELSE /\ status' = [status EXCEPT ![t] = "pending"]
               /\ wait' = [wait EXCEPT ![t] = BackoffDelay(next)]
  /\ Drop(w, t)
  /\ UNCHANGED <<age, runs>>

\* The dispatch panicked: the row is closed as it stands.
Panic(w, t) ==
  /\ t \in inflight[w]
  /\ status' = [status EXCEPT ![t] = "failed"]
  /\ Drop(w, t)
  /\ UNCHANGED <<attempts, wait, age, runs>>

\* The write of an outcome fails: it is logged, and the row stays running.
OutcomeLost(w, t) ==
  /\ t \in Held(w)
  /\ Drop(w, t)
  /\ UNCHANGED <<rows, runs>>

\* The sweep ends with rows in hand, which stay running.
Abandon(w) ==
  /\ sweep' = [sweep EXCEPT ![w] = "idle"]
  /\ elapsed' = [elapsed EXCEPT ![w] = 0]
  /\ claimed' = [claimed EXCEPT ![w] = {}]
  /\ inflight' = [inflight EXCEPT ![w] = {}]
  /\ seen' = [seen EXCEPT ![w] = [t \in Tasks |-> 0]]
  /\ UNCHANGED <<rows, runs>>

\* The batch is drained.
EndSweep(w) == sweep[w] = "drain" /\ Held(w) = {} /\ Abandon(w)

\* The sweep's context ends: invocations return, and no write goes through.
Deadline(w) == sweep[w] # "idle" /\ elapsed[w] = Timeout /\ Abandon(w)

\* The replica dies, is shut down, or its claim transaction fails.
Crash(w) == sweep[w] # "idle" /\ Abandon(w)

\* Time passes for rows and sweeps; no sweep outlives its deadline.
Tick ==
  /\ \A w \in Workers : sweep[w] # "idle" => elapsed[w] < Timeout
  /\ elapsed' = [w \in Workers |-> IF sweep[w] # "idle" THEN elapsed[w] + 1 ELSE 0]
  /\ age' = [t \in Tasks |-> IF status[t] = "running" /\ age[t] <= Lease
                             THEN age[t] + 1 ELSE age[t]]
  /\ wait' = [t \in Tasks |-> IF wait[t] > 0 THEN wait[t] - 1 ELSE 0]
  /\ UNCHANGED <<status, attempts, sweep, claimed, inflight, seen, runs>>

--------------------------------------------------------------------------------
Init ==
  /\ status = [t \in Tasks |-> "absent"]
  /\ attempts = [t \in Tasks |-> 0]
  /\ wait = [t \in Tasks |-> 0]
  /\ age = [t \in Tasks |-> 0]
  /\ sweep = [w \in Workers |-> "idle"]
  /\ elapsed = [w \in Workers |-> 0]
  /\ claimed = [w \in Workers |-> {}]
  /\ inflight = [w \in Workers |-> {}]
  /\ seen = [w \in Workers |-> [t \in Tasks |-> 0]]
  /\ runs = [t \in Tasks |-> 0]

\* A claimed row is settled, or begun.
Work(w, t) ==
  \/ Refuse(w, t) \/ Dispatch(w, t) \/ MarkSkipped(w, t)
  \/ Complete(w, t) \/ Fail(w, t) \/ Panic(w, t) \/ OutcomeLost(w, t)

Next ==
  \/ \E t \in Tasks : Cancel(t) \/ (\E delay \in 0..MaxDelay : Schedule(t, delay))
  \/ \E w \in Workers : \/ BeginSweep(w) \/ ClaimDue(w) \/ EndSweep(w)
                        \/ Deadline(w) \/ Crash(w)
  \/ \E w \in Workers, t \in Tasks : Work(w, t)
  \/ Tick

Spec == Init /\ [][Next]_vars

\* Every replica's ticker fires for ever, its claims do not all fail, and its
\* sweep goes on to its end or to its deadline; time passes.  Nothing is assumed
\* of the invocations, nor of the writes of their outcomes.
FairSpec ==
  /\ Spec
  /\ \A w \in Workers : /\ WF_vars(BeginSweep(w)) /\ SF_vars(ClaimDue(w))
                        /\ WF_vars(EndSweep(w)) /\ WF_vars(Deadline(w))
  /\ WF_vars(Tick)

--------------------------------------------------------------------------------
(* What is checked.                                                        *)

\* Every variable holds a value of its kind; no wait is beyond the caps, so a
\* failing task does not drift away.
TypeOK ==
  /\ status \in [Tasks -> Statuses]
  /\ attempts \in [Tasks -> 0..MaxAttempts]
  /\ wait \in [Tasks -> 0..(IF MaxDelay > BackoffCap THEN MaxDelay ELSE BackoffCap)]
  /\ age \in [Tasks -> 0..Lease + 1]
  /\ sweep \in [Workers -> {"idle", "claim", "drain"}]
  /\ elapsed \in [Workers -> 0..Timeout]
  /\ claimed \in [Workers -> SUBSET Tasks]
  /\ inflight \in [Workers -> SUBSET Tasks]
  /\ seen \in [Workers -> [Tasks -> Nat]]
  /\ runs \in [Tasks -> Nat]

\* No two replicas ever work on one task at a time: a row taken back from a
\* sweep is no longer in that sweep's hands, though nothing but the clock
\* tells them apart.
OneWorkerPerTask ==
  \A v, w \in Workers : v # w => Held(v) \cap Held(w) = {}

\* A final status is final: a completed, failed, skipped or cancelled task is
\* never written again by a sweep that is late, by a reap, by a cancel or by a
\* retried schedule call, and is not invoked again.
FinalStays ==
  [][\A t \in Tasks : status[t] \in Final => status'[t] = status[t] /\ runs'[t] = runs[t]]_vars

\* The retry budget holds over failures, lost outcomes, deadlines and crashes:
\* no task is invoked more often than the platform allows.
BudgetKept == \A t \in Tasks : runs[t] <= MaxAttempts

\* A task left in a dead or late sweep's hands is not lost: every scheduled
\* task comes to a final status.
Settles == \A t \in Tasks : status[t] \in {"pending", "running"} ~> status[t] \in Final
================================================================================
