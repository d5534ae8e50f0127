------------------------------- MODULE MajorUpgrade -------------------------------
(***************************************************************************)
(* A major version upgrade of a single host's Postgres.                    *)
(*                                                                         *)
(* A run belongs to one actor at a time: the driver that started it, or    *)
(* the recovery that claimed it once the owner's heartbeat went stale. The *)
(* conversion fences the old container off the network, dumps it, stops    *)
(* and renames it, and lets a new container of the new major load the      *)
(* dump; the project's row is then pointed at the new container and the    *)
(* run marked converted, after which it is only ever finished. Until then  *)
(* a failed or interrupted conversion is put back, by the driver or by     *)
(* whoever recovers it.                                                    *)
(*                                                                         *)
(* Each statement of the platform database and each call to the container  *)
(* engine is one step. Any of them may fail, without effect or with it:    *)
(* the answer may be lost on the way back. An actor may die, and an outage *)
(* of the platform database may cost it its lease and its heartbeats; its  *)
(* context is then cut (the code's fence).                                 *)
(***************************************************************************)
EXTENDS Naturals

CONSTANTS
  MaxActors,      \* the driver and the recoveries after it
  MaxFaults,      \* calls that fail, deaths and outages
  MaxWrites,      \* rows the project's clients write
  RecordAnswered  \* whether a failed recordContainer is known to have changed nothing

Actors == 1..MaxActors
Nobody == 0
Boxes  == {"old", "new"}          \* the two containers
Ends   == {"COMPLETED", "ROLLED_BACK", "FAILED"}
Stages == {"idle", "starting", "abort", "backup", "noted", "convert", "fence", "dump",
           "holdStop", "stop", "holdRename", "rename", "create", "start", "load",
           "holdRecord", "record", "mark", "recover", "check",
           "undo", "remove", "renameBack", "recordBack", "serve", "unfence",
           "conclude", "finish", "serving", "finishing", "cleanup", "end", "gone"}

ASSUME BoundAssumption ==
  /\ MaxActors \in Nat /\ MaxFaults \in Nat /\ MaxWrites \in Nat
  /\ RecordAnswered \in BOOLEAN

VARIABLES
  run,      \* the run's row: status, owner, heartbeat, and the major its data is on
  row,      \* the project's row: status, version, and the container it names
  lease,    \* who holds the project's lifecycle lease
  there, running, fenced,  \* the containers that exist, run, refuse the network
  name,     \* the name the old container goes by
  load,     \* how the new container's first start went
  has,      \* the clients' rows in each container
  dump,     \* and in the dump
  pc,       \* where each actor is
  cut,      \* the actors whose context is cancelled
  swap,     \* what an actor knows of the conversion (swap, problems)
  cont,     \* the container its copy of the project names
  target,   \* the container it would put back
  outcome,  \* what it concludes
  writes, faults

host == <<there, running, fenced, name, load, has, dump>>
know == <<swap, cont, target, outcome>>
vars == <<run, row, lease, host, pc, cut, know, writes, faults>>

Init ==
  /\ run = [status |-> "NONE", owner |-> Nobody, beat |-> "fresh", data |-> "from"]
  /\ row = [status |-> "ACTIVE", version |-> "from", container |-> "old"]
  /\ lease = Nobody
  /\ there = {"old"} /\ running = {"old"} /\ fenced = {}
  /\ name = "project" /\ load = "none" /\ has = [c \in Boxes |-> {}] /\ dump = {}
  /\ pc = [a \in Actors |-> "idle"] /\ cut = {}
  /\ swap = [a \in Actors |-> {}] /\ cont = [a \in Actors |-> "old"]
  /\ target = [a \in Actors |-> "old"] /\ outcome = [a \in Actors |-> "NONE"]
  /\ writes = 0 /\ faults = 0

-----------------------------------------------------------------------------
(* Calls and their answers.                                                *)

\* A call is done and says so, is refused and changes nothing, or takes
\* effect and its answer is lost.
Answers == {"done"} \cup (IF faults < MaxFaults THEN {"refused", "unheard"} ELSE {})

\* A call on the actor's own context fails once the context is cut.
OwnAnswers(a) == IF a \in cut THEN {"refused"} ELSE Answers

Count(a, ans) == faults' = IF ans = "done" \/ a \in cut THEN faults ELSE faults + 1

\* The guard every write to the run's row carries.
Owns(a) == run.status = "RUNNING" /\ run.owner = a

Goto(a, stage) == pc' = [pc EXCEPT ![a] = stage] /\ UNCHANGED lease

\* The end of drive or recoverOne: the heartbeat stops, the lease is released.
Leave(a) ==
  /\ pc' = [pc EXCEPT ![a] = "gone"]
  /\ lease' = IF lease = a THEN Nobody ELSE lease

Reports(a, o, stage) == Goto(a, stage) /\ outcome' = [outcome EXCEPT ![a] = o]
Concludes(a, o) == Reports(a, o, "conclude")

\* newOwner: an actor has a fresh name each time.
Fresh(a) == pc[a] = "idle" /\ \A b \in Actors : b < a => pc[b] # "idle"

-----------------------------------------------------------------------------
(* The run: start, drive, conclude.                                        *)

\* Start: under the lease and on an ACTIVE project, insert the run. An error
\* releases the lease, whether or not the row was written.
Start(a) == \E ans \in Answers :
  /\ Fresh(a) /\ lease = Nobody /\ row.status = "ACTIVE" /\ run.status = "NONE"
  /\ run' = IF ans = "refused" THEN run
            ELSE [status |-> "RUNNING", owner |-> a, beat |-> "fresh", data |-> "from"]
  /\ pc' = [pc EXCEPT ![a] = IF ans = "done" THEN "starting" ELSE "gone"]
  /\ lease' = IF ans = "done" THEN a ELSE Nobody
  /\ Count(a, ans) /\ UNCHANGED <<row, host, cut, know, writes>>

\* setStatus writes the project's row whole, not pinned to the run; if it
\* fails the run ends before any change.
SetUpgrading(a) == \E ans \in Answers :
  /\ pc[a] = "starting"
  /\ row' = IF ans = "refused" THEN row ELSE [row EXCEPT !.status = "UPGRADING"]
  /\ IF ans = "done" THEN Goto(a, "backup") /\ UNCHANGED outcome ELSE Reports(a, "ROLLED_BACK", "abort")
  /\ Count(a, ans) /\ UNCHANGED <<run, host, cut, swap, cont, target, writes>>

\* drive: the safety backup. Without it the run ends before any change.
TakeBackup(a) == \E ans \in OwnAnswers(a) :
  /\ pc[a] = "backup"
  /\ IF ans = "done" THEN Goto(a, "noted") /\ UNCHANGED outcome ELSE Reports(a, "ROLLED_BACK", "end")
  /\ Count(a, ans) /\ UNCHANGED <<run, row, host, cut, swap, cont, target, writes>>

\* drive: the run must still be this driver's before anything changes.
NoteBackup(a) == \E ans \in OwnAnswers(a) :
  /\ pc[a] = "noted"
  /\ IF ans = "done" /\ Owns(a) THEN Goto(a, "convert") ELSE Leave(a)
  /\ Count(a, ans) /\ UNCHANGED <<run, row, host, cut, know, writes>>

\* stillOwns, then where the outcome leads: a lost run is left as it is.
Conclude(a) == \E ans \in OwnAnswers(a) :
  /\ pc[a] = "conclude"
  /\ IF ans = "done" /\ Owns(a)
     THEN Goto(a, IF outcome[a] = "COMPLETED" THEN "finish" ELSE "end")
     ELSE Leave(a)
  /\ Count(a, ans) /\ UNCHANGED <<run, row, host, cut, know, writes>>

\* The test query of endFailed needs a server that takes network connections.
Reachable == (there \cap running) \ fenced

\* A conversion that may still finish by itself (notRecorded).
OpenMutant(o) == FALSE
Open(o) == o = "UNSETTLED"

\* leaveOpen keeps an unsettled run RUNNING; end and endFailed write the
\* outcome and the project's status together. A converted run ends only as
\* COMPLETED. However the write goes, the actor is done.
End(a) == \E ans \in (IF pc[a] = "abort" THEN Answers ELSE OwnAnswers(a)) :
  LET lands == /\ ans # "refused" /\ Owns(a)
               /\ run.data = "to" => outcome[a] = "COMPLETED" \/ Open(outcome[a])
  IN /\ pc[a] \in {"end", "abort"}
     /\ run' = IF lands /\ ~Open(outcome[a]) THEN [run EXCEPT !.status = outcome[a]] ELSE run
     /\ \E status \in CASE Open(outcome[a]) -> {"UPGRADING"}
                        [] outcome[a] = "FAILED" -> {"FAILED"} \cup (IF Reachable = {} THEN {} ELSE {"ACTIVE"})
                        [] OTHER -> {"ACTIVE"} :
          row' = IF lands THEN [row EXCEPT !.status = status] ELSE row
     /\ Leave(a) /\ Count(a, ans) /\ UNCHANGED <<host, cut, know, writes>>

-----------------------------------------------------------------------------
(* Convert: fence, dump, swap, load, record, mark.                         *)

\* Convert's first write, then the checks before anything changes.
BeginConvert(a) == \E ans \in OwnAnswers(a) :
  /\ pc[a] = "convert"
  /\ row' = IF ans # "refused" /\ Owns(a) THEN [row EXCEPT !.status = "UPGRADING"] ELSE row
  /\ IF ans # "refused" /\ ~Owns(a) THEN Leave(a) /\ UNCHANGED outcome
     ELSE IF ans = "done" THEN Goto(a, "fence") /\ UNCHANGED outcome
     ELSE Concludes(a, "ROLLED_BACK")
  /\ Count(a, ans) /\ UNCHANGED <<run, host, cut, swap, cont, target, writes>>

\* A call on the host that can succeed, or not, and the stage after it; a
\* failure leads to undo, knowing of the call only what was answered.
HostCall(a, here, next, learns, can, ans) ==
  /\ pc[a] = here
  /\ Goto(a, IF can /\ ans = "done" THEN next ELSE "undo")
  /\ swap' = IF can /\ ans = "done" THEN [swap EXCEPT ![a] = @ \cup learns] ELSE swap
  /\ Count(a, ans) /\ UNCHANGED <<run, row, cut, cont, target, outcome, writes>>

\* Hold: a heartbeat that also answers for a cut context. A refusal by the
\* store is a lost run; any other failure leads to undo.
Hold(a, here, next) == \E ans \in Answers :
  /\ pc[a] = here
  /\ IF ans = "refused" \/ Owns(a) THEN Goto(a, IF ans = "done" THEN next ELSE "undo") ELSE Leave(a)
  /\ run' = IF ans # "refused" /\ Owns(a) THEN [run EXCEPT !.beat = "fresh"] ELSE run
  /\ Count(a, ans) /\ UNCHANGED <<row, host, cut, know, writes>>

Fence(a) == \E ans \in OwnAnswers(a) :
  /\ HostCall(a, "fence", "dump", {}, TRUE, ans)
  /\ fenced' = IF ans = "refused" THEN fenced ELSE fenced \cup {"old"}
  /\ UNCHANGED <<there, running, name, load, has, dump>>

\* WritesStopped, the last WAL and the dump.
Dump(a) ==
  \/ \E ans \in OwnAnswers(a) :
       /\ Owns(a) /\ HostCall(a, "dump", "holdStop", {}, TRUE, ans)
       /\ dump' = IF ans = "refused" THEN dump ELSE has["old"]
       /\ UNCHANGED <<there, running, fenced, name, load, has>>
  \/ ~Owns(a) /\ pc[a] = "dump" /\ Leave(a) /\ UNCHANGED <<run, row, host, cut, know, writes, faults>>

Stop(a) == \E ans \in OwnAnswers(a) :
  /\ HostCall(a, "stop", "holdRename", {}, TRUE, ans)
  /\ running' = IF ans = "refused" THEN running ELSE running \ {"old"}
  /\ UNCHANGED <<there, fenced, name, load, has, dump>>

Rename(a) == \E ans \in OwnAnswers(a) :
  /\ HostCall(a, "rename", "create", {"renamed"}, TRUE, ans)
  /\ name' = IF ans = "refused" THEN name ELSE "pre"
  /\ UNCHANGED <<there, running, fenced, load, has, dump>>

Create(a) == \E ans \in OwnAnswers(a) :
  /\ HostCall(a, "create", "start", {"made"}, TRUE, ans)
  /\ there' = IF ans = "refused" THEN there ELSE there \cup {"new"}
  /\ UNCHANGED <<running, fenced, name, load, has, dump>>

\* seed and the first start, whose script fences the server before it loads.
StartNew(a) == \E ans \in OwnAnswers(a) :
  /\ HostCall(a, "start", "load", {}, TRUE, ans)
  /\ IF ans = "refused" THEN UNCHANGED <<running, fenced, load>>
     ELSE running' = running \cup {"new"} /\ fenced' = fenced \cup {"new"} /\ load' = "loading"
  /\ UNCHANGED <<there, name, has, dump>>

\* The load's state file tells how it ended, not the server answering.
LoadedMutant == "new" \in running
Loaded == load = "loaded"

\* waitLoaded, until the load has ended or its time is up.
WaitLoaded(a) == \E ans \in OwnAnswers(a) :
  /\ HostCall(a, "load", "holdRecord", {}, Loaded, ans)
  /\ ans = "done" => Loaded \/ load = "failed"
  /\ UNCHANGED host

\* recordContainer, whose write is neither on the context nor pinned to the run.
Record(a) == \E ans \in Answers :
  /\ pc[a] = "record" /\ (RecordAnswered => ans # "unheard")
  /\ row' = IF ans = "refused" THEN row ELSE [row EXCEPT !.container = "new"]
  /\ Goto(a, IF ans = "done" THEN "mark" ELSE "undo")
  /\ cont' = IF ans = "done" THEN [cont EXCEPT ![a] = "new"] ELSE cont
  /\ Count(a, ans) /\ UNCHANGED <<run, host, cut, swap, target, outcome, writes>>

\* progress.Converted: converted and the version in one transaction. A mark
\* that answered an error is read back: it counts if it landed, and a run
\* that may be converted is left open for recovery.
Mark(a) == \E ans \in OwnAnswers(a) :
  /\ pc[a] = "mark"
  /\ run' = IF ans # "refused" /\ Owns(a) THEN [run EXCEPT !.data = "to", !.beat = "fresh"] ELSE run
  /\ row' = IF ans # "refused" /\ Owns(a) THEN [row EXCEPT !.version = "to"] ELSE row
  /\ IF ans # "refused" /\ ~Owns(a) THEN Leave(a) /\ UNCHANGED outcome
     ELSE \E o \in {"COMPLETED", "UNSETTLED"} :
            /\ (ans = "done" => o = "COMPLETED") /\ (ans = "refused" => o = "UNSETTLED")
            /\ Concludes(a, o)
  /\ Count(a, ans) /\ UNCHANGED <<host, cut, swap, cont, target, writes>>

-----------------------------------------------------------------------------
(* undo and putBack.                                                       *)

\* undo: unless the run was lost. A check the database cannot answer leaves
\* it to the fence.
Undo(a) == \E ans \in Answers :
  /\ pc[a] = "undo"
  /\ IF a \in cut \/ (ans # "refused" /\ ~Owns(a)) THEN Leave(a) ELSE Goto(a, "remove")
  /\ run' = IF a \notin cut /\ ans # "refused" /\ Owns(a) THEN [run EXCEPT !.beat = "fresh"] ELSE run
  /\ Count(a, ans) /\ UNCHANGED <<row, host, cut, know, writes>>

\* No further step of putBack starts once the run is lost.
RunLostMutant(a) == FALSE
RunLost(a) == a \in cut

GiveUp(a) ==
  /\ pc[a] \in {"remove", "renameBack", "recordBack", "serve", "unfence"} /\ RunLost(a)
  /\ Leave(a) /\ UNCHANGED <<run, row, host, cut, know, writes, faults>>

\* One step of putBackSteps, if the swap went that far (needed); a failure
\* is kept and the next step tried all the same.
PutBackStep(a, here, next, needed, can, ans) ==
  /\ pc[a] = here /\ ~RunLost(a) /\ (needed \/ ans = "done")
  /\ Goto(a, next)
  /\ swap' = IF needed /\ ~(can /\ ans = "done") THEN [swap EXCEPT ![a] = @ \cup {"bad"}] ELSE swap
  /\ Count(a, ans) /\ UNCHANGED <<run, cut, outcome, target, writes>>

RemoveNew(a) == \E ans \in Answers : LET needed == "made" \in swap[a] IN
  /\ PutBackStep(a, "remove", "renameBack", needed, TRUE, ans)
  /\ IF needed /\ ans # "refused"
     THEN there' = there \ {"new"} /\ running' = running \ {"new"} ELSE UNCHANGED <<there, running>>
  /\ UNCHANGED <<row, cont, fenced, name, load, has, dump>>

\* The engine refuses a name another container has.
RenameBack(a) == \E ans \in Answers : LET needed == "renamed" \in swap[a] IN
  /\ PutBackStep(a, "renameBack", "recordBack", needed, "new" \notin there, ans)
  /\ name' = IF needed /\ "new" \notin there /\ ans # "refused" THEN "project" ELSE name
  /\ UNCHANGED <<row, cont, there, running, fenced, load, has, dump>>

RecordBackMutant(a) == \E ans \in Answers :
  PutBackStep(a, "recordBack", "serve", FALSE, TRUE, ans) /\ UNCHANGED <<row, cont, host>>
RecordBack(a) == \E ans \in Answers : LET needed == "recorded" \in swap[a] IN
  /\ PutBackStep(a, "recordBack", "serve", needed, TRUE, ans)
  /\ row' = IF needed /\ ans # "refused" THEN [row EXCEPT !.container = target[a]] ELSE row
  /\ cont' = IF needed /\ ans = "done" THEN [cont EXCEPT ![a] = target[a]] ELSE cont
  /\ UNCHANGED host

\* Both containers publish one host port: one cannot start while the other runs.
CanRun(c) == c \in there /\ running \subseteq {c}

\* serveOld: start the container that is put back, if it is stopped.
ServeOld(a) == \E ans \in Answers :
  LET can == "bad" \notin swap[a] /\ CanRun(target[a]) IN
  /\ pc[a] = "serve" /\ ~RunLost(a)
  /\ running' = IF can /\ ans # "refused" THEN running \cup {target[a]} ELSE running
  /\ IF can /\ ans = "done" THEN Goto(a, "unfence") /\ UNCHANGED outcome ELSE Concludes(a, "FAILED")
  /\ Count(a, ans)
  /\ UNCHANGED <<run, row, there, fenced, name, load, has, dump, cut, swap, cont, target, writes>>

\* serveOld: lift the fence; the dump goes with it.
UnfenceMutant(a) ==
  /\ pc[a] = "unfence" /\ ~RunLost(a) /\ Concludes(a, "ROLLED_BACK")
  /\ UNCHANGED <<run, row, host, cut, swap, cont, target, writes, faults>>
Unfence(a) == \E ans \in Answers :
  /\ pc[a] = "unfence" /\ ~RunLost(a)
  /\ fenced' = IF ans = "refused" THEN fenced ELSE fenced \ {target[a]}
  /\ Concludes(a, IF ans = "done" THEN "ROLLED_BACK" ELSE "FAILED")
  /\ Count(a, ans)
  /\ UNCHANGED <<run, row, there, running, name, load, has, dump, cut, swap, cont, target, writes>>

-----------------------------------------------------------------------------
(* Recovery.                                                               *)

\* What the sweeper finds and the claim's statement admits.
InterruptedMutant == run.status = "RUNNING" /\ run.beat = "stale" /\ row.status = "UPGRADING"
Interrupted == run.status = "RUNNING" /\ run.beat = "stale"

\* recoverOne: the lease, then the claim of a stale run in one statement. A
\* lost answer, or a project that cannot be read, leaves the run to go stale
\* again.
Claim(a) == \E ans \in Answers :
  /\ Fresh(a) /\ lease = Nobody /\ Interrupted
  /\ run' = IF ans = "refused" THEN run ELSE [run EXCEPT !.owner = a, !.beat = "fresh"]
  /\ pc' = [pc EXCEPT ![a] = IF ans # "done" THEN "gone" ELSE IF run.data = "to" THEN "finish" ELSE "recover"]
  /\ lease' = IF ans = "done" THEN a ELSE Nobody
  /\ cont' = [cont EXCEPT ![a] = row.container]
  /\ Count(a, ans) /\ UNCHANGED <<row, host, cut, swap, target, outcome, writes>>

\* Recover finds out how far the swap went from the containers' names and the
\* project's row; a host that cannot be asked ends the run as FAILED.
Recover(a) == \E ans \in OwnAnswers(a) :
  LET pre  == "old" \in there /\ name = "pre"
      made == pre /\ "new" \in there
  IN /\ pc[a] = "recover"
     /\ IF ans = "done"
        THEN /\ Goto(a, IF made /\ cont[a] = "new" THEN "check" ELSE "undo")
             /\ target' = [target EXCEPT ![a] = IF pre THEN "old" ELSE cont[a]]
             /\ swap' = [swap EXCEPT ![a] = (IF pre THEN {"renamed"} ELSE {}) \cup (IF made THEN {"made"} ELSE {})
                                            \cup (IF pre /\ cont[a] # "old" THEN {"recorded"} ELSE {})]
             /\ UNCHANGED outcome
        ELSE Concludes(a, "FAILED") /\ UNCHANGED <<target, swap>>
     /\ Count(a, ans) /\ UNCHANGED <<run, row, host, cut, cont, writes>>

\* holdsNewMajor: the new container, started if stopped, loaded the dump.
Check(a) == \E ans \in OwnAnswers(a) :
  /\ HostCall(a, "check", "mark", {}, CanRun("new") /\ Loaded, ans)
  /\ running' = IF CanRun("new") /\ ans # "refused" THEN running \cup {"new"} ELSE running
  /\ UNCHANGED <<there, fenced, name, load, has, dump>>

-----------------------------------------------------------------------------
(* finishConverted.                                                        *)

\* progressStep, before the container is let on the network and again before
\* the last steps: a run that cannot be written is left to recovery.
Progress(a, here, next) == \E ans \in OwnAnswers(a) :
  /\ pc[a] = here
  /\ row' = IF ans # "refused" /\ Owns(a) THEN [row EXCEPT !.status = "UPGRADING"] ELSE row
  /\ IF ans = "done" /\ Owns(a) THEN Goto(a, next) ELSE Leave(a)
  /\ Count(a, ans) /\ UNCHANGED <<run, host, cut, know, writes>>

\* WaitServing starts the container the row names and lifts its fence; a
\* failure is only a warning.
WaitServing(a) == \E ans \in OwnAnswers(a) :
  /\ pc[a] = "serving" /\ Goto(a, "finishing")
  /\ IF CanRun(cont[a]) /\ ans # "refused"
     THEN running' = running \cup {cont[a]} /\ fenced' = fenced \ {cont[a]}
     ELSE UNCHANGED <<running, fenced>>
  /\ Count(a, ans) /\ UNCHANGED <<run, row, there, name, load, has, dump, cut, know, writes>>

\* The last steps: credentials, statistics, a first backup, none of which can
\* stop the run, and Cleanup, which removes the container under the old
\* one's name.
Cleanup(a) == \E ans \in OwnAnswers(a) :
  /\ pc[a] = "cleanup" /\ Goto(a, "end") /\ outcome' = [outcome EXCEPT ![a] = "COMPLETED"]
  /\ IF name = "pre" /\ ans # "refused"
     THEN there' = there \ {"old"} /\ running' = running \ {"old"}
     ELSE UNCHANGED <<there, running>>
  /\ Count(a, ans) /\ UNCHANGED <<run, row, fenced, name, load, has, dump, cut, swap, cont, target, writes>>

-----------------------------------------------------------------------------
(* The world around.                                                       *)

Live(a) == pc[a] \notin {"idle", "gone"}

\* The process of an actor dies; the container engine goes on.
Die(a) ==
  /\ Live(a) /\ faults < MaxFaults
  /\ Leave(a) /\ faults' = faults + 1 /\ UNCHANGED <<run, row, host, cut, know, writes>>

\* No heartbeat lands for majorUpgradeFenceAfter: keepAlive cancels the
\* actor's context. The session that held the lease is gone with it.
Outage(a) ==
  /\ Live(a) /\ a \notin cut /\ faults < MaxFaults
  /\ cut' = cut \cup {a} /\ lease' = (IF lease = a THEN Nobody ELSE lease)
  /\ faults' = faults + 1 /\ UNCHANGED <<run, row, host, pc, know, writes>>

\* Steps that do not look at the context: once begun they are carried out.
Uncut == {"starting", "abort", "record"}

\* The heartbeat is majorUpgradeStaleAfter old: nobody beats any more, and the
\* minute the fence leaves has been enough for the step in flight to end.
GoStale ==
  /\ run.status = "RUNNING" /\ run.beat = "fresh"
  /\ Live(run.owner) => run.owner \in cut /\ pc[run.owner] \notin Uncut
  /\ run' = [run EXCEPT !.beat = "stale"]
  /\ UNCHANGED <<row, lease, host, pc, cut, know, writes, faults>>

\* The first start's script ends, whether or not anyone waits for it.
LoadEnds ==
  /\ "new" \in there \cap running /\ load = "loading"
  /\ \/ load' = "loaded" /\ has' = [has EXCEPT !["new"] = dump] /\ UNCHANGED faults
     \/ load' = "failed" /\ faults < MaxFaults /\ faults' = faults + 1 /\ UNCHANGED has
  /\ UNCHANGED <<run, row, lease, there, running, fenced, name, dump, pc, cut, know, writes>>

\* A client's write to a server that takes network connections.
Write(c) ==
  /\ writes < MaxWrites /\ c \in Reachable
  /\ writes' = writes + 1 /\ has' = [has EXCEPT ![c] = @ \cup {writes + 1}]
  /\ UNCHANGED <<run, row, lease, there, running, fenced, name, load, dump, pc, cut, know, faults>>

Convert(a) ==
  \/ BeginConvert(a) \/ Fence(a) \/ Dump(a) \/ Stop(a) \/ Rename(a) \/ Create(a) \/ StartNew(a)
  \/ WaitLoaded(a) \/ Record(a) \/ Mark(a)
  \/ Hold(a, "holdStop", "stop") \/ Hold(a, "holdRename", "rename") \/ Hold(a, "holdRecord", "record")
PutBack(a) == Undo(a) \/ GiveUp(a) \/ RemoveNew(a) \/ RenameBack(a) \/ RecordBack(a)
              \/ ServeOld(a) \/ Unfence(a)
Finish(a) == WaitServing(a) \/ Cleanup(a) \/ Progress(a, "finish", "serving")
             \/ Progress(a, "finishing", "cleanup")
Drive(a) == SetUpgrading(a) \/ TakeBackup(a) \/ NoteBackup(a) \/ Convert(a) \/ Recover(a)
            \/ Check(a) \/ PutBack(a) \/ Conclude(a) \/ Finish(a) \/ End(a)

Next ==
  \/ \E a \in Actors : Start(a) \/ Claim(a) \/ Drive(a) \/ Die(a) \/ Outage(a)
  \/ GoStale \/ LoadEnds
  \/ \E c \in Boxes : Write(c)
  \/ (\A a \in Actors : ~Live(a)) /\ UNCHANGED vars   \* nobody is at work

Spec == Init /\ [][Next]_vars

\* An actor that lives goes on, a heartbeat nobody sends goes stale, the
\* sweeper claims what it finds, and a load ends.
Fairness ==
  /\ \A a \in Actors : WF_vars(Drive(a)) /\ WF_vars(Claim(a))
  /\ WF_vars(GoStale) /\ WF_vars(LoadEnds)
FairSpec == Spec /\ Fairness

-----------------------------------------------------------------------------
(* Properties.                                                             *)

\* The variables keep their kinds, the faults their bound, and a run never
\* ends "unsettled" (leaveOpen).
TypeOK ==
  /\ run \in [status : Ends \cup {"NONE", "RUNNING"}, owner : Actors \cup {Nobody},
              beat : {"fresh", "stale"}, data : {"from", "to"}]
  /\ row \in [status : {"ACTIVE", "UPGRADING", "FAILED"}, version : {"from", "to"}, container : Boxes]
  /\ lease \in Actors \cup {Nobody}
  /\ there \subseteq Boxes /\ running \subseteq Boxes /\ fenced \subseteq Boxes
  /\ name \in {"project", "pre"} /\ load \in {"none", "loading", "loaded", "failed"}
  /\ has \in [Boxes -> SUBSET (1..MaxWrites)] /\ dump \subseteq 1..MaxWrites
  /\ pc \in [Actors -> Stages] /\ cut \subseteq Actors
  /\ swap \in [Actors -> SUBSET {"renamed", "made", "recorded", "bad"}]
  /\ cont \in [Actors -> Boxes] /\ target \in [Actors -> Boxes]
  /\ outcome \in [Actors -> Ends \cup {"NONE", "UNSETTLED"}]
  /\ writes \in 0..MaxWrites /\ faults \in 0..MaxFaults

Complete(c) == c \in there /\ has[c] = 1..writes

\* Whatever fails, some container holds every row a client was told is
\* written: the fence comes before the dump, and the old container goes only
\* when the new one has loaded all of it (Cleanup, RemoveNew).
DataKept == \E c \in Boxes : Complete(c)

\* A project shown as ACTIVE names a container that has all of its data,
\* whichever way the run went and whoever ended it (end, putBack, Recover).
ActiveHasAll == row.status = "ACTIVE" => Complete(row.container)

\* The outcome is what happened (conclude): rolled back, the old container is
\* the project's and takes connections; completed, the new one is the
\* project's and the version says so.
OutcomeTrue ==
  /\ run.status = "ROLLED_BACK" => row.version = "from" /\ row.container = "old" /\ "old" \in Reachable
  /\ run.status = "COMPLETED" => row.version = "to" /\ row.container = "new" /\ "new" \in there

\* An actor changes the host or the container the project names only while
\* the run is its own (keepAlive, runLostBy, Hold).
OnlyOwnerActs ==
  [][\A a \in Actors : pc[a] # pc'[a] /\ <<host, row.container>> # <<host, row.container>>'
                         => Owns(a)]_vars

\* A run that began ends, and the project is not left UPGRADING, although
\* drivers and recoveries die (RecoverInterrupted).
RunEnds == [](run.status = "RUNNING" \/ row.status = "UPGRADING"
              => <>(run.status # "RUNNING" /\ row.status # "UPGRADING"))
====
