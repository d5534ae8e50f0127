---------------------------- MODULE MajorUpgradeProofs ----------------------------
(***************************************************************************)
(* Proofs about MajorUpgrade, for every number of actors, faults and       *)
(* writes.                                                                 *)
(***************************************************************************)
EXTENDS MajorUpgrade, TLAPS

\* Where a driver has touched nothing yet, moves the data, or undoes it.
Early    == {"starting", "abort", "backup", "noted", "convert", "fence"}
Dumped   == {"holdStop", "stop", "holdRename", "rename", "create"}
Moving   == Dumped \cup {"dump", "start", "load", "holdRecord", "record"}
Undoing  == {"undo", "remove", "renameBack", "recordBack", "serve"}
Finishing == {"finish", "serving", "finishing", "cleanup"}

-----------------------------------------------------------------------------
(* Who owns the run.                                                       *)

\* Whoever is at work owns the run, or is cut off and between two calls that
\* look at the context.
Safe(a) == a \in cut /\ pc[a] \notin Uncut

\* A stale run has no owner at work, or one that is cut off.
Ownership ==
  /\ \A a \in Actors : Live(a) => Owns(a) \/ Safe(a)
  /\ \A a \in Actors : Owns(a) /\ run.beat = "stale" /\ Live(a) => Safe(a)
  /\ run.status = "NONE" => \A a \in Actors : ~Live(a)
  /\ \A a \in Actors : pc[a] \in {"abort", "conclude", "end"} => outcome[a] # "NONE"

-----------------------------------------------------------------------------
(* What is on the host.                                                    *)

Untouched ==
  /\ there = {"old"} /\ running = {"old"} /\ fenced = {} /\ load = "none"
  /\ row.container = "old" /\ run.data = "from"

\* The old container takes no writes and the dump is of all of it.
Sealed == "old" \in fenced /\ dump = 1..writes

\* While the data is on the old major the old container has all of it, and
\* the new one is off the network and, if loaded, has all of it too.
OnFrom ==
  /\ Complete("old") /\ row.version = "from"
  /\ load # "none" => "new" \in fenced
  /\ "new" \in there => /\ Sealed /\ name = "pre"
                        /\ load = "loaded" => has["new"] = 1..writes
  /\ row.container = "new" => row.status # "ACTIVE"

\* Once it is on the new major, the new container has all of it.
OnTo == Complete("new") /\ row.version = "to" /\ row.container = "new"

HostInv ==
  /\ run.data = "from" => OnFrom
  /\ run.data = "to" => OnTo
  /\ running \subseteq there
  /\ load = "none" => "new" \notin running
  /\ row.container = "new" => "old" \in fenced /\ load = "loaded"

\* The old container is the project's and takes connections.
Back == run.data = "from" /\ row.container = "old" /\ "old" \in Reachable

EndInv ==
  /\ run.status = "NONE" => Untouched
  /\ run.status = "ROLLED_BACK" => Back
  /\ run.status = "COMPLETED" => run.data = "to"

\* What an actor's own variables say of the run, whether it owns it or not.
Sure(a) ==
  /\ pc[a] \in Finishing => run.data = "to" /\ cont[a] = "new"
  /\ pc[a] \in {"conclude", "end"} /\ outcome[a] = "COMPLETED" => run.data = "to" /\ cont[a] = "new"
  /\ pc[a] = "abort" => outcome[a] = "ROLLED_BACK"
  /\ pc[a] \in {"check", "mark"} => cont[a] = "new"
  /\ pc[a] = "idle" => swap[a] = {} /\ target[a] = "old"

\* What the owner of the run may rely on at each stage.
Knows(a) ==
  /\ pc[a] \in Early => Untouched /\ swap[a] = {} /\ target[a] = "old"
  /\ pc[a] \in Moving => /\ run.data = "from" /\ row.status = "UPGRADING" /\ row.container = "old"
                         /\ target[a] = "old"
  /\ pc[a] = "fence" => row.status = "UPGRADING"
  /\ pc[a] = "dump" => "old" \in fenced
  /\ pc[a] \in Dumped => Sealed
  /\ pc[a] \in Dumped \cup {"dump"} => load = "none" /\ "new" \notin there
  /\ pc[a] = "create" => name = "pre"
  /\ pc[a] \in {"create", "start", "load"} => "renamed" \in swap[a]
  /\ pc[a] \in {"start", "load", "holdRecord", "record"} => "new" \in there
  /\ pc[a] = "start" => load = "none"
  /\ pc[a] \in {"holdRecord", "record"} => load = "loaded" /\ "renamed" \in swap[a]
  /\ pc[a] \in {"recover", "check"} => run.data = "from" /\ cont[a] = row.container
  /\ pc[a] \in {"check", "mark"} => run.data = "from" /\ row.container = "new" /\ "new" \in there
  /\ pc[a] \in Undoing \cup {"check"} =>
       /\ run.data = "from"
       /\ target[a] = "new" => "new" \notin there
       /\ "recorded" \in swap[a] => target[a] = "old"
  /\ pc[a] \in {"check", "undo", "remove", "renameBack"} /\ "new" \in there => "renamed" \in swap[a]
  /\ pc[a] \in {"check", "undo", "remove", "renameBack", "recordBack"} /\ row.container = "new" =>
       "recorded" \in swap[a] \/ target[a] = "new"
  /\ pc[a] \in {"recordBack", "serve"} /\ "new" \in there => "bad" \in swap[a]
  /\ pc[a] = "serve" /\ row.container = "new" => "bad" \in swap[a] \/ target[a] = "new"
  /\ pc[a] = "unfence" => /\ run.data = "from" /\ row.container = "old" /\ target[a] = "old"
                          /\ "new" \notin there /\ "old" \in running
  /\ pc[a] \in {"conclude", "end"} /\ outcome[a] = "ROLLED_BACK" => Back

UInv ==
  /\ TypeOK /\ Ownership /\ HostInv /\ EndInv
  /\ \A a \in Actors : Sure(a) /\ (Owns(a) /\ Live(a) => Knows(a))

-----------------------------------------------------------------------------
(* Kinds.                                                                  *)

USE DEF Actors, Nobody, Boxes, Ends

LEMMA TypeInit == Init => TypeOK
  BY BoundAssumption DEF Init, TypeOK, Stages

\* What an answer may be.
LEMMA AnswerKinds ==
  ASSUME NEW a \in Actors, NEW ans \in OwnAnswers(a)
  PROVE  (a \in cut /\ ans = "refused") \/ (a \notin cut /\ ans \in Answers)
  BY DEF OwnAnswers

LEMMA FaultsCounted ==
  ASSUME TypeOK, NEW a \in Actors, NEW ans, ans \in Answers \/ a \in cut, Count(a, ans)
  PROVE  faults' \in 0..MaxFaults
<1>1. faults \in 0..MaxFaults BY DEF TypeOK
<1> QED BY <1>1, BoundAssumption DEF Count, Answers

LEMMA GotoKinds ==
  ASSUME TypeOK, NEW a \in Actors, NEW s \in Stages, Goto(a, s)
  PROVE  pc' \in [Actors -> Stages] /\ lease' \in Actors \cup {Nobody}
  BY DEF TypeOK, Goto

LEMMA LeaveKinds ==
  ASSUME TypeOK, NEW a \in Actors, Leave(a)
  PROVE  pc' \in [Actors -> Stages] /\ lease' \in Actors \cup {Nobody}
  BY DEF TypeOK, Leave, Stages

\* The kinds of what is on the host.
HostKinds ==
  /\ there \subseteq Boxes /\ running \subseteq Boxes /\ fenced \subseteq Boxes
  /\ name \in {"project", "pre"} /\ load \in {"none", "loading", "loaded", "failed"}
  /\ has \in [Boxes -> SUBSET (1..MaxWrites)] /\ dump \subseteq 1..MaxWrites

\* A step of the actors keeps the kinds if it keeps those it changes.
LEMMA HostCallKinds ==
  ASSUME TypeOK, NEW a \in Actors, NEW here, NEW next \in Stages, NEW learns \in SUBSET {"renamed", "made", "recorded", "bad"},
         NEW can, NEW ans \in OwnAnswers(a), HostCall(a, here, next, learns, can, ans),
         HostKinds'
  PROVE  TypeOK'
<1>1. faults' \in 0..MaxFaults BY AnswerKinds, FaultsCounted DEF HostCall
<1>2. pc' \in [Actors -> Stages] /\ lease' \in Actors \cup {Nobody}
  BY GotoKinds DEF HostCall, Stages
<1>3. swap' \in [Actors -> SUBSET {"renamed", "made", "recorded", "bad"}]
  BY DEF TypeOK, HostCall
<1>4. UNCHANGED <<run, row, cut, cont, target, outcome, writes>> BY DEF HostCall
<1> QED BY <1>1, <1>2, <1>3, <1>4 DEF TypeOK, HostKinds

LEMMA ConvertTypes == ASSUME TypeOK, NEW a \in Actors, Convert(a) PROVE TypeOK'
<1> USE DEF Stages
<1>1. CASE BeginConvert(a)
  <2> PICK ans \in OwnAnswers(a) : BeginConvert(a)!(ans) BY <1>1 DEF BeginConvert
  <2>1. pc' \in [Actors -> Stages] /\ lease' \in Actors \cup {Nobody}
    BY GotoKinds, LeaveKinds DEF Concludes, Reports
  <2>2. faults' \in 0..MaxFaults BY AnswerKinds, FaultsCounted
  <2>3. row' = row \/ row' = [row EXCEPT !.status = "UPGRADING"] OBVIOUS
  <2>4. outcome' = outcome \/ outcome' = [outcome EXCEPT ![a] = "ROLLED_BACK"]
    BY DEF Concludes, Reports
  <2> QED BY <2>1, <2>2, <2>3, <2>4 DEF TypeOK, host, know
<1>2. CASE Fence(a)
  <2> PICK ans \in OwnAnswers(a) : Fence(a)!(ans) BY <1>2 DEF Fence
  <2>1. HostKinds' BY DEF TypeOK, HostKinds
  <2> QED BY <2>1, HostCallKinds
<1>3. CASE Dump(a)
  <2>1. CASE \E ans \in OwnAnswers(a) : Dump(a)!1!(ans)
    <3> PICK ans \in OwnAnswers(a) : Dump(a)!1!(ans) BY <2>1
    <3>1. HostKinds' BY DEF TypeOK, HostKinds
    <3> QED BY <3>1, HostCallKinds
  <2>2. CASE Dump(a)!2
    BY <2>2, LeaveKinds DEF TypeOK, host, know
  <2> QED BY <1>3, <2>1, <2>2 DEF Dump
<1>4. CASE Stop(a)
  <2> PICK ans \in OwnAnswers(a) : Stop(a)!(ans) BY <1>4 DEF Stop
  <2>1. HostKinds' BY DEF TypeOK, HostKinds
  <2> QED BY <2>1, HostCallKinds
<1>5. CASE Rename(a)
  <2> PICK ans \in OwnAnswers(a) : Rename(a)!(ans) BY <1>5 DEF Rename
  <2>1. HostKinds' BY DEF TypeOK, HostKinds
  <2> QED BY <2>1, HostCallKinds
<1>6. CASE Create(a)
  <2> PICK ans \in OwnAnswers(a) : Create(a)!(ans) BY <1>6 DEF Create
  <2>1. HostKinds' BY DEF TypeOK, HostKinds
  <2> QED BY <2>1, HostCallKinds
<1>7. CASE StartNew(a)
  <2> PICK ans \in OwnAnswers(a) : StartNew(a)!(ans) BY <1>7 DEF StartNew
  <2>1. \/ UNCHANGED <<running, fenced, load>>
        \/ running' = running \cup {"new"} /\ fenced' = fenced \cup {"new"} /\ load' = "loading"
    OBVIOUS
  <2>2. UNCHANGED <<there, name, has, dump>> OBVIOUS
  <2>4. HostKinds BY DEF TypeOK, HostKinds
  <2>3. HostKinds' BY <2>1, <2>2, <2>4 DEF HostKinds
  <2> QED BY <2>3, HostCallKinds
<1>8. CASE WaitLoaded(a)
  <2> PICK ans \in OwnAnswers(a) : WaitLoaded(a)!(ans) BY <1>8 DEF WaitLoaded
  <2>1. HostKinds' BY DEF TypeOK, HostKinds, host
  <2> QED BY <2>1, HostCallKinds
<1>9. CASE Record(a)
  <2> PICK ans \in Answers : Record(a)!(ans) BY <1>9 DEF Record
  <2>1. faults' \in 0..MaxFaults /\ pc' \in [Actors -> Stages] /\ lease' \in Actors \cup {Nobody}
    BY FaultsCounted, GotoKinds
  <2>2. row' = row \/ row' = [row EXCEPT !.container = "new"] OBVIOUS
  <2>3. cont' = cont \/ cont' = [cont EXCEPT ![a] = "new"] OBVIOUS
  <2>4. cont' \in [Actors -> Boxes] BY <2>3 DEF TypeOK
  <2>5. UNCHANGED <<run, host, cut, swap, target, outcome, writes>> OBVIOUS
  <2> QED BY <2>1, <2>2, <2>4, <2>5 DEF TypeOK, host
<1>10. CASE Mark(a)
  <2> PICK ans \in OwnAnswers(a) : Mark(a)!(ans) BY <1>10 DEF Mark
  <2>1. pc' \in [Actors -> Stages] /\ lease' \in Actors \cup {Nobody}
    BY GotoKinds, LeaveKinds DEF Concludes, Reports
  <2>2. faults' \in 0..MaxFaults BY AnswerKinds, FaultsCounted
  <2>3. run' = run \/ run' = [run EXCEPT !.data = "to", !.beat = "fresh"] OBVIOUS
  <2>4. row' = row \/ row' = [row EXCEPT !.version = "to"] OBVIOUS
  <2>5. outcome' = outcome \/ \E o \in {"COMPLETED", "UNSETTLED"} : outcome' = [outcome EXCEPT ![a] = o]
    BY DEF Concludes, Reports
  <2>6. run' \in [status : Ends \cup {"NONE", "RUNNING"}, owner : Actors \cup {Nobody},
                  beat : {"fresh", "stale"}, data : {"from", "to"}]
    BY <2>3 DEF TypeOK
  <2>7. outcome' \in [Actors -> Ends \cup {"NONE", "UNSETTLED"}]
    BY <2>5 DEF TypeOK
  <2> QED BY <2>1, <2>2, <2>4, <2>6, <2>7 DEF TypeOK, host
<1>11. ASSUME NEW here, NEW next \in Stages, Hold(a, here, next) PROVE TypeOK'
  <2> PICK ans \in Answers : Hold(a, here, next)!(ans) BY <1>11 DEF Hold
  <2>1. pc' \in [Actors -> Stages] /\ lease' \in Actors \cup {Nobody}
    BY GotoKinds, LeaveKinds
  <2>2. faults' \in 0..MaxFaults BY FaultsCounted
  <2>3. run' = run \/ run' = [run EXCEPT !.beat = "fresh"] OBVIOUS
  <2> QED BY <2>1, <2>2, <2>3 DEF TypeOK, host, know
<1> QED BY <1>1, <1>2, <1>3, <1>4, <1>5, <1>6, <1>7, <1>8, <1>9, <1>10, <1>11 DEF Convert

LEMMA PutBackStepKinds ==
  ASSUME TypeOK, NEW a \in Actors, NEW here, NEW next \in Stages, NEW needed, NEW can, NEW ans \in Answers,
         PutBackStep(a, here, next, needed, can, ans)
  PROVE  /\ pc' \in [Actors -> Stages] /\ lease' \in Actors \cup {Nobody}
         /\ swap' \in [Actors -> SUBSET {"renamed", "made", "recorded", "bad"}]
         /\ faults' \in 0..MaxFaults
<1>1. faults' \in 0..MaxFaults BY FaultsCounted DEF PutBackStep
<1>2. pc' \in [Actors -> Stages] /\ lease' \in Actors \cup {Nobody} BY GotoKinds DEF PutBackStep
<1>3. swap' = swap \/ swap' = [swap EXCEPT ![a] = @ \cup {"bad"}] BY DEF PutBackStep
<1> QED BY <1>1, <1>2, <1>3 DEF TypeOK

LEMMA PutBackTypes == ASSUME TypeOK, NEW a \in Actors, PutBack(a) PROVE TypeOK'
<1> USE DEF Stages
<1>1. CASE Undo(a)
  <2> PICK ans \in Answers : Undo(a)!(ans) BY <1>1 DEF Undo
  <2>1. pc' \in [Actors -> Stages] /\ lease' \in Actors \cup {Nobody} BY GotoKinds, LeaveKinds
  <2>2. faults' \in 0..MaxFaults BY FaultsCounted
  <2>3. run' = run \/ run' = [run EXCEPT !.beat = "fresh"] OBVIOUS
  <2> QED BY <2>1, <2>2, <2>3 DEF TypeOK, host, know
<1>2. CASE GiveUp(a)
  BY <1>2, LeaveKinds DEF GiveUp, TypeOK, host, know
<1>3. CASE RemoveNew(a)
  <2> PICK ans \in Answers : RemoveNew(a)!(ans) BY <1>3 DEF RemoveNew
  <2>1. PutBackStep(a, "remove", "renameBack", "made" \in swap[a], TRUE, ans) OBVIOUS
  <2>2. \/ UNCHANGED <<there, running>>
        \/ there' = there \ {"new"} /\ running' = running \ {"new"}
    OBVIOUS
  <2>3. there' \subseteq Boxes /\ running' \subseteq Boxes BY <2>2 DEF TypeOK
  <2>4. /\ pc' \in [Actors -> Stages] /\ lease' \in Actors \cup {Nobody}
        /\ swap' \in [Actors -> SUBSET {"renamed", "made", "recorded", "bad"}]
        /\ faults' \in 0..MaxFaults
    BY <2>1, PutBackStepKinds
  <2>5. UNCHANGED <<run, cut, outcome, target, writes, row, cont, fenced, name, load, has, dump>>
    BY <2>1 DEF PutBackStep
  <2> QED BY <2>3, <2>4, <2>5 DEF TypeOK
<1>4. CASE RenameBack(a)
  <2> PICK ans \in Answers : RenameBack(a)!(ans) BY <1>4 DEF RenameBack
  <2>1. PutBackStep(a, "renameBack", "recordBack", "renamed" \in swap[a], "new" \notin there, ans) OBVIOUS
  <2>2. name' = name \/ name' = "project" OBVIOUS
  <2>3. name' \in {"project", "pre"} BY <2>2 DEF TypeOK
  <2>4. /\ pc' \in [Actors -> Stages] /\ lease' \in Actors \cup {Nobody}
        /\ swap' \in [Actors -> SUBSET {"renamed", "made", "recorded", "bad"}]
        /\ faults' \in 0..MaxFaults
    BY <2>1, PutBackStepKinds
  <2>5. UNCHANGED <<run, cut, outcome, target, writes, row, cont, there, running, fenced, load, has, dump>>
    BY <2>1 DEF PutBackStep
  <2> QED BY <2>3, <2>4, <2>5 DEF TypeOK
<1>5. CASE RecordBack(a)
  <2> PICK ans \in Answers : RecordBack(a)!(ans) BY <1>5 DEF RecordBack
  <2>1. PutBackStep(a, "recordBack", "serve", "recorded" \in swap[a], TRUE, ans) OBVIOUS
  <2>2. row' = row \/ row' = [row EXCEPT !.container = target[a]] OBVIOUS
  <2>3. cont' = cont \/ cont' = [cont EXCEPT ![a] = target[a]] OBVIOUS
  <2>4. /\ pc' \in [Actors -> Stages] /\ lease' \in Actors \cup {Nobody}
        /\ swap' \in [Actors -> SUBSET {"renamed", "made", "recorded", "bad"}]
        /\ faults' \in 0..MaxFaults
    BY <2>1, PutBackStepKinds
  <2>5. UNCHANGED <<run, cut, outcome, target, writes, host>> BY <2>1 DEF PutBackStep
  <2>6. /\ row' \in [status : {"ACTIVE", "UPGRADING", "FAILED"}, version : {"from", "to"}, container : Boxes]
        /\ cont' \in [Actors -> Boxes]
    BY <2>2, <2>3 DEF TypeOK
  <2> QED BY <2>4, <2>5, <2>6 DEF TypeOK, host
<1>6. CASE ServeOld(a)
  <2> PICK ans \in Answers : ServeOld(a)!(ans) BY <1>6 DEF ServeOld
  <2>1. pc' \in [Actors -> Stages] /\ lease' \in Actors \cup {Nobody} BY GotoKinds DEF Concludes, Reports
  <2>2. faults' \in 0..MaxFaults BY FaultsCounted
  <2>3. running' = running \/ running' = running \cup {target[a]} OBVIOUS
  <2>4. outcome' = outcome \/ outcome' = [outcome EXCEPT ![a] = "FAILED"] BY DEF Concludes, Reports
  <2>5. running' \subseteq Boxes BY <2>3 DEF TypeOK
  <2>6. outcome' \in [Actors -> Ends \cup {"NONE", "UNSETTLED"}] BY <2>4 DEF TypeOK
  <2>7. UNCHANGED <<run, row, there, fenced, name, load, has, dump, cut, swap, cont, target, writes>> OBVIOUS
  <2> QED BY <2>1, <2>2, <2>5, <2>6, <2>7 DEF TypeOK
<1>7. CASE Unfence(a)
  <2> PICK ans \in Answers : Unfence(a)!(ans) BY <1>7 DEF Unfence
  <2>1. pc' \in [Actors -> Stages] /\ lease' \in Actors \cup {Nobody} BY GotoKinds DEF Concludes, Reports
  <2>2. faults' \in 0..MaxFaults BY FaultsCounted
  <2>3. \E o \in {"ROLLED_BACK", "FAILED"} : outcome' = [outcome EXCEPT ![a] = o] BY DEF Concludes, Reports
  <2>4. fenced' \subseteq Boxes BY DEF TypeOK
  <2>5. outcome' \in [Actors -> Ends \cup {"NONE", "UNSETTLED"}] BY <2>3 DEF TypeOK
  <2>6. UNCHANGED <<run, row, there, running, name, load, has, dump, cut, swap, cont, target, writes>> OBVIOUS
  <2> QED BY <2>1, <2>2, <2>4, <2>5, <2>6 DEF TypeOK
<1> QED BY <1>1, <1>2, <1>3, <1>4, <1>5, <1>6, <1>7 DEF PutBack

LEMMA FinishTypes == ASSUME TypeOK, NEW a \in Actors, Finish(a) PROVE TypeOK'
<1> USE DEF Stages
<1>1. CASE WaitServing(a)
  <2> PICK ans \in OwnAnswers(a) : WaitServing(a)!(ans) BY <1>1 DEF WaitServing
  <2>1. pc' \in [Actors -> Stages] /\ lease' \in Actors \cup {Nobody} BY GotoKinds
  <2>2. faults' \in 0..MaxFaults BY AnswerKinds, FaultsCounted
  <2>3. \/ UNCHANGED <<running, fenced>>
        \/ running' = running \cup {cont[a]} /\ fenced' = fenced \ {cont[a]}
    OBVIOUS
  <2>4. running' \subseteq Boxes /\ fenced' \subseteq Boxes BY <2>3 DEF TypeOK
  <2>5. UNCHANGED <<run, row, there, name, load, has, dump, cut, know, writes>> OBVIOUS
  <2> QED BY <2>1, <2>2, <2>4, <2>5 DEF TypeOK, know
<1>2. CASE Cleanup(a)
  <2> PICK ans \in OwnAnswers(a) : Cleanup(a)!(ans) BY <1>2 DEF Cleanup
  <2>1. pc' \in [Actors -> Stages] /\ lease' \in Actors \cup {Nobody} BY GotoKinds
  <2>2. faults' \in 0..MaxFaults BY AnswerKinds, FaultsCounted
  <2>3. \/ UNCHANGED <<there, running>>
        \/ there' = there \ {"old"} /\ running' = running \ {"old"}
    OBVIOUS
  <2>4. outcome' = [outcome EXCEPT ![a] = "COMPLETED"] OBVIOUS
  <2>5. outcome' \in [Actors -> Ends \cup {"NONE", "UNSETTLED"}] BY <2>4 DEF TypeOK
  <2>6. there' \subseteq Boxes /\ running' \subseteq Boxes BY <2>3 DEF TypeOK
  <2>7. UNCHANGED <<run, row, fenced, name, load, has, dump, cut, swap, cont, target, writes>> OBVIOUS
  <2> QED BY <2>1, <2>2, <2>5, <2>6, <2>7 DEF TypeOK
<1>3. ASSUME NEW here, NEW next \in Stages, Progress(a, here, next) PROVE TypeOK'
  <2> PICK ans \in OwnAnswers(a) : Progress(a, here, next)!(ans) BY <1>3 DEF Progress
  <2>1. pc' \in [Actors -> Stages] /\ lease' \in Actors \cup {Nobody} BY GotoKinds, LeaveKinds
  <2>2. faults' \in 0..MaxFaults BY AnswerKinds, FaultsCounted
  <2>3. row' = row \/ row' = [row EXCEPT !.status = "UPGRADING"] OBVIOUS
  <2> QED BY <2>1, <2>2, <2>3 DEF TypeOK, host, know
<1> QED BY <1>1, <1>2, <1>3 DEF Finish

LEMMA DriveTypes == ASSUME TypeOK, NEW a \in Actors, Drive(a) PROVE TypeOK'
<1> USE DEF Stages
<1>1. CASE SetUpgrading(a)
  <2> PICK ans \in Answers : SetUpgrading(a)!(ans) BY <1>1 DEF SetUpgrading
  <2>1. pc' \in [Actors -> Stages] /\ lease' \in Actors \cup {Nobody} BY GotoKinds DEF Reports
  <2>2. faults' \in 0..MaxFaults BY FaultsCounted
  <2>3. row' = row \/ row' = [row EXCEPT !.status = "UPGRADING"] OBVIOUS
  <2>4. outcome' = outcome \/ outcome' = [outcome EXCEPT ![a] = "ROLLED_BACK"] BY DEF Reports
  <2> QED BY <2>1, <2>2, <2>3, <2>4 DEF TypeOK, host
<1>2. CASE TakeBackup(a)
  <2> PICK ans \in OwnAnswers(a) : TakeBackup(a)!(ans) BY <1>2 DEF TakeBackup
  <2>1. pc' \in [Actors -> Stages] /\ lease' \in Actors \cup {Nobody} BY GotoKinds DEF Reports
  <2>2. faults' \in 0..MaxFaults BY AnswerKinds, FaultsCounted
  <2>4. outcome' = outcome \/ outcome' = [outcome EXCEPT ![a] = "ROLLED_BACK"] BY DEF Reports
  <2> QED BY <2>1, <2>2, <2>4 DEF TypeOK, host
<1>3. CASE NoteBackup(a)
  <2> PICK ans \in OwnAnswers(a) : NoteBackup(a)!(ans) BY <1>3 DEF NoteBackup
  <2>1. pc' \in [Actors -> Stages] /\ lease' \in Actors \cup {Nobody} BY GotoKinds, LeaveKinds
  <2>2. faults' \in 0..MaxFaults BY AnswerKinds, FaultsCounted
  <2> QED BY <2>1, <2>2 DEF TypeOK, host, know
<1>4. CASE Recover(a)
  <2> DEFINE pre  == "old" \in there /\ name = "pre"
             made == pre /\ "new" \in there
  <2> PICK ans \in OwnAnswers(a) : Recover(a)!(ans) BY <1>4 DEF Recover
  <2>1. pc' \in [Actors -> Stages] /\ lease' \in Actors \cup {Nobody} BY GotoKinds DEF Concludes, Reports
  <2>2. faults' \in 0..MaxFaults BY AnswerKinds, FaultsCounted
  <2>3. target' = target \/ \E c \in Boxes : target' = [target EXCEPT ![a] = c] BY DEF TypeOK
  <2>4. swap' = swap \/ \E k \in SUBSET {"renamed", "made", "recorded", "bad"} : swap' = [swap EXCEPT ![a] = k] OBVIOUS
  <2>5. outcome' = outcome \/ outcome' = [outcome EXCEPT ![a] = "FAILED"] BY DEF Concludes, Reports
  <2>6. target' \in [Actors -> Boxes] BY <2>3 DEF TypeOK
  <2>7. swap' \in [Actors -> SUBSET {"renamed", "made", "recorded", "bad"}] BY <2>4 DEF TypeOK
  <2>8. outcome' \in [Actors -> Ends \cup {"NONE", "UNSETTLED"}] BY <2>5 DEF TypeOK
  <2>9. UNCHANGED <<run, row, host, cut, cont, writes>> OBVIOUS
  <2> QED BY <2>1, <2>2, <2>6, <2>7, <2>8, <2>9 DEF TypeOK, host
<1>5. CASE Check(a)
  <2> PICK ans \in OwnAnswers(a) : Check(a)!(ans) BY <1>5 DEF Check
  <2>1. HostCall(a, "check", "mark", {}, CanRun("new") /\ Loaded, ans) OBVIOUS
  <2>2. running' = running \/ running' = running \cup {"new"} OBVIOUS
  <2>3. HostKinds BY DEF TypeOK, HostKinds
  <2>4. UNCHANGED <<there, fenced, name, load, has, dump>> OBVIOUS
  <2>5. HostKinds' BY <2>2, <2>3, <2>4 DEF HostKinds
  <2> QED BY <2>1, <2>5, HostCallKinds
<1>6. CASE Conclude(a)
  <2> PICK ans \in OwnAnswers(a) : Conclude(a)!(ans) BY <1>6 DEF Conclude
  <2>1. pc' \in [Actors -> Stages] /\ lease' \in Actors \cup {Nobody} BY GotoKinds, LeaveKinds
  <2>2. faults' \in 0..MaxFaults BY AnswerKinds, FaultsCounted
  <2> QED BY <2>1, <2>2 DEF TypeOK, host, know
<1>7. CASE End(a)
  <2> PICK ans \in (IF pc[a] = "abort" THEN Answers ELSE OwnAnswers(a)) : End(a)!(ans) BY <1>7 DEF End
  <2>1. pc' \in [Actors -> Stages] /\ lease' \in Actors \cup {Nobody} BY LeaveKinds
  <2>2. faults' \in 0..MaxFaults BY AnswerKinds, FaultsCounted
  <2>3. run' = run \/ (outcome[a] # "UNSETTLED" /\ run' = [run EXCEPT !.status = outcome[a]]) BY DEF Open
  <2>4. \E status \in {"ACTIVE", "UPGRADING", "FAILED"} : row' = row \/ row' = [row EXCEPT !.status = status] OBVIOUS
  <2> QED BY <2>1, <2>2, <2>3, <2>4 DEF TypeOK, host, know
<1> QED BY <1>1, <1>2, <1>3, <1>4, <1>5, <1>6, <1>7, ConvertTypes, PutBackTypes, FinishTypes DEF Drive

LEMMA AroundTypes ==
  ASSUME TypeOK, \/ \E a \in Actors : Start(a) \/ Claim(a) \/ Die(a) \/ Outage(a)
                 \/ GoStale \/ LoadEnds \/ \E c \in Boxes : Write(c)
  PROVE  TypeOK'
<1> USE DEF Stages
<1>1. ASSUME NEW a \in Actors, Start(a) PROVE TypeOK'
  <2> PICK ans \in Answers : Start(a)!(ans) BY <1>1 DEF Start
  <2>1. faults' \in 0..MaxFaults BY FaultsCounted
  <2>2. \E s \in Stages : pc' = [pc EXCEPT ![a] = s] OBVIOUS
  <2>3. pc' \in [Actors -> Stages] /\ lease' \in Actors \cup {Nobody} BY <2>2 DEF TypeOK
  <2>4. run' = run \/ run' = [status |-> "RUNNING", owner |-> a, beat |-> "fresh", data |-> "from"] OBVIOUS
  <2> QED BY <2>1, <2>3, <2>4 DEF TypeOK, host, know
<1>2. ASSUME NEW a \in Actors, Claim(a) PROVE TypeOK'
  <2> PICK ans \in Answers : Claim(a)!(ans) BY <1>2 DEF Claim
  <2>1. faults' \in 0..MaxFaults BY FaultsCounted
  <2>2. \E s \in Stages : pc' = [pc EXCEPT ![a] = s] OBVIOUS
  <2>3. pc' \in [Actors -> Stages] /\ lease' \in Actors \cup {Nobody} BY <2>2 DEF TypeOK
  <2>4. run' = run \/ run' = [run EXCEPT !.owner = a, !.beat = "fresh"] OBVIOUS
  <2>5. cont' \in [Actors -> Boxes] BY DEF TypeOK
  <2>6. run' \in [status : Ends \cup {"NONE", "RUNNING"}, owner : Actors \cup {Nobody},
                  beat : {"fresh", "stale"}, data : {"from", "to"}]
    BY <2>4 DEF TypeOK
  <2> QED BY <2>1, <2>3, <2>5, <2>6 DEF TypeOK, host
<1>3. ASSUME NEW a \in Actors, Die(a) \/ Outage(a) PROVE TypeOK'
  <2>1. faults' \in 0..MaxFaults
    <3>1. faults \in 0..MaxFaults BY DEF TypeOK
    <3> QED BY <1>3, <3>1, BoundAssumption DEF Die, Outage
  <2>2. CASE Die(a)
    BY <2>1, <2>2, LeaveKinds DEF Die, TypeOK, host, know
  <2>3. CASE Outage(a)
    <3>1. cut' = cut \cup {a} /\ UNCHANGED <<run, row, host, pc, know, writes>> BY <2>3 DEF Outage
    <3>2. lease' \in Actors \cup {Nobody} BY <2>3 DEF Outage, TypeOK
    <3>3. cut' \subseteq Actors BY <3>1 DEF TypeOK
    <3> QED BY <2>1, <3>1, <3>2, <3>3 DEF TypeOK, host, know
  <2> QED BY <1>3, <2>2, <2>3
<1>4. CASE GoStale
  BY <1>4 DEF GoStale, TypeOK, host, know
<1>5. CASE LoadEnds
  <2>1. faults' \in 0..MaxFaults
    <3>1. faults \in 0..MaxFaults BY DEF TypeOK
    <3> QED BY <1>5, <3>1, BoundAssumption DEF LoadEnds
  <2>2. has' = has \/ has' = [has EXCEPT !["new"] = dump] BY <1>5 DEF LoadEnds
  <2>3. has' \in [Boxes -> SUBSET (1..MaxWrites)]
    <3>1. dump \in SUBSET (1..MaxWrites) /\ has \in [Boxes -> SUBSET (1..MaxWrites)] BY DEF TypeOK
    <3> QED BY <2>2, <3>1
  <2>4. load' \in {"loaded", "failed"} BY <1>5 DEF LoadEnds
  <2> QED BY <1>5, <2>1, <2>3, <2>4 DEF LoadEnds, TypeOK, know
<1>6. ASSUME NEW c \in Boxes, Write(c) PROVE TypeOK'
  <2>1. writes' \in 0..MaxWrites /\ writes + 1 \in 1..MaxWrites
    <3>1. writes \in 0..MaxWrites BY DEF TypeOK
    <3> QED BY <1>6, <3>1, BoundAssumption DEF Write
  <2>2. has' \in [Boxes -> SUBSET (1..MaxWrites)] BY <1>6, <2>1 DEF Write, TypeOK
  <2> QED BY <1>6, <2>1, <2>2 DEF Write, TypeOK, know
<1> QED BY <1>1, <1>2, <1>3, <1>4, <1>5, <1>6

LEMMA TypeStep == TypeOK /\ [Next]_vars => TypeOK'
<1> SUFFICES ASSUME TypeOK, [Next]_vars PROVE TypeOK'
  OBVIOUS
<1>1. CASE UNCHANGED vars
  BY <1>1 DEF TypeOK, vars, host, know
<1> QED BY <1>1, DriveTypes, AroundTypes DEF Next

\* The variables keep their kinds, the faults their bound, and a run is never
\* recorded as ended while its conversion is unsettled (conclude, leaveOpen).
THEOREM TypeCorrect == Spec => []TypeOK
  BY TypeInit, TypeStep, PTL DEF Spec

-----------------------------------------------------------------------------
(* Who owns the run.                                                       *)

\* What one actor's step may change of the others and of the run.
Moves(a) ==
  /\ Live(a) /\ pc'[a] # "idle" /\ UNCHANGED <<cut, writes>>
  /\ \A b \in Actors \ {a} : /\ pc'[b] = pc[b] /\ outcome'[b] = outcome[b] /\ swap'[b] = swap[b]
                             /\ cont'[b] = cont[b] /\ target'[b] = target[b]
  /\ run'.owner = run.owner
  /\ run'.status = run.status \/ (Owns(a) /\ pc'[a] = "gone" /\ run'.status # "NONE")
  /\ run'.beat = run.beat \/ run'.beat = "fresh"
  /\ pc'[a] \in Uncut => pc[a] \in Uncut \/ (Owns(a) /\ run'.beat = "fresh")
  /\ pc'[a] \in {"abort", "conclude", "end"} => outcome'[a] # "NONE"
  /\ Safe(a) /\ ~Owns(a) => UNCHANGED <<host, row, run>>

LEMMA GotoMoves ==
  ASSUME TypeOK, NEW a \in Actors, NEW s, Goto(a, s)
  PROVE  pc'[a] = s /\ \A b \in Actors \ {a} : pc'[b] = pc[b]
  BY DEF TypeOK, Goto

LEMMA LeaveMoves ==
  ASSUME TypeOK, NEW a \in Actors, Leave(a)
  PROVE  pc'[a] = "gone" /\ \A b \in Actors \ {a} : pc'[b] = pc[b]
  BY DEF TypeOK, Leave

LEMMA ReportsMoves ==
  ASSUME TypeOK, NEW a \in Actors, NEW o, NEW s, Reports(a, o, s)
  PROVE  /\ pc'[a] = s /\ outcome'[a] = o
         /\ \A b \in Actors \ {a} : pc'[b] = pc[b] /\ outcome'[b] = outcome[b]
  BY DEF TypeOK, Goto, Reports

LEMMA OthersOutcome ==
  ASSUME TypeOK, NEW a \in Actors, NEW o, outcome' = outcome \/ outcome' = [outcome EXCEPT ![a] = o]
  PROVE  \A b \in Actors \ {a} : outcome'[b] = outcome[b]
<1>1. outcome \in [Actors -> Ends \cup {"NONE", "UNSETTLED"}] BY DEF TypeOK
<1> QED BY <1>1

LEMMA OthersKnow ==
  ASSUME TypeOK, NEW a \in Actors,
         swap' = swap \/ \E k : swap' = [swap EXCEPT ![a] = k],
         cont' = cont \/ \E k : cont' = [cont EXCEPT ![a] = k],
         target' = target \/ \E k : target' = [target EXCEPT ![a] = k]
  PROVE  \A b \in Actors \ {a} : swap'[b] = swap[b] /\ cont'[b] = cont[b] /\ target'[b] = target[b]
<1>0. /\ swap \in [Actors -> SUBSET {"renamed", "made", "recorded", "bad"}]
      /\ cont \in [Actors -> Boxes] /\ target \in [Actors -> Boxes]
  BY DEF TypeOK
<1>1. \A b \in Actors \ {a} : swap'[b] = swap[b] BY <1>0
<1>2. \A b \in Actors \ {a} : cont'[b] = cont[b] BY <1>0
<1>3. \A b \in Actors \ {a} : target'[b] = target[b] BY <1>0
<1> QED BY <1>1, <1>2, <1>3

LEMMA ConvertMoves == ASSUME TypeOK, Ownership, NEW a \in Actors, Convert(a) PROVE Moves(a)
<1> USE DEF Moves, Safe, Uncut, Live, Owns, TypeOK, host, know
<1>0. ASSUME NEW here \in {"fence", "dump", "stop", "rename", "create", "start", "load"},
             NEW next \in {"dump", "holdStop", "holdRename", "create", "start", "load", "holdRecord"},
             NEW learns \in SUBSET {"renamed", "made", "recorded", "bad"}, NEW can, NEW ans \in OwnAnswers(a),
             HostCall(a, here, next, learns, can, ans), ans = "refused" => UNCHANGED host
      PROVE  Moves(a)
  BY <1>0, AnswerKinds DEF HostCall, Goto
<1>1. CASE BeginConvert(a)
  <2> PICK ans \in OwnAnswers(a) : BeginConvert(a)!(ans) BY <1>1 DEF BeginConvert
  <2>0. Leave(a) \/ Goto(a, "fence") \/ Concludes(a, "ROLLED_BACK") OBVIOUS
  <2>1. pc'[a] \in {"gone", "fence", "conclude"} /\ \A b \in Actors \ {a} : pc'[b] = pc[b]
    BY <2>0, GotoMoves, LeaveMoves DEF Concludes, Reports
  <2>2. pc'[a] = "conclude" => outcome'[a] # "NONE"
    <3>1. Concludes(a, "ROLLED_BACK") => outcome'[a] = "ROLLED_BACK" BY DEF Concludes, Reports
    <3> QED BY <2>0, <3>1, GotoMoves, LeaveMoves
  <2>6. outcome' = outcome \/ outcome' = [outcome EXCEPT ![a] = "ROLLED_BACK"] BY DEF Concludes, Reports
  <2>3. \A b \in Actors \ {a} : outcome'[b] = outcome[b]
    <3> HIDE DEF TypeOK
    <3> QED BY <2>6, OthersOutcome
  <2>4. UNCHANGED <<run, host, cut, swap, cont, target, writes>> /\ pc[a] = "convert" OBVIOUS
  <2>5. ~Owns(a) => UNCHANGED row OBVIOUS
  <2> HIDE DEF Owns, TypeOK
  <2> QED BY <2>1, <2>2, <2>3, <2>4, <2>5
<1>2. CASE Fence(a)
  <2> PICK ans \in OwnAnswers(a) : Fence(a)!(ans) BY <1>2 DEF Fence
  <2> QED BY <1>0
<1>3. CASE Dump(a)
  <2>1. CASE \E ans \in OwnAnswers(a) : Dump(a)!1!(ans)
    <3> PICK ans \in OwnAnswers(a) : Dump(a)!1!(ans) BY <2>1
    <3> QED BY <1>0
  <2>2. CASE Dump(a)!2
    BY <2>2 DEF Leave
  <2> QED BY <1>3, <2>1, <2>2 DEF Dump
<1>4. CASE Stop(a)
  <2> PICK ans \in OwnAnswers(a) : Stop(a)!(ans) BY <1>4 DEF Stop
  <2> QED BY <1>0
<1>5. CASE Rename(a)
  <2> PICK ans \in OwnAnswers(a) : Rename(a)!(ans) BY <1>5 DEF Rename
  <2> QED BY <1>0
<1>6. CASE Create(a)
  <2> PICK ans \in OwnAnswers(a) : Create(a)!(ans) BY <1>6 DEF Create
  <2> QED BY <1>0
<1>7. CASE StartNew(a)
  <2> PICK ans \in OwnAnswers(a) : StartNew(a)!(ans) BY <1>7 DEF StartNew
  <2> QED BY <1>0
<1>8. CASE WaitLoaded(a)
  <2> PICK ans \in OwnAnswers(a) : WaitLoaded(a)!(ans) BY <1>8 DEF WaitLoaded
  <2> QED BY <1>0
<1>9. CASE Record(a)
  <2> PICK ans \in Answers : Record(a)!(ans) BY <1>9 DEF Record
  <2> QED BY DEF Goto
<1>10. CASE Mark(a)
  <2> PICK ans \in OwnAnswers(a) : Mark(a)!(ans) BY <1>10 DEF Mark
  <2>1. run' = run \/ run' = [run EXCEPT !.data = "to", !.beat = "fresh"] OBVIOUS
  <2>2. /\ run'.owner = run.owner /\ run'.status = run.status
        /\ run'.beat = run.beat \/ run'.beat = "fresh"
    BY <2>1
  <2>0. (Leave(a) /\ outcome' = outcome) \/ \E o \in {"COMPLETED", "UNSETTLED"} : Reports(a, o, "conclude")
    BY DEF Concludes
  <2>3. /\ pc'[a] \in {"gone", "conclude"} /\ \A b \in Actors \ {a} : pc'[b] = pc[b]
        /\ pc'[a] = "conclude" => outcome'[a] # "NONE"
        /\ \A b \in Actors \ {a} : outcome'[b] = outcome[b]
    <3> HIDE DEF TypeOK, Owns
    <3> QED BY <2>0, LeaveMoves, ReportsMoves
  <2>6. UNCHANGED <<host, cut, swap, cont, target, writes>> /\ pc[a] = "mark" OBVIOUS
  <2>7. ~Owns(a) => UNCHANGED <<run, row>> OBVIOUS
  <2> HIDE DEF Owns, TypeOK
  <2> QED BY <2>2, <2>3, <2>6, <2>7
<1>11. ASSUME NEW here \in {"holdStop", "holdRename", "holdRecord"}, NEW next \in {"stop", "rename", "record"},
              Hold(a, here, next)
       PROVE Moves(a)
  <2> PICK ans \in Answers : Hold(a, here, next)!(ans) BY <1>11 DEF Hold
  <2>1. run' = run \/ (Owns(a) /\ run' = [run EXCEPT !.beat = "fresh"]) OBVIOUS
  <2>2. /\ run'.owner = run.owner /\ run'.status = run.status
        /\ run'.beat = run.beat \/ run'.beat = "fresh"
    BY <2>1
  <2>0. Leave(a) \/ Goto(a, "undo") \/ (Goto(a, next) /\ Owns(a) /\ ans = "done") OBVIOUS
  <2>3. pc'[a] = "record" => Owns(a) /\ run'.beat = "fresh" BY <2>0, <2>1, GotoMoves, LeaveMoves
  <2>4. pc'[a] \in {"gone", "undo", "stop", "rename", "record"} BY <2>0, GotoMoves, LeaveMoves
  <2>5. \A b \in Actors \ {a} : pc'[b] = pc[b] BY <2>0, GotoMoves, LeaveMoves
  <2>6. UNCHANGED <<row, host, cut, know, writes>> OBVIOUS
  <2>7. ~Owns(a) => run' = run OBVIOUS
  <2>8. pc[a] \in {"holdStop", "holdRename", "holdRecord"} OBVIOUS
  <2> HIDE DEF Owns, TypeOK
  <2> QED BY <2>2, <2>3, <2>4, <2>5, <2>6, <2>7, <2>8
<1> QED BY <1>1, <1>2, <1>3, <1>4, <1>5, <1>6, <1>7, <1>8, <1>9, <1>10, <1>11 DEF Convert

LEMMA PutBackMoves == ASSUME TypeOK, Ownership, NEW a \in Actors, PutBack(a) PROVE Moves(a)
<1> USE DEF Moves, Safe, Uncut, Live, Owns, TypeOK, host, know
<1>0. ASSUME NEW here \in {"remove", "renameBack", "recordBack"}, NEW next \in {"renameBack", "recordBack", "serve"},
             NEW needed, NEW can, NEW ans \in Answers, PutBackStep(a, here, next, needed, can, ans),
             cont' = cont \/ cont' = [cont EXCEPT ![a] = target[a]]
      PROVE  Moves(a)
  <2>1. /\ pc[a] = here /\ a \notin cut /\ Goto(a, next)
        /\ UNCHANGED <<run, cut, outcome, target, writes>>
    BY <1>0 DEF PutBackStep, RunLost
  <2>2. pc'[a] = next /\ \A b \in Actors \ {a} : pc'[b] = pc[b]
    <3> HIDE DEF TypeOK
    <3> QED BY <2>1, GotoMoves
  <2> HIDE DEF TypeOK, Owns
  <2>3. swap' = swap \/ swap' = [swap EXCEPT ![a] = @ \cup {"bad"}] BY <1>0 DEF PutBackStep
  <2>4. \A b \in Actors \ {a} : swap'[b] = swap[b] /\ cont'[b] = cont[b]
    BY <1>0, <2>1, <2>3, OthersKnow
  <2> QED BY <1>0, <2>1, <2>2, <2>3, <2>4
<1>1. CASE Undo(a)
  <2> PICK ans \in Answers : Undo(a)!(ans) BY <1>1 DEF Undo
  <2>0. Leave(a) \/ Goto(a, "remove") OBVIOUS
  <2>1. pc'[a] \in {"gone", "remove"} /\ \A b \in Actors \ {a} : pc'[b] = pc[b] BY <2>0, GotoMoves, LeaveMoves
  <2>2. run' = run \/ (Owns(a) /\ run' = [run EXCEPT !.beat = "fresh"]) OBVIOUS
  <2>3. /\ run'.owner = run.owner /\ run'.status = run.status
        /\ run'.beat = run.beat \/ run'.beat = "fresh"
    BY <2>2
  <2>4. UNCHANGED <<row, host, cut, know, writes>> /\ pc[a] = "undo" OBVIOUS
  <2>5. ~Owns(a) => run' = run OBVIOUS
  <2> HIDE DEF Owns, TypeOK
  <2> QED BY <2>1, <2>3, <2>4, <2>5
<1>2. CASE GiveUp(a)
  BY <1>2, LeaveMoves DEF GiveUp
<1>3. CASE RemoveNew(a)
  <2> HIDE DEF TypeOK, Moves, Owns, host, know
  <2> PICK ans \in Answers : RemoveNew(a)!(ans) BY <1>3 DEF RemoveNew
  <2> QED BY <1>0
<1>4. CASE RenameBack(a)
  <2> HIDE DEF TypeOK, Moves, Owns, host, know
  <2> PICK ans \in Answers : RenameBack(a)!(ans) BY <1>4 DEF RenameBack
  <2> QED BY <1>0
<1>5. CASE RecordBack(a)
  <2> HIDE DEF TypeOK, Moves, Owns, host, know
  <2> PICK ans \in Answers : RecordBack(a)!(ans) BY <1>5 DEF RecordBack
  <2> QED BY <1>0
<1>6. CASE ServeOld(a)
  <2> PICK ans \in Answers : ServeOld(a)!(ans) BY <1>6 DEF ServeOld
  <2>1. (Goto(a, "unfence") /\ outcome' = outcome) \/ Concludes(a, "FAILED") OBVIOUS
  <2>2. pc'[a] \in {"unfence", "conclude"} /\ \A b \in Actors \ {a} : pc'[b] = pc[b]
    BY <2>1, GotoMoves DEF Concludes, Reports
  <2>3. outcome' = outcome \/ outcome' = [outcome EXCEPT ![a] = "FAILED"] BY <2>1 DEF Concludes, Reports
  <2>4. pc'[a] = "conclude" => outcome'[a] # "NONE" BY <2>1, GotoMoves, ReportsMoves DEF Concludes
  <2>5. UNCHANGED <<run, cut, swap, cont, target, writes>> /\ pc[a] = "serve" /\ a \notin cut BY DEF RunLost
  <2> HIDE DEF TypeOK, Owns
  <2>6. \A b \in Actors \ {a} : outcome'[b] = outcome[b] BY <2>3, OthersOutcome
  <2> QED BY <2>2, <2>4, <2>5, <2>6
<1>7. CASE Unfence(a)
  <2> PICK ans \in Answers : Unfence(a)!(ans) BY <1>7 DEF Unfence
  <2>1. pc'[a] = "conclude" /\ \A b \in Actors \ {a} : pc'[b] = pc[b]
    BY GotoMoves DEF Concludes, Reports
  <2>2. \E o \in {"ROLLED_BACK", "FAILED"} : outcome' = [outcome EXCEPT ![a] = o] BY DEF Concludes, Reports
  <2>3. UNCHANGED <<run, cut, swap, cont, target, writes>> /\ pc[a] = "unfence" /\ a \notin cut BY DEF RunLost
  <2> QED BY <2>1, <2>2, <2>3
<1> QED BY <1>1, <1>2, <1>3, <1>4, <1>5, <1>6, <1>7 DEF PutBack

LEMMA FinishMoves == ASSUME TypeOK, Ownership, NEW a \in Actors, Finish(a) PROVE Moves(a)
<1> USE DEF Moves, Safe, Uncut, Live, Owns, TypeOK, host, know
<1>1. CASE WaitServing(a)
  <2> PICK ans \in OwnAnswers(a) : WaitServing(a)!(ans) BY <1>1 DEF WaitServing
  <2> QED BY AnswerKinds, GotoMoves
<1>2. CASE Cleanup(a)
  <2> PICK ans \in OwnAnswers(a) : Cleanup(a)!(ans) BY <1>2 DEF Cleanup
  <2>1. outcome' = [outcome EXCEPT ![a] = "COMPLETED"] OBVIOUS
  <2>2. a \in cut => UNCHANGED <<there, running>> BY AnswerKinds
  <2> QED BY <2>1, <2>2, GotoMoves
<1>3. ASSUME NEW here \in {"finish", "finishing"}, NEW next \in {"serving", "cleanup"}, Progress(a, here, next)
      PROVE Moves(a)
  <2> PICK ans \in OwnAnswers(a) : Progress(a, here, next)!(ans) BY <1>3 DEF Progress
  <2>1. Leave(a) \/ Goto(a, next) OBVIOUS
  <2>2. pc'[a] \in {"gone", "serving", "cleanup"} /\ \A b \in Actors \ {a} : pc'[b] = pc[b]
    BY <2>1, GotoMoves, LeaveMoves
  <2>3. UNCHANGED <<run, host, cut, know, writes>> /\ pc[a] \in {"finish", "finishing"} OBVIOUS
  <2>4. ~Owns(a) => row' = row OBVIOUS
  <2> QED BY <2>2, <2>3, <2>4
<1> QED BY <1>1, <1>2, <1>3 DEF Finish

LEMMA DriveMoves == ASSUME TypeOK, Ownership, NEW a \in Actors, Drive(a) PROVE Moves(a)
<1> USE DEF Moves, Safe, Uncut, Live, Owns, TypeOK, host, know
<1>1. CASE SetUpgrading(a)
  <2> PICK ans \in Answers : SetUpgrading(a)!(ans) BY <1>1 DEF SetUpgrading
  <2>1. (Goto(a, "backup") /\ outcome' = outcome) \/ Reports(a, "ROLLED_BACK", "abort") OBVIOUS
  <2>2. pc'[a] \in {"backup", "abort"} /\ \A b \in Actors \ {a} : pc'[b] = pc[b] BY <2>1, GotoMoves DEF Reports
  <2>3. outcome' = outcome \/ outcome' = [outcome EXCEPT ![a] = "ROLLED_BACK"] BY <2>1 DEF Reports
  <2>4. pc'[a] = "abort" => outcome'[a] # "NONE" BY <2>1, GotoMoves, ReportsMoves
  <2>5. UNCHANGED <<run, cut, swap, cont, target, writes>> /\ pc[a] = "starting" OBVIOUS
  <2> HIDE DEF TypeOK, Owns
  <2>6. \A b \in Actors \ {a} : outcome'[b] = outcome[b] BY <2>3, OthersOutcome
  <2> QED BY <2>2, <2>4, <2>5, <2>6
<1>2. CASE TakeBackup(a)
  <2> PICK ans \in OwnAnswers(a) : TakeBackup(a)!(ans) BY <1>2 DEF TakeBackup
  <2>1. (Goto(a, "noted") /\ outcome' = outcome) \/ Reports(a, "ROLLED_BACK", "end") OBVIOUS
  <2>2. pc'[a] \in {"noted", "end"} /\ \A b \in Actors \ {a} : pc'[b] = pc[b] BY <2>1, GotoMoves DEF Reports
  <2>3. outcome' = outcome \/ outcome' = [outcome EXCEPT ![a] = "ROLLED_BACK"] BY <2>1 DEF Reports
  <2>4. pc'[a] = "end" => outcome'[a] # "NONE" BY <2>1, GotoMoves, ReportsMoves
  <2>5. UNCHANGED <<run, row, host, cut, swap, cont, target, writes>> /\ pc[a] = "backup" OBVIOUS
  <2> HIDE DEF TypeOK, Owns
  <2>6. \A b \in Actors \ {a} : outcome'[b] = outcome[b] BY <2>3, OthersOutcome
  <2> QED BY <2>2, <2>4, <2>5, <2>6
<1>3. CASE NoteBackup(a)
  <2> PICK ans \in OwnAnswers(a) : NoteBackup(a)!(ans) BY <1>3 DEF NoteBackup
  <2>1. Goto(a, "convert") \/ Leave(a) OBVIOUS
  <2> QED BY <2>1, GotoMoves, LeaveMoves
<1>4. CASE Recover(a)
  <2> PICK ans \in OwnAnswers(a) : Recover(a)!(ans) BY <1>4 DEF Recover
  <2>1. \/ (Goto(a, "check") \/ Goto(a, "undo")) /\ outcome' = outcome
        \/ Concludes(a, "FAILED")
    OBVIOUS
  <2>2. pc'[a] \in {"check", "undo", "conclude"} /\ \A b \in Actors \ {a} : pc'[b] = pc[b]
    BY <2>1, GotoMoves DEF Concludes, Reports
  <2>3. outcome' = outcome \/ outcome' = [outcome EXCEPT ![a] = "FAILED"] BY <2>1 DEF Concludes, Reports
  <2>4. pc'[a] = "conclude" => outcome'[a] # "NONE" BY <2>1, GotoMoves, ReportsMoves DEF Concludes
  <2>8. /\ swap' = swap \/ \E k : swap' = [swap EXCEPT ![a] = k]
        /\ target' = target \/ \E c : target' = [target EXCEPT ![a] = c]
    <3> HIDE DEF TypeOK
    <3> QED OBVIOUS
  <2>5. \A b \in Actors \ {a} : swap'[b] = swap[b] /\ target'[b] = target[b]
    <3> HIDE DEF TypeOK
    <3> QED BY <2>8, OthersKnow
  <2>6. UNCHANGED <<run, row, host, cut, cont, writes>> /\ pc[a] = "recover" OBVIOUS
  <2> HIDE DEF TypeOK, Owns
  <2>7. \A b \in Actors \ {a} : outcome'[b] = outcome[b] BY <2>3, OthersOutcome
  <2> QED BY <2>2, <2>4, <2>5, <2>6, <2>7
<1>5. CASE Check(a)
  <2> PICK ans \in OwnAnswers(a) : Check(a)!(ans) BY <1>5 DEF Check
  <2>1. HostCall(a, "check", "mark", {}, CanRun("new") /\ Loaded, ans) OBVIOUS
  <2>2. pc'[a] \in {"mark", "undo"} /\ \A b \in Actors \ {a} : pc'[b] = pc[b] BY <2>1, GotoMoves DEF HostCall
  <2>3. \A b \in Actors \ {a} : swap'[b] = swap[b] BY <2>1 DEF HostCall
  <2>4. UNCHANGED <<run, row, cut, cont, target, outcome, writes>> /\ pc[a] = "check" BY <2>1 DEF HostCall
  <2>5. a \in cut => running' = running BY AnswerKinds
  <2> QED BY <2>2, <2>3, <2>4, <2>5
<1>6. CASE Conclude(a)
  <2> PICK ans \in OwnAnswers(a) : Conclude(a)!(ans) BY <1>6 DEF Conclude
  <2>1. Goto(a, "finish") \/ Goto(a, "end") \/ Leave(a) OBVIOUS
  <2>2. pc'[a] \in {"finish", "end", "gone"} /\ \A b \in Actors \ {a} : pc'[b] = pc[b] BY <2>1, GotoMoves, LeaveMoves
  <2>3. outcome[a] # "NONE" BY DEF Ownership
  <2> QED BY <2>2, <2>3
<1>7. CASE End(a)
  <2> PICK ans \in (IF pc[a] = "abort" THEN Answers ELSE OwnAnswers(a)) : End(a)!(ans) BY <1>7 DEF End
  <2>1. run' = run \/ (Owns(a) /\ outcome[a] # "UNSETTLED" /\ run' = [run EXCEPT !.status = outcome[a]]) BY DEF Open
  <2>2. outcome[a] # "NONE" BY DEF Ownership
  <2>3. pc'[a] = "gone" /\ \A b \in Actors \ {a} : pc'[b] = pc[b] BY LeaveMoves
  <2>4. run'.owner = run.owner /\ run'.beat = run.beat /\ (run'.status = run.status \/ (Owns(a) /\ run'.status # "NONE"))
    BY <2>1, <2>2
  <2>5. ~Owns(a) => run' = run /\ row' = row OBVIOUS
  <2>6. UNCHANGED <<host, cut, know, writes>> /\ pc[a] \in {"end", "abort"} OBVIOUS
  <2> QED BY <2>3, <2>4, <2>5, <2>6
<1> QED BY <1>1, <1>2, <1>3, <1>4, <1>5, <1>6, <1>7, ConvertMoves, PutBackMoves, FinishMoves DEF Drive

LEMMA OwnershipStep ==
  ASSUME TypeOK, Ownership, [Next]_vars
  PROVE  Ownership'
<1> USE DEF Live
<1>0. TypeOK' BY TypeStep
<1>1. ASSUME NEW a \in Actors, Drive(a) PROVE Ownership'
  <2>1. Moves(a) BY <1>1, DriveMoves
  <2>2. ASSUME NEW b \in Actors, Live(b)' PROVE Owns(b)' \/ Safe(b)'
    BY <2>1, <2>2 DEF Moves, Ownership, Owns, Safe, TypeOK
  <2>3. ASSUME NEW b \in Actors, Owns(b)', run'.beat = "stale", Live(b)' PROVE Safe(b)'
    <3>1. run.beat = "stale" /\ Owns(b) BY <2>1, <2>3 DEF Moves, Owns
    <3>2. Live(b) BY <2>1, <2>3 DEF Moves
    <3>3. Safe(b) BY <3>1, <3>2 DEF Ownership
    <3> QED BY <2>1, <2>3, <3>3 DEF Moves, Safe
  <2>4. run'.status # "NONE" BY <2>1 DEF Moves, Ownership
  <2>5. ASSUME NEW b \in Actors, pc'[b] \in {"abort", "conclude", "end"} PROVE outcome'[b] # "NONE"
    BY <2>1, <2>5 DEF Moves, Ownership
  <2> QED BY <2>2, <2>3, <2>4, <2>5 DEF Ownership
<1>2. ASSUME NEW a \in Actors, Start(a) PROVE Ownership'
  <2> PICK ans \in Answers : Start(a)!(ans) BY <1>2 DEF Start
  <2>1. /\ pc'[a] \in {"starting", "gone"} /\ \A b \in Actors \ {a} : pc'[b] = pc[b]
        /\ outcome' = outcome /\ cut' = cut
    BY DEF TypeOK, know
  <2>2. \A b \in Actors : ~Live(b) BY DEF Ownership
  <2>3. pc'[a] = "starting" => run' = [status |-> "RUNNING", owner |-> a, beat |-> "fresh", data |-> "from"]
    BY DEF TypeOK
  <2>4. run' = run \/ run' = [status |-> "RUNNING", owner |-> a, beat |-> "fresh", data |-> "from"] OBVIOUS
  <2> QED BY <2>1, <2>2, <2>3, <2>4 DEF Ownership, Owns, Safe
<1>3. ASSUME NEW a \in Actors, Claim(a) PROVE Ownership'
  <2> PICK ans \in Answers : Claim(a)!(ans) BY <1>3 DEF Claim
  <2>1. /\ pc'[a] \in {"gone", "finish", "recover"} /\ \A b \in Actors \ {a} : pc'[b] = pc[b]
        /\ outcome' = outcome /\ cut' = cut
    BY DEF TypeOK
  <2>2. \A b \in Actors : Live(b) => Safe(b) BY DEF Ownership, Interrupted, Owns
  <2>3. pc'[a] # "gone" => run' = [run EXCEPT !.owner = a, !.beat = "fresh"] BY DEF TypeOK
  <2>4. run' = run \/ run' = [run EXCEPT !.owner = a, !.beat = "fresh"] OBVIOUS
  <2>5. run'.status = "RUNNING" /\ (pc'[a] # "gone" => run'.owner = a) BY <2>3, <2>4 DEF Interrupted, TypeOK
  <2>6. \A b \in Actors : Live(b)' => Owns(b)' \/ Safe(b)' BY <2>1, <2>2, <2>5 DEF Owns, Safe
  <2>7. run'.beat = "stale" => run' = run BY <2>4 DEF TypeOK
  <2>8. ASSUME NEW b \in Actors, Owns(b)', run'.beat = "stale", Live(b)' PROVE Safe(b)'
    <3>1. b # a BY <2>1, <2>3, <2>7, <2>8 DEF Owns, Claim, Fresh, TypeOK
    <3> QED BY <2>1, <2>2, <2>8, <3>1 DEF Safe
  <2> QED BY <2>1, <2>5, <2>6, <2>8 DEF Ownership
<1>4. ASSUME NEW a \in Actors, Die(a) \/ Outage(a) PROVE Ownership'
  <2>0. pc' = pc \/ pc' = [pc EXCEPT ![a] = "gone"] BY <1>4 DEF Die, Outage, Leave
  <2>1. run' = run /\ outcome' = outcome /\ cut \subseteq cut' BY <1>4 DEF Die, Outage, know
  <2>3. \A b \in Actors : pc'[b] \in {pc[b], "gone"}
    <3>1. pc \in [Actors -> Stages] BY DEF TypeOK
    <3> QED BY <2>0, <3>1
  <2>2. \A b \in Actors : Live(b)' => Live(b) /\ pc'[b] = pc[b] BY <2>3
  <2> QED BY <2>1, <2>2 DEF Ownership, Owns, Safe
<1>5. CASE GoStale
  <2>1. run' = [run EXCEPT !.beat = "stale"] /\ UNCHANGED <<pc, cut, outcome>> BY <1>5 DEF GoStale, know
  <2>2. run'.owner = run.owner /\ run'.status = run.status BY <2>1 DEF TypeOK
  <2>3. \A b \in Actors : Owns(b) /\ Live(b) => Safe(b) BY <1>5 DEF GoStale, Safe, Owns
  <2> QED BY <2>1, <2>2, <2>3 DEF Ownership, Owns, Safe
<1>6. CASE LoadEnds \/ (\E c \in Boxes : Write(c)) \/ UNCHANGED vars
  <2>1. UNCHANGED <<run, pc, cut, outcome>> BY <1>6 DEF LoadEnds, Write, vars, know
  <2> QED BY <2>1 DEF Ownership, Owns, Safe
<1> QED BY <1>1, <1>2, <1>3, <1>4, <1>5, <1>6 DEF Next

LEMMA OwnershipInit == Init => Ownership
  BY DEF Init, Ownership, Live, Owns, Safe

\* An actor changes the host, or the container the project names, only while
\* the run is its own: one that lost its run, or its heartbeats, starts no
\* further call (keepAlive, runLostBy, Hold).
THEOREM OnlyOwnerActsHolds == Spec => OnlyOwnerActs
<1> DEFINE I == TypeOK /\ Ownership
           A == \A a \in Actors : pc[a] # pc'[a] /\ <<host, row.container>> # <<host, row.container>>' => Owns(a)
<1>1. Init => I
  BY TypeInit, OwnershipInit
<1>2. I /\ [Next]_vars => I'
  BY TypeStep, OwnershipStep
<1>3. I /\ [Next]_vars => [A]_vars
  <2> SUFFICES ASSUME TypeOK, Ownership, Next, NEW a \in Actors, pc[a] # pc'[a], ~Owns(a)
               PROVE  UNCHANGED <<host, row>>
    BY DEF vars, host
  <2>1. ASSUME NEW b \in Actors, Drive(b) PROVE UNCHANGED <<host, row>>
    <3>1. Moves(b) BY <2>1, DriveMoves
    <3>2. b = a BY <3>1 DEF Moves
    <3>3. Safe(a) BY <3>1, <3>2 DEF Moves, Ownership
    <3> QED BY <3>1, <3>2, <3>3 DEF Moves
  <2>2. ASSUME NEW b \in Actors, Start(b) \/ Claim(b) \/ Die(b) \/ Outage(b) PROVE UNCHANGED <<host, row>>
    BY <2>2 DEF Start, Claim, Die, Outage, host
  <2>3. ~LoadEnds /\ ~(\E c \in Boxes : Write(c)) /\ ~GoStale /\ ~UNCHANGED vars
    BY DEF LoadEnds, Write, GoStale, vars
  <2> QED BY <2>1, <2>2, <2>3 DEF Next
<1> QED BY <1>1, <1>2, <1>3, PTL DEF Spec, OnlyOwnerActs

-----------------------------------------------------------------------------
(* The clients' data.                                                      *)

USE DEF Early, Dumped, Moving, Undoing, Finishing

LEMMA UInit == Init => UInv
<1> SUFFICES ASSUME Init PROVE UInv
  OBVIOUS
<1>1. TypeOK /\ Ownership BY TypeInit, OwnershipInit
<1>2. writes = 0 /\ has["old"] = {} /\ 1..writes = {} BY DEF Init
<1>3. HostInv BY <1>2 DEF Init, HostInv, OnFrom, Complete
<1>4. EndInv BY DEF Init, EndInv, Untouched
<1>5. \A a \in Actors : pc[a] = "idle" /\ swap[a] = {} /\ target[a] = "old" BY DEF Init
<1> QED BY <1>1, <1>3, <1>4, <1>5 DEF UInv, Sure, Live

\* A conversion once marked stays marked.
LEMMA MarkStays == ASSUME TypeOK, NEW a \in Actors, Drive(a), run.data = "to" PROVE run'.data = "to"
<1>1. CASE Convert(a)
  <2>1. CASE BeginConvert(a) \/ Fence(a) \/ Dump(a) \/ Stop(a) \/ Rename(a)
    BY <2>1 DEF BeginConvert, Fence, Dump, Stop, Rename, HostCall
  <2>2. CASE Create(a) \/ StartNew(a) \/ WaitLoaded(a) \/ Record(a)
    BY <2>2 DEF Create, StartNew, WaitLoaded, Record, HostCall
  <2>3. CASE Mark(a) BY <2>3 DEF Mark, TypeOK
  <2>4. ASSUME NEW here, NEW next, Hold(a, here, next) PROVE run'.data = "to" BY <2>4 DEF Hold, TypeOK
  <2> QED BY <1>1, <2>1, <2>2, <2>3, <2>4 DEF Convert
<1>2. CASE PutBack(a)
  BY <1>2 DEF TypeOK, PutBack, Undo, GiveUp, RemoveNew, RenameBack, RecordBack, PutBackStep, ServeOld, Unfence
<1>3. CASE Finish(a)
  BY <1>3 DEF Finish, WaitServing, Cleanup, Progress
<1>4. CASE End(a)
  BY <1>4 DEF End, TypeOK
<1>5. CASE SetUpgrading(a) \/ TakeBackup(a) \/ NoteBackup(a) \/ Recover(a) \/ Check(a) \/ Conclude(a)
  BY <1>5 DEF SetUpgrading, TakeBackup, NoteBackup, Recover, Check, Conclude, HostCall
<1> QED BY <1>1, <1>2, <1>3, <1>4, <1>5 DEF Drive

\* An actor's step keeps the invariant of the others.
LEMMA Others ==
  ASSUME UInv, NEW a \in Actors, Drive(a), Sure(a)', Owns(a) => HostInv' /\ EndInv' /\ Knows(a)'
  PROVE  UInv'
<1>1. TypeOK' /\ Ownership' /\ Moves(a)
  <2>1. Next BY DEF Next
  <2> QED BY <2>1, TypeStep, OwnershipStep, DriveMoves DEF UInv
<1>2. ~Owns(a) => UNCHANGED <<host, row, run>>
  BY <1>1 DEF Moves, UInv, Ownership
<1>3. HostInv' /\ EndInv'
  BY <1>1, <1>2 DEF UInv, HostInv, EndInv, OnFrom, OnTo, Complete, Sealed, Untouched, Back, Reachable, host, Moves
<1>4. ASSUME NEW b \in Actors, b # a PROVE Sure(b)' /\ (Owns(b)' /\ Live(b)' => Knows(b)')
  <2>1. Sure(b)'
    BY <1>1, <1>4, MarkStays DEF Sure, Moves, UInv, TypeOK
  <2>2. ASSUME Owns(b)', Live(b)' PROVE Knows(b)'
    <3>1. Owns(b) /\ Live(b) /\ ~Owns(a) BY <1>1, <1>4, <2>2 DEF Moves, Owns, Live
    <3>2. Knows(b) BY <3>1 DEF UInv
    <3>3. /\ pc'[b] = pc[b] /\ outcome'[b] = outcome[b] /\ swap'[b] = swap[b]
          /\ cont'[b] = cont[b] /\ target'[b] = target[b] /\ writes' = writes
      BY <1>1, <1>4 DEF Moves
    <3>4. UNCHANGED <<host, row, run>> BY <1>2, <3>1
    <3> QED BY <3>2, <3>3, <3>4 DEF Knows, Untouched, Sealed, Back, Reachable, host
  <2> QED BY <2>1, <2>2
<1>5. Owns(a)' => Owns(a)
  BY <1>1 DEF Moves, Owns
<1> QED BY <1>1, <1>3, <1>4, <1>5 DEF UInv

\* While the run goes on, EndInv says nothing.
LEMMA StillRunning == ASSUME NEW a, Owns(a), run'.status = run.status PROVE EndInv'
  BY DEF Owns, EndInv

\* Outside the steps named below, an actor's own variables say nothing of the
\* run's data.
LEMMA ConvertSure == ASSUME UInv, NEW a \in Actors, Convert(a) PROVE Sure(a)'
<1> USE DEF Sure, TypeOK
<1>0. ASSUME NEW here, NEW next \in {"dump", "holdStop", "holdRename", "create", "start", "load", "holdRecord"},
             NEW learns, NEW can, NEW ans, HostCall(a, here, next, learns, can, ans)
      PROVE  pc'[a] \in {next, "undo"}
  BY <1>0, GotoMoves DEF HostCall, UInv
<1>1. CASE BeginConvert(a)
  <2> PICK ans \in OwnAnswers(a) : BeginConvert(a)!(ans) BY <1>1 DEF BeginConvert
  <2>1. Leave(a) \/ Goto(a, "fence") \/ Concludes(a, "ROLLED_BACK") OBVIOUS
  <2>2. pc'[a] \in {"gone", "fence"} \/ (pc'[a] = "conclude" /\ outcome'[a] = "ROLLED_BACK")
    BY <2>1, GotoMoves, LeaveMoves, ReportsMoves DEF Concludes, UInv
  <2> QED BY <2>2
<1>2. CASE Fence(a) \/ Dump(a) \/ Stop(a) \/ Rename(a) \/ Create(a) \/ StartNew(a) \/ WaitLoaded(a)
  <2>1. pc'[a] \in {"gone", "undo", "dump", "holdStop", "holdRename", "create", "start", "load", "holdRecord"}
    <3> HIDE DEF Sure, TypeOK
    <3>1. CASE Fence(a) \/ Stop(a) \/ Rename(a) BY <1>0, <3>1 DEF Fence, Stop, Rename
    <3>2. CASE Create(a) \/ StartNew(a) \/ WaitLoaded(a) BY <1>0, <3>2 DEF Create, StartNew, WaitLoaded
    <3>3. CASE Dump(a) BY <1>0, <3>3, LeaveMoves DEF Dump, UInv
    <3> QED BY <1>2, <3>1, <3>2, <3>3
  <2> QED BY <2>1
<1>3. CASE Record(a)
  <2> PICK ans \in Answers : Record(a)!(ans) BY <1>3 DEF Record
  <2>1. pc'[a] = "undo" \/ (pc'[a] = "mark" /\ cont'[a] = "new") BY GotoMoves DEF UInv
  <2> QED BY <2>1
<1>4. CASE Mark(a)
  <2> PICK ans \in OwnAnswers(a) : Mark(a)!(ans) BY <1>4 DEF Mark
  <2>1. cont'[a] = "new" BY DEF UInv
  <2>2. CASE ans # "refused" /\ ~Owns(a)
    <3>1. pc'[a] = "gone" BY <2>2, LeaveMoves DEF UInv
    <3> QED BY <3>1
  <2>3. CASE ans # "refused" /\ Owns(a)
    <3>1. run'.data = "to" BY <2>3 DEF UInv
    <3>2. pc'[a] = "conclude" BY <2>3, ReportsMoves DEF Concludes, UInv
    <3> QED BY <2>1, <3>1, <3>2
  <2>4. CASE ans = "refused"
    <3>1. Concludes(a, "UNSETTLED") BY <2>4
    <3>2. pc'[a] = "conclude" /\ outcome'[a] = "UNSETTLED" BY <3>1, ReportsMoves DEF Concludes, UInv
    <3> QED BY <3>2
  <2> QED BY <2>2, <2>3, <2>4
<1>5. ASSUME NEW here, NEW next \in {"stop", "rename", "record"}, Hold(a, here, next) PROVE Sure(a)'
  <2> PICK ans \in Answers : Hold(a, here, next)!(ans) BY <1>5 DEF Hold
  <2>1. Leave(a) \/ Goto(a, "undo") \/ Goto(a, next) OBVIOUS
  <2>2. pc'[a] \in {"gone", "undo", "stop", "rename", "record"} BY <2>1, GotoMoves, LeaveMoves DEF UInv
  <2> QED BY <2>2
<1> QED BY <1>1, <1>2, <1>3, <1>4, <1>5 DEF Convert

LEMMA ConvertKnows ==
  ASSUME UInv, RecordAnswered, NEW a \in Actors, Owns(a), Live(a), Convert(a)
  PROVE  HostInv' /\ EndInv' /\ Knows(a)'
<1>0. TypeOK /\ HostInv /\ Knows(a) /\ run.status = "RUNNING" BY DEF UInv, Owns
<1> USE DEF Knows, HostInv, OnFrom, OnTo, Complete, Sealed
<1>1. CASE BeginConvert(a)
  <2> PICK ans \in OwnAnswers(a) : BeginConvert(a)!(ans) BY <1>1 DEF BeginConvert
  <2>1. Untouched /\ swap[a] = {} /\ target[a] = "old" /\ UNCHANGED <<run, host, swap, target, writes>>
    BY <1>0
  <2>2. (pc'[a] = "fence" /\ ans = "done") \/ (pc'[a] = "conclude" /\ outcome'[a] = "ROLLED_BACK")
    <3>1. (Goto(a, "fence") /\ ans = "done") \/ Reports(a, "ROLLED_BACK", "conclude") BY DEF Concludes
    <3> QED BY <1>0, <3>1, GotoMoves, ReportsMoves
  <2>3. row' = row \/ row' = [row EXCEPT !.status = "UPGRADING"] OBVIOUS
  <2>4. /\ row'.container = row.container /\ row'.version = row.version
        /\ row'.status = row.status \/ row'.status = "UPGRADING"
        /\ ans = "done" => row'.status = "UPGRADING"
    BY <1>0, <2>3 DEF TypeOK
  <2>5. HostInv' BY <1>0, <2>1, <2>4 DEF host, Untouched
  <2>6. Knows(a)' BY <2>1, <2>2, <2>4 DEF host, Untouched, Back, Reachable
  <2> QED BY <1>0, <2>1, <2>5, <2>6, StillRunning
<1>2. CASE Fence(a)
  <2> PICK ans \in OwnAnswers(a) : Fence(a)!(ans) BY <1>2 DEF Fence
  <2>1. /\ UNCHANGED <<run, row, there, running, name, load, has, dump, swap, target, writes>>
        /\ fenced' \in {fenced, fenced \cup {"old"}} /\ (ans = "done" => "old" \in fenced')
        /\ pc[a] = "fence"
    BY <1>0 DEF HostCall, TypeOK
  <2>2. (pc'[a] = "dump" /\ ans = "done") \/ pc'[a] = "undo" BY <1>0, GotoMoves DEF HostCall
  <2>3. Untouched /\ swap[a] = {} /\ target[a] = "old" /\ row.status = "UPGRADING" BY <1>0, <2>1
  <2>4. HostInv' BY <1>0, <2>1, <2>3 DEF Untouched
  <2>5. Knows(a)' BY <2>1, <2>2, <2>3 DEF Untouched
  <2> QED BY <1>0, <2>1, <2>4, <2>5, StillRunning
<1>3. CASE Dump(a)
  <2> PICK ans \in OwnAnswers(a) : Dump(a)!1!(ans) BY <1>3 DEF Dump
  <2>1. /\ UNCHANGED <<run, row, there, running, fenced, name, load, has, target, writes>>
        /\ dump' \in {dump, has["old"]} /\ (ans = "done" => dump' = has["old"])
        /\ pc[a] = "dump" /\ swap'[a] = swap[a]
    BY <1>0 DEF HostCall, TypeOK
  <2>2. (pc'[a] = "holdStop" /\ ans = "done") \/ pc'[a] = "undo" BY <1>0, GotoMoves DEF HostCall
  <2>3. /\ run.data = "from" /\ row.status = "UPGRADING" /\ row.container = "old" /\ target[a] = "old"
        /\ "old" \in fenced /\ load = "none" /\ "new" \notin there /\ has["old"] = 1..writes
    BY <1>0, <2>1
  <2>4. HostInv' BY <1>0, <2>1, <2>3
  <2>5. Knows(a)' BY <2>1, <2>2, <2>3
  <2> QED BY <1>0, <2>1, <2>4, <2>5, StillRunning
<1>4. CASE Stop(a)
  <2> PICK ans \in OwnAnswers(a) : Stop(a)!(ans) BY <1>4 DEF Stop
  <2>1. /\ UNCHANGED <<run, row, there, fenced, name, load, has, dump, target, writes>>
        /\ running' \in {running, running \ {"old"}} /\ pc[a] = "stop" /\ swap'[a] = swap[a]
    BY <1>0 DEF HostCall, TypeOK
  <2>2. pc'[a] \in {"holdRename", "undo"} BY <1>0, GotoMoves DEF HostCall
  <2>4. HostInv' BY <1>0, <2>1
  <2>5. Knows(a)' BY <1>0, <2>1, <2>2
  <2> QED BY <1>0, <2>1, <2>4, <2>5, StillRunning
<1>5. CASE Rename(a)
  <2> PICK ans \in OwnAnswers(a) : Rename(a)!(ans) BY <1>5 DEF Rename
  <2>1. /\ UNCHANGED <<run, row, there, running, fenced, load, has, dump, target, writes>>
        /\ name' \in {name, "pre"} /\ pc[a] = "rename" /\ (ans = "done" => name' = "pre" /\ "renamed" \in swap'[a])
        /\ (ans # "done" => swap'[a] = swap[a]) /\ swap'[a] \subseteq swap[a] \cup {"renamed"}
    BY <1>0 DEF HostCall, TypeOK
  <2>2. (pc'[a] = "create" /\ ans = "done") \/ pc'[a] = "undo" BY <1>0, GotoMoves DEF HostCall
  <2>4. HostInv' BY <1>0, <2>1
  <2>5. Knows(a)' BY <1>0, <2>1, <2>2
  <2> QED BY <1>0, <2>1, <2>4, <2>5, StillRunning
<1>6. CASE Create(a)
  <2> PICK ans \in OwnAnswers(a) : Create(a)!(ans) BY <1>6 DEF Create
  <2>1. /\ UNCHANGED <<run, row, running, fenced, name, load, has, dump, target, writes>>
        /\ there' \in {there, there \cup {"new"}} /\ pc[a] = "create" /\ (ans = "done" => "new" \in there')
        /\ swap[a] \subseteq swap'[a]
    BY <1>0 DEF HostCall, TypeOK
  <2>2. (pc'[a] = "start" /\ ans = "done") \/ pc'[a] = "undo" BY <1>0, GotoMoves DEF HostCall
  <2>4. HostInv' BY <1>0, <2>1
  <2>5. Knows(a)' BY <1>0, <2>1, <2>2
  <2> QED BY <1>0, <2>1, <2>4, <2>5, StillRunning
<1>7. CASE StartNew(a)
  <2> PICK ans \in OwnAnswers(a) : StartNew(a)!(ans) BY <1>7 DEF StartNew
  <2>1. /\ UNCHANGED <<run, row, there, name, has, dump, target, writes>>
        /\ \/ UNCHANGED <<running, fenced, load>> /\ ans = "refused"
           \/ running' = running \cup {"new"} /\ fenced' = fenced \cup {"new"} /\ load' = "loading"
        /\ pc[a] = "start" /\ swap'[a] = swap[a]
    BY <1>0 DEF HostCall, TypeOK
  <2>2. pc'[a] \in {"load", "undo"} BY <1>0, GotoMoves DEF HostCall
  <2>4. HostInv' BY <1>0, <2>1
  <2>5. Knows(a)' BY <1>0, <2>1, <2>2
  <2> QED BY <1>0, <2>1, <2>4, <2>5, StillRunning
<1>8. CASE WaitLoaded(a)
  <2> PICK ans \in OwnAnswers(a) : WaitLoaded(a)!(ans) BY <1>8 DEF WaitLoaded
  <2>1. UNCHANGED <<run, row, host, target, writes>> /\ pc[a] = "load" /\ swap'[a] = swap[a]
    BY <1>0 DEF HostCall, TypeOK
  <2>2. (pc'[a] = "holdRecord" /\ load = "loaded") \/ pc'[a] = "undo" BY <1>0, GotoMoves DEF HostCall, Loaded
  <2>4. HostInv' BY <1>0, <2>1 DEF host
  <2>5. Knows(a)' BY <1>0, <2>1, <2>2 DEF host
  <2> QED BY <1>0, <2>1, <2>4, <2>5, StillRunning
<1>9. CASE Record(a)
  <2> PICK ans \in Answers : Record(a)!(ans) BY <1>9 DEF Record
  <2>1. UNCHANGED <<run, host, swap, target, writes>> /\ pc[a] = "record" OBVIOUS
  <2>2. \/ ans = "refused" /\ row' = row /\ pc'[a] = "undo"
        \/ row' = [row EXCEPT !.container = "new"] /\ pc'[a] = "mark"
    BY <1>0, GotoMoves DEF Answers
  <2>3. /\ row'.version = row.version /\ row'.status = row.status
        /\ \/ row'.container = row.container /\ pc'[a] = "undo"
           \/ row'.container = "new" /\ pc'[a] = "mark"
    <3>1. row \in [status : {"ACTIVE", "UPGRADING", "FAILED"}, version : {"from", "to"}, container : Boxes]
      BY <1>0 DEF TypeOK
    <3> QED BY <2>2, <3>1
  <2>4. HostInv' BY <1>0, <2>1, <2>3 DEF host
  <2>5. Knows(a)' BY <1>0, <2>1, <2>3 DEF host
  <2> QED BY <1>0, <2>1, <2>4, <2>5, StillRunning
<1>10. CASE Mark(a)
  <2> PICK ans \in OwnAnswers(a) : Mark(a)!(ans) BY <1>10 DEF Mark
  <2>1. UNCHANGED <<host, swap, target, writes>> /\ pc[a] = "mark" OBVIOUS
  <2>2. \E o \in {"COMPLETED", "UNSETTLED"} : Concludes(a, o) OBVIOUS
  <2>3. pc'[a] = "conclude" /\ outcome'[a] # "ROLLED_BACK" BY <1>0, <2>2, ReportsMoves DEF Concludes
  <2>4. \/ UNCHANGED <<run, row>>
        \/ run' = [run EXCEPT !.data = "to", !.beat = "fresh"] /\ row' = [row EXCEPT !.version = "to"]
    OBVIOUS
  <2>5. /\ run'.status = run.status /\ row'.container = row.container
        /\ \/ run'.data = run.data /\ row' = row
           \/ run'.data = "to" /\ row'.version = "to"
    <3>1. row \in [status : {"ACTIVE", "UPGRADING", "FAILED"}, version : {"from", "to"}, container : Boxes]
      BY <1>0 DEF TypeOK
    <3>2. run \in [status : Ends \cup {"NONE", "RUNNING"}, owner : Actors \cup {Nobody},
                   beat : {"fresh", "stale"}, data : {"from", "to"}]
      BY <1>0 DEF TypeOK
    <3> QED BY <2>4, <3>1, <3>2
  <2>6. HostInv' BY <1>0, <2>1, <2>5 DEF host
  <2>7. Knows(a)' BY <2>3
  <2> QED BY <2>5, <2>6, <2>7, StillRunning
<1>11. ASSUME NEW here, NEW next \in {"stop", "rename", "record"}, Hold(a, here, next),
              <<here, next>> \in {<<"holdStop", "stop">>, <<"holdRename", "rename">>, <<"holdRecord", "record">>}
       PROVE  HostInv' /\ EndInv' /\ Knows(a)'
  <2> PICK ans \in Answers : Hold(a, here, next)!(ans) BY <1>11 DEF Hold
  <2>1. Goto(a, "undo") \/ Goto(a, next) OBVIOUS
  <2>2. pc[a] = here /\ pc'[a] \in {"undo", next} BY <1>0, <2>1, GotoMoves
  <2>3. run' = run \/ run' = [run EXCEPT !.beat = "fresh"] OBVIOUS
  <2>4. run'.status = run.status /\ run'.data = run.data BY <1>0, <2>3 DEF TypeOK
  <2>5. UNCHANGED <<row, host, know, writes>> OBVIOUS
  <2>6. HostInv' BY <1>0, <2>4, <2>5 DEF host
  <2>7. Knows(a)' BY <1>0, <1>11, <2>2, <2>4, <2>5 DEF host, know
  <2> QED BY <2>4, <2>6, <2>7, StillRunning
<1> QED BY <1>1, <1>2, <1>3, <1>4, <1>5, <1>6, <1>7, <1>8, <1>9, <1>10, <1>11 DEF Convert

LEMMA PutBackSure == ASSUME UInv, NEW a \in Actors, PutBack(a) PROVE Sure(a)'
<1>1. \/ pc'[a] \in {"gone", "remove", "renameBack", "recordBack", "serve", "unfence"}
      \/ pc'[a] = "conclude" /\ outcome'[a] \in {"ROLLED_BACK", "FAILED"}
  <2>1. CASE Undo(a) \/ GiveUp(a)
    BY <2>1, GotoMoves, LeaveMoves DEF Undo, GiveUp, UInv
  <2>2. CASE RemoveNew(a) \/ RenameBack(a) \/ RecordBack(a)
    BY <2>2, GotoMoves DEF RemoveNew, RenameBack, RecordBack, PutBackStep, UInv
  <2>3. CASE ServeOld(a)
    <3>1. Goto(a, "unfence") \/ Reports(a, "FAILED", "conclude") BY <2>3 DEF ServeOld, Concludes
    <3> QED BY <3>1, GotoMoves, ReportsMoves DEF UInv
  <2>4. CASE Unfence(a)
    <3>1. \E o \in {"ROLLED_BACK", "FAILED"} : Reports(a, o, "conclude") BY <2>4 DEF Unfence, Concludes
    <3> QED BY <3>1, ReportsMoves DEF UInv
  <2> QED BY <2>1, <2>2, <2>3, <2>4 DEF PutBack
<1> QED BY <1>1 DEF Sure

LEMMA PutBackKnows ==
  ASSUME UInv, NEW a \in Actors, Owns(a), Live(a), PutBack(a)
  PROVE  HostInv' /\ EndInv' /\ Knows(a)'
<1>0. TypeOK /\ HostInv /\ Knows(a) /\ run.status = "RUNNING" BY DEF UInv, Owns
<1> USE DEF Knows, HostInv, OnFrom, OnTo, Complete, Sealed
<1>1. CASE Undo(a)
  <2> PICK ans \in Answers : Undo(a)!(ans) BY <1>1 DEF Undo
  <2>1. Leave(a) \/ Goto(a, "remove") OBVIOUS
  <2>2. pc[a] = "undo" /\ pc'[a] \in {"gone", "remove"} BY <1>0, <2>1, GotoMoves, LeaveMoves
  <2>3. run' = run \/ run' = [run EXCEPT !.beat = "fresh"] OBVIOUS
  <2>4. run'.status = run.status /\ run'.data = run.data BY <1>0, <2>3 DEF TypeOK
  <2>5. UNCHANGED <<row, host, know, writes>> OBVIOUS
  <2>6. HostInv' BY <1>0, <2>4, <2>5 DEF host
  <2>7. Knows(a)' BY <1>0, <2>2, <2>4, <2>5 DEF host, know
  <2> QED BY <2>4, <2>6, <2>7, StillRunning
<1>2. CASE GiveUp(a)
  <2>1. pc'[a] = "gone" /\ UNCHANGED <<run, row, host, know, writes>> BY <1>0, <1>2, LeaveMoves DEF GiveUp
  <2> QED BY <1>0, <2>1, StillRunning DEF host
<1>3. CASE RemoveNew(a)
  <2> PICK ans \in Answers : RemoveNew(a)!(ans) BY <1>3 DEF RemoveNew
  <2>1. /\ UNCHANGED <<run, row, fenced, name, load, has, dump, target, writes>> /\ pc[a] = "remove"
        /\ \/ UNCHANGED <<there, running>>
           \/ there' = there \ {"new"} /\ running' = running \ {"new"}
        /\ swap[a] \subseteq swap'[a] /\ swap'[a] \subseteq swap[a] \cup {"bad"}
    BY <1>0 DEF PutBackStep, TypeOK
  <2>2. pc'[a] = "renameBack" BY <1>0, GotoMoves DEF PutBackStep
  <2>3. HostInv' BY <1>0, <2>1
  <2>4. Knows(a)' BY <1>0, <2>1, <2>2
  <2> QED BY <1>0, <2>1, <2>3, <2>4, StillRunning
<1>4. CASE RenameBack(a)
  <2> PICK ans \in Answers : RenameBack(a)!(ans) BY <1>4 DEF RenameBack
  <2>1. /\ UNCHANGED <<run, row, there, running, fenced, load, has, dump, target, writes>> /\ pc[a] = "renameBack"
        /\ name' \in {name, "project"} /\ ("new" \in there => name' = name)
        /\ swap[a] \subseteq swap'[a] /\ swap'[a] \subseteq swap[a] \cup {"bad"}
        /\ "renamed" \in swap[a] /\ "new" \in there => "bad" \in swap'[a]
    BY <1>0 DEF PutBackStep, TypeOK
  <2>2. pc'[a] = "recordBack" BY <1>0, GotoMoves DEF PutBackStep
  <2>3. HostInv' BY <1>0, <2>1
  <2>4. Knows(a)' BY <1>0, <2>1, <2>2
  <2> QED BY <1>0, <2>1, <2>3, <2>4, StillRunning
<1>5. CASE RecordBack(a)
  <2> PICK ans \in Answers : RecordBack(a)!(ans) BY <1>5 DEF RecordBack
  <2>1. /\ UNCHANGED <<run, host, target, writes>> /\ pc[a] = "recordBack"
        /\ swap[a] \subseteq swap'[a] /\ swap'[a] \subseteq swap[a] \cup {"bad"}
        /\ "recorded" \in swap[a] /\ ans # "done" => "bad" \in swap'[a]
    BY <1>0 DEF PutBackStep, TypeOK
  <2>2. pc'[a] = "serve" BY <1>0, GotoMoves DEF PutBackStep
  <2>3. /\ row'.version = row.version /\ row'.status = row.status
        /\ \/ row'.container = row.container /\ ("recorded" \in swap[a] => "bad" \in swap'[a])
           \/ row'.container = "old"
    <3>1. row \in [status : {"ACTIVE", "UPGRADING", "FAILED"}, version : {"from", "to"}, container : Boxes]
      BY <1>0 DEF TypeOK
    <3>2. "recorded" \in swap[a] => target[a] = "old" BY <1>0, <2>1
    <3> QED BY <2>1, <3>1, <3>2
  <2>4. HostInv' BY <1>0, <2>1, <2>3 DEF host
  <2>5. Knows(a)' BY <1>0, <2>1, <2>2, <2>3 DEF host
  <2> QED BY <1>0, <2>1, <2>4, <2>5, StillRunning
<1>6. CASE ServeOld(a)
  <2> PICK ans \in Answers : ServeOld(a)!(ans) BY <1>6 DEF ServeOld
  <2> DEFINE can == "bad" \notin swap[a] /\ CanRun(target[a])
  <2>1. /\ UNCHANGED <<run, row, there, fenced, name, load, has, dump, swap, target, writes>> /\ pc[a] = "serve"
        /\ running' = IF can /\ ans # "refused" THEN running \cup {target[a]} ELSE running
    OBVIOUS
  <2>2. can => target[a] = "old" /\ "old" \in there /\ row.container = "old" /\ "new" \notin there
    BY <1>0, <2>1 DEF CanRun, TypeOK
  <2>3. \/ can /\ ans = "done" /\ pc'[a] = "unfence"
        \/ pc'[a] = "conclude" /\ outcome'[a] = "FAILED"
    <3>1. (can /\ ans = "done" /\ Goto(a, "unfence")) \/ Reports(a, "FAILED", "conclude") BY DEF Concludes
    <3> QED BY <1>0, <3>1, GotoMoves, ReportsMoves
  <2>4. HostInv' BY <1>0, <2>1, <2>2
  <2>5. Knows(a)' BY <1>0, <2>1, <2>2, <2>3
  <2> QED BY <1>0, <2>1, <2>4, <2>5, StillRunning
<1>7. CASE Unfence(a)
  <2> PICK ans \in Answers : Unfence(a)!(ans) BY <1>7 DEF Unfence
  <2>1. /\ UNCHANGED <<run, row, there, running, name, load, has, dump, swap, target, writes>> /\ pc[a] = "unfence"
        /\ fenced' = IF ans = "refused" THEN fenced ELSE fenced \ {"old"}
    BY <1>0
  <2>2. pc'[a] = "conclude" /\ (outcome'[a] = "ROLLED_BACK" => ans = "done")
    <3>1. Reports(a, IF ans = "done" THEN "ROLLED_BACK" ELSE "FAILED", "conclude") BY DEF Concludes
    <3> QED BY <1>0, <3>1, ReportsMoves
  <2>3. HostInv' BY <1>0, <2>1
  <2>4. Knows(a)' BY <1>0, <2>1, <2>2 DEF Back, Reachable
  <2> QED BY <1>0, <2>1, <2>3, <2>4, StillRunning
<1> QED BY <1>1, <1>2, <1>3, <1>4, <1>5, <1>6, <1>7 DEF PutBack

LEMMA FinishKnows ==
  ASSUME UInv, NEW a \in Actors, Finish(a)
  PROVE  Sure(a)' /\ (Owns(a) => HostInv' /\ EndInv' /\ Knows(a)')
<1>0. TypeOK /\ HostInv /\ Sure(a) BY DEF UInv
<1> USE DEF Knows, Sure, HostInv, OnFrom, OnTo, Complete, Sealed
<1>1. CASE WaitServing(a)
  <2> PICK ans \in OwnAnswers(a) : WaitServing(a)!(ans) BY <1>1 DEF WaitServing
  <2>1. UNCHANGED <<run, row, there, name, load, has, dump, cont, outcome, writes>> /\ pc[a] = "serving" BY DEF know
  <2>2. \/ UNCHANGED <<running, fenced>>
        \/ "new" \in there /\ running' = running \cup {"new"} /\ fenced' = fenced \ {"new"}
    BY <1>0 DEF CanRun
  <2>3. pc'[a] = "finishing" BY <1>0, GotoMoves
  <2>4. Sure(a)' /\ Knows(a)' BY <1>0, <2>1, <2>3
  <2>5. HostInv' BY <1>0, <2>1, <2>2
  <2> QED BY <2>1, <2>4, <2>5, StillRunning
<1>2. CASE Cleanup(a)
  <2> PICK ans \in OwnAnswers(a) : Cleanup(a)!(ans) BY <1>2 DEF Cleanup
  <2>1. UNCHANGED <<run, row, fenced, name, load, has, dump, cont, writes>> /\ pc[a] = "cleanup" OBVIOUS
  <2>2. \/ UNCHANGED <<there, running>>
        \/ there' = there \ {"old"} /\ running' = running \ {"old"}
    OBVIOUS
  <2>3. pc'[a] = "end" /\ outcome'[a] = "COMPLETED" BY <1>0, GotoMoves DEF TypeOK
  <2>4. Sure(a)' /\ Knows(a)' BY <1>0, <2>1, <2>3
  <2>5. HostInv' BY <1>0, <2>1, <2>2
  <2> QED BY <2>1, <2>4, <2>5, StillRunning
<1>3. ASSUME NEW here \in {"finish", "finishing"}, NEW next \in {"serving", "cleanup"}, Progress(a, here, next)
      PROVE  Sure(a)' /\ (Owns(a) => HostInv' /\ EndInv' /\ Knows(a)')
  <2> PICK ans \in OwnAnswers(a) : Progress(a, here, next)!(ans) BY <1>3 DEF Progress
  <2>1. UNCHANGED <<run, host, cont, writes>> /\ pc[a] \in {"finish", "finishing"} BY DEF know
  <2>2. pc'[a] \in {"gone", "serving", "cleanup"}
    <3>1. Leave(a) \/ Goto(a, next) OBVIOUS
    <3> QED BY <1>0, <3>1, GotoMoves, LeaveMoves
  <2>3. row' = row \/ row' = [row EXCEPT !.status = "UPGRADING"] OBVIOUS
  <2>4. row'.container = row.container /\ row'.version = row.version BY <1>0, <2>3 DEF TypeOK
  <2>5. Sure(a)' /\ Knows(a)' BY <1>0, <2>1, <2>2
  <2>6. HostInv' BY <1>0, <2>1, <2>4 DEF host
  <2> QED BY <2>1, <2>5, <2>6, StillRunning
<1> QED BY <1>1, <1>2, <1>3 DEF Finish

\* The steps before the conversion, of the recovery and at the end.
LEMMA RestKnows ==
  ASSUME UInv, NEW a \in Actors, Live(a),
         SetUpgrading(a) \/ TakeBackup(a) \/ NoteBackup(a) \/ Recover(a) \/ Check(a) \/ Conclude(a)
  PROVE  Sure(a)' /\ (Owns(a) => HostInv' /\ EndInv' /\ Knows(a)')
<1>0. TypeOK /\ HostInv /\ Sure(a) /\ (Owns(a) => Knows(a)) BY DEF UInv
<1> USE DEF Knows, Sure, HostInv, OnFrom, OnTo, Complete, Sealed
<1>1. CASE SetUpgrading(a)
  <2> PICK ans \in Answers : SetUpgrading(a)!(ans) BY <1>1 DEF SetUpgrading
  <2>1. UNCHANGED <<run, host, swap, target, writes>> /\ pc[a] = "starting" OBVIOUS
  <2>2. pc'[a] = "backup" \/ (pc'[a] = "abort" /\ outcome'[a] = "ROLLED_BACK")
    <3>1. Goto(a, "backup") \/ Reports(a, "ROLLED_BACK", "abort") OBVIOUS
    <3> QED BY <1>0, <3>1, GotoMoves, ReportsMoves
  <2>3. row' = row \/ row' = [row EXCEPT !.status = "UPGRADING"] OBVIOUS
  <2>4. /\ row'.container = row.container /\ row'.version = row.version
        /\ row'.status = row.status \/ row'.status = "UPGRADING"
    BY <1>0, <2>3 DEF TypeOK
  <2>5. Sure(a)' BY <2>2
  <2>6. HostInv' BY <1>0, <2>1, <2>4 DEF host
  <2>7. Owns(a) => Knows(a)' BY <1>0, <2>1, <2>2, <2>4 DEF host, Untouched
  <2> QED BY <2>1, <2>5, <2>6, <2>7, StillRunning
<1>2. CASE TakeBackup(a)
  <2> PICK ans \in OwnAnswers(a) : TakeBackup(a)!(ans) BY <1>2 DEF TakeBackup
  <2>1. UNCHANGED <<run, row, host, swap, target, writes>> /\ pc[a] = "backup" OBVIOUS
  <2>2. pc'[a] = "noted" \/ (pc'[a] = "end" /\ outcome'[a] = "ROLLED_BACK")
    <3>1. Goto(a, "noted") \/ Reports(a, "ROLLED_BACK", "end") OBVIOUS
    <3> QED BY <1>0, <3>1, GotoMoves, ReportsMoves
  <2>3. Sure(a)' BY <2>2
  <2>4. HostInv' BY <1>0, <2>1 DEF host
  <2>5. Owns(a) => Knows(a)' BY <1>0, <2>1, <2>2 DEF host, Untouched, Back, Reachable
  <2> QED BY <2>1, <2>3, <2>4, <2>5, StillRunning
<1>3. CASE NoteBackup(a)
  <2> PICK ans \in OwnAnswers(a) : NoteBackup(a)!(ans) BY <1>3 DEF NoteBackup
  <2>1. UNCHANGED <<run, row, host, know, writes>> /\ pc[a] = "noted" OBVIOUS
  <2>2. pc'[a] \in {"convert", "gone"}
    <3>1. Goto(a, "convert") \/ Leave(a) OBVIOUS
    <3> QED BY <1>0, <3>1, GotoMoves, LeaveMoves
  <2>3. Sure(a)' BY <2>2
  <2>4. HostInv' BY <1>0, <2>1 DEF host
  <2>5. Owns(a) => Knows(a)' BY <1>0, <2>1, <2>2 DEF host, know, Untouched
  <2> QED BY <2>1, <2>3, <2>4, <2>5, StillRunning
<1>4. CASE Recover(a)
  <2> PICK ans \in OwnAnswers(a) : Recover(a)!(ans) BY <1>4 DEF Recover
  <2> DEFINE pre  == "old" \in there /\ name = "pre"
             made == pre /\ "new" \in there
  <2>1. UNCHANGED <<run, row, host, cont, writes>> /\ pc[a] = "recover" OBVIOUS
  <2>2. \/ /\ pc'[a] = IF made /\ cont[a] = "new" THEN "check" ELSE "undo"
           /\ target'[a] = IF pre THEN "old" ELSE cont[a]
           /\ swap'[a] = (IF pre THEN {"renamed"} ELSE {}) \cup (IF made THEN {"made"} ELSE {})
                         \cup (IF pre /\ cont[a] # "old" THEN {"recorded"} ELSE {})
        \/ pc'[a] = "conclude" /\ outcome'[a] = "FAILED"
    <3>1. CASE ans = "done"
      <4>1. Goto(a, IF made /\ cont[a] = "new" THEN "check" ELSE "undo") BY <3>1
      <4>2. pc'[a] = IF made /\ cont[a] = "new" THEN "check" ELSE "undo" BY <1>0, <4>1, GotoMoves
      <4> QED BY <1>0, <3>1, <4>2 DEF TypeOK
    <3>2. CASE ans # "done"
      BY <1>0, <3>2, ReportsMoves DEF Concludes
    <3> QED BY <3>1, <3>2
  <2>3. Sure(a)' BY <2>1, <2>2
  <2>4. HostInv' BY <1>0, <2>1 DEF host
  <2>5. ASSUME Owns(a) PROVE Knows(a)'
    <3>1. /\ run.data = "from" /\ cont[a] = row.container /\ (pre <=> name = "pre")
          /\ "new" \in there => pre
          /\ cont[a] \in {"old", "new"}
      BY <1>0, <2>1, <2>5 DEF TypeOK
    <3>2. CASE pc'[a] = "conclude" /\ outcome'[a] = "FAILED"
      BY <3>2
    <3>3. CASE ~(pc'[a] = "conclude" /\ outcome'[a] = "FAILED")
      <4>1. /\ pc'[a] \in {"check", "undo"} /\ (pc'[a] = "check" => "new" \in there /\ row.container = "new")
            /\ target'[a] = "new" => "new" \notin there
            /\ "recorded" \in swap'[a] => target'[a] = "old"
            /\ "new" \in there => "renamed" \in swap'[a]
            /\ row.container = "new" => "recorded" \in swap'[a] \/ target'[a] = "new"
        BY <2>2, <3>1, <3>3
      <4> HIDE DEF pre, made
      <4> QED BY <2>1, <3>1, <4>1 DEF host
    <3> QED BY <3>2, <3>3
  <2> QED BY <2>1, <2>3, <2>4, <2>5, StillRunning
<1>5. CASE Check(a)
  <2> PICK ans \in OwnAnswers(a) : Check(a)!(ans) BY <1>5 DEF Check
  <2>1. /\ UNCHANGED <<run, row, there, fenced, name, load, has, dump, cont, target, writes>>
        /\ pc[a] = "check" /\ swap'[a] = swap[a]
        /\ running' = running \/ ("new" \in there /\ running' = running \cup {"new"})
    BY <1>0 DEF HostCall, TypeOK, CanRun
  <2>2. pc'[a] \in {"mark", "undo"} BY <1>0, GotoMoves DEF HostCall
  <2>3. Sure(a)' BY <1>0, <2>1, <2>2
  <2>4. Owns(a) => HostInv' BY <1>0, <2>1
  <2>5. Owns(a) => Knows(a)' BY <1>0, <2>1, <2>2
  <2> QED BY <2>1, <2>3, <2>4, <2>5, StillRunning
<1>6. CASE Conclude(a)
  <2> PICK ans \in OwnAnswers(a) : Conclude(a)!(ans) BY <1>6 DEF Conclude
  <2>1. UNCHANGED <<run, row, host, know, writes>> /\ pc[a] = "conclude" OBVIOUS
  <2>2. \/ pc'[a] = "finish" /\ outcome[a] = "COMPLETED"
        \/ pc'[a] \in {"end", "gone"}
    <3>1. (Goto(a, "finish") /\ outcome[a] = "COMPLETED") \/ Goto(a, "end") \/ Leave(a) OBVIOUS
    <3> QED BY <1>0, <3>1, GotoMoves, LeaveMoves
  <2>3. Sure(a)' BY <1>0, <2>1, <2>2 DEF know
  <2>4. HostInv' BY <1>0, <2>1 DEF host
  <2>5. Owns(a) => Knows(a)' BY <1>0, <2>1, <2>2 DEF host, know, Back, Reachable
  <2> QED BY <2>1, <2>3, <2>4, <2>5, StillRunning
<1> QED BY <1>1, <1>2, <1>3, <1>4, <1>5, <1>6

\* The outcome that lands is the one the host shows.
LEMMA EndKnows ==
  ASSUME UInv, NEW a \in Actors, Live(a), End(a)
  PROVE  Sure(a)' /\ (Owns(a) => HostInv' /\ EndInv' /\ Knows(a)')
<1>0. /\ TypeOK /\ HostInv /\ Sure(a) /\ (Owns(a) => Knows(a))
      /\ pc[a] \in {"end", "abort"} /\ outcome[a] # "NONE"
  BY DEF UInv, Ownership, End
<1> PICK ans \in (IF pc[a] = "abort" THEN Answers ELSE OwnAnswers(a)) : End(a)!(ans) BY DEF End
<1> DEFINE lands == /\ ans # "refused" /\ Owns(a)
                    /\ run.data = "to" => outcome[a] = "COMPLETED" \/ Open(outcome[a])
<1>1. pc'[a] = "gone" /\ UNCHANGED <<host, know, writes>> BY <1>0, LeaveMoves
<1>2. Sure(a)' /\ Knows(a)' BY <1>1 DEF Sure, Knows
<1>3. /\ run' = IF lands /\ ~Open(outcome[a]) THEN [run EXCEPT !.status = outcome[a]] ELSE run
      /\ \/ row' = row
         \/ Open(outcome[a]) /\ row' = [row EXCEPT !.status = "UPGRADING"]
         \/ outcome[a] = "FAILED" /\ row' = [row EXCEPT !.status = "FAILED"]
         \/ outcome[a] = "FAILED" /\ Reachable # {} /\ row' = [row EXCEPT !.status = "ACTIVE"]
         \/ ~Open(outcome[a]) /\ outcome[a] # "FAILED" /\ lands /\ row' = [row EXCEPT !.status = "ACTIVE"]
  OBVIOUS
<1> HIDE DEF lands
<1>4. /\ run'.data = run.data
      /\ run'.status = run.status \/ (lands /\ outcome[a] # "UNSETTLED" /\ run'.status = outcome[a])
  BY <1>0, <1>3 DEF TypeOK, Open
<1>5. /\ row'.container = row.container /\ row'.version = row.version
      /\ \/ row'.status = row.status \/ row'.status # "ACTIVE"
         \/ outcome[a] = "FAILED" /\ Reachable # {}
         \/ outcome[a] \notin {"UNSETTLED", "FAILED"} /\ lands
  BY <1>0, <1>3 DEF TypeOK, Open
<1>6. ASSUME Owns(a), outcome[a] = "ROLLED_BACK", run.data = "from" PROVE Back
  <2>1. Knows(a) BY <1>0, <1>6
  <2>2. CASE pc[a] = "end" BY <2>1, <2>2, <1>6 DEF Knows
  <2>3. CASE pc[a] = "abort" BY <2>1, <2>3 DEF Knows, Untouched, Back, Reachable
  <2> QED BY <1>0, <2>2, <2>3
<1>7. outcome[a] = "COMPLETED" => run.data = "to"
  BY <1>0 DEF Sure
<1>8. outcome[a] \in {"COMPLETED", "ROLLED_BACK", "FAILED", "UNSETTLED"}
  BY <1>0 DEF TypeOK
<1>9. ASSUME Owns(a) PROVE HostInv'
  <2>1. ASSUME run.data = "from", row.container = "new" PROVE row'.status # "ACTIVE"
    <3>1. row.status # "ACTIVE" BY <1>0, <2>1 DEF HostInv, OnFrom
    <3>2. Reachable = {} BY <1>0, <2>1 DEF HostInv, OnFrom, Reachable, TypeOK
    <3>3. outcome[a] # "ROLLED_BACK" BY <1>6, <1>9, <2>1 DEF Back
    <3> QED BY <1>5, <1>7, <1>8, <2>1, <3>1, <3>2, <3>3
  <2>2. UNCHANGED <<there, running, fenced, name, load, has, dump, writes>> BY <1>1 DEF host
  <2> QED BY <1>0, <1>4, <1>5, <2>1, <2>2 DEF HostInv, OnFrom, OnTo, Complete, Sealed
<1>10. ASSUME Owns(a) PROVE EndInv'
  <2>1. Back => Back' BY <1>1, <1>4, <1>5 DEF Back, Reachable, host
  <2>2. CASE run'.status = run.status BY <1>10, <2>2, StillRunning
  <2>3. CASE lands /\ run'.status = outcome[a]
    <3>1. outcome[a] = "ROLLED_BACK" => run.data = "from"
      BY <1>0, <2>3 DEF lands, Open, TypeOK
    <3> QED BY <1>0, <1>4, <1>6, <1>7, <1>10, <2>1, <2>3, <3>1 DEF EndInv
  <2> QED BY <1>4, <2>2, <2>3
<1> QED BY <1>2, <1>9, <1>10

LEMMA DriveKeeps ==
  ASSUME UInv, RecordAnswered, NEW a \in Actors, Drive(a)
  PROVE  UInv'
<1>1. Live(a) BY DriveMoves DEF Moves, UInv
<1>2. Sure(a)' /\ (Owns(a) => HostInv' /\ EndInv' /\ Knows(a)')
  BY <1>1, ConvertSure, ConvertKnows, PutBackSure, PutBackKnows, FinishKnows, RestKnows, EndKnows DEF Drive
<1> QED BY <1>2, Others

\* A run begins on a project that nothing has touched.
LEMMA StartKeeps == ASSUME UInv, NEW a \in Actors, Start(a) PROVE UInv'
<1> PICK ans \in Answers : Start(a)!(ans) BY DEF Start
<1>0. TypeOK' /\ Ownership'
  <2>1. Next BY DEF Next
  <2> QED BY <2>1, TypeStep, OwnershipStep DEF UInv
<1>1. Untouched BY DEF UInv, EndInv
<1>2. UNCHANGED <<row, host, know, writes>> OBVIOUS
<1>3. run'.data = "from" /\ (run' = run \/ run'.status = "RUNNING") BY <1>1 DEF Untouched
<1>4. Untouched' BY <1>1, <1>2, <1>3 DEF Untouched, host
<1>5. HostInv' BY <1>1, <1>2, <1>3 DEF UInv, HostInv, OnFrom, Untouched, Complete, Sealed, host
<1>6. EndInv' BY <1>3, <1>4 DEF EndInv, UInv
<1>7. /\ pc'[a] \in {"starting", "gone"} /\ swap[a] = {} /\ target[a] = "old"
      /\ \A b \in Actors \ {a} : pc'[b] = pc[b]
  BY DEF Fresh, UInv, Sure, TypeOK
<1>8. ASSUME NEW b \in Actors PROVE Sure(b)' /\ (Owns(b)' /\ Live(b)' => Knows(b)')
  <2>1. CASE b = a
    BY <1>2, <1>4, <1>7, <2>1 DEF Sure, Knows, Live, know
  <2>2. CASE b # a
    <3>1. ~Live(b) /\ pc'[b] = pc[b] BY <1>7, <2>2 DEF UInv, Ownership
    <3>2. Sure(b) BY DEF UInv
    <3> QED BY <1>2, <3>1, <3>2 DEF Sure, Live, know
  <2> QED BY <2>1, <2>2
<1> QED BY <1>0, <1>5, <1>6, <1>8 DEF UInv

\* A claim takes over what the row and the host say, whatever the owner
\* before was doing.
LEMMA ClaimKeeps == ASSUME UInv, NEW a \in Actors, Claim(a) PROVE UInv'
<1> PICK ans \in Answers : Claim(a)!(ans) BY DEF Claim
<1>0. TypeOK' /\ Ownership' /\ TypeOK
  <2>1. Next BY DEF Next
  <2> QED BY <2>1, TypeStep, OwnershipStep DEF UInv
<1>1. UNCHANGED <<row, host, swap, target, outcome, writes>> OBVIOUS
<1>2. run' = run \/ run' = [run EXCEPT !.owner = a, !.beat = "fresh"] OBVIOUS
<1>3. /\ run'.data = run.data /\ run'.status = run.status
      /\ run'.owner = run.owner \/ run'.owner = a
  BY <1>0, <1>2 DEF TypeOK
<1>4. HostInv' /\ EndInv'
  BY <1>1, <1>3 DEF UInv, HostInv, EndInv, OnFrom, OnTo, Complete, Sealed, Untouched, Back, Reachable, host
<1>5. /\ \/ pc'[a] = "gone"
         \/ pc'[a] = "finish" /\ run.data = "to"
         \/ pc'[a] = "recover" /\ run.data = "from"
      /\ cont'[a] = row.container
      /\ \A b \in Actors \ {a} : pc'[b] = pc[b] /\ cont'[b] = cont[b]
  BY <1>0 DEF TypeOK
<1>6. run.data = "to" => row.container = "new" BY DEF UInv, HostInv, OnTo
<1>7. Sure(a)' /\ Knows(a)' BY <1>1, <1>3, <1>5, <1>6 DEF Sure, Knows
<1>8. ASSUME NEW b \in Actors, b # a PROVE Sure(b)' /\ (Owns(b)' /\ Live(b)' => Knows(b)')
  <2>1. Sure(b)' BY <1>1, <1>3, <1>5, <1>8 DEF UInv, Sure
  <2>2. ASSUME Owns(b)', Live(b)' PROVE Knows(b)'
    <3>1. Owns(b) /\ Live(b) BY <1>3, <1>5, <1>8, <2>2 DEF Owns, Live
    <3>2. Knows(b) BY <3>1 DEF UInv
    <3> QED BY <1>1, <1>3, <1>5, <1>8, <3>2 DEF Knows, Untouched, Sealed, Back, Reachable, host
  <2> QED BY <2>1, <2>2
<1> QED BY <1>0, <1>4, <1>7, <1>8 DEF UInv

\* Deaths, outages and stale heartbeats change nothing on the host.
LEMMA LossKeeps ==
  ASSUME UInv, GoStale \/ \E a \in Actors : Die(a) \/ Outage(a)
  PROVE  UInv'
<1>0. TypeOK' /\ Ownership' /\ TypeOK
  <2>1. Next BY DEF Next
  <2> QED BY <2>1, TypeStep, OwnershipStep DEF UInv
<1>1. /\ UNCHANGED <<row, host, know, writes>>
      /\ run' = run \/ run' = [run EXCEPT !.beat = "stale"]
      /\ \A b \in Actors : pc'[b] \in {pc[b], "gone"}
  BY <1>0 DEF GoStale, Die, Outage, Leave, TypeOK
<1>2. run'.data = run.data /\ run'.status = run.status /\ run'.owner = run.owner
  BY <1>0, <1>1 DEF TypeOK
<1>3. HostInv' /\ EndInv'
  BY <1>1, <1>2 DEF UInv, HostInv, EndInv, OnFrom, OnTo, Complete, Sealed, Untouched, Back, Reachable, host
<1>4. ASSUME NEW b \in Actors PROVE Sure(b)' /\ (Owns(b)' /\ Live(b)' => Knows(b)')
  <2>0. pc'[b] = pc[b] \/ pc'[b] = "gone" BY <1>1
  <2>1. Sure(b)' BY <1>1, <1>2, <2>0 DEF UInv, Sure, know
  <2>2. ASSUME Owns(b)', Live(b)' PROVE Knows(b)'
    <3>1. Owns(b) /\ Live(b) /\ pc'[b] = pc[b] BY <1>2, <2>0, <2>2 DEF Owns, Live
    <3>2. Knows(b) BY <3>1 DEF UInv
    <3> QED BY <1>1, <1>2, <3>1, <3>2 DEF Knows, Untouched, Sealed, Back, Reachable, host, know
  <2> QED BY <2>1, <2>2
<1> QED BY <1>0, <1>3, <1>4 DEF UInv

\* What ends loading is a dump of everything.
LEMMA LoadKeeps == ASSUME UInv, LoadEnds PROVE UInv'
<1>0. TypeOK' /\ Ownership' /\ TypeOK
  <2>1. Next BY DEF Next
  <2> QED BY <2>1, TypeStep, OwnershipStep DEF UInv
<1>1. /\ UNCHANGED <<run, row, there, running, fenced, name, dump, pc, know, writes>>
      /\ "new" \in there /\ load = "loading"
      /\ \/ load' = "loaded" /\ has' = [has EXCEPT !["new"] = dump]
         \/ load' = "failed" /\ has' = has
  BY DEF LoadEnds
<1>2. has'["old"] = has["old"] /\ (load' = "loaded" => has'["new"] = dump)
  BY <1>0, <1>1 DEF TypeOK
<1>3. row.container = "old" /\ run.data = "from" BY <1>0, <1>1 DEF UInv, HostInv, OnTo, TypeOK
<1>4. HostInv' BY <1>0, <1>1, <1>2, <1>3 DEF UInv, HostInv, OnFrom, OnTo, Complete, Sealed
<1>5. EndInv' BY <1>1 DEF UInv, EndInv, Untouched, Back, Reachable
<1>6. ASSUME NEW b \in Actors PROVE Sure(b)' /\ (Owns(b)' /\ Live(b)' => Knows(b)')
  <2>1. Sure(b)' BY <1>1 DEF UInv, Sure, know
  <2>2. ASSUME Owns(b)', Live(b)' PROVE Knows(b)'
    <3>1. Owns(b) /\ Live(b) BY <1>1, <2>2 DEF Owns, Live
    <3>2. Knows(b) BY <3>1 DEF UInv
    <3> QED BY <1>1, <3>2 DEF Knows, Untouched, Sealed, Back, Reachable, know
  <2> QED BY <2>1, <2>2
<1> QED BY <1>0, <1>4, <1>5, <1>6 DEF UInv

\* A client writes only where everything is, and never behind a dump.
LEMMA WriteKeeps == ASSUME UInv, NEW c \in Boxes, Write(c) PROVE UInv'
<1>0. TypeOK' /\ Ownership' /\ TypeOK
  <2>1. Next BY DEF Next
  <2> QED BY <2>1, TypeStep, OwnershipStep DEF UInv
<1>1. /\ UNCHANGED <<run, row, there, running, fenced, name, load, dump, pc, know>>
      /\ writes' = writes + 1 /\ has' = [has EXCEPT ![c] = @ \cup {writes + 1}]
      /\ c \in Reachable
  BY DEF Write
<1>2. has[c] = 1..writes => has'[c] = 1..writes'
  <2>1. writes \in Nat BY <1>0, BoundAssumption DEF TypeOK
  <2>2. has'[c] = has[c] \cup {writes + 1} BY <1>0, <1>1 DEF TypeOK
  <2>3. (1..writes) \cup {writes + 1} = 1..(writes + 1) BY <2>1
  <2> QED BY <1>1, <2>2, <2>3
<1>3. run.data = "from" => c = "old" /\ "new" \notin there
  BY <1>1 DEF UInv, HostInv, OnFrom, Sealed, Reachable
<1>4. run.data = "to" => c = "new"
  BY <1>1 DEF UInv, HostInv, OnTo, Reachable
<1>5. "old" \in fenced => c = "new" BY <1>1 DEF Reachable
<1>6. HostInv'
  <2>1. run.data = "from" => OnFrom' BY <1>1, <1>2, <1>3 DEF UInv, HostInv, OnFrom, Complete
  <2>2. run.data = "to" => OnTo' BY <1>1, <1>2, <1>4 DEF UInv, HostInv, OnTo, Complete
  <2> QED BY <1>1, <2>1, <2>2 DEF UInv, HostInv
<1>7. EndInv' BY <1>1 DEF UInv, EndInv, Untouched, Back, Reachable
<1>8. ASSUME NEW b \in Actors PROVE Sure(b)' /\ (Owns(b)' /\ Live(b)' => Knows(b)')
  <2>1. Sure(b)' BY <1>1 DEF UInv, Sure, know
  <2>2. ASSUME Owns(b)', Live(b)' PROVE Knows(b)'
    <3>1. Owns(b) /\ Live(b) BY <1>1, <2>2 DEF Owns, Live
    <3>2. Knows(b) BY <3>1 DEF UInv
    <3>3. pc[b] \notin Dumped BY <1>3, <1>5, <3>2 DEF Knows, Sealed
    <3> QED BY <1>1, <3>2, <3>3 DEF Knows, Untouched, Back, Reachable, know
  <2> QED BY <2>1, <2>2
<1> QED BY <1>0, <1>6, <1>7, <1>8 DEF UInv

LEMMA UStep == ASSUME RecordAnswered, UInv, [Next]_vars PROVE UInv'
<1>1. CASE UNCHANGED vars
  BY <1>1 DEF UInv, TypeOK, Ownership, HostInv, EndInv, Sure, Knows, Owns, Live, Safe, Untouched, Sealed,
              OnFrom, OnTo, Complete, Back, Reachable, vars, host, know
<1>2. CASE Next
  BY <1>1, <1>2, DriveKeeps, StartKeeps, ClaimKeeps, LossKeeps, LoadKeeps, WriteKeeps DEF Next
<1> QED BY <1>1, <1>2

\* Whatever fails, some container holds every row a client was told is
\* written, provided a failed recordContainer changed nothing: the fence
\* comes before the dump, the load before the record, and the old container
\* goes only once the run is marked converted.
THEOREM DataKeptHolds == ASSUME RecordAnswered PROVE Spec => []DataKept
<1>1. Init => UInv BY UInit
<1>2. UInv /\ [Next]_vars => UInv' BY UStep
<1>3. UInv => DataKept BY DEF UInv, HostInv, OnFrom, OnTo, DataKept, TypeOK
<1> QED BY <1>1, <1>2, <1>3, PTL DEF Spec

\* A project shown as ACTIVE names a container that has all of its data,
\* whichever way the run went and whoever ended it (end, putBack, Recover).
THEOREM ActiveHasAllHolds == ASSUME RecordAnswered PROVE Spec => []ActiveHasAll
<1>1. Init => UInv BY UInit
<1>2. UInv /\ [Next]_vars => UInv' BY UStep
<1>3. UInv => ActiveHasAll
  BY DEF UInv, HostInv, OnFrom, OnTo, ActiveHasAll, TypeOK
<1> QED BY <1>1, <1>2, <1>3, PTL DEF Spec

\* A run that ended as ROLLED_BACK left the old container the project's and
\* taking connections; one that ended as COMPLETED made the new one the
\* project's and its version true (conclude, end).
THEOREM OutcomeTrueHolds == ASSUME RecordAnswered PROVE Spec => []OutcomeTrue
<1>1. Init => UInv BY UInit
<1>2. UInv /\ [Next]_vars => UInv' BY UStep
<1>3. UInv => OutcomeTrue
  BY DEF UInv, HostInv, EndInv, Back, OnFrom, OnTo, Complete, OutcomeTrue
<1> QED BY <1>1, <1>2, <1>3, PTL DEF Spec
================================================================================
