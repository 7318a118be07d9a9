------------------------ MODULE CalibrationJobProofs ------------------------
(***************************************************************************)
(* Proofs about the calibration controllers (CalibrationJob): however many *)
(* of them claim, crash, fail and reclaim, a job's persisted row goes      *)
(* through one search, and what is written from it was measured.           *)
(*                                                                         *)
(* Three layers, each inductive given the one before:                      *)
(*   TypeOK    - what every variable holds;                                *)
(*   Owned     - who may write a job, and that its row is the decision its *)
(*               steps led to (no step outlives its lease);                *)
(*   Measured  - which rate the pods and the runs of a job have (and no    *)
(*               two jobs share an execution).                             *)
(***************************************************************************)
EXTENDS CalibrationJob, CalibrationLemmas

USE ZenonT(3), SMTT(20), ZenonT(30), SMTT(90)

----------------------------------------------------------------------------
(* What every variable holds.                                              *)

\* Between startOrResume and RecordStep.
Working ==
    {"profile", "deploy", "launch", "trigger", "current", "await", "stop",
     "abort", "record"}

\* Waiting for a run, or done with waiting.
Waiting == {"await", "stop", "record"}

Unfinished(job) == Sound(job) /\ job.phase # "done"

\* A row a controller may go on from.
RowSound(r) == r # None /\ r.phase \in Active => r.phase = "pending" \/ Unfinished(r)

\* What a worker carries from one statement to the next, given the jobs' rows and
\* the runs.
WorkerOK(v, rows, rs) ==
    /\ v.pc # "idle" => v.job \in Jobs /\ rows[v.job] # None
    /\ v.pc = "spec" => v.cur.phase = "pending" \/ Unfinished(v.cur)
    /\ v.pc \in Working => Unfinished(v.cur)
    /\ v.pc \in Waiting => v.run \in 1..Len(rs)
    /\ v.pc \in {"stop", "record"} => rs[v.run].report # None

Typed ==
    /\ TypeOK
    /\ \A j \in Jobs : RowSound(row[j])
    /\ \A p \in Workers : WorkerOK(w[p], row, runs)

\* A job's row as it is created.
LEMMA PendingType == PendingJob \in Job /\ PendingJob.phase = "pending"
  BY DEF PendingJob, Job, Phases, Verdicts

LEMMA StartType == Start \in Job /\ Start.phase = "bracketing" /\ Unfinished(Start)
  <1>1. Start.phase = "bracketing"
    BY DEF Start, PendingJob
  <1> QED BY <1>1, StartSound DEF Sound, Unfinished

LEMMA IdleType == Idle \in Worker /\ Idle.pc = "idle"
  BY PendingType DEF Idle, Worker, Labels

LEMMA NoPodsType == NoPods \in Pods /\ NoPods.engine = "absent"
  BY DEF NoPods, Pods

\* int(math.Ceil) of a rate is a rate.
LEMMA CeilType == \A r \in Nat : CeilRate(r) \in Nat
  <1> SUFFICES ASSUME NEW r \in Nat PROVE CeilRate(r) \in Nat
    OBVIOUS
  <1>1. r + Tolerance - 1 \in Nat
    BY SpecValid
  <1>2. (r + Tolerance - 1) \div Tolerance \in Nat
    BY <1>1, SpecValid
  <1>3. \A a, b \in Nat : a * b \in Nat
    OBVIOUS
  <1> QED BY <1>2, <1>3, SpecValid DEF CeilRate

\* Jobs are never deleted, runs are never deleted and reports never withdrawn:
\* what a worker carries stays true.
LEMMA WorkerKept ==
    ASSUME NEW v, NEW rows, NEW rows2, NEW rs, NEW rs2,
           WorkerOK(v, rows, rs),
           \A j \in Jobs : rows[j] # None => rows2[j] # None,
           Len(rs) \in Nat, Len(rs2) \in Nat, Len(rs) <= Len(rs2),
           \A r \in 1..Len(rs) : rs[r].report # None => rs2[r].report # None
    PROVE  WorkerOK(v, rows2, rs2)
  BY DEF WorkerOK, Waiting

\* A worker that goes on to a label keeps everything else it carries.
LEMMA GotoType ==
    ASSUME Typed, NEW p \in Workers, NEW l \in Labels, Goto(p, l)
    PROVE  /\ w' \in [Workers -> Worker]
           /\ \A q \in Workers : q # p => w'[q] = w[q]
           /\ w'[p] = [w[p] EXCEPT !.pc = l]
           /\ w'[p].pc = l /\ w'[p].job = w[p].job /\ w'[p].cur = w[p].cur
           /\ w'[p].attempt = w[p].attempt /\ w'[p].run = w[p].run
           /\ w'[p].rate = w[p].rate
  <1>1. w \in [Workers -> Worker] /\ w[p] \in Worker
    BY DEF Typed, TypeOK
  <1>2. w' = [w EXCEPT ![p] = [w[p] EXCEPT !.pc = l]]
    BY <1>1 DEF Goto
  <1> DEFINE v == [w[p] EXCEPT !.pc = l]
  <1>3. /\ v \in Worker /\ v.pc = l /\ v.job = w[p].job /\ v.cur = w[p].cur
        /\ v.attempt = w[p].attempt /\ v.run = w[p].run /\ v.rate = w[p].rate
    BY <1>1 DEF Worker
  <1> HIDE DEF v
  <1>4. w' = [w EXCEPT ![p] = v]
    BY <1>2 DEF v
  <1>5. /\ w' \in [Workers -> Worker] /\ w'[p] = v
        /\ \A q \in Workers : q # p => w'[q] = w[q]
    BY <1>1, <1>3, <1>4
  <1> QED BY <1>3, <1>5 DEF v

\* A worker that returns carries nothing.
LEMMA ReturnType ==
    ASSUME Typed, NEW p \in Workers, Return(p)
    PROVE  /\ w' \in [Workers -> Worker]
           /\ \A q \in Workers : q # p => w'[q] = w[q]
           /\ w'[p] = Idle /\ w'[p].pc = "idle"
  BY IdleType DEF Typed, TypeOK, Return

\* A step that leaves rows, histories and runs alone and moves at most one worker.
LEMMA OneWorkerMoves ==
    ASSUME Typed, NEW p \in Workers,
           UNCHANGED <<row, steps, evidence, runs>>,
           claim' \in [Jobs -> {"free", "held", "lapsed"}],
           load' \in [Executions -> Nat], pods' \in [Executions -> Pods],
           run' \in [Executions -> 0..Len(runs)],
           content' \in [Executions -> 0..MaxEdits],
           profile' \in [Executions -> Profile \cup {None}],
           counter' \in [Workers -> Nat], faults' \in 0..MaxFaults,
           w' \in [Workers -> Worker],
           \A q \in Workers : q # p => w'[q] = w[q],
           WorkerOK(w'[p], row, runs)
    PROVE  Typed'
  <1>1. TypeOK'
    BY DEF Typed, TypeOK
  <1>2. \A q \in Workers : WorkerOK(w'[q], row', runs')
    BY DEF Typed
  <1>3. \A j \in Jobs : RowSound(row'[j])
    BY DEF Typed
  <1> QED BY <1>1, <1>2, <1>3 DEF Typed

\* What a step that leaves a table alone leaves of its type.
LEMMA TypesKept ==
    ASSUME Typed
    PROVE  /\ UNCHANGED claim => claim' \in [Jobs -> {"free", "held", "lapsed"}]
           /\ UNCHANGED load => load' \in [Executions -> Nat]
           /\ UNCHANGED pods => pods' \in [Executions -> Pods]
           /\ UNCHANGED run => run' \in [Executions -> 0..Len(runs)]
           /\ UNCHANGED content => content' \in [Executions -> 0..MaxEdits]
           /\ UNCHANGED profile => profile' \in [Executions -> Profile \cup {None}]
           /\ UNCHANGED counter => counter' \in [Workers -> Nat]
           /\ UNCHANGED faults => faults' \in 0..MaxFaults
           /\ UNCHANGED w => w' \in [Workers -> Worker]
  BY DEF Typed, TypeOK

\* The state of a worker that is not idle.
LEMMA WorkerFacts ==
    ASSUME Typed, NEW p \in Workers, ~At(p, "idle")
    PROVE  /\ w[p] \in Worker /\ WorkerOK(w[p], row, runs)
           /\ w[p].job \in Jobs /\ row[w[p].job] # None /\ row[w[p].job] \in Job
           /\ Exec(p) \in Executions
  <1>1. w[p] \in Worker /\ WorkerOK(w[p], row, runs)
    BY DEF Typed, TypeOK
  <1>2. w[p].job \in Jobs /\ row[w[p].job] # None
    BY <1>1 DEF WorkerOK, At
  <1>3. row[w[p].job] \in Job
    BY <1>2 DEF Typed, TypeOK
  <1> QED BY ZenonT(30), <1>1, <1>2, <1>3, JobAssumption DEF Exec

\* ClaimNextStep hands the worker the row as it is.
LEMMA ClaimTyped ==
    ASSUME Typed, NEW p \in Workers, NEW j \in Jobs, Claim(p, j)
    PROVE  Typed'
  <1> DEFINE v == [Idle EXCEPT !.pc = "spec", !.job = j, !.cur = row[j]]
  <1>1. row[j] \in Job /\ row[j] # None /\ row[j].phase \in Active
    BY DEF Typed, TypeOK, Claim, ClaimNextStep, Claimable
  <1>2. /\ v \in Worker /\ v.pc = "spec" /\ v.job = j /\ v.cur = row[j]
    BY ZenonT(30), <1>1, IdleType DEF Worker, Labels
  <1>3. w' = [w EXCEPT ![p] = v]
    BY DEF Claim
  <1> HIDE DEF v
  <1>4. /\ w' \in [Workers -> Worker] /\ w'[p] = v
        /\ \A q \in Workers : q # p => w'[q] = w[q]
    BY <1>2, <1>3 DEF Typed, TypeOK
  <1>5. WorkerOK(w'[p], row, runs)
    BY <1>1, <1>2, <1>4 DEF WorkerOK, Working, Waiting, Typed, RowSound
  <1>6. claim' \in [Jobs -> {"free", "held", "lapsed"}]
    BY DEF Typed, TypeOK, Claim, ClaimNextStep
  <1> QED
    BY ZenonT(30), <1>4, <1>5, <1>6, TypesKept, OneWorkerMoves
       DEF Claim, ClaimNextStep, fleet

\* startOrResume gives an unfinished search.
LEMMA ReadSpecTyped ==
    ASSUME Typed, NEW p \in Workers, ReadSpec(p)
    PROVE  Typed'
  <1> DEFINE v == [w[p] EXCEPT !.pc = "profile", !.cur = StartOrResume(w[p].cur)]
  <1>1. w[p] \in Worker /\ WorkerOK(w[p], row, runs) /\ w[p].pc = "spec"
    BY WorkerFacts DEF ReadSpec, At
  <1>2. Unfinished(StartOrResume(w[p].cur))
    BY <1>1, StartType DEF WorkerOK, StartOrResume
  <1>3. StartOrResume(w[p].cur) \in Job
    BY <1>2 DEF Unfinished, Sound
  <1>4. /\ v \in Worker /\ v.pc = "profile" /\ v.job = w[p].job
        /\ v.cur = StartOrResume(w[p].cur)
    BY ZenonT(30), <1>1, <1>3 DEF Worker, Labels
  <1>5. w' = [w EXCEPT ![p] = v]
    BY ZenonT(30) DEF ReadSpec
  <1> HIDE DEF v
  <1>6. /\ w' \in [Workers -> Worker] /\ w'[p] = v
        /\ \A q \in Workers : q # p => w'[q] = w[q]
    BY <1>4, <1>5 DEF Typed, TypeOK
  <1>7. WorkerOK(w'[p], row, runs)
    BY <1>1, <1>2, <1>4, <1>6 DEF WorkerOK, Working, Waiting
  <1> QED
    BY ZenonT(30), <1>6, <1>7, TypesKept, OneWorkerMoves DEF ReadSpec, store, fleet

\* A worker that goes on to a label which asks no more of it than where it was.
LEMMA GotoOK ==
    ASSUME Typed, NEW p \in Workers, NEW l \in Labels, Goto(p, l), ~At(p, "idle"),
           l # "spec",
           l \in Working => w[p].pc \in Working,
           l \in Waiting => w[p].pc \in Waiting,
           l \in {"stop", "record"} => runs[w[p].run].report # None
    PROVE  /\ w' \in [Workers -> Worker]
           /\ \A q \in Workers : q # p => w'[q] = w[q]
           /\ WorkerOK(w'[p], row, runs)
  <1>1. /\ w' \in [Workers -> Worker]
        /\ \A q \in Workers : q # p => w'[q] = w[q]
        /\ w'[p].pc = l /\ w'[p].job = w[p].job /\ w'[p].cur = w[p].cur
        /\ w'[p].run = w[p].run
    BY ZenonT(30), GotoType
  <1>2. WorkerOK(w[p], row, runs) /\ w[p].pc # "idle"
    BY WorkerFacts DEF At
  <1> QED BY <1>1, <1>2 DEF WorkerOK

\* An idle worker carries nothing.
LEMMA ReturnOK ==
    ASSUME Typed, NEW p \in Workers, Return(p), NEW rows, NEW rs
    PROVE  /\ w' \in [Workers -> Worker]
           /\ \A q \in Workers : q # p => w'[q] = w[q]
           /\ WorkerOK(w'[p], rows, rs)
  <1>1. /\ w' \in [Workers -> Worker] /\ w'[p].pc = "idle"
        /\ \A q \in Workers : q # p => w'[q] = w[q]
    BY ReturnType
  <1> QED BY <1>1 DEF WorkerOK, Working, Waiting

\* RunStep's first half writes a whole rate.
LEMMA StoreLoadProfileTyped ==
    ASSUME Typed, NEW p \in Workers, StoreLoadProfile(p)
    PROVE  Typed'
  <1>1. w[p].pc = "profile" /\ Goto(p, "deploy") /\ ~At(p, "idle")
    BY DEF StoreLoadProfile, At
  <1>2. /\ w' \in [Workers -> Worker] /\ WorkerOK(w'[p], row, runs)
        /\ \A q \in Workers : q # p => w'[q] = w[q]
    BY <1>1, GotoOK DEF Labels, Working, Waiting
  <1>3. w[p].cur.next \in Nat
    BY <1>1, WorkerFacts DEF Worker, Job
  <1>4. load' \in [Executions -> Nat]
    BY ZenonT(30), <1>3, CeilType DEF StoreLoadProfile, Typed, TypeOK
  <1> QED
    BY ZenonT(30), <1>2, <1>4, TypesKept, OneWorkerMoves DEF StoreLoadProfile, store

\* Deploy takes the rate and the content it finds.
LEMMA DeployTyped ==
    ASSUME Typed, NEW p \in Workers, Deploy(p)
    PROVE  Typed'
  <1>1. w[p].pc = "deploy" /\ ~At(p, "idle")
    BY DEF Deploy, At
  <1>2. CASE Goto(p, "fail")
    <2>1. /\ w' \in [Workers -> Worker] /\ WorkerOK(w'[p], row, runs)
          /\ \A q \in Workers : q # p => w'[q] = w[q]
      BY <1>1, <1>2, GotoOK DEF Labels, Working, Waiting
    <2> QED BY ZenonT(30), <2>1, TypesKept, OneWorkerMoves DEF Deploy, store, fleet
  <1>3. CASE ~Goto(p, "fail")
    <2> DEFINE e == Exec(p)
               v == [w[p] EXCEPT !.pc = "launch", !.rate = load[e], !.print = content[e]]
    <2>1. /\ w[p] \in Worker /\ WorkerOK(w[p], row, runs) /\ e \in Executions
          /\ load[e] \in Nat /\ content[e] \in Nat
      BY SMTT(30), <1>1, WorkerFacts, JobAssumption DEF Typed, TypeOK
    <2>2. w' = [w EXCEPT ![p] = v]
      BY ZenonT(30), <1>3 DEF Deploy
    <2>3. /\ v \in Worker /\ v.pc = "launch" /\ v.job = w[p].job /\ v.cur = w[p].cur
      BY ZenonT(30), <2>1 DEF Worker, Labels
    <2> HIDE DEF v
    <2>4. /\ w' \in [Workers -> Worker] /\ w'[p] = v
          /\ \A q \in Workers : q # p => w'[q] = w[q]
      BY <2>2, <2>3 DEF Typed, TypeOK
    <2>5. WorkerOK(w'[p], row, runs)
      BY <1>1, <2>1, <2>3, <2>4 DEF WorkerOK, Working, Waiting
    <2> QED BY ZenonT(30), <2>4, <2>5, TypesKept, OneWorkerMoves DEF Deploy, store, fleet
  <1> QED BY <1>2, <1>3

\* The pods are the old ones or new ones.
LEMMA DeployScenarioTyped ==
    ASSUME Typed, NEW p \in Workers, DeployScenario(p)
    PROVE  Typed'
  <1>1. w[p].pc = "launch" /\ Goto(p, "trigger") /\ ~At(p, "idle")
    BY DEF DeployScenario, At
  <1>2. /\ w' \in [Workers -> Worker] /\ WorkerOK(w'[p], row, runs)
        /\ \A q \in Workers : q # p => w'[q] = w[q]
    BY <1>1, GotoOK DEF Labels, Working, Waiting
  <1>3. /\ counter[p] \in Nat /\ w[p].rate \in Nat /\ w[p].print \in Nat
        /\ Exec(p) \in Executions /\ pods[Exec(p)] \in Pods
    BY <1>1, WorkerFacts DEF Typed, TypeOK, Worker
  <1>4. EnsureStatefulSet(p, pods[Exec(p)]) \in Pods
    BY SMTT(30), <1>3 DEF EnsureStatefulSet, RedeployNonce, Pods
  <1>5. pods' \in [Executions -> Pods] /\ counter' \in [Workers -> Nat]
    BY SMTT(30), <1>3, <1>4 DEF DeployScenario, Typed, TypeOK
  <1> QED
    BY ZenonT(30), <1>2, <1>5, TypesKept, OneWorkerMoves DEF DeployScenario, store

\* CurrentRun finds a run that was started.
LEMMA CurrentRunTyped ==
    ASSUME Typed, NEW p \in Workers, CurrentRun(p)
    PROVE  Typed'
  <1>1. w[p].pc = "current" /\ ~At(p, "idle")
    BY DEF CurrentRun, At
  <1>2. CASE Goto(p, "fail")
    <2>1. /\ w' \in [Workers -> Worker] /\ WorkerOK(w'[p], row, runs)
          /\ \A q \in Workers : q # p => w'[q] = w[q]
      BY <1>1, <1>2, GotoOK DEF Labels, Working, Waiting
    <2> QED BY ZenonT(30), <2>1, TypesKept, OneWorkerMoves DEF CurrentRun, store, fleet
  <1>3. CASE ~Goto(p, "fail")
    <2> DEFINE v == [w[p] EXCEPT !.pc = "await", !.run = run[Exec(p)]]
    <2>1. /\ w[p] \in Worker /\ WorkerOK(w[p], row, runs) /\ Exec(p) \in Executions
          /\ run[Exec(p)] \in 0..Len(runs) /\ Len(runs) \in Nat
      BY SMTT(30), <1>1, WorkerFacts DEF Typed, TypeOK
    <2>2. w' = [w EXCEPT ![p] = v] /\ run[Exec(p)] # 0
      BY ZenonT(30), <1>3 DEF CurrentRun
    <2>6. run[Exec(p)] \in 1..Len(runs) /\ run[Exec(p)] \in Nat
      BY <2>1, <2>2
    <2>3. /\ v \in Worker /\ v.pc = "await" /\ v.job = w[p].job /\ v.cur = w[p].cur
          /\ v.run = run[Exec(p)]
      BY ZenonT(30), <2>1, <2>6 DEF Worker, Labels
    <2> HIDE DEF v
    <2>4. /\ w' \in [Workers -> Worker] /\ w'[p] = v
          /\ \A q \in Workers : q # p => w'[q] = w[q]
      BY <2>2, <2>3 DEF Typed, TypeOK
    <2>5. WorkerOK(w'[p], row, runs)
      BY <1>1, <2>1, <2>6, <2>3, <2>4 DEF WorkerOK, Working, Waiting
    <2> QED BY ZenonT(30), <2>4, <2>5, TypesKept, OneWorkerMoves DEF CurrentRun, store, fleet
  <1> QED BY <1>2, <1>3

\* awaitReport ends either way.
LEMMA AwaitsTyped ==
    ASSUME Typed, NEW p \in Workers, AwaitReport(p) \/ AwaitTimesOut(p)
    PROVE  Typed'
  <1>1. w[p].pc = "await" /\ ~At(p, "idle")
    BY DEF AwaitReport, AwaitTimesOut, At
  <1>2. CASE AwaitReport(p)
    <2>1. /\ w' \in [Workers -> Worker] /\ WorkerOK(w'[p], row, runs)
          /\ \A q \in Workers : q # p => w'[q] = w[q]
      BY <1>1, <1>2, GotoOK DEF Labels, Working, Waiting, AwaitReport
    <2> QED BY <1>2, <2>1, TypesKept, OneWorkerMoves DEF AwaitReport, store, fleet
  <1>3. CASE AwaitTimesOut(p)
    <2>1. /\ w' \in [Workers -> Worker] /\ WorkerOK(w'[p], row, runs)
          /\ \A q \in Workers : q # p => w'[q] = w[q]
      BY <1>1, <1>3, GotoOK DEF Labels, Working, Waiting, AwaitTimesOut
    <2>2. faults' \in 0..MaxFaults
      BY SMTT(30), <1>3, JobAssumption DEF AwaitTimesOut, Typed, TypeOK
    <2> QED BY ZenonT(30), <1>3, <2>1, <2>2, TypesKept, OneWorkerMoves
               DEF AwaitTimesOut, store, fleet
  <1> QED BY <1>2, <1>3

\* Stop deletes the marker.
LEMMA StopType ==
    ASSUME Typed, NEW e \in Executions, Stop(e)
    PROVE  run' \in [Executions -> 0..Len(runs)]
  <1>1. run \in [Executions -> 0..Len(runs)] /\ Len(runs) \in Nat
    BY SMTT(30) DEF Typed, TypeOK
  <1>2. 0 \in 0..Len(runs)
    BY <1>1
  <1> QED BY <1>1, <1>2 DEF Stop

\* RunStep's second half: a first engine-short goes round again.
LEMMA StopAfterReportTyped ==
    ASSUME Typed, NEW p \in Workers, StopAfterReport(p)
    PROVE  Typed'
  <1> DEFINE next == AfterStep(p, runs[w[p].run].report.class)
             again == IF next = "profile" THEN 2 ELSE w[p].attempt
             v == [w[p] EXCEPT !.pc = next, !.attempt = again]
  <1>1. w[p].pc = "stop" /\ ~At(p, "idle")
    BY DEF StopAfterReport, At
  <1>2. w[p] \in Worker /\ WorkerOK(w[p], row, runs) /\ Exec(p) \in Executions
    BY <1>1, WorkerFacts
  <1>3. next \in {"profile", "record"}
    BY DEF AfterStep
  <1>4. w' = [w EXCEPT ![p] = v]
    BY ZenonT(30), <1>2 DEF StopAfterReport, Typed, TypeOK
  <1> HIDE DEF next
  <1>9. again \in 1..2
    BY SMTT(30), <1>2 DEF Worker
  <1> HIDE DEF again
  <1>5. /\ v \in Worker /\ v.pc = next /\ v.job = w[p].job /\ v.cur = w[p].cur
        /\ v.run = w[p].run
    BY ZenonT(30), <1>2, <1>3, <1>9 DEF Worker, Labels
  <1> HIDE DEF v
  <1>6. /\ w' \in [Workers -> Worker] /\ w'[p] = v
        /\ \A q \in Workers : q # p => w'[q] = w[q]
    BY <1>4, <1>5 DEF Typed, TypeOK
  <1>7. WorkerOK(w'[p], row, runs)
    BY <1>1, <1>2, <1>3, <1>5, <1>6 DEF WorkerOK, Working, Waiting
  <1>8. run' \in [Executions -> 0..Len(runs)]
    BY <1>2, StopType DEF StopAfterReport
  <1> QED
    BY ZenonT(30), <1>6, <1>7, <1>8, TypesKept, OneWorkerMoves DEF StopAfterReport, store

LEMMA StopAfterTimeoutTyped ==
    ASSUME Typed, NEW p \in Workers, StopAfterTimeout(p)
    PROVE  Typed'
  <1>1. w[p].pc = "abort" /\ ~At(p, "idle")
    BY DEF StopAfterTimeout, At
  <1>2. /\ w' \in [Workers -> Worker] /\ WorkerOK(w'[p], row, runs)
        /\ \A q \in Workers : q # p => w'[q] = w[q]
    BY <1>1, GotoOK DEF Labels, Working, Waiting, StopAfterTimeout
  <1>3. run' \in [Executions -> 0..Len(runs)]
    BY <1>1, WorkerFacts, StopType DEF StopAfterTimeout
  <1> QED
    BY ZenonT(30), <1>2, <1>3, TypesKept, OneWorkerMoves DEF StopAfterTimeout, store

LEMMA JudgeSearchTyped ==
    ASSUME Typed, NEW p \in Workers, JudgeSearch(p)
    PROVE  Typed'
  <1>1. w[p].pc = "impaired" /\ ~At(p, "idle")
    BY DEF JudgeSearch, At
  <1>2. PICK l \in {"fail", "write"} : Goto(p, l)
    BY DEF JudgeSearch
  <1>3. /\ w' \in [Workers -> Worker] /\ WorkerOK(w'[p], row, runs)
        /\ \A q \in Workers : q # p => w'[q] = w[q]
    BY <1>1, <1>2, GotoOK DEF Labels, Working, Waiting
  <1> QED BY ZenonT(30), <1>3, TypesKept, OneWorkerMoves DEF JudgeSearch, store, fleet

\* writeProfile stores the verdict the worker carries.
LEMMA WriteProfileTyped ==
    ASSUME Typed, NEW p \in Workers, WriteProfile(p)
    PROVE  Typed'
  <1> DEFINE e == Exec(p)
             new == [job |-> w[p].job, by |-> w[p].cur.by,
                     perPod |-> w[p].cur.perPod, print |-> content[e]]
  <1>1. w[p].pc = "write" /\ ~At(p, "idle") /\ Return(p)
    BY DEF WriteProfile, At
  <1>2. /\ w[p].job \in Jobs /\ w[p].cur \in Job /\ e \in Executions
        /\ content[e] \in Nat
    <2>1. w[p] \in Worker /\ content \in [Executions -> 0..MaxEdits]
      BY ZenonT(30) DEF Typed, TypeOK
    <2>2. w[p].job \in Jobs /\ e \in Executions
      BY ZenonT(30), <1>1, WorkerFacts
    <2>3. w[p].cur \in Job
      BY ZenonT(30), <2>1 DEF Worker
    <2> HIDE DEF e
    <2>4. content[e] \in Nat
      BY <2>1, <2>2, JobAssumption
    <2> QED BY ZenonT(30), <2>2, <2>3, <2>4
  <1>3. new \in Profile
    BY <1>2 DEF Profile, Job
  <1>4. profile' = [profile EXCEPT ![e] = new]
    BY DEF WriteProfile, UpsertCapacityProfile
  <1> HIDE DEF new
  <1>5. profile' \in [Executions -> Profile \cup {None}]
    BY <1>2, <1>3, <1>4 DEF Typed, TypeOK
  <1>6. /\ w' \in [Workers -> Worker] /\ WorkerOK(w'[p], row, runs)
        /\ \A q \in Workers : q # p => w'[q] = w[q]
    BY ZenonT(30), <1>1, ReturnOK
  <1> QED
    BY ZenonT(30), <1>5, <1>6, TypesKept, OneWorkerMoves DEF WriteProfile, store, fleet

\* Errors and crashes.
LEMMA FaultsTyped ==
    ASSUME Typed, NEW p \in Workers, StatementFails(p) \/ Crash(p)
    PROVE  Typed'
  <1>1. faults' \in 0..MaxFaults
    BY SMTT(30), JobAssumption DEF StatementFails, Crash, Typed, TypeOK
  <1>2. CASE Crash(p)
    <2>1. /\ w' \in [Workers -> Worker] /\ WorkerOK(w'[p], row, runs)
          /\ \A q \in Workers : q # p => w'[q] = w[q]
      BY ZenonT(30), <1>2, ReturnOK DEF Crash
    <2>2. counter' \in [Workers -> Nat]
      BY <1>2 DEF Crash, Typed, TypeOK
    <2> QED BY ZenonT(30), <1>1, <1>2, <2>1, <2>2, TypesKept, OneWorkerMoves DEF Crash, store
  <1>3. CASE StatementFails(p) /\ Return(p)
    <2>1. /\ w' \in [Workers -> Worker] /\ WorkerOK(w'[p], row, runs)
          /\ \A q \in Workers : q # p => w'[q] = w[q]
      BY <1>3, ReturnOK
    <2> QED BY ZenonT(30), <1>1, <1>3, <2>1, TypesKept, OneWorkerMoves
               DEF StatementFails, store, fleet
  <1>4. CASE StatementFails(p) /\ ~Return(p)
    <2>1. Goto(p, "fail") /\ ~At(p, "idle")
      BY <1>4 DEF StatementFails, At
    <2>2. /\ w' \in [Workers -> Worker] /\ WorkerOK(w'[p], row, runs)
          /\ \A q \in Workers : q # p => w'[q] = w[q]
      BY <2>1, GotoOK DEF Labels, Working, Waiting
    <2> QED BY ZenonT(30), <1>1, <1>4, <2>2, TypesKept, OneWorkerMoves
               DEF StatementFails, store, fleet
  <1> QED BY <1>2, <1>3, <1>4

\* A new row.
LEMMA TriggerTyped ==
    ASSUME Typed, NEW j \in Jobs, Trigger(j)
    PROVE  Typed'
  <1>1. /\ row \in [Jobs -> Job \cup {None}] /\ row' = [row EXCEPT ![j] = PendingJob]
        /\ Len(runs) \in Nat
    BY SMTT(30) DEF Typed, TypeOK, Trigger, CreateCalibrationJob
  <1>2. TypeOK'
    BY <1>1, PendingType
       DEF Typed, TypeOK, Trigger, CreateCalibrationJob, fleet
  <1>3. \A i \in Jobs : RowSound(row'[i])
    BY <1>1, PendingType DEF Typed, RowSound
  <1>4. \A i \in Jobs : row[i] # None => row'[i] # None
    BY <1>1, PendingType, JobAssumption
  <1>5. \A q \in Workers : WorkerOK(w[q], row', runs)
    BY <1>4 DEF Typed, WorkerOK
  <1>6. UNCHANGED <<w, runs>>
    BY DEF Trigger, fleet
  <1> QED BY <1>2, <1>3, <1>5, <1>6 DEF Typed

LEMMA IdleStepsTyped ==
    ASSUME Typed,
           \/ \E j \in Jobs : LeaseLapses(j)
           \/ \E e \in Executions : EditScenario(e)
    PROVE  Typed'
  <1>1. ASSUME NEW j \in Jobs, LeaseLapses(j) PROVE Typed'
    <2>1. claim' \in [Jobs -> {"free", "held", "lapsed"}]
      BY <1>1 DEF LeaseLapses, Typed, TypeOK
    <2> QED BY <1>1, <2>1 DEF LeaseLapses, fleet, Typed, TypeOK
  <1>2. ASSUME NEW e \in Executions, EditScenario(e) PROVE Typed'
    <2>1. content' \in [Executions -> 0..MaxEdits]
      BY SMTT(30), <1>2, JobAssumption DEF EditScenario, Typed, TypeOK
    <2> QED BY <1>2, <2>1 DEF EditScenario, store, fleet, Typed, TypeOK
  <1> QED BY <1>1, <1>2

\* A report is of its type and none is withdrawn.
LEMMA RunSettlesTyped ==
    ASSUME Typed, NEW e \in Executions, Settles(e)
    PROVE  Typed'
  <1>1. PICK a \in Achieved, c \in Classifications : RunSettles(e, a, c)
    BY DEF Settles
  <1> DEFINE rpt == [achieved |-> a, class |-> c]
             n == run[e]
             r == [runs[n] EXCEPT !.report = rpt]
  <1>2. rpt \in Report /\ rpt # None
    BY SMTT(30), JobAssumption DEF Report
  <1>3. /\ runs \in Seq(Run) /\ Len(runs) \in Nat /\ n \in 1..Len(runs)
        /\ run \in [Executions -> 0..Len(runs)]
    BY SMTT(30), <1>1 DEF RunSettles, Typed, TypeOK
  <1> HIDE DEF rpt, n
  <1>4. runs[n] \in Run
    BY <1>3
  <1>5. r \in Run /\ r.report = rpt
    BY <1>2, <1>4 DEF Run
  <1>6. runs' = [runs EXCEPT ![n] = r]
    BY <1>1, <1>3 DEF RunSettles, n, rpt
  <1> HIDE DEF r
  <1>7. /\ runs' \in Seq(Run) /\ Len(runs') = Len(runs)
        /\ \A i \in 1..Len(runs) : runs'[i] = IF i = n THEN r ELSE runs[i]
    BY <1>3, <1>5, <1>6
  <1>8. pods' \in [Executions -> Pods]
    <2>1. [pods[e] EXCEPT !.engine = "finished"] \in Pods
      BY ZenonT(30) DEF Typed, TypeOK, Pods
    <2>2. pods' = [pods EXCEPT ![e] = [pods[e] EXCEPT !.engine = "finished"]]
      BY <1>1 DEF RunSettles, Typed, TypeOK
    <2> QED BY <2>1, <2>2 DEF Typed, TypeOK
  <1>9. run' \in [Executions -> 0..Len(runs')]
    <2>1. 0 \in 0..Len(runs)
      BY <1>3
    <2> QED BY <1>1, <1>3, <1>7, <2>1 DEF RunSettles
  <1>10. UNCHANGED <<row, claim, steps, evidence, load, counter, content, profile, w, faults>>
    BY <1>1 DEF RunSettles, store
  <1>11. TypeOK'
    BY <1>7, <1>8, <1>9, <1>10 DEF Typed, TypeOK
  <1>12. \A q \in Workers : WorkerOK(w[q], row, runs')
    <2>1. \A i \in 1..Len(runs) : runs[i].report # None => runs'[i].report # None
      BY <1>2, <1>5, <1>7
    <2>2. Len(runs') \in Nat /\ Len(runs) <= Len(runs')
      BY <1>3, <1>7
    <2> QED BY <1>3, <2>1, <2>2, WorkerKept DEF Typed
  <1> QED BY <1>10, <1>11, <1>12 DEF Typed

\* A started run has no report.
LEMMA TriggerWhenReadyTyped ==
    ASSUME Typed, NEW p \in Workers, TriggerWhenReady(p)
    PROVE  Typed'
  <1> DEFINE e == Exec(p)
             new == [rate |-> pods[e].rate, print |-> pods[e].print, report |-> None]
  <1>1. w[p].pc = "trigger" /\ ~At(p, "idle")
    BY DEF TriggerWhenReady, At
  <1>2. /\ e \in Executions /\ pods[e] \in Pods /\ runs \in Seq(Run)
        /\ Len(runs) \in Nat /\ run \in [Executions -> 0..Len(runs)]
    BY SMTT(30), <1>1, WorkerFacts DEF Typed, TypeOK
  <1>3. CASE run[e] # 0
    <2>1. Goto(p, "fail") /\ UNCHANGED <<run, runs>>
      BY <1>3 DEF TriggerWhenReady
    <2>2. /\ w' \in [Workers -> Worker] /\ WorkerOK(w'[p], row, runs)
          /\ \A q \in Workers : q # p => w'[q] = w[q]
      BY <1>1, <2>1, GotoOK DEF Labels, Working, Waiting
    <2> QED BY ZenonT(30), <2>1, <2>2, TypesKept, OneWorkerMoves DEF TriggerWhenReady, store
  <1>4. CASE run[e] = 0
    <2>1. /\ runs' = Append(runs, new) /\ run' = [run EXCEPT ![e] = Len(runs) + 1]
          /\ Goto(p, "current")
      BY <1>4 DEF TriggerWhenReady
    <2>2. new \in Run
      BY <1>2 DEF Pods, Run
    <2> HIDE DEF new
    <2>3. /\ runs' \in Seq(Run) /\ Len(runs') = Len(runs) + 1
          /\ \A i \in 1..Len(runs) : runs'[i] = runs[i]
      BY <1>2, <2>1, <2>2
    <2>4. run' \in [Executions -> 0..Len(runs')]
      BY SMTT(30), <1>2, <2>1, <2>3
    <2>5. UNCHANGED <<row, claim, steps, evidence, load, pods, counter, content, profile, faults>>
      BY DEF TriggerWhenReady, store
    <2>6. /\ w' \in [Workers -> Worker] /\ WorkerOK(w'[p], row, runs)
          /\ \A q \in Workers : q # p => w'[q] = w[q]
      BY <1>1, <2>1, GotoOK DEF Labels, Working, Waiting
    <2>7. TypeOK'
      BY <2>3, <2>4, <2>5, <2>6 DEF Typed, TypeOK
    <2>8. \A q \in Workers : WorkerOK(w'[q], row, runs)
      BY <2>6 DEF Typed
    <2>9. Len(runs') \in Nat /\ Len(runs) <= Len(runs')
      BY <1>2, <2>3
    <2>10. \A q \in Workers : WorkerOK(w'[q], row, runs')
      BY <1>2, <2>3, <2>8, <2>9, WorkerKept
    <2> QED BY <2>5, <2>7, <2>10 DEF Typed
  <1> QED BY <1>3, <1>4

\* What a worker about to record has in hand: a report, and a decision that keeps
\* the search sound.
LEMMA RecordFacts ==
    ASSUME Typed, NEW p \in Workers, At(p, "record")
    PROVE  LET rpt == runs[w[p].run].report
               cur == w[p].cur
               updated == Advance(cur, cur.next, rpt.achieved, rpt.class)
           IN  /\ w[p].job \in Jobs /\ row[w[p].job] # None
               /\ rpt \in Report /\ runs[w[p].run] \in Run
               /\ rpt.achieved \in Achieved /\ rpt.achieved \in Nat
               /\ rpt.class \in Classifications
               /\ cur \in Job /\ Unfinished(cur) /\ cur.next \in Nat
               /\ Sound(updated) /\ updated \in Job
               /\ updated.loAch = IF rpt.class = "clean" THEN rpt.achieved ELSE cur.loAch
  <1> DEFINE rpt == runs[w[p].run].report
             cur == w[p].cur
             updated == Advance(cur, cur.next, rpt.achieved, rpt.class)
  <1>1. /\ w[p].pc = "record" /\ ~At(p, "idle")
    BY DEF At
  <1>2. /\ w[p] \in Worker /\ WorkerOK(w[p], row, runs)
        /\ w[p].job \in Jobs /\ row[w[p].job] # None
    BY ZenonT(30), <1>1, WorkerFacts
  <1>3. w[p].run \in 1..Len(runs) /\ rpt # None /\ Unfinished(cur)
    BY <1>1, <1>2 DEF WorkerOK, Working, Waiting
  <1>4. runs[w[p].run] \in Run
    BY SMTT(30), <1>3 DEF Typed, TypeOK
  <1>5. rpt \in Report
    BY <1>3, <1>4 DEF Run
  <1>6. /\ rpt.achieved \in Achieved /\ rpt.achieved \in Nat
        /\ rpt.class \in Classifications
    BY ZenonT(30), <1>5, JobAssumption DEF Report
  <1>7. cur \in Job /\ cur.next \in Nat /\ Sound(cur) /\ cur.phase # "done"
    BY <1>2, <1>3 DEF Worker, Job, Unfinished
  <1> HIDE DEF rpt, cur
  <1>8. /\ Sound(updated)
        /\ updated.loAch = IF rpt.class = "clean" THEN rpt.achieved ELSE cur.loAch
    BY SMTT(30), <1>6, <1>7, AdvanceSound
  <1>9. updated \in Job
    BY <1>8 DEF Sound
  <1> QED BY ZenonT(30), <1>2, <1>3, <1>4, <1>5, <1>6, <1>7, <1>8, <1>9 DEF rpt, cur

\* RecordStep writes a row and a step of their types.
LEMMA RecordTyped ==
    ASSUME Typed, NEW p \in Workers, Record(p)
    PROVE  Typed'
  <1> DEFINE rpt == runs[w[p].run].report
             cur == w[p].cur
             j == w[p].job
             updated == Advance(cur, cur.next, rpt.achieved, rpt.class)
             step == [requested |-> cur.next, achieved |-> rpt.achieved,
                      class |-> rpt.class]
             seen == [rate |-> runs[w[p].run].rate, print |-> runs[w[p].run].print,
                      decided |-> updated]
  <1>1. At(p, "record") /\ w[p].pc = "record" /\ ~At(p, "idle")
    BY ZenonT(30) DEF Record, At
  <1>2. /\ j \in Jobs /\ row[j] # None /\ runs[w[p].run] \in Run
        /\ rpt.achieved \in Nat /\ rpt.class \in Classifications
        /\ cur.next \in Nat /\ Sound(updated) /\ updated \in Job
    BY ZenonT(30), <1>1, RecordFacts
  <1>3. step \in Step
    BY ZenonT(30), <1>2 DEF Step
  <1>4. seen \in Evidence
    <2> HIDE DEF updated
    <2> QED BY ZenonT(30), <1>2 DEF Evidence, Run
  <1>5. /\ steps' = [steps EXCEPT ![j] = Append(@, step)]
        /\ row' = [row EXCEPT ![j] = updated]
        /\ claim' = [claim EXCEPT ![j] = "free"]
        /\ evidence' = [evidence EXCEPT ![j] = Append(@, seen)]
        /\ UNCHANGED <<load, pods, run, runs, counter, content, profile, faults>>
    BY DEF Record, RecordStep, fleet
  <1> HIDE DEF step, seen
  <1>6. /\ row' \in [Jobs -> Job \cup {None}]
        /\ claim' \in [Jobs -> {"free", "held", "lapsed"}]
        /\ \A i \in Jobs : row[i] # None => row'[i] # None
    <2> HIDE DEF updated
    <2> QED BY ZenonT(30), <1>2, <1>5, JobAssumption DEF Typed, TypeOK
  <1>7. steps' \in [Jobs -> Seq(Step)]
    <2>1. Append(steps[j], step) \in Seq(Step)
      BY SMTT(30), <1>2, <1>3 DEF Typed, TypeOK
    <2> QED BY ZenonT(30), <1>2, <1>5, <2>1 DEF Typed, TypeOK
  <1>8. evidence' \in [Jobs -> Seq(Evidence)]
    <2>1. Append(evidence[j], seen) \in Seq(Evidence)
      BY SMTT(30), <1>2, <1>4 DEF Typed, TypeOK
    <2> QED BY ZenonT(30), <1>2, <1>5, <2>1 DEF Typed, TypeOK
  <1>9. \A i \in Jobs : RowSound(row'[i])
    <2> HIDE DEF updated
    <2>1. \A i \in Jobs : row'[i] = IF i = j THEN updated ELSE row[i]
      BY ZenonT(30), <1>2, <1>5 DEF Typed, TypeOK
    <2>2. RowSound(updated)
      BY <1>2 DEF RowSound, Unfinished, Active
    <2> QED BY <2>1, <2>2 DEF Typed
  <1>10. /\ w' \in [Workers -> Worker] /\ WorkerOK(w'[p], row', runs)
         /\ \A q \in Workers : q # p => w'[q] = w[q]
    <2> HIDE DEF updated
    <2>1. CASE updated.phase # "done"
      <3>1. Return(p)
        BY <2>1 DEF Record, updated
      <3> QED BY ZenonT(30), <3>1, ReturnOK
    <2>2. CASE updated.phase = "done"
      <3> DEFINE v == [w[p] EXCEPT !.pc = "impaired", !.cur = updated]
      <3>1. w' = [w EXCEPT ![p] = v]
        BY ZenonT(30), <2>2 DEF Record, updated
      <3>2. w[p] \in Worker
        BY DEF Typed, TypeOK
      <3>3. v \in Worker /\ v.pc = "impaired" /\ v.job = j
        BY ZenonT(30), <1>2, <3>2 DEF Worker, Labels
      <3> HIDE DEF v
      <3>4. /\ w' \in [Workers -> Worker] /\ w'[p] = v
            /\ \A q \in Workers : q # p => w'[q] = w[q]
        BY <3>1, <3>3 DEF Typed, TypeOK
      <3>5. WorkerOK(v, row', runs)
        BY <1>2, <1>6, <3>3 DEF WorkerOK, Working, Waiting
      <3> QED BY <3>4, <3>5
    <2> QED BY <2>1, <2>2
  <1>11. TypeOK'
    BY ZenonT(30), <1>5, <1>6, <1>7, <1>8, <1>10 DEF Typed, TypeOK
  <1>12. \A q \in Workers : WorkerOK(w[q], row', runs)
    BY <1>6 DEF Typed, WorkerOK
  <1> QED BY ZenonT(30), <1>5, <1>9, <1>10, <1>11, <1>12 DEF Typed

\* MarkFailed changes the phase of a row that is there.
LEMMA FailTyped ==
    ASSUME Typed, NEW p \in Workers, Fail(p)
    PROVE  Typed'
  <1> DEFINE j == w[p].job
             r == [row[j] EXCEPT !.phase = "failed"]
  <1>1. ~At(p, "idle") /\ Return(p)
    BY DEF Fail, At
  <1>2. j \in Jobs /\ row[j] # None /\ row[j] \in Job
    BY <1>1, WorkerFacts
  <1>3. r \in Job /\ r.phase = "failed"
    BY <1>2 DEF Job, Phases
  <1>4. /\ row' = [row EXCEPT ![j] = r] /\ claim' = [claim EXCEPT ![j] = "free"]
        /\ UNCHANGED <<steps, evidence, load, pods, run, runs, counter, content,
                       profile, faults>>
    BY <1>2 DEF Fail, MarkFailed, fleet, Typed, TypeOK
  <1> HIDE DEF r
  <1>5. /\ row' \in [Jobs -> Job \cup {None}]
        /\ claim' \in [Jobs -> {"free", "held", "lapsed"}]
        /\ \A i \in Jobs : row[i] # None => row'[i] # None
        /\ \A i \in Jobs : row'[i] = IF i = j THEN r ELSE row[i]
    BY <1>2, <1>3, <1>4, JobAssumption DEF Typed, TypeOK
  <1>6. \A i \in Jobs : RowSound(row'[i])
    BY <1>3, <1>5 DEF Typed, RowSound, Active
  <1>7. /\ w' \in [Workers -> Worker] /\ WorkerOK(w'[p], row', runs)
        /\ \A q \in Workers : q # p => w'[q] = w[q]
    BY <1>1, ReturnOK
  <1>8. \A q \in Workers : WorkerOK(w[q], row', runs)
    BY <1>5 DEF Typed, WorkerOK
  <1>9. TypeOK'
    BY <1>4, <1>5, <1>7 DEF Typed, TypeOK
  <1> QED BY ZenonT(30), <1>4, <1>6, <1>7, <1>8, <1>9 DEF Typed

LEMMA TypedInit == Init => Typed
  <1> SUFFICES ASSUME Init PROVE Typed
    OBVIOUS
  <1>1. TypeOK
    BY SMTT(30), IdleType, NoPodsType, SpecValid, JobAssumption DEF Init, TypeOK
  <1>2. \A j \in Jobs : RowSound(row[j])
    BY DEF Init, RowSound
  <1>3. \A p \in Workers : WorkerOK(w[p], row, runs)
    BY IdleType DEF Init, WorkerOK, Working, Waiting
  <1> QED BY <1>1, <1>2, <1>3 DEF Typed

\* Every step keeps the types.
LEMMA TypedStep == Typed /\ [Next]_vars => Typed'
  <1> SUFFICES ASSUME Typed, [Next]_vars PROVE Typed'
    OBVIOUS
  <1>1. CASE UNCHANGED vars
    BY <1>1 DEF vars, Typed, TypeOK
  <1>2. ASSUME NEW p \in Workers, Advances(p) PROVE Typed'
    BY <1>2, ClaimTyped, ReadSpecTyped, StoreLoadProfileTyped, DeployTyped,
       DeployScenarioTyped, TriggerWhenReadyTyped, CurrentRunTyped, AwaitsTyped,
       StopAfterReportTyped, StopAfterTimeoutTyped, RecordTyped, JudgeSearchTyped,
       WriteProfileTyped, FailTyped
       DEF Advances
  <1> QED
    BY <1>1, <1>2, TriggerTyped, IdleStepsTyped, RunSettlesTyped, FaultsTyped DEF Next

\* The ledger, the fleet and the controllers keep their types: every row a
\* controller resumes from is a search it can go on with, whoever wrote it.
THEOREM JobTypeCorrect == Spec => []TypeOK
  <1>1. Typed => TypeOK
    BY DEF Typed
  <1> QED BY <1>1, TypedInit, TypedStep, PTL DEF Spec

----------------------------------------------------------------------------
(* Who may write a job, and what its row says.                             *)

Held(r, c) == c = "held" /\ r.phase \in Active

\* A worker's job (row r, claim c) is one it may write: until it has recorded a
\* step it holds the claim, and what it read is what the row still says.
ClaimOK(v, r, c) ==
    /\ v.pc = "spec" => Held(r, c) /\ v.cur = r
    /\ v.pc \in Working => Held(r, c) /\ v.cur = StartOrResume(r)
    /\ v.pc \in {"impaired", "write"} => r.phase = "done" /\ v.cur = r
    /\ v.pc = "fail" => Held(r, c) \/ r.phase = "done"

HasClean(st) == \E i \in DOMAIN st : st[i].class = "clean"

\* The decision a history led to: Decided, of the history.
DecidedBy(ev) == IF ev = <<>> THEN Start ELSE ev[Len(ev)].decided

\* A row r is the decision of the last recorded step, which is a sound one, and
\* the floor's measurement is that of a clean step.
LedgerOK(r, ev, st) ==
    /\ Len(ev) = Len(st)
    /\ r = None => ev = <<>>
    /\ r # None /\ r.phase = "pending" => r = PendingJob /\ ev = <<>>
    /\ r # None /\ r.phase \in {"bracketing", "bisecting", "done"} => r = DecidedBy(ev)
    /\ Sound(DecidedBy(ev))
    /\ HasClean(st) => \E i \in DOMAIN st : /\ st[i].class = "clean"
                                            /\ st[i].achieved = DecidedBy(ev).loAch

\* A profile f of the job with row r and steps st.
ProfileOK(f, r, st) ==
    /\ r # None /\ r.phase = "done" /\ r.by = f.by /\ r.perPod = f.perPod
    /\ f.by = "engine" => HasClean(st)

\* A profile is written last: nobody works on its job any more.
ProfilesOK ==
    \A e \in Executions : profile[e] # None =>
        /\ ProfileOK(profile[e], row[profile[e].job], steps[profile[e].job])
        /\ \A p \in Workers : w[p].pc = "idle" \/ w[p].job # profile[e].job

Owned ==
    /\ OneController
    /\ \A p \in Workers : w[p].pc # "idle" =>
          ClaimOK(w[p], row[w[p].job], claim[w[p].job])
    /\ \A j \in Jobs : LedgerOK(row[j], evidence[j], steps[j])
    /\ \A p \in Workers : w[p].pc = "write" /\ w[p].cur.by = "engine" =>
          HasClean(steps[w[p].job])
    /\ ProfilesOK

\* One worker stays with its job or leaves it, and the ledger stays as it is.
LEMMA OwnedFrame ==
    ASSUME Owned, NEW p \in Workers,
           UNCHANGED <<row, claim, steps, evidence, profile>>,
           \A q \in Workers : q # p => w'[q] = w[q],
           \/ w'[p].pc = "idle"
           \/ /\ w[p].pc # "idle" /\ w'[p].job = w[p].job
              /\ ClaimOK(w'[p], row[w[p].job], claim[w[p].job])
              /\ w'[p].pc = "write" /\ w'[p].cur.by = "engine" =>
                    HasClean(steps[w[p].job])
    PROVE  Owned'
  <1>1. OneController'
    BY ZenonT(30) DEF Owned, OneController, At
  <1>2. \A q \in Workers : w'[q].pc # "idle" =>
           ClaimOK(w'[q], row'[w'[q].job], claim'[w'[q].job])
    <2> TAKE q \in Workers
    <2>1. CASE q = p
      BY <2>1
    <2>2. CASE q # p
      BY <2>2 DEF Owned
    <2> QED BY <2>1, <2>2
  <1>3. \A j \in Jobs : LedgerOK(row'[j], evidence'[j], steps'[j])
    BY DEF Owned
  <1>4. \A q \in Workers : w'[q].pc = "write" /\ w'[q].cur.by = "engine" =>
           HasClean(steps'[w'[q].job])
    <2> TAKE q \in Workers
    <2>1. CASE q = p
      BY <2>1
    <2>2. CASE q # p
      BY <2>2 DEF Owned
    <2> QED BY <2>1, <2>2
  <1>5. ProfilesOK'
    BY DEF Owned, ProfilesOK
  <1> QED BY ZenonT(30), <1>1, <1>2, <1>3, <1>4, <1>5 DEF Owned

WorkStep(p) ==
    \/ StoreLoadProfile(p) \/ Deploy(p) \/ DeployScenario(p) \/ TriggerWhenReady(p)
    \/ CurrentRun(p) \/ AwaitReport(p) \/ AwaitTimesOut(p) \/ StopAfterReport(p)
    \/ StopAfterTimeout(p)

\* The steps between startOrResume and RecordStep keep the job and the search
\* state the worker carries, and write nothing of the ledger.
LEMMA WorkSteps ==
    ASSUME Typed, NEW p \in Workers, WorkStep(p)
    PROVE  /\ w[p].pc \in Working /\ w'[p].pc \in Working \cup {"fail"}
           /\ w'[p].job = w[p].job /\ w'[p].cur = w[p].cur
           /\ \A q \in Workers : q # p => w'[q] = w[q]
           /\ UNCHANGED <<row, claim, steps, evidence, content, profile>>
  <1>1. w \in [Workers -> Worker] /\ w[p] \in Worker
    BY DEF Typed, TypeOK
  <1>2. ASSUME NEW l \in {"deploy", "trigger", "stop", "abort", "fail", "current"},
               Goto(p, l)
        PROVE  /\ w'[p].pc \in Working \cup {"fail"}
               /\ w'[p].job = w[p].job /\ w'[p].cur = w[p].cur
               /\ \A q \in Workers : q # p => w'[q] = w[q]
    BY ZenonT(30), <1>2, GotoType DEF Labels, Working
  <1>3. ASSUME NEW v, v.pc \in Working, v.job = w[p].job, v.cur = w[p].cur,
               w' = [w EXCEPT ![p] = v]
        PROVE  /\ w'[p].pc \in Working \cup {"fail"}
               /\ w'[p].job = w[p].job /\ w'[p].cur = w[p].cur
               /\ \A q \in Workers : q # p => w'[q] = w[q]
    BY <1>1, <1>3
  <1>4. CASE StoreLoadProfile(p)
    BY <1>2, <1>4 DEF StoreLoadProfile, At, Working, store
  <1>5. CASE Deploy(p)
    <2>1. CASE Goto(p, "fail")
      BY <1>2, <1>5, <2>1 DEF Deploy, At, Working, store
    <2>2. CASE ~Goto(p, "fail")
      <3> DEFINE v == [w[p] EXCEPT !.pc = "launch", !.rate = load[Exec(p)],
                                   !.print = content[Exec(p)]]
      <3>1. v.pc = "launch" /\ v.job = w[p].job /\ v.cur = w[p].cur
        BY <1>1 DEF Worker
      <3>2. w' = [w EXCEPT ![p] = v]
        BY ZenonT(30), <1>5, <2>2 DEF Deploy
      <3> HIDE DEF v
      <3> QED BY SMTT(30), <1>3, <1>5, <3>1, <3>2 DEF Deploy, At, Working, store
    <2> QED BY <2>1, <2>2
  <1>6. CASE DeployScenario(p)
    BY <1>2, <1>6 DEF DeployScenario, At, Working, store
  <1>7. CASE TriggerWhenReady(p)
    BY <1>2, <1>7 DEF TriggerWhenReady, At, Working, store
  <1>8. CASE CurrentRun(p)
    <2>1. CASE Goto(p, "fail")
      BY <1>2, <1>8, <2>1 DEF CurrentRun, At, Working, store
    <2>2. CASE ~Goto(p, "fail")
      <3> DEFINE v == [w[p] EXCEPT !.pc = "await", !.run = run[Exec(p)]]
      <3>1. v.pc = "await" /\ v.job = w[p].job /\ v.cur = w[p].cur
        BY <1>1 DEF Worker
      <3>2. w' = [w EXCEPT ![p] = v]
        BY ZenonT(30), <1>8, <2>2 DEF CurrentRun
      <3> HIDE DEF v
      <3> QED BY SMTT(30), <1>3, <1>8, <3>1, <3>2 DEF CurrentRun, At, Working, store
    <2> QED BY <2>1, <2>2
  <1>9. CASE AwaitReport(p) \/ AwaitTimesOut(p)
    BY <1>2, <1>9 DEF AwaitReport, AwaitTimesOut, At, Working, store
  <1>10. CASE StopAfterReport(p)
    <2> DEFINE next == AfterStep(p, runs[w[p].run].report.class)
               again == IF next = "profile" THEN 2 ELSE w[p].attempt
               v == [w[p] EXCEPT !.pc = next, !.attempt = again]
    <2>1. next \in Working
      BY DEF AfterStep, Working
    <2>2. w' = [w EXCEPT ![p] = v]
      BY ZenonT(30), <1>1, <1>10 DEF StopAfterReport
    <2> HIDE DEF next, again
    <2>3. v.pc = next /\ v.job = w[p].job /\ v.cur = w[p].cur
      BY <1>1 DEF Worker
    <2> HIDE DEF v
    <2>4. /\ w'[p].pc \in Working \cup {"fail"}
          /\ w'[p].job = w[p].job /\ w'[p].cur = w[p].cur
          /\ \A q \in Workers : q # p => w'[q] = w[q]
      BY <1>3, <2>1, <2>2, <2>3
    <2> QED BY ZenonT(30), <1>10, <2>4 DEF StopAfterReport, At, Working, store
  <1>11. CASE StopAfterTimeout(p)
    BY <1>2, <1>11 DEF StopAfterTimeout, At, Working, store
  <1> QED BY ZenonT(30), <1>4, <1>5, <1>6, <1>7, <1>8, <1>9, <1>10, <1>11 DEF WorkStep

LEMMA WorkOwned ==
    ASSUME Typed, Owned, NEW p \in Workers, WorkStep(p)
    PROVE  Owned'
  <1> DEFINE r == row[w[p].job]
             c == claim[w[p].job]
  <1>1. /\ w[p].pc \in Working /\ w'[p].pc \in Working \cup {"fail"}
        /\ w'[p].job = w[p].job /\ w'[p].cur = w[p].cur
        /\ \A q \in Workers : q # p => w'[q] = w[q]
        /\ UNCHANGED <<row, claim, steps, evidence, profile>>
    BY WorkSteps
  <1>2. w[p].pc # "idle" /\ w'[p].pc # "write"
    BY <1>1 DEF Working
  <1>3. ClaimOK(w[p], r, c)
    BY <1>2 DEF Owned
  <1> HIDE DEF r, c
  <1>4. Held(r, c) /\ w[p].cur = StartOrResume(r)
    BY <1>1, <1>3 DEF ClaimOK
  <1>5. ClaimOK(w'[p], r, c)
    BY <1>1, <1>4 DEF ClaimOK, Working
  <1> QED BY ZenonT(30), <1>1, <1>2, <1>5, OwnedFrame DEF r, c

LEMMA ReadSpecOwned ==
    ASSUME Typed, Owned, NEW p \in Workers, ReadSpec(p)
    PROVE  Owned'
  <1> DEFINE r == row[w[p].job]
             c == claim[w[p].job]
             v == [w[p] EXCEPT !.pc = "profile", !.cur = StartOrResume(w[p].cur)]
  <1>1. w \in [Workers -> Worker] /\ w[p] \in Worker /\ w[p].pc = "spec"
    BY DEF Typed, TypeOK, ReadSpec, At
  <1>2. /\ v.pc = "profile" /\ v.job = w[p].job /\ v.cur = StartOrResume(w[p].cur)
    BY <1>1 DEF Worker
  <1>3. w' = [w EXCEPT ![p] = v]
    BY ZenonT(30) DEF ReadSpec
  <1>4. ClaimOK(w[p], r, c)
    BY <1>1 DEF Owned
  <1> HIDE DEF r, c, v
  <1>5. Held(r, c) /\ w[p].cur = r
    BY <1>1, <1>4 DEF ClaimOK
  <1>6. ClaimOK(v, r, c)
    BY <1>2, <1>5 DEF ClaimOK, Working
  <1>7. w'[p] = v /\ \A q \in Workers : q # p => w'[q] = w[q]
    BY <1>1, <1>3
  <1> QED
    BY <1>1, <1>2, <1>6, <1>7, OwnedFrame DEF ReadSpec, store, r, c

\* environmentImpaired lets a verdict on the engine pass only with a clean step.
LEMMA JudgeSearchOwned ==
    ASSUME Typed, Owned, NEW p \in Workers, JudgeSearch(p)
    PROVE  Owned'
  <1> DEFINE r == row[w[p].job]
             c == claim[w[p].job]
             l == IF EnvironmentImpaired(w[p].job, w[p].cur) THEN "fail" ELSE "write"
  <1>1. w[p].pc = "impaired" /\ Goto(p, l) /\ l \in Labels /\ l \in {"fail", "write"}
    BY DEF JudgeSearch, At, Labels
  <1>2. l = "write" /\ w[p].cur.by = "engine" => HasClean(steps[w[p].job])
    BY DEF EnvironmentImpaired, StepsFor, HasClean
  <1> HIDE DEF l
  <1>3. /\ w'[p].pc = l /\ w'[p].job = w[p].job /\ w'[p].cur = w[p].cur
        /\ \A q \in Workers : q # p => w'[q] = w[q]
    BY ZenonT(30), <1>1, GotoType
  <1>4. ClaimOK(w[p], r, c)
    BY <1>1 DEF Owned
  <1> HIDE DEF r, c
  <1>5. r.phase = "done" /\ w[p].cur = r
    BY <1>1, <1>4 DEF ClaimOK
  <1>6. ClaimOK(w'[p], r, c)
    BY <1>1, <1>3, <1>5 DEF ClaimOK, Working
  <1> QED
    BY ZenonT(30), <1>1, <1>2, <1>3, <1>6, OwnedFrame DEF JudgeSearch, store, r, c

\* An error sends a worker that still holds the claim to MarkFailed.
LEMMA FaultsOwned ==
    ASSUME Typed, Owned, NEW p \in Workers, StatementFails(p) \/ Crash(p)
    PROVE  Owned'
  <1>1. UNCHANGED <<row, claim, steps, evidence, profile>>
    BY ZenonT(30) DEF StatementFails, Crash, store
  <1>2. CASE Return(p)
    <2>1. w'[p].pc = "idle" /\ \A q \in Workers : q # p => w'[q] = w[q]
      BY <1>2, ReturnType
    <2> QED BY ZenonT(30), <1>1, <2>1, OwnedFrame
  <1>3. CASE ~Return(p)
    <2> DEFINE r == row[w[p].job]
               c == claim[w[p].job]
    <2>1. /\ Goto(p, "fail")
          /\ w[p].pc \in {"spec", "profile", "deploy", "launch", "trigger",
                          "current", "await", "stop", "abort"}
      BY ZenonT(30), <1>3 DEF StatementFails, Crash
    <2>2. /\ w'[p].pc = "fail" /\ w'[p].job = w[p].job
          /\ \A q \in Workers : q # p => w'[q] = w[q]
      BY ZenonT(30), <2>1, GotoType DEF Labels
    <2>3. ClaimOK(w[p], r, c) /\ w[p].pc # "idle"
      BY <2>1 DEF Owned
    <2> HIDE DEF r, c
    <2>4. Held(r, c)
      BY <2>1, <2>3 DEF ClaimOK, Working
    <2>5. ClaimOK(w'[p], r, c)
      BY <2>2, <2>4 DEF ClaimOK, Working
    <2> QED BY ZenonT(30), <1>1, <2>2, <2>3, <2>5, OwnedFrame DEF r, c
  <1> QED BY <1>2, <1>3

\* Nobody works on a job that can be claimed.
LEMMA ClaimableFree ==
    ASSUME Typed, Owned, NEW j \in Jobs, Claimable(j)
    PROVE  \A q \in Workers : w[q].pc = "idle" \/ w[q].job # j
  <1> SUFFICES ASSUME NEW q \in Workers, w[q].pc # "idle", w[q].job = j PROVE FALSE
    OBVIOUS
  <1>1. ClaimOK(w[q], row[j], claim[j])
    BY DEF Owned
  <1>2. claim[j] # "held" /\ row[j].phase \in Active /\ row[j].phase # "done"
    BY DEF Claimable, Active
  <1>3. ~Held(row[j], claim[j])
    BY <1>2 DEF Held
  <1>4. w[q].pc \notin {"spec", "impaired", "write", "fail"} \cup Working
    BY <1>1, <1>2, <1>3 DEF ClaimOK
  <1>5. w[q].pc \in Labels
    BY DEF Typed, TypeOK, Worker
  <1> QED BY <1>4, <1>5 DEF Labels, Working

\* "exactly one ever claims a given due job".
LEMMA ClaimOwned ==
    ASSUME Typed, Owned, NEW p \in Workers, NEW j \in Jobs, Claim(p, j)
    PROVE  Owned'
  <1> DEFINE v == [Idle EXCEPT !.pc = "spec", !.job = j, !.cur = row[j]]
  <1>1. /\ Claimable(j) /\ row[j] # None /\ row[j].phase \in Active
        /\ claim' = [claim EXCEPT ![j] = "held"]
        /\ UNCHANGED <<row, steps, evidence, profile>>
        /\ w[p].pc = "idle"
    BY DEF Claim, ClaimNextStep, Claimable, At
  <1>2. /\ v.pc = "spec" /\ v.job = j /\ v.cur = row[j]
    BY DEF Idle
  <1>3. w' = [w EXCEPT ![p] = v]
    BY DEF Claim
  <1> HIDE DEF v
  <1>4. w'[p] = v /\ \A q \in Workers : q # p => w'[q] = w[q]
    BY <1>3 DEF Typed, TypeOK
  <1>5. claim'[j] = "held" /\ \A i \in Jobs : i # j => claim'[i] = claim[i]
    BY <1>1 DEF Typed, TypeOK
  <1>6. \A q \in Workers : w[q].pc = "idle" \/ w[q].job # j
    BY <1>1, ClaimableFree
  <1>7. OneController'
    BY SMTT(30), <1>2, <1>4, <1>6 DEF Owned, OneController, At
  <1>8. \A q \in Workers : w'[q].pc # "idle" =>
           ClaimOK(w'[q], row'[w'[q].job], claim'[w'[q].job])
    <2> SUFFICES ASSUME NEW q \in Workers, w'[q].pc # "idle"
                 PROVE  ClaimOK(w'[q], row[w'[q].job], claim'[w'[q].job])
      BY <1>1
    <2>1. CASE q = p
      <3>1. ClaimOK(v, row[j], "held")
        BY <1>1, <1>2 DEF ClaimOK, Held, Working
      <3> QED BY <1>2, <1>4, <1>5, <2>1, <3>1
    <2>2. CASE q # p
      <3>1. w'[q] = w[q] /\ ~At(q, "idle")
        BY <1>4, <2>2 DEF At
      <3>2. w[q].job \in Jobs /\ w[q].job # j
        BY <1>6, <3>1, WorkerFacts DEF At
      <3> QED BY ZenonT(30), <1>5, <3>1, <3>2 DEF Owned, At
    <2> QED BY <2>1, <2>2
  <1>9. \A i \in Jobs : LedgerOK(row'[i], evidence'[i], steps'[i])
    BY <1>1 DEF Owned
  <1>10. \A q \in Workers : w'[q].pc = "write" /\ w'[q].cur.by = "engine" =>
            HasClean(steps'[w'[q].job])
    BY ZenonT(30), <1>1, <1>2, <1>4 DEF Owned
  <1>11. ProfilesOK'
    <2> SUFFICES ASSUME NEW e \in Executions, profile[e] # None
                 PROVE  /\ ProfileOK(profile[e], row[profile[e].job], steps[profile[e].job])
                        /\ \A q \in Workers : w'[q].pc = "idle" \/ w'[q].job # profile[e].job
      BY <1>1 DEF ProfilesOK
    <2>1. /\ ProfileOK(profile[e], row[profile[e].job], steps[profile[e].job])
          /\ \A q \in Workers : w[q].pc = "idle" \/ w[q].job # profile[e].job
      BY ZenonT(30) DEF Owned, ProfilesOK
    <2>2. profile[e].job # j
      BY <1>1, <2>1 DEF ProfileOK, Active
    <2> QED BY ZenonT(30), <1>2, <1>4, <2>1, <2>2
  <1> QED BY <1>7, <1>8, <1>9, <1>10, <1>11 DEF Owned

\* A step is shorter than its lease, so a lapsed claim is an abandoned one.
LEMMA LeaseOwned ==
    ASSUME ~Overrun, Typed, Owned, NEW j \in Jobs, LeaseLapses(j)
    PROVE  Owned'
  <1>1. /\ claim' = [claim EXCEPT ![j] = "lapsed"]
        /\ UNCHANGED <<row, steps, evidence, profile, w>>
        /\ \A q \in Workers : w[q].pc = "idle" \/ w[q].job # j
    BY DEF LeaseLapses, At
  <1>2. \A i \in Jobs : i # j => claim'[i] = claim[i]
    BY <1>1 DEF Typed, TypeOK
  <1>3. \A q \in Workers : w'[q].pc # "idle" =>
           ClaimOK(w'[q], row'[w'[q].job], claim'[w'[q].job])
    <2> SUFFICES ASSUME NEW q \in Workers, w[q].pc # "idle"
                 PROVE  ClaimOK(w[q], row[w[q].job], claim'[w[q].job])
      BY <1>1
    <2>1. w[q].job \in Jobs /\ w[q].job # j
      BY <1>1, WorkerFacts DEF At
    <2> QED BY ZenonT(30), <1>2, <2>1 DEF Owned
  <1>4. OneController' /\ ProfilesOK'
    BY ZenonT(30), <1>1 DEF Owned, OneController, At, ProfilesOK
  <1> QED BY <1>1, <1>3, <1>4 DEF Owned

\* A new row has no steps, and nobody has it yet.
LEMMA TriggerOwned ==
    ASSUME Typed, Owned, NEW j \in Jobs, Trigger(j)
    PROVE  Owned'
  <1>1. /\ row[j] = None /\ row' = [row EXCEPT ![j] = PendingJob]
        /\ UNCHANGED <<claim, steps, evidence, profile, w>>
    BY DEF Trigger, CreateCalibrationJob
  <1>2. row'[j] = PendingJob /\ \A i \in Jobs : i # j => row'[i] = row[i]
    BY <1>1 DEF Typed, TypeOK
  <1>3. \A q \in Workers : w'[q].pc # "idle" =>
           ClaimOK(w'[q], row'[w'[q].job], claim'[w'[q].job])
    <2> SUFFICES ASSUME NEW q \in Workers, w[q].pc # "idle"
                 PROVE  ClaimOK(w[q], row'[w[q].job], claim[w[q].job])
      BY <1>1
    <2>1. w[q].job \in Jobs /\ w[q].job # j
      BY <1>1, WorkerFacts DEF At
    <2> QED BY <1>2, <2>1 DEF Owned
  <1>4. \A i \in Jobs : LedgerOK(row'[i], evidence'[i], steps'[i])
    <2>1. LedgerOK(None, evidence[j], steps[j])
      BY <1>1 DEF Owned
    <2>2. LedgerOK(PendingJob, evidence[j], steps[j])
      BY <2>1, PendingType DEF LedgerOK
    <2> QED BY <1>1, <1>2, <2>2 DEF Owned
  <1>5. OneController'
    BY <1>1 DEF Owned, OneController, At
  <1>6. ProfilesOK'
    <2> SUFFICES ASSUME NEW e \in Executions, profile[e] # None
                 PROVE  ProfileOK(profile[e], row'[profile[e].job], steps[profile[e].job])
      BY ZenonT(30), <1>1 DEF Owned, ProfilesOK
    <2>1. ProfileOK(profile[e], row[profile[e].job], steps[profile[e].job])
      BY ZenonT(30) DEF Owned, ProfilesOK
    <2>2. profile[e].job \in Jobs
      BY DEF Typed, TypeOK, Profile
    <2>3. profile[e].job # j
      BY <1>1, <2>1 DEF ProfileOK
    <2> QED BY <1>2, <2>1, <2>2, <2>3
  <1> QED BY ZenonT(30), <1>1, <1>3, <1>4, <1>5, <1>6 DEF Owned

\* Uploads and reports touch nothing of the ledger.
LEMMA SurroundingsOwned ==
    ASSUME Owned, NEW e \in Executions, EditScenario(e) \/ Settles(e)
    PROVE  Owned'
  <1>1. UNCHANGED <<row, claim, steps, evidence, profile, w>>
    BY DEF EditScenario, Settles, RunSettles, store
  <1> QED BY ZenonT(30), <1>1 DEF Owned, OneController, At, ProfilesOK

\* Nobody else works on a worker's job, and no profile names it yet.
LEMMA JobIsMine ==
    ASSUME Typed, Owned, NEW p \in Workers, w[p].pc # "idle"
    PROVE  /\ \A q \in Workers : q # p /\ w[q].pc # "idle" =>
                 w[q].job \in Jobs /\ w[q].job # w[p].job
           /\ \A e \in Executions : profile[e] # None =>
                 profile[e].job \in Jobs /\ profile[e].job # w[p].job
  <1>1. \A q \in Workers : q # p /\ w[q].pc # "idle" =>
           w[q].job \in Jobs /\ w[q].job # w[p].job
    BY ZenonT(30), WorkerFacts DEF Owned, OneController, At
  <1>2. \A e \in Executions : profile[e] # None => profile[e].job # w[p].job
    BY ZenonT(30) DEF Owned, ProfilesOK
  <1>3. \A e \in Executions : profile[e] # None => profile[e].job \in Jobs
    BY DEF Typed, TypeOK, Profile
  <1> QED BY <1>1, <1>2, <1>3

\* A worker writes its job's row and histories, and nothing of another job.
LEMMA OwnJobWritten ==
    ASSUME Typed, Owned, NEW p \in Workers, w[p].pc # "idle",
           NEW j \in Jobs, j = w[p].job,
           UNCHANGED profile,
           \A i \in Jobs : i # j => /\ row'[i] = row[i] /\ claim'[i] = claim[i]
                                    /\ steps'[i] = steps[i] /\ evidence'[i] = evidence[i],
           \A q \in Workers : q # p => w'[q] = w[q],
           \/ w'[p].pc = "idle"
           \/ /\ w'[p].job = j /\ w'[p].pc \notin {"idle", "write"}
              /\ ClaimOK(w'[p], row'[j], claim'[j]),
           LedgerOK(row'[j], evidence'[j], steps'[j])
    PROVE  Owned'
  <1>1. /\ \A q \in Workers : q # p /\ w[q].pc # "idle" => w[q].job \in Jobs /\ w[q].job # j
        /\ \A e \in Executions : profile[e] # None => profile[e].job \in Jobs /\ profile[e].job # j
    BY ZenonT(30), JobIsMine
  <1>2. OneController'
    BY SMTT(30), <1>1 DEF Owned, OneController, At
  <1>3. ASSUME NEW q \in Workers, w'[q].pc # "idle"
        PROVE  ClaimOK(w'[q], row'[w'[q].job], claim'[w'[q].job])
    <2>1. CASE q = p
      BY <1>3, <2>1
    <2>2. CASE q # p
      BY SMTT(30), <1>1, <1>3, <2>2 DEF Owned
    <2> QED BY ZenonT(30), <2>1, <2>2
  <1>4. \A i \in Jobs : LedgerOK(row'[i], evidence'[i], steps'[i])
    BY ZenonT(30) DEF Owned
  <1>5. ASSUME NEW q \in Workers, w'[q].pc = "write", w'[q].cur.by = "engine"
        PROVE  HasClean(steps'[w'[q].job])
    <2>1. q # p
      BY ZenonT(30), <1>5
    <2> QED BY SMTT(30), <1>1, <1>5, <2>1 DEF Owned
  <1>6. ProfilesOK'
    <2> SUFFICES ASSUME NEW e \in Executions, profile[e] # None
                 PROVE  /\ ProfileOK(profile[e], row'[profile[e].job], steps'[profile[e].job])
                        /\ \A q \in Workers : w'[q].pc = "idle" \/ w'[q].job # profile[e].job
      BY ZenonT(30) DEF ProfilesOK
    <2>1. /\ ProfileOK(profile[e], row[profile[e].job], steps[profile[e].job])
          /\ \A q \in Workers : w[q].pc = "idle" \/ w[q].job # profile[e].job
      BY ZenonT(30) DEF Owned, ProfilesOK
    <2>2. profile[e].job \in Jobs /\ profile[e].job # j
      BY ZenonT(30), <1>1
    <2> QED BY <2>1, <2>2
  <1> QED BY ZenonT(30), <1>2, <1>3, <1>4, <1>5, <1>6 DEF Owned

\* MarkFailed keeps the histories.
LEMMA FailOwned ==
    ASSUME Typed, Owned, NEW p \in Workers, Fail(p)
    PROVE  Owned'
  <1> DEFINE j == w[p].job
             r == [row[j] EXCEPT !.phase = "failed"]
  <1>1. ~At(p, "idle") /\ w[p].pc # "idle" /\ Return(p)
    BY DEF Fail, At
  <1>2. j \in Jobs /\ row[j] # None /\ row[j] \in Job
    BY ZenonT(30), <1>1, WorkerFacts
  <1>3. r \in Job /\ r.phase = "failed"
    BY <1>2 DEF Job, Phases
  <1>4. /\ row' = [row EXCEPT ![j] = r] /\ claim' = [claim EXCEPT ![j] = "free"]
        /\ UNCHANGED <<steps, evidence, profile>>
    BY <1>2 DEF Fail, MarkFailed, Typed, TypeOK
  <1> HIDE DEF r
  <1>5. /\ row'[j] = r
        /\ \A i \in Jobs : i # j => row'[i] = row[i] /\ claim'[i] = claim[i]
    BY <1>2, <1>4 DEF Typed, TypeOK
  <1>6. LedgerOK(row[j], evidence[j], steps[j])
    BY <1>2 DEF Owned
  <1>7. LedgerOK(r, evidence[j], steps[j])
    BY ZenonT(30), <1>3, <1>6, JobAssumption DEF LedgerOK
  <1>8. w'[p].pc = "idle" /\ \A q \in Workers : q # p => w'[q] = w[q]
    BY <1>1, ReturnType
  <1> HIDE DEF j
  <1> QED BY ZenonT(30), <1>1, <1>2, <1>4, <1>5, <1>7, <1>8, OwnJobWritten DEF j

\* A worker between startOrResume and RecordStep carries the decision the history
\* led to.
LEMMA CarriesDecision ==
    ASSUME Typed, Owned, NEW p \in Workers, w[p].pc \in Working
    PROVE  w[p].cur = DecidedBy(evidence[w[p].job])
  <1> DEFINE j == w[p].job
  <1>1. w[p].pc # "idle" /\ ~At(p, "idle")
    BY DEF Working, At
  <1>2. j \in Jobs /\ row[j] # None
    BY ZenonT(30), <1>1, WorkerFacts
  <1>3. ClaimOK(w[p], row[j], claim[j]) /\ LedgerOK(row[j], evidence[j], steps[j])
    BY <1>1, <1>2 DEF Owned
  <1>4. row[j].phase \in Active /\ w[p].cur = StartOrResume(row[j])
    BY ZenonT(30), <1>3 DEF ClaimOK, Held
  <1>5. CASE row[j].phase = "pending"
    BY ZenonT(30), <1>2, <1>3, <1>4, <1>5 DEF LedgerOK, StartOrResume, DecidedBy
  <1>6. CASE row[j].phase # "pending"
    BY ZenonT(30), <1>2, <1>3, <1>4, <1>6 DEF LedgerOK, StartOrResume, Active
  <1> QED BY <1>5, <1>6

\* A recorded step extends both histories, and its decision becomes the row.
LEMMA LedgerExtended ==
    ASSUME NEW ev \in Seq(Evidence), NEW st \in Seq(Step),
           NEW seen \in Evidence, NEW step \in Step, NEW r, LedgerOK(r, ev, st),
           seen.decided # None, Sound(seen.decided),
           seen.decided.loAch = IF step.class = "clean" THEN step.achieved
                                ELSE DecidedBy(ev).loAch
    PROVE  LedgerOK(seen.decided, Append(ev, seen), Append(st, step))
  <1> DEFINE ev2 == Append(ev, seen)
             st2 == Append(st, step)
  <1>1. /\ ev2 \in Seq(Evidence) /\ Len(ev2) = Len(ev) + 1 /\ ev2[Len(ev) + 1] = seen
        /\ Len(ev) \in Nat
    OBVIOUS
  <1>2. /\ st2 \in Seq(Step) /\ Len(st2) = Len(st) + 1 /\ st2[Len(st) + 1] = step
        /\ Len(st) \in Nat
        /\ DOMAIN st2 = 1..Len(st2) /\ DOMAIN st = 1..Len(st)
        /\ \A i \in DOMAIN st : st2[i] = st[i]
    OBVIOUS
  <1> HIDE DEF ev2, st2
  <1>3. ev2 # <<>>
    BY <1>1
  <1>4. DecidedBy(ev2) = seen.decided
    BY <1>1, <1>3 DEF DecidedBy
  <1>5. Len(ev2) = Len(st2)
    BY <1>1, <1>2 DEF LedgerOK
  <1>6. ASSUME HasClean(st2)
        PROVE  \E i \in DOMAIN st2 : /\ st2[i].class = "clean"
                                     /\ st2[i].achieved = seen.decided.loAch
    <2>1. Len(st) + 1 \in DOMAIN st2 /\ \A i \in DOMAIN st : i \in DOMAIN st2
      BY SMTT(30), <1>2
    <2>2. CASE step.class = "clean"
      BY <1>2, <2>1, <2>2
    <2>3. CASE step.class # "clean"
      <3>1. PICK i \in DOMAIN st2 : st2[i].class = "clean"
        BY <1>6 DEF HasClean
      <3>2. i # Len(st) + 1
        BY <1>2, <2>3, <3>1
      <3>3. i \in DOMAIN st
        BY <1>2, <3>2
      <3>4. HasClean(st)
        BY <1>2, <3>1, <3>3 DEF HasClean
      <3>5. PICK k \in DOMAIN st : st[k].class = "clean" /\ st[k].achieved = DecidedBy(ev).loAch
        BY <3>4 DEF LedgerOK
      <3> QED BY <1>2, <2>1, <2>3, <3>5
    <2> QED BY <2>2, <2>3
  <1>7. seen.decided.phase \in {"bracketing", "bisecting", "done"}
    BY DEF Sound
  <1> QED BY ZenonT(30), <1>4, <1>5, <1>6, <1>7 DEF LedgerOK, ev2, st2

\* RecordStep: the one step that extends a job's histories.
LEMMA RecordOwned ==
    ASSUME Typed, Owned, NEW p \in Workers, Record(p)
    PROVE  Owned'
  <1> DEFINE rpt == runs[w[p].run].report
             cur == w[p].cur
             j == w[p].job
             updated == Advance(cur, cur.next, rpt.achieved, rpt.class)
             step == [requested |-> cur.next, achieved |-> rpt.achieved,
                      class |-> rpt.class]
             seen == [rate |-> runs[w[p].run].rate, print |-> runs[w[p].run].print,
                      decided |-> updated]
  <1>1. At(p, "record") /\ w[p].pc = "record" /\ w[p].pc # "idle" /\ w[p].pc \in Working
    BY ZenonT(30) DEF Record, At, Working
  <1>2. /\ j \in Jobs /\ row[j] # None /\ runs[w[p].run] \in Run
        /\ rpt.achieved \in Nat /\ rpt.class \in Classifications
        /\ cur.next \in Nat /\ Sound(updated) /\ updated \in Job
        /\ updated.loAch = IF rpt.class = "clean" THEN rpt.achieved ELSE cur.loAch
    BY ZenonT(30), <1>1, RecordFacts
  <1>3. step \in Step /\ step.class = rpt.class /\ step.achieved = rpt.achieved
    BY ZenonT(30), <1>2 DEF Step
  <1>4. seen \in Evidence /\ seen.decided = updated
    <2> HIDE DEF updated
    <2> QED BY ZenonT(30), <1>2 DEF Evidence, Run
  <1>5. /\ steps' = [steps EXCEPT ![j] = Append(@, step)]
        /\ row' = [row EXCEPT ![j] = updated]
        /\ claim' = [claim EXCEPT ![j] = "free"]
        /\ evidence' = [evidence EXCEPT ![j] = Append(@, seen)]
        /\ UNCHANGED profile
    BY ZenonT(30) DEF Record, RecordStep, fleet
  <1>6. \/ Return(p)
        \/ /\ updated.phase = "done"
           /\ w' = [w EXCEPT ![p].pc = "impaired", ![p].cur = updated]
    BY ZenonT(30) DEF Record
  <1> HIDE DEF step, seen, updated, rpt, cur
  <1>7. /\ steps'[j] = Append(steps[j], step) /\ row'[j] = updated
        /\ evidence'[j] = Append(evidence[j], seen)
    BY ZenonT(30), <1>2, <1>5 DEF Typed, TypeOK
  <1>8. \A i \in Jobs : i # j => /\ row'[i] = row[i] /\ claim'[i] = claim[i]
                                 /\ steps'[i] = steps[i] /\ evidence'[i] = evidence[i]
    BY <1>5 DEF Typed, TypeOK
  <1>9. cur.loAch = DecidedBy(evidence[j]).loAch
    BY <1>1, CarriesDecision DEF cur
  <1>10. LedgerOK(row'[j], evidence'[j], steps'[j])
    <2>1. /\ LedgerOK(row[j], evidence[j], steps[j])
          /\ evidence[j] \in Seq(Evidence) /\ steps[j] \in Seq(Step)
      BY ZenonT(30), <1>2 DEF Owned, Typed, TypeOK
    <2>2. updated # None
      BY <1>2, JobAssumption
    <2> QED BY ZenonT(30), <1>2, <1>3, <1>4, <1>7, <1>9, <2>1, <2>2, LedgerExtended
  <1>11. \A q \in Workers : q # p => w'[q] = w[q]
    BY <1>6, ReturnType DEF Typed, TypeOK
  <1>12. \/ w'[p].pc = "idle"
         \/ /\ w'[p].job = j /\ w'[p].pc \notin {"idle", "write"}
            /\ ClaimOK(w'[p], row'[j], claim'[j])
    <2>1. CASE Return(p)
      BY ZenonT(30), <2>1, ReturnType
    <2>2. CASE /\ updated.phase = "done"
               /\ w' = [w EXCEPT ![p].pc = "impaired", ![p].cur = updated]
      <3>1. w'[p].pc = "impaired" /\ w'[p].cur = updated /\ w'[p].job = j
        BY <2>2 DEF Typed, TypeOK, Worker
      <3> QED BY <1>7, <2>2, <3>1 DEF ClaimOK, Working
    <2> QED BY <1>6, <2>1, <2>2
  <1> HIDE DEF j
  <1> QED BY ZenonT(30), <1>1, <1>2, <1>5, <1>8, <1>10, <1>11, <1>12, OwnJobWritten DEF j

\* writeProfile: the worker's last statement on the job.
LEMMA WriteProfileOwned ==
    ASSUME Typed, Owned, NEW p \in Workers, WriteProfile(p)
    PROVE  Owned'
  <1> DEFINE j == w[p].job
             new == [job |-> j, by |-> w[p].cur.by, perPod |-> w[p].cur.perPod,
                     print |-> content[Exec(p)]]
  <1>1. w[p].pc = "write" /\ w[p].pc # "idle" /\ ~At(p, "idle") /\ Return(p)
    BY ZenonT(30) DEF WriteProfile, At
  <1>2. j \in Jobs /\ row[j] # None /\ Exec(p) \in Executions
    BY ZenonT(30), <1>1, WorkerFacts
  <1>3. /\ profile' = [profile EXCEPT ![Exec(p)] = new]
        /\ UNCHANGED <<row, claim, steps, evidence>>
    BY DEF WriteProfile, UpsertCapacityProfile, store
  <1>4. w'[p].pc = "idle" /\ \A q \in Workers : q # p => w'[q] = w[q]
    BY <1>1, ReturnType
  <1>5. ProfileOK(new, row[j], steps[j])
    <2>1. row[j].phase = "done" /\ w[p].cur = row[j]
      BY ZenonT(30), <1>1 DEF Owned, ClaimOK
    <2>2. w[p].cur.by = "engine" => HasClean(steps[j])
      BY <1>1 DEF Owned
    <2> QED BY ZenonT(30), <1>2, <2>1, <2>2 DEF ProfileOK
  <1>6. new.job = j
    OBVIOUS
  <1> HIDE DEF new
  <1>7. \A q \in Workers : w'[q].pc = "idle" \/ w'[q].job # j
    BY <1>1, <1>4, JobIsMine
  <1>8. ProfilesOK'
    <2> SUFFICES ASSUME NEW e \in Executions, profile'[e] # None
                 PROVE  /\ ProfileOK(profile'[e], row[profile'[e].job], steps[profile'[e].job])
                        /\ \A q \in Workers : w'[q].pc = "idle" \/ w'[q].job # profile'[e].job
      BY ZenonT(30), <1>3 DEF ProfilesOK
    <2>1. CASE e = Exec(p)
      <3>1. profile'[e] = new
        BY <1>3, <2>1 DEF Typed, TypeOK
      <3> QED BY <1>5, <1>6, <1>7, <3>1
    <2>2. CASE e # Exec(p)
      <3>1. profile'[e] = profile[e]
        BY <1>3, <2>2 DEF Typed, TypeOK
      <3>2. /\ ProfileOK(profile[e], row[profile[e].job], steps[profile[e].job])
            /\ \A q \in Workers : w[q].pc = "idle" \/ w[q].job # profile[e].job
        BY ZenonT(30), <3>1 DEF Owned, ProfilesOK
      <3> QED BY <1>4, <3>1, <3>2
    <2> QED BY ZenonT(30), <2>1, <2>2
  <1>9. OneController'
    BY <1>4 DEF Owned, OneController, At
  <1> QED BY ZenonT(30), <1>3, <1>4, <1>8, <1>9 DEF Owned

LEMMA OwnedInit == Init => Owned
  <1> SUFFICES ASSUME Init PROVE Owned
    OBVIOUS
  <1>1. \A p \in Workers : w[p].pc = "idle"
    BY DEF Init, Idle
  <1>2. \A e \in Executions : profile[e] = None
    BY DEF Init
  <1>3. \A j \in Jobs : row[j] = None /\ evidence[j] = <<>> /\ steps[j] = <<>>
    BY DEF Init
  <1>4. LedgerOK(None, <<>>, <<>>)
    BY StartSound DEF LedgerOK, DecidedBy, HasClean
  <1>5. \A j \in Jobs : LedgerOK(row[j], evidence[j], steps[j])
    BY <1>3, <1>4
  <1> QED BY ZenonT(30), <1>1, <1>2, <1>5 DEF Owned, OneController, ProfilesOK, At

LEMMA OwnedStep ==
    ASSUME ~Overrun, Typed, Owned, [Next]_vars
    PROVE  Owned'
  <1>1. CASE UNCHANGED vars
    BY ZenonT(30), <1>1 DEF vars, Owned, OneController, ProfilesOK, At
  <1>2. ASSUME NEW p \in Workers, Advances(p)
        PROVE  Owned'
    BY <1>2, ClaimOwned, ReadSpecOwned, WorkOwned, RecordOwned, JudgeSearchOwned,
       WriteProfileOwned, FailOwned
       DEF Advances, WorkStep
  <1> QED
    BY <1>1, <1>2, TriggerOwned, LeaseOwned, SurroundingsOwned, FaultsOwned DEF Next

\* ClaimNextStep "exactly one ever claims a given due job": as long as no step
\* outlives its claim's lease, no two controllers work on one job, whatever
\* crashes, failed statements and reclaims happen.
THEOREM ClaimsExclude ==
    ASSUME ~Overrun
    PROVE  Spec => []OneController
  <1>1. Typed /\ Owned => OneController
    BY ZenonT(30) DEF Owned
  <1>2. Init => Typed /\ Owned
    BY TypedInit, OwnedInit
  <1>3. Typed /\ Owned /\ [Next]_vars => Typed' /\ Owned'
    BY TypedStep, OwnedStep
  <1> QED BY <1>1, <1>2, <1>3, PTL DEF Spec

\* The engines FanOut answers carry the target, and one fewer does not.
LEMMA CeilingDivides ==
    ASSUME NEW t \in Nat, NEW d \in Nat, d > 0
    PROVE  LET n == (t + d - 1) \div d
           IN  n * d >= t /\ (n - 1) * d < t
  <1> DEFINE n == (t + d - 1) \div d
             r == (t + d - 1) % d
  <1>1. t + d - 1 \in Nat
    OBVIOUS
  <1>2. n \in Nat /\ r \in 0..(d - 1) /\ t + d - 1 = d * n + r
    BY <1>1
  <1> HIDE DEF n, r
  <1>3. n * d = d * n /\ (n - 1) * d = d * n - d
    BY <1>2
  <1>4. d * n \in Nat
    BY <1>2
  <1>5. n * d >= t /\ (n - 1) * d < t
    BY <1>2, <1>3, <1>4
  <1> QED BY <1>5 DEF n

\* A profile that blames the engine reports the throughput of a clean step.
LEMMA ProfileMeasured ==
    ASSUME Typed, Owned, NEW e \in Executions, profile[e] # None,
           profile[e].by = "engine"
    PROVE  LET st == steps[profile[e].job]
           IN  \E i \in DOMAIN st : st[i].class = "clean" /\ st[i].achieved = profile[e].perPod
  <1> DEFINE j == profile[e].job
  <1>1. j \in Jobs
    BY ZenonT(30) DEF Typed, TypeOK, Profile
  <1>2. ProfileOK(profile[e], row[j], steps[j]) /\ LedgerOK(row[j], evidence[j], steps[j])
    BY ZenonT(30), <1>1 DEF Owned, ProfilesOK
  <1>3. /\ row[j] # None /\ row[j].phase = "done" /\ row[j].by = "engine"
        /\ row[j].perPod = profile[e].perPod /\ HasClean(steps[j])
    BY <1>2 DEF ProfileOK
  <1>4. row[j] = DecidedBy(evidence[j]) /\ Sound(DecidedBy(evidence[j]))
    BY ZenonT(30), <1>2, <1>3 DEF LedgerOK
  <1>5. DecidedBy(evidence[j]).loAch = profile[e].perPod
    BY <1>3, <1>4 DEF Sound
  <1> QED BY ZenonT(30), <1>2, <1>3, <1>5 DEF LedgerOK

\* A profile is that of a search that gave its verdict.
LEMMA ProfileVerdict ==
    ASSUME Typed, Owned, NEW e \in Executions, profile[e] # None
    PROVE  profile[e].by # "none"
  <1> DEFINE j == profile[e].job
  <1>1. j \in Jobs
    BY DEF Typed, TypeOK, Profile
  <1>2. ProfileOK(profile[e], row[j], steps[j]) /\ LedgerOK(row[j], evidence[j], steps[j])
    BY ZenonT(30), <1>1 DEF Owned, ProfilesOK
  <1>3. row[j] # None /\ row[j].phase = "done" /\ row[j].by = profile[e].by
    BY <1>2 DEF ProfileOK
  <1>4. row[j] = DecidedBy(evidence[j]) /\ Sound(DecidedBy(evidence[j]))
    BY <1>2, <1>3 DEF LedgerOK
  <1> QED BY ZenonT(30), <1>3, <1>4 DEF Sound

LEMMA OwnedTrusted ==
    ASSUME Typed, Owned
    PROVE  ProfileTrusted
  <1>1. ProfileEarned
    BY ZenonT(30) DEF Owned, ProfilesOK, ProfileOK, HasClean, ProfileEarned
  <1>2. ASSUME NEW e \in Executions, NEW target \in 1..MaxQPS,
               FanOut(profile[e], target, content[e]).status = "ok"
        PROVE  LET answer == FanOut(profile[e], target, content[e])
                   p == profile[e]
               IN  /\ answer.engines * p.perPod >= target
                   /\ (answer.engines - 1) * p.perPod < target
                   /\ \E i \in DOMAIN steps[p.job] :
                         /\ steps[p.job][i].class = "clean"
                         /\ steps[p.job][i].achieved = p.perPod
    <2>1. profile[e] # None
      BY <1>2 DEF FanOut
    <2>2. profile[e] \in Profile /\ profile[e].perPod \in Nat /\ profile[e].by \in Verdicts
      BY <2>1 DEF Typed, TypeOK, Profile
    <2>3. profile[e].print = content[e] /\ profile[e].by \notin {"target", "neither"}
      BY <1>2, <2>1 DEF FanOut
    <2>4. profile[e].by = "engine"
      <3>1. profile[e].by # "none"
        BY <2>1, ProfileVerdict
      <3> QED BY <2>2, <2>3, <3>1 DEF Verdicts
    <2>5. /\ profile[e].perPod # 0
          /\ FanOut(profile[e], target, content[e]).engines =
                (target + profile[e].perPod - 1) \div profile[e].perPod
      BY <1>2, <2>1, <2>3, <2>4 DEF FanOut
    <2>6. target \in Nat
      BY SpecValid
    <2> QED BY SMTT(30), <2>1, <2>2, <2>4, <2>5, <2>6, CeilingDivides, ProfileMeasured
  <1>3. FanOutBacked
    BY <1>2 DEF FanOutBacked
  <1> QED BY <1>1, <1>3 DEF ProfileTrusted

\* writeProfile and FanOut: a stored profile is what a finished search found, one
\* that blames the engine rests on a clean step, and the engines answered for a
\* target are the fewest that carry it at the throughput that step measured.
THEOREM ProfilesAreEarned ==
    ASSUME ~Overrun
    PROVE  Spec => []ProfileTrusted
  <1>1. Typed /\ Owned => ProfileTrusted
    BY OwnedTrusted
  <1>2. Init => Typed /\ Owned
    BY TypedInit, OwnedInit
  <1>3. Typed /\ Owned /\ [Next]_vars => Typed' /\ Owned'
    BY TypedStep, OwnedStep
  <1> QED BY <1>1, <1>2, <1>3, PTL DEF Spec

----------------------------------------------------------------------------
(* Every job goes through one search.                                      *)

\* What a job shows of its search is what its recorded history led to.
LEMMA ShownDecided ==
    ASSUME Typed, Owned, NEW j \in Jobs
    PROVE  Shown(j) = DecidedBy(evidence[j])
  <1>1. LedgerOK(row[j], evidence[j], steps[j])
    BY DEF Owned
  <1>2. CASE row[j] = None \/ row[j] = PendingJob
    <2>1. PendingJob # None => PendingJob.phase = "pending"
      BY DEF PendingJob
    <2>2. evidence[j] = <<>>
      BY <1>1, <1>2, <2>1 DEF LedgerOK
    <2> QED BY <1>2, <2>2 DEF Shown, DecidedBy
  <1>3. CASE ~(row[j] = None \/ row[j] = PendingJob)
    <2>1. row[j] \in Job /\ row[j].phase \in Phases
      BY <1>3 DEF Typed, TypeOK, Job
    <2>2. row[j].phase # "pending"
      BY <1>1, <1>3 DEF LedgerOK
    <2>3. CASE row[j].phase = "failed"
      BY <1>3, <2>3 DEF Shown, Decided, DecidedBy
    <2>4. CASE row[j].phase # "failed"
      <3>1. row[j] = DecidedBy(evidence[j])
        BY <1>1, <1>3, <2>1, <2>2, <2>4 DEF LedgerOK, Phases
      <3> QED BY <1>3, <2>4, <3>1 DEF Shown
    <2> QED BY <2>3, <2>4
  <1> QED BY <1>2, <1>3

\* Only RecordStep writes a history.
LEMMA HistoriesWritten ==
    ASSUME Typed, [Next]_vars
    PROVE  UNCHANGED <<steps, evidence>> \/ \E p \in Workers : Record(p)
  <1>1. ASSUME NEW p \in Workers, WorkStep(p)
        PROVE  UNCHANGED <<steps, evidence>>
    BY <1>1, WorkSteps
  <1>2. ASSUME NEW p \in Workers, NEW j \in Jobs, Claim(p, j)
        PROVE  UNCHANGED <<steps, evidence>>
    BY <1>2 DEF Claim, ClaimNextStep
  <1>3. ASSUME NEW p \in Workers,
               ReadSpec(p) \/ JudgeSearch(p) \/ WriteProfile(p) \/ Fail(p)
        PROVE  UNCHANGED <<steps, evidence>>
    BY <1>3 DEF ReadSpec, JudgeSearch, WriteProfile, Fail, MarkFailed, store
  <1>4. ASSUME NEW p \in Workers, StatementFails(p) \/ Crash(p)
        PROVE  UNCHANGED <<steps, evidence>>
    BY <1>4 DEF StatementFails, Crash, store
  <1>5. ASSUME NEW j \in Jobs, Trigger(j) \/ LeaseLapses(j)
        PROVE  UNCHANGED <<steps, evidence>>
    BY <1>5 DEF Trigger, LeaseLapses, CreateCalibrationJob
  <1>6. ASSUME NEW e \in Executions, EditScenario(e) \/ Settles(e)
        PROVE  UNCHANGED <<steps, evidence>>
    BY <1>6 DEF EditScenario, Settles, RunSettles, store
  <1> QED
    BY <1>1, <1>2, <1>3, <1>4, <1>5, <1>6 DEF Next, Advances, WorkStep, vars

\* What is appended is the last element.
LEMMA AppendEnds ==
    ASSUME NEW S, NEW s \in Seq(S), NEW x \in S
    PROVE  Append(s, x) # <<>> /\ Append(s, x)[Len(Append(s, x))] = x
  OBVIOUS

\* RecordStep is a step of its job's search, from the state the job shows.
LEMMA RecordSearches ==
    ASSUME Typed, Owned, NEW p \in Workers, Record(p), NEW j \in Jobs, j = w[p].job,
           Shown(j) = DecidedBy(evidence[j]), Shown(j)' = DecidedBy(evidence'[j])
    PROVE  Search(j)!Next
  <1> DEFINE rpt == runs[w[p].run].report
             cur == w[p].cur
             updated == Advance(cur, cur.next, rpt.achieved, rpt.class)
             step == [requested |-> cur.next, achieved |-> rpt.achieved,
                      class |-> rpt.class]
             seen == [rate |-> runs[w[p].run].rate, print |-> runs[w[p].run].print,
                      decided |-> updated]
  <1>1. At(p, "record") /\ w[p].pc \in Working
    BY DEF Record, At, Working
  <1>2. /\ runs[w[p].run] \in Run
        /\ rpt.achieved \in Achieved /\ rpt.class \in Classifications
        /\ Unfinished(cur) /\ updated \in Job
    BY <1>1, RecordFacts
  <1>3. cur = Shown(j)
    BY <1>1, CarriesDecision
  <1>4. /\ steps' = [steps EXCEPT ![j] = Append(@, step)]
        /\ evidence' = [evidence EXCEPT ![j] = Append(@, seen)]
    BY DEF Record, RecordStep
  <1>5. seen \in Evidence /\ seen.decided = updated
    <2> HIDE DEF updated
    <2> QED BY <1>2 DEF Evidence, Run
  <1> HIDE DEF seen, step, updated, rpt, cur
  <1>6. /\ steps'[j] = Append(steps[j], step)
        /\ evidence'[j] = Append(evidence[j], seen)
    BY <1>4 DEF Typed, TypeOK
  <1>7. Shown(j)' = updated
    <2>1. evidence[j] \in Seq(Evidence)
      BY DEF Typed, TypeOK
    <2>2. evidence'[j] # <<>> /\ evidence'[j][Len(evidence'[j])] = seen
      <3>1. /\ Append(evidence[j], seen) # <<>>
            /\ Append(evidence[j], seen)[Len(Append(evidence[j], seen))] = seen
        BY SMTT(30), <1>5, <2>1, AppendEnds
      <3> QED BY <1>6, <3>1
    <2> QED BY <1>5, <2>2 DEF DecidedBy
  <1>8. Shown(j).phase \in {"bracketing", "bisecting"}
    BY <1>2, <1>3 DEF Unfinished, Sound
  <1>9. /\ Shown(j)' = Advance(Shown(j), Shown(j).next, rpt.achieved, rpt.class)
        /\ steps'[j] = Append(steps[j], [requested |-> Shown(j).next,
                                         achieved |-> rpt.achieved, class |-> rpt.class])
    BY <1>3, <1>6, <1>7 DEF updated, step
  <1>10. /\ Search(j)!Advance(Shown(j), Shown(j).next, rpt.achieved, rpt.class)
              = Advance(Shown(j), Shown(j).next, rpt.achieved, rpt.class)
         /\ Search(j)!Classifications = Classifications
    BY DEF Advance, DoubleOrFinish, BisectOrFinish, Finish, Classifications,
           Search!Advance, Search!DoubleOrFinish, Search!BisectOrFinish,
           Search!Finish, Search!Classifications
  <1>11. Search(j)!RunStep(rpt.achieved, rpt.class)
    BY <1>8, <1>9, <1>10 DEF Search!RunStep, Search!Active
  <1> QED BY <1>2, <1>10, <1>11 DEF Search!Next

LEMMA SearchesStep ==
    ASSUME Typed, Owned, Typed', Owned', [Next]_vars, NEW j \in Jobs
    PROVE  [Search(j)!Next]_(Search(j)!vars)
  <1>1. Shown(j) = DecidedBy(evidence[j])
    BY ShownDecided
  <1>2. Shown(j)' = DecidedBy(evidence'[j])
    <2>1. (Typed /\ Owned => Shown(j) = DecidedBy(evidence[j]))'
      BY ShownDecided, PTL
    <2> QED BY <2>1 DEF DecidedBy
  <1>3. CASE steps'[j] = steps[j] /\ evidence'[j] = evidence[j]
    <2>1. Shown(j)' = Shown(j)
      BY <1>1, <1>2, <1>3
    <2> QED BY <1>3, <2>1 DEF Search!vars
  <1>4. ASSUME NEW p \in Workers, Record(p)
        PROVE  [Search(j)!Next]_(Search(j)!vars)
    <2>1. CASE j = w[p].job
      BY <1>1, <1>2, <1>4, <2>1, RecordSearches
    <2>2. CASE j # w[p].job
      <3>1. steps'[j] = steps[j] /\ evidence'[j] = evidence[j]
        BY <1>4, <2>2 DEF Record, RecordStep, Typed, TypeOK
      <3> QED BY <1>3, <3>1
    <2> QED BY <2>1, <2>2
  <1> QED BY <1>3, <1>4, HistoriesWritten

\* startOrResume and RecordStep: however many controllers claim, crash and reclaim
\* a job, as long as no step outlives its lease, its row and its history go through
\* one run of the search, step by step.
THEOREM JobRefinesSearch ==
    ASSUME ~Overrun
    PROVE  Spec => SearchImplemented
  <1> DEFINE Inv == Typed /\ Owned
             Steps == \A j \in Jobs : [Search(j)!Next]_(Search(j)!vars)
  <1>1. Init => \A j \in Jobs : Search(j)!Init
    <2> SUFFICES ASSUME Init, NEW j \in Jobs PROVE Search(j)!Init
      OBVIOUS
    <2>1. Shown(j) = Start /\ steps[j] = <<>>
      BY DEF Init, Shown
    <2>2. Search(j)!Start = Start
      BY DEF Start, PendingJob, Search!Start, Search!PendingJob
    <2> QED BY <2>1, <2>2 DEF Search!Init
  <1>2. Init => Inv
    BY TypedInit, OwnedInit
  <1>3. Inv /\ [Next]_vars => Inv'
    BY TypedStep, OwnedStep
  <1>4. Inv /\ Inv' /\ [Next]_vars => [Steps]_vars
    BY SearchesStep
  <1> HIDE DEF Inv
  <1> QED BY <1>1, <1>2, <1>3, <1>4, PTL DEF Spec, SearchImplemented

----------------------------------------------------------------------------
(* What a recorded step was measured from.                                 *)

\* Trigger does not keep two jobs from sharing an execution; where they do, the
\* one redeploys under the other's step.
OwnExecutions == \A i, j \in Jobs : ExecutionOf[i] = ExecutionOf[j] => i = j

\* The rate the next step of the job with row r is to be run at.
RateFor(r) == CeilRate(StartOrResume(r).next)

\* The open runs rn have no report yet, and no two executions share one.
OpenOK(rn, rs) ==
    /\ \A e \in Executions : rn[e] # 0 => rs[rn[e]].report = None
    /\ \A e, f \in Executions : e # f /\ rn[e] # 0 => rn[e] # rn[f]

\* While the job with row r is active, engines that run, and the open run n they
\* feed, have the rate its next step is to be run at.
FleetFits(r, pd, n, rs) ==
    /\ r = None => pd.engine # "running"
    /\ r # None /\ r.phase \in Active /\ pd.engine = "running" =>
          /\ pd.rate = RateFor(r)
          /\ n # 0 => rs[n].rate = RateFor(r)

\* The run a worker v waits for is its execution's, and a report of it measures
\* the rate the search asked for.
AwaitFits(v, r, e, pd, rn, rs) ==
    /\ \A f \in Executions : rn[f] = v.run => f = e
    /\ rn[e] = v.run \/ pd.engine # "running"
    /\ rs[v.run].report # None => rs[v.run].rate = RateFor(r)

\* A run before run b fell short at rate q.
ShortBefore(rs, q, b) ==
    \E k \in 1..Len(rs) : /\ k < b
                          /\ rs[k].report # None
                          /\ rs[k].report.class = "engine_saturated"
                          /\ rs[k].rate = q

\* The run a worker v is in, given its execution's open run n.
InRun(v, n, rs) ==
    IF v.pc \in Waiting THEN v.run
    ELSE IF v.pc = "current" /\ n # 0 THEN n
    ELSE Len(rs) + 1

\* A worker v on the job with row r and on execution e, whose stored load is ld.
StepFits(v, r, ld, e, pd, rn, rs) ==
    /\ v.pc = "spec" => v.attempt = 1
    /\ v.pc = "deploy" => ld = RateFor(r)
    /\ v.pc = "launch" => v.rate = RateFor(r)
    /\ v.pc \in {"launch", "trigger"} => rn[e] = 0
    /\ v.pc \in Waiting => AwaitFits(v, r, e, pd, rn, rs)
    /\ v.pc \in Working \ {"abort"} /\ v.attempt = 2 =>
          ShortBefore(rs, RateFor(r), InRun(v, rn[e], rs))
    /\ v.pc = "record" /\ rs[v.run].report.class = "engine_saturated" => v.attempt = 2

FleetsFit ==
    \A j \in Jobs : LET e == ExecutionOf[j] IN FleetFits(row[j], pods[e], run[e], runs)

StepsFit ==
    \A p \in Workers : w[p].pc # "idle" =>
        LET e == ExecutionOf[w[p].job]
        IN  StepFits(w[p], row[w[p].job], load[e], e, pods[e], run, runs)

Measured == OpenOK(run, runs) /\ FleetsFit /\ StepsFit /\ StepMeasured

\* A worker that is not between startOrResume and RecordStep measures nothing.
LEMMA NotWorkingFits ==
    ASSUME NEW v, v.pc \notin Working \cup {"spec"}, NEW r, NEW ld, NEW e, NEW pd, NEW rn, NEW rs
    PROVE  StepFits(v, r, ld, e, pd, rn, rs)
  BY DEF StepFits, Working, Waiting

\* Runs are only ever added.
Extends(rs2, rs) ==
    /\ Len(rs) <= Len(rs2) /\ Len(rs2) \in Nat
    /\ \A k \in 1..Len(rs) : rs2[k] = rs[k]

LEMMA ShortStays ==
    ASSUME NEW rs \in Seq(Run), NEW rs2, Extends(rs2, rs), NEW q,
           NEW b \in Nat, NEW c \in Nat, b <= c, ShortBefore(rs, q, b)
    PROVE  ShortBefore(rs2, q, c)
  <1>1. Len(rs) \in Nat
    OBVIOUS
  <1>2. PICK k \in 1..Len(rs) : /\ k < b
                                /\ rs[k].report # None
                                /\ rs[k].report.class = "engine_saturated"
                                /\ rs[k].rate = q
    BY DEF ShortBefore
  <1>3. k \in 1..Len(rs2) /\ k < c /\ rs2[k] = rs[k]
    BY <1>1, <1>2 DEF Extends
  <1> QED BY <1>2, <1>3 DEF ShortBefore

\* Another execution's runs, opened or closed, are none of a worker's business.
LEMMA OthersFit ==
    ASSUME NEW v \in Worker, v.pc \in Waiting => v.run \in 1..Len(runs),
           NEW r, NEW ld, NEW pd, NEW e \in Executions, NEW f \in Executions, e # f,
           runs \in Seq(Run), run \in [Executions -> 0..Len(runs)],
           NEW rs, Extends(rs, runs), NEW n \in {0, run[f], Len(runs) + 1},
           NEW rn, rn = [run EXCEPT ![f] = n],
           StepFits(v, r, ld, e, pd, run, runs)
    PROVE  StepFits(v, r, ld, e, pd, rn, rs)
  <1>1. Len(runs) \in Nat
    OBVIOUS
  <1>2. rn[e] = run[e] /\ rn[f] = n /\ \A g \in Executions : g # f => rn[g] = run[g]
    OBVIOUS
  <1>3. v.pc \in Waiting => v.run \in 1..Len(runs) /\ rs[v.run] = runs[v.run]
    BY <1>1 DEF Extends
  <1>4. ASSUME v.pc \in Waiting
        PROVE  AwaitFits(v, r, e, pd, rn, rs)
    <2>1. AwaitFits(v, r, e, pd, run, runs)
      BY <1>4 DEF StepFits
    <2>2. n # v.run
      BY SMTT(30), <1>1, <1>3, <1>4, <2>1 DEF AwaitFits
    <2> QED BY <1>2, <1>3, <1>4, <2>1, <2>2 DEF AwaitFits
  <1>5. ASSUME v.pc \in Working \ {"abort"}, v.attempt = 2
        PROVE  ShortBefore(rs, RateFor(r), InRun(v, rn[e], rs))
    <2>1. ShortBefore(runs, RateFor(r), InRun(v, run[e], runs))
      BY <1>5 DEF StepFits
    <2>2. /\ InRun(v, run[e], runs) \in Nat /\ InRun(v, rn[e], rs) \in Nat
          /\ InRun(v, run[e], runs) <= InRun(v, rn[e], rs)
      BY <1>1, <1>2, <1>3 DEF InRun, Extends
    <2> QED BY SMTT(30), <2>1, <2>2, ShortStays
  <1>6. v.pc = "record" /\ rs[v.run].report.class = "engine_saturated" => v.attempt = 2
    BY <1>3 DEF StepFits, Waiting
  <1> QED BY <1>2, <1>4, <1>5, <1>6 DEF StepFits

\* Two workers' jobs have executions of their own.
LEMMA OthersElsewhere ==
    ASSUME OwnExecutions, Typed, Owned, NEW p \in Workers, w[p].pc # "idle"
    PROVE  \A q \in Workers : q # p /\ w[q].pc # "idle" =>
              /\ w[q].job \in Jobs /\ w[q].job # w[p].job
              /\ ExecutionOf[w[q].job] \in Executions
              /\ ExecutionOf[w[q].job] # ExecutionOf[w[p].job]
  <1>1. w[p].job \in Jobs
    BY WorkerFacts DEF At
  <1> QED BY <1>1, JobIsMine, JobAssumption DEF OwnExecutions

\* A worker's step on its own execution: what is to be shown of it alone.
LEMMA FleetFrame ==
    ASSUME OwnExecutions, Typed, Owned, Measured,
           NEW p \in Workers, w[p].pc # "idle",
           NEW j \in Jobs, j = w[p].job, NEW e \in Executions, e = ExecutionOf[j],
           UNCHANGED <<row, steps, evidence>>,
           \A q \in Workers : q # p => w'[q] = w[q],
           \A f \in Executions : f # e => pods'[f] = pods[f] /\ load'[f] = load[f],
           NEW n \in {0, run[e], Len(runs) + 1}, run' = [run EXCEPT ![e] = n],
           Extends(runs', runs), OpenOK(run', runs'),
           FleetFits(row[j], pods'[e], n, runs'),
           \/ w'[p].pc = "idle"
           \/ w'[p].job = j /\ StepFits(w'[p], row[j], load'[e], e, pods'[e], run', runs')
    PROVE  Measured'
  <1>1. runs \in Seq(Run) /\ run \in [Executions -> 0..Len(runs)] /\ Len(runs) \in Nat
    BY SMTT(30) DEF Typed, TypeOK
  <1>2. run'[e] = n /\ \A f \in Executions : f # e => run'[f] = run[f]
    BY <1>1
  <1>others. \A q \in Workers : q # p /\ w[q].pc # "idle" =>
                /\ ExecutionOf[w[q].job] \in Executions
                /\ ExecutionOf[w[q].job] # e
    BY ZenonT(30), OthersElsewhere
  <1>3. FleetsFit'
    <2> SUFFICES ASSUME NEW i \in Jobs, NEW f, f = ExecutionOf[i]
                 PROVE  FleetFits(row[i], pods'[f], run'[f], runs')
      BY DEF FleetsFit
    <2>1. CASE i = j
      BY <1>2, <2>1
    <2>2. CASE i # j
      <3>1. f \in Executions /\ f # e
        BY <2>2, JobAssumption DEF OwnExecutions
      <3>2. FleetFits(row[i], pods[f], run[f], runs)
        BY DEF Measured, FleetsFit
      <3>3. run[f] # 0 => runs'[run[f]] = runs[run[f]]
        BY SMTT(30), <1>1, <3>1 DEF Extends
      <3> QED BY <1>2, <3>1, <3>2, <3>3 DEF FleetFits
    <2> QED BY <2>1, <2>2
  <1>4. StepsFit'
    <2> SUFFICES ASSUME NEW q \in Workers, w'[q].pc # "idle",
                        NEW f, f = ExecutionOf[w'[q].job]
                 PROVE  StepFits(w'[q], row[w'[q].job], load'[f], f, pods'[f], run', runs')
      BY DEF StepsFit
    <2>1. CASE q = p
      BY <2>1
    <2>2. CASE q # p
      <3>1. w'[q] = w[q] /\ w[q].pc # "idle"
        BY <2>2
      <3>2. f \in Executions /\ f # e
        BY ZenonT(30), <1>others, <2>2, <3>1
      <3>3. StepFits(w[q], row[w[q].job], load[f], f, pods[f], run, runs)
        BY <3>1 DEF Measured, StepsFit
      <3>4. w[q] \in Worker /\ (w[q].pc \in Waiting => w[q].run \in 1..Len(runs))
        BY <3>1, WorkerFacts DEF WorkerOK, At
      <3>5. StepFits(w[q], row[w[q].job], load[f], f, pods[f], run', runs')
        BY <1>1, <3>2, <3>3, <3>4, OthersFit
      <3> QED BY <3>1, <3>2, <3>5
    <2> QED BY <2>1, <2>2
  <1>5. StepMeasured'
    BY DEF Measured, StepMeasured
  <1> QED BY <1>3, <1>4, <1>5 DEF Measured

\* A worker's facts in the third layer.
LEMMA MeasuredFacts ==
    ASSUME Typed, Owned, Measured, NEW p \in Workers, w[p].pc # "idle"
    PROVE  LET j == w[p].job
               e == ExecutionOf[j]
           IN  /\ j \in Jobs /\ e \in Executions /\ e = Exec(p) /\ row[j] # None
               /\ StepFits(w[p], row[j], load[e], e, pods[e], run, runs)
               /\ FleetFits(row[j], pods[e], run[e], runs)
               /\ w[p].pc \in Working =>
                     row[j].phase \in Active /\ RateFor(row[j]) = CeilRate(w[p].cur.next)
  <1>1. w[p].job \in Jobs /\ ExecutionOf[w[p].job] \in Executions /\ row[w[p].job] # None
    BY WorkerFacts, JobAssumption DEF At
  <1>2. w[p].pc \in Working =>
           /\ row[w[p].job].phase \in Active
           /\ RateFor(row[w[p].job]) = CeilRate(w[p].cur.next)
    BY DEF Owned, ClaimOK, Held, RateFor
  <1> QED BY <1>1, <1>2 DEF Measured, FleetsFit, StepsFit, Exec

\* A worker moves on and the fleet stays as it is.
LEMMA WorkerFrame ==
    ASSUME OwnExecutions, Typed, Owned, Measured,
           NEW p \in Workers, w[p].pc # "idle",
           UNCHANGED <<row, steps, evidence, pods, load, run, runs>>,
           \A q \in Workers : q # p => w'[q] = w[q],
           \/ w'[p].pc = "idle"
           \/ /\ w'[p].job = w[p].job
              /\ LET e == Exec(p)
                 IN  StepFits(w'[p], row[w[p].job], load[e], e, pods[e], run, runs)
    PROVE  Measured'
  <1> DEFINE j == w[p].job
             e == ExecutionOf[j]
  <1>1. /\ j \in Jobs /\ e \in Executions /\ e = Exec(p)
        /\ FleetFits(row[j], pods[e], run[e], runs)
    BY MeasuredFacts
  <1>2. run' = [run EXCEPT ![e] = run[e]]
    BY DEF Typed, TypeOK
  <1>3. Extends(runs', runs)
    BY SMTT(30) DEF Extends, Typed, TypeOK
  <1>4. OpenOK(run', runs')
    BY DEF Measured
  <1> HIDE DEF j, e
  <1>5. \/ w'[p].pc = "idle"
        \/ w'[p].job = j /\ StepFits(w'[p], row[j], load'[e], e, pods'[e], run', runs')
    BY <1>1 DEF j
  <1>6. FleetFits(row[j], pods'[e], run[e], runs')
    BY <1>1
  <1> QED BY <1>1, <1>2, <1>3, <1>4, <1>5, <1>6, FleetFrame DEF j, e

\* The statements that only move the worker on.
LEMMA QuietMeasured ==
    ASSUME OwnExecutions, Typed, Owned, Measured, NEW p \in Workers,
           \/ ReadSpec(p) \/ Deploy(p) \/ CurrentRun(p) \/ AwaitReport(p)
           \/ AwaitTimesOut(p) \/ JudgeSearch(p) \/ WriteProfile(p)
           \/ StatementFails(p) \/ Crash(p)
    PROVE  Measured'
  <1> DEFINE j == w[p].job
             e == Exec(p)
             Fits(v) == StepFits(v, row[j], load[e], e, pods[e], run, runs)
  <1>1. /\ w[p].pc # "idle"
        /\ UNCHANGED <<row, steps, evidence, pods, load, run, runs>>
    BY DEF ReadSpec, Deploy, CurrentRun, AwaitReport, AwaitTimesOut, JudgeSearch,
           WriteProfile, StatementFails, Crash, At, store, fleet
  <1>2. e \in Executions /\ Fits(w[p])
    BY <1>1, MeasuredFacts DEF Exec
  <1>3. w \in [Workers -> Worker] /\ w[p] \in Worker
    BY DEF Typed, TypeOK
  <1>4. ASSUME NEW l \in Labels, Goto(p, l)
        PROVE  /\ w'[p] = [w[p] EXCEPT !.pc = l] /\ w'[p].pc = l /\ w'[p].job = j
               /\ \A q \in Workers : q # p => w'[q] = w[q]
    BY <1>3, <1>4 DEF Goto, Worker
  <1>5. ASSUME NEW l \in {"fail", "abort", "write"}, Goto(p, l)
        PROVE  Measured'
    <2>1. /\ w'[p].pc = l /\ w'[p].job = j
          /\ \A q \in Workers : q # p => w'[q] = w[q]
      BY <1>4, <1>5 DEF Labels
    <2>2. Fits(w'[p])
      BY <2>1 DEF StepFits, Working, Waiting
    <2> QED BY <1>1, <2>1, <2>2, WorkerFrame
  <1>6. ASSUME Return(p)
        PROVE  Measured'
    BY <1>1, <1>6, ReturnType, WorkerFrame
  <1>7. CASE ReadSpec(p)
    <2>1. /\ w[p].attempt = 1 /\ w'[p].pc = "profile"
          /\ w'[p].attempt = w[p].attempt /\ w'[p].job = j
          /\ \A q \in Workers : q # p => w'[q] = w[q]
      BY <1>2, <1>3, <1>7 DEF ReadSpec, At, Worker, StepFits
    <2>2. Fits(w'[p])
      BY SMTT(30), <2>1 DEF StepFits, Waiting
    <2> QED BY <1>1, <2>1, <2>2, WorkerFrame
  <1>8. CASE Deploy(p) /\ run[e] = 0
    <2>1. /\ w[p].pc = "deploy" /\ w'[p].pc = "launch" /\ w'[p].rate = load[e]
          /\ w'[p].attempt = w[p].attempt /\ w'[p].job = j
          /\ \A q \in Workers : q # p => w'[q] = w[q]
      BY SMTT(30), <1>3, <1>8 DEF Deploy, At, Worker
    <2>2. Fits(w'[p])
      BY <1>2, <1>8, <2>1 DEF StepFits, Waiting, Working, InRun
    <2> QED BY <1>1, <2>1, <2>2, WorkerFrame
  <1>9. CASE CurrentRun(p) /\ run[e] # 0
    <2>1. /\ w[p].pc = "current" /\ w'[p].pc = "await" /\ w'[p].run = run[e]
          /\ w'[p].attempt = w[p].attempt /\ w'[p].job = j
          /\ \A q \in Workers : q # p => w'[q] = w[q]
      BY SMTT(30), <1>3, <1>9 DEF CurrentRun, At, Worker
    <2>2. AwaitFits(w'[p], row[j], e, pods[e], run, runs)
      BY <1>2, <1>9, <2>1 DEF AwaitFits, Measured, OpenOK
    <2>3. Fits(w'[p])
      BY <1>2, <1>9, <2>1, <2>2 DEF StepFits, Waiting, Working, InRun
    <2> QED BY <1>1, <2>1, <2>3, WorkerFrame
  <1>10. CASE AwaitReport(p)
    <2>1. /\ w[p].pc = "await" /\ w'[p].pc = "stop" /\ w'[p].run = w[p].run
          /\ w'[p].attempt = w[p].attempt /\ w'[p].job = j
          /\ \A q \in Workers : q # p => w'[q] = w[q]
      BY <1>3, <1>10 DEF AwaitReport, Goto, At, Worker
    <2>2. Fits(w'[p])
      BY <1>2, <2>1 DEF StepFits, AwaitFits, Waiting, Working, InRun
    <2> QED BY <1>1, <2>1, <2>2, WorkerFrame
  <1> HIDE DEF e, Fits
  <1>11. CASE (Deploy(p) /\ run[e] # 0) \/ (CurrentRun(p) /\ run[e] = 0)
    BY <1>5, <1>11 DEF Deploy, CurrentRun, e
  <1>12. CASE AwaitTimesOut(p) \/ JudgeSearch(p) \/ StatementFails(p)
    BY <1>5, <1>6, <1>12 DEF AwaitTimesOut, JudgeSearch, StatementFails
  <1>13. CASE WriteProfile(p) \/ Crash(p)
    BY <1>6, <1>13 DEF WriteProfile, Crash
  <1> QED BY <1>7, <1>8, <1>9, <1>10, <1>11, <1>12, <1>13

\* The load profile is rewritten to the rate the search asks for.
LEMMA StoreLoadMeasured ==
    ASSUME OwnExecutions, Typed, Owned, Measured, NEW p \in Workers, StoreLoadProfile(p)
    PROVE  Measured'
  <1> DEFINE j == w[p].job
             e == ExecutionOf[j]
  <1>1. w[p].pc = "profile" /\ w[p].pc # "idle" /\ w[p].pc \in Working
    BY DEF StoreLoadProfile, At, Working
  <1>2. /\ j \in Jobs /\ e \in Executions /\ e = Exec(p)
        /\ StepFits(w[p], row[j], load[e], e, pods[e], run, runs)
        /\ FleetFits(row[j], pods[e], run[e], runs)
        /\ RateFor(row[j]) = CeilRate(w[p].cur.next)
    BY <1>1, MeasuredFacts
  <1>3. /\ load' = [load EXCEPT ![e] = CeilRate(w[p].cur.next)]
        /\ UNCHANGED <<row, steps, evidence, pods, run, runs>>
    BY <1>2 DEF StoreLoadProfile, store
  <1>4. /\ w'[p].pc = "deploy" /\ w'[p].job = j /\ w'[p].attempt = w[p].attempt
        /\ \A q \in Workers : q # p => w'[q] = w[q]
    BY DEF StoreLoadProfile, Goto, Typed, TypeOK, Worker
  <1>5. load'[e] = RateFor(row[j]) /\ \A f \in Executions : f # e => load'[f] = load[f]
    BY <1>2, <1>3 DEF Typed, TypeOK
  <1>6. StepFits(w'[p], row[j], load'[e], e, pods'[e], run', runs')
    BY <1>1, <1>2, <1>3, <1>4, <1>5 DEF StepFits, Waiting, Working, InRun
  <1>7. run' = [run EXCEPT ![e] = run[e]] /\ Extends(runs', runs)
    BY SMTT(30), <1>3 DEF Extends, Typed, TypeOK
  <1>8. OpenOK(run', runs') /\ FleetFits(row[j], pods'[e], run[e], runs')
    BY <1>2, <1>3 DEF Measured
  <1> HIDE DEF j, e
  <1> QED BY <1>1, <1>2, <1>3, <1>4, <1>5, <1>6, <1>7, <1>8, FleetFrame DEF j, e

\* DeployScenario: engines started now run at the rate compiled for the step, and
\* engines kept because the annotation did not change had it already.
LEMMA DeployMeasured ==
    ASSUME OwnExecutions, Typed, Owned, Measured, NEW p \in Workers, DeployScenario(p)
    PROVE  Measured'
  <1> DEFINE j == w[p].job
             e == ExecutionOf[j]
  <1>1. w[p].pc = "launch" /\ w[p].pc # "idle" /\ w[p].pc \in Working
    BY DEF DeployScenario, At, Working
  <1>2. /\ j \in Jobs /\ e \in Executions /\ e = Exec(p)
        /\ StepFits(w[p], row[j], load[e], e, pods[e], run, runs)
        /\ FleetFits(row[j], pods[e], run[e], runs) /\ row[j] # None
    BY <1>1, MeasuredFacts
  <1>3. /\ pods' = [pods EXCEPT ![e] = EnsureStatefulSet(p, pods[e])]
        /\ UNCHANGED <<row, steps, evidence, load, run, runs>>
    BY <1>2 DEF DeployScenario, store
  <1>4. /\ w'[p].pc = "trigger" /\ w'[p].job = j /\ w'[p].attempt = w[p].attempt
        /\ \A q \in Workers : q # p => w'[q] = w[q]
    BY DEF DeployScenario, Goto, Typed, TypeOK, Worker
  <1>5. /\ pods'[e] = EnsureStatefulSet(p, pods[e])
        /\ \A f \in Executions : f # e => pods'[f] = pods[f]
    BY <1>2, <1>3 DEF Typed, TypeOK
  <1>6. pods'[e] = pods[e] \/ pods'[e].rate = w[p].rate
    BY SMTT(30), <1>5 DEF EnsureStatefulSet
  <1>7. w[p].rate = RateFor(row[j]) /\ run[e] = 0
    BY <1>1, <1>2 DEF StepFits
  <1>8. FleetFits(row[j], pods'[e], run[e], runs')
    BY <1>2, <1>3, <1>6, <1>7 DEF FleetFits
  <1>9. StepFits(w'[p], row[j], load'[e], e, pods'[e], run', runs')
    BY <1>1, <1>2, <1>3, <1>4, <1>7 DEF StepFits, Waiting, Working, InRun
  <1>10. run' = [run EXCEPT ![e] = run[e]] /\ Extends(runs', runs)
    BY SMTT(30), <1>3 DEF Extends, Typed, TypeOK
  <1>11. OpenOK(run', runs')
    BY <1>3 DEF Measured
  <1> HIDE DEF j, e
  <1> QED
    BY <1>1, <1>2, <1>3, <1>4, <1>5, <1>8, <1>9, <1>10, <1>11, FleetFrame DEF j, e

\* triggerWhenReady: the run gets the rate of the pods it finds.
LEMMA TriggerMeasured ==
    ASSUME OwnExecutions, Typed, Owned, Measured, NEW p \in Workers, TriggerWhenReady(p)
    PROVE  Measured'
  <1> DEFINE j == w[p].job
             e == ExecutionOf[j]
             n == Len(runs) + 1
             opened == [rate |-> pods[e].rate, print |-> pods[e].print, report |-> None]
  <1>1. w[p].pc = "trigger" /\ w[p].pc # "idle" /\ w[p].pc \in Working
    BY DEF TriggerWhenReady, At, Working
  <1>2. /\ j \in Jobs /\ e \in Executions /\ e = Exec(p)
        /\ StepFits(w[p], row[j], load[e], e, pods[e], run, runs)
        /\ FleetFits(row[j], pods[e], run[e], runs) /\ row[j] # None
    BY <1>1, MeasuredFacts
  <1>3. run[e] = 0
    BY <1>1, <1>2 DEF StepFits
  <1>4. /\ runs' = Append(runs, opened) /\ run' = [run EXCEPT ![e] = n] /\ Goto(p, "current")
        /\ UNCHANGED <<row, steps, evidence, load, pods>>
    BY <1>2, <1>3 DEF TriggerWhenReady, store
  <1>5. /\ runs \in Seq(Run) /\ Len(runs) \in Nat /\ run \in [Executions -> 0..Len(runs)]
    BY SMTT(30) DEF Typed, TypeOK
  <1>6. opened.rate = pods[e].rate /\ opened.report = None
    OBVIOUS
  <1> HIDE DEF opened
  <1>7. opened \in Run
    <2>1. pods[e] \in Pods
      BY <1>2 DEF Typed, TypeOK
    <2> QED BY <2>1 DEF Pods, Run, opened
  <1>8. Extends(runs', runs) /\ runs'[n] = opened /\ Len(runs') = n
    BY <1>4, <1>5, <1>7 DEF Extends
  <1>9. run'[e] = n /\ \A f \in Executions : f # e => run'[f] = run[f] /\ run[f] \in 0..Len(runs)
    BY <1>2, <1>4, <1>5
  <1>10. OpenOK(run', runs')
    <2>1. \A f \in Executions : run'[f] # 0 => runs'[run'[f]].report = None
      BY SMTT(30), <1>5, <1>6, <1>8, <1>9 DEF Measured, OpenOK, Extends
    <2>2. \A f, g \in Executions : f # g /\ run'[f] # 0 => run'[f] # run'[g]
      BY SMTT(30), <1>5, <1>9 DEF Measured, OpenOK
    <2> QED BY <2>1, <2>2 DEF OpenOK
  <1>11. FleetFits(row[j], pods'[e], n, runs')
    BY <1>2, <1>4, <1>6, <1>8 DEF FleetFits
  <1>12. /\ w'[p].pc = "current" /\ w'[p].job = j /\ w'[p].attempt = w[p].attempt
         /\ \A q \in Workers : q # p => w'[q] = w[q]
    BY <1>4 DEF Goto, Typed, TypeOK, Worker
  <1>13. ASSUME w'[p].attempt = 2
         PROVE  ShortBefore(runs', RateFor(row[j]), n)
    <2>1. ShortBefore(runs, RateFor(row[j]), n)
      BY <1>1, <1>2, <1>12, <1>13 DEF StepFits, InRun, Waiting
    <2> QED BY SMTT(30), <1>5, <1>8, <2>1, ShortStays
  <1>14. StepFits(w'[p], row[j], load'[e], e, pods'[e], run', runs')
    BY SMTT(30), <1>5, <1>9, <1>12, <1>13 DEF StepFits, Waiting, InRun
  <1> HIDE DEF j, e
  <1>15. n \in {0, run[e], Len(runs) + 1}
    OBVIOUS
  <1> HIDE DEF n
  <1> QED
    BY <1>1, <1>2, <1>4, <1>8, <1>10, <1>11, <1>12, <1>14, <1>15, FleetFrame DEF j, e

\* Stop closes the execution's open run.
LEMMA StopKeeps ==
    ASSUME Typed, Measured, NEW e \in Executions, run' = [run EXCEPT ![e] = 0],
           NEW r, NEW pd, FleetFits(r, pd, run[e], runs)
    PROVE  /\ run'[e] = 0 /\ \A f \in Executions : f # e => run'[f] = run[f]
           /\ OpenOK(run', runs) /\ FleetFits(r, pd, 0, runs)
           /\ Extends(runs, runs)
  <1>1. run \in [Executions -> 0..Len(runs)] /\ Len(runs) \in Nat
    BY SMTT(30) DEF Typed, TypeOK
  <1>2. run'[e] = 0 /\ \A f \in Executions : f # e => run'[f] = run[f]
    BY <1>1
  <1>3. OpenOK(run', runs)
    BY <1>2 DEF Measured, OpenOK
  <1> QED BY SMTT(30), <1>1, <1>2, <1>3 DEF FleetFits, Extends

LEMMA StopAfterTimeoutMeasured ==
    ASSUME OwnExecutions, Typed, Owned, Measured, NEW p \in Workers, StopAfterTimeout(p)
    PROVE  Measured'
  <1> DEFINE j == w[p].job
             e == ExecutionOf[j]
  <1>1. w[p].pc # "idle" /\ w'[p].pc = "fail" /\ w'[p].job = j
        /\ \A q \in Workers : q # p => w'[q] = w[q]
    BY DEF StopAfterTimeout, At, Goto, Typed, TypeOK, Worker
  <1>2. /\ j \in Jobs /\ e \in Executions /\ e = Exec(p)
        /\ FleetFits(row[j], pods[e], run[e], runs)
    BY <1>1, MeasuredFacts
  <1>3. run' = [run EXCEPT ![e] = 0] /\ UNCHANGED <<row, steps, evidence, load, pods, runs>>
    BY <1>2 DEF StopAfterTimeout, Stop, store
  <1>4. /\ OpenOK(run', runs) /\ FleetFits(row[j], pods[e], 0, runs) /\ Extends(runs, runs)
    BY <1>2, <1>3, StopKeeps
  <1>5. StepFits(w'[p], row[j], load'[e], e, pods'[e], run', runs')
    BY <1>1, NotWorkingFits DEF Working
  <1> HIDE DEF j, e
  <1> QED BY <1>1, <1>2, <1>3, <1>4, <1>5, FleetFrame DEF j, e

\* RunStep's second half: a first engine-short is remembered as the run before the
\* next one; any other report is recorded, with the engines at rest.
LEMMA StopAfterReportMeasured ==
    ASSUME OwnExecutions, Typed, Owned, Measured, NEW p \in Workers, StopAfterReport(p)
    PROVE  Measured'
  <1> DEFINE j == w[p].job
             e == ExecutionOf[j]
             k == w[p].run
             next == AfterStep(p, runs[k].report.class)
  <1>1. w[p].pc = "stop" /\ w[p].pc # "idle" /\ w[p].pc \in Working /\ w[p].pc \in Waiting
    BY DEF StopAfterReport, At, Working, Waiting
  <1>2. /\ j \in Jobs /\ e \in Executions /\ e = Exec(p)
        /\ StepFits(w[p], row[j], load[e], e, pods[e], run, runs)
        /\ FleetFits(row[j], pods[e], run[e], runs)
    BY <1>1, MeasuredFacts
  <1>3. AwaitFits(w[p], row[j], e, pods[e], run, runs)
    BY <1>1, <1>2 DEF StepFits
  <1>4. k \in 1..Len(runs) /\ runs[k].report # None /\ w[p] \in Worker
    BY <1>1, WorkerFacts DEF At, WorkerOK
  <1>5. runs[k].rate = RateFor(row[j]) /\ pods[e].engine # "running"
    BY SMTT(30), <1>2, <1>3, <1>4 DEF AwaitFits, Measured, OpenOK
  <1>6. run' = [run EXCEPT ![e] = 0] /\ UNCHANGED <<row, steps, evidence, load, pods, runs>>
    BY <1>2 DEF StopAfterReport, Stop, store
  <1>7. /\ run'[e] = 0 /\ \A f \in Executions : f # e => run'[f] = run[f]
        /\ OpenOK(run', runs) /\ FleetFits(row[j], pods[e], 0, runs) /\ Extends(runs, runs)
    BY <1>2, <1>6, StopKeeps
  <1>8. /\ w'[p].pc = next /\ w'[p].job = j /\ w'[p].run = k
        /\ w'[p].attempt = IF next = "profile" THEN 2 ELSE w[p].attempt
        /\ \A q \in Workers : q # p => w'[q] = w[q]
    <2> HIDE DEF next
    <2> QED BY DEF StopAfterReport, Typed, TypeOK, Worker, next
  <1>9. \/ /\ next = "profile" /\ runs[k].report.class = "engine_saturated"
        \/ /\ next = "record"
           /\ runs[k].report.class = "engine_saturated" => w[p].attempt # 1
    BY DEF AfterStep
  <1>10. w[p].attempt \in 1..2 /\ Len(runs) \in Nat
    BY SMTT(30), <1>4 DEF Worker, Typed, TypeOK
  <1> HIDE DEF next
  <1>11. StepFits(w'[p], row[j], load'[e], e, pods'[e], run', runs')
    <2>1. CASE next = "profile"
      <3>1. ShortBefore(runs, RateFor(row[j]), Len(runs) + 1)
        BY <1>4, <1>5, <1>9, <1>10, <2>1 DEF ShortBefore
      <3> QED BY <1>6, <1>8, <2>1, <3>1 DEF StepFits, Waiting, InRun
    <2>2. CASE next = "record"
      <3>1. AwaitFits(w'[p], row[j], e, pods[e], run', runs)
        BY <1>3, <1>4, <1>5, <1>7, <1>8 DEF AwaitFits
      <3>2. w[p].attempt = 2 => ShortBefore(runs, RateFor(row[j]), k)
        BY <1>1, <1>2 DEF StepFits, InRun, Working
      <3>3. runs[k].report.class = "engine_saturated" => w[p].attempt = 2
        BY SMTT(30), <1>9, <1>10, <2>2
      <3> QED BY <1>6, <1>8, <2>2, <3>1, <3>2, <3>3 DEF StepFits, Waiting, InRun
    <2> QED BY <1>9, <2>1, <2>2
  <1> HIDE DEF j, e, k
  <1> QED BY <1>1, <1>2, <1>6, <1>7, <1>8, <1>11, FleetFrame DEF j, e

\* The final push settles one report, that of an open run.
LEMMA SettlesRuns ==
    ASSUME Typed, Measured, NEW e \in Executions, Settles(e)
    PROVE  /\ run[e] \in 1..Len(runs) /\ runs[run[e]].report = None /\ run'[e] = 0
           /\ \A f \in Executions : f # e => run'[f] = run[f] /\ pods'[f] = pods[f]
           /\ pods[e].engine = "running" /\ pods'[e].engine = "finished"
           /\ Len(runs') = Len(runs)
           /\ \A k \in 1..Len(runs) : /\ runs'[k].rate = runs[k].rate
                                      /\ k # run[e] => runs'[k] = runs[k]
           /\ UNCHANGED <<row, steps, evidence, load, w>>
  <1>1. PICK a \in Achieved, c \in Classifications : RunSettles(e, a, c)
    BY DEF Settles
  <1>2. /\ runs \in Seq(Run) /\ Len(runs) \in Nat /\ run \in [Executions -> 0..Len(runs)]
        /\ pods \in [Executions -> Pods]
    BY SMTT(30) DEF Typed, TypeOK
  <1>3. run[e] # 0 /\ pods[e].engine = "running" /\ run[e] \in 1..Len(runs)
    BY <1>1, <1>2 DEF RunSettles
  <1>4. runs[run[e]].report = None
    BY <1>3 DEF Measured, OpenOK
  <1>5. run'[e] = 0 /\ \A f \in Executions : f # e => run'[f] = run[f]
    BY <1>1, <1>2 DEF RunSettles
  <1>6. pods'[e].engine = "finished" /\ \A f \in Executions : f # e => pods'[f] = pods[f]
    BY <1>1, <1>2 DEF RunSettles, Pods
  <1>7. /\ Len(runs') = Len(runs)
        /\ \A k \in 1..Len(runs) : k # run[e] => runs'[k] = runs[k]
    BY SMTT(30), <1>1, <1>2, <1>3 DEF RunSettles
  <1>8. runs'[run[e]].rate = runs[run[e]].rate
    <2>1. runs'[run[e]] = [runs[run[e]] EXCEPT !.report = [achieved |-> a, class |-> c]]
      BY SMTT(30), <1>1, <1>2, <1>3 DEF RunSettles
    <2>2. runs[run[e]] \in Run
      BY SMTT(30), <1>2, <1>3
    <2> QED BY <2>1, <2>2 DEF Run
  <1>9. UNCHANGED <<row, steps, evidence, load, w>>
    BY <1>1 DEF RunSettles, store
  <1> QED BY <1>3, <1>4, <1>5, <1>6, <1>7, <1>8, <1>9

LEMMA SettlesMeasured ==
    ASSUME OwnExecutions, Typed, Owned, Measured, NEW e \in Executions, Settles(e)
    PROVE  Measured'
  <1> DEFINE k0 == run[e]
  <1>1. /\ k0 \in 1..Len(runs) /\ runs[k0].report = None /\ run'[e] = 0
        /\ \A f \in Executions : f # e => run'[f] = run[f] /\ pods'[f] = pods[f]
        /\ pods[e].engine = "running" /\ pods'[e].engine = "finished"
        /\ Len(runs') = Len(runs)
        /\ UNCHANGED <<row, steps, evidence, load, w>>
    BY SettlesRuns
  <1>2. \A k \in 1..Len(runs) : runs'[k].rate = runs[k].rate /\ (k # k0 => runs'[k] = runs[k])
    BY SettlesRuns
  <1>3. Len(runs) \in Nat /\ run \in [Executions -> 0..Len(runs)]
    BY SMTT(30) DEF Typed, TypeOK
  <1> HIDE DEF k0
  <1>4. \A f \in Executions : f # e => run[f] # k0
    BY SMTT(30), <1>1 DEF Measured, OpenOK, k0
  <1>5. \A f \in Executions : run'[f] = 0 \/ (f # e /\ run'[f] = run[f] /\ run[f] \in 1..Len(runs))
    BY SMTT(30), <1>1, <1>3
  <1>6. OpenOK(run', runs')
    <2>1. \A f \in Executions : run'[f] # 0 => runs'[run'[f]].report = None
      BY SMTT(30), <1>2, <1>4, <1>5 DEF Measured, OpenOK
    <2>2. \A f, g \in Executions : f # g /\ run'[f] # 0 => run'[f] # run'[g]
      BY <1>5 DEF Measured, OpenOK
    <2> QED BY <2>1, <2>2 DEF OpenOK
  <1>7. FleetsFit'
    <2> SUFFICES ASSUME NEW i \in Jobs, NEW f, f = ExecutionOf[i]
                 PROVE  FleetFits(row[i], pods'[f], run'[f], runs')
      BY <1>1 DEF FleetsFit
    <2>1. f \in Executions /\ FleetFits(row[i], pods[f], run[f], runs)
      BY JobAssumption DEF Measured, FleetsFit
    <2>2. CASE f = e
      BY <1>1, <2>2 DEF FleetFits
    <2>3. CASE f # e
      BY <1>1, <1>2, <1>5, <2>1, <2>3 DEF FleetFits
    <2> QED BY <2>2, <2>3
  <1>8. StepsFit'
    <2> SUFFICES ASSUME NEW q \in Workers, w[q].pc # "idle",
                        NEW j, j = w[q].job, NEW f, f = ExecutionOf[j]
                 PROVE  StepFits(w[q], row[j], load[f], f, pods'[f], run', runs')
      BY <1>1 DEF StepsFit
    <2>1. /\ f \in Executions /\ row[j] # None
          /\ StepFits(w[q], row[j], load[f], f, pods[f], run, runs)
          /\ FleetFits(row[j], pods[f], run[f], runs)
          /\ w[q].pc \in Working => row[j].phase \in Active
      BY MeasuredFacts
    <2>2. /\ w[q].pc \in Waiting => w[q].run \in 1..Len(runs)
          /\ w[q].pc = "record" => runs[w[q].run].report # None
      BY WorkerFacts DEF WorkerOK, At
    <2>3. ASSUME w[q].pc \in Waiting
          PROVE  AwaitFits(w[q], row[j], f, pods'[f], run', runs')
      <3>1. AwaitFits(w[q], row[j], f, pods[f], run, runs) /\ w[q].run \in 1..Len(runs)
        BY <2>1, <2>2, <2>3 DEF StepFits
      <3>2. \A g \in Executions : run'[g] = w[q].run => g = f
        BY SMTT(30), <1>5, <3>1 DEF AwaitFits
      <3>3. run'[f] = w[q].run \/ pods'[f].engine # "running"
        BY <1>1, <2>1, <3>1 DEF AwaitFits
      <3>4. CASE w[q].run = k0
        <4>1. f = e
          BY <3>1, <3>4 DEF AwaitFits, k0
        <4>2. w[q].pc \in Working
          BY <2>3 DEF Waiting, Working
        <4>3. runs[k0].rate = RateFor(row[j])
          BY SMTT(30), <1>1, <1>3, <2>1, <4>1, <4>2 DEF FleetFits, k0
        <4>4. runs'[w[q].run].rate = RateFor(row[j])
          BY <1>1, <1>2, <3>4, <4>3
        <4> QED BY <3>2, <3>3, <4>4 DEF AwaitFits
      <3>5. CASE w[q].run # k0
        BY <1>2, <3>1, <3>2, <3>3, <3>5 DEF AwaitFits
      <3> QED BY <3>4, <3>5
    <2>4. ASSUME w[q].pc \in Working \ {"abort"}, w[q].attempt = 2
          PROVE  ShortBefore(runs', RateFor(row[j]), InRun(w[q], run'[f], runs'))
      <3>1. ShortBefore(runs, RateFor(row[j]), InRun(w[q], run[f], runs))
        BY <2>1, <2>4 DEF StepFits
      <3>2. PICK k \in 1..Len(runs) : /\ k < InRun(w[q], run[f], runs)
                                      /\ runs[k].report # None
                                      /\ runs[k].report.class = "engine_saturated"
                                      /\ runs[k].rate = RateFor(row[j])
        BY <3>1 DEF ShortBefore
      <3>3. runs'[k] = runs[k]
        BY <1>1, <1>2, <3>2
      <3>4. run'[f] = 0 \/ run'[f] = run[f]
        BY <1>5, <2>1
      <3>5. Len(runs') = Len(runs) /\ k \in 1..Len(runs) /\ Len(runs) \in Nat
        BY <1>1, <1>3, <3>2
      <3>6. k < InRun(w[q], run'[f], runs')
        BY SMTT(30), <3>2, <3>4, <3>5 DEF InRun
      <3> QED BY <3>2, <3>3, <3>5, <3>6 DEF ShortBefore
    <2>5. w[q].pc = "record" => runs'[w[q].run] = runs[w[q].run]
      BY <1>1, <1>2, <2>2 DEF Waiting
    <2>6. w[q].pc \in {"launch", "trigger"} => run'[f] = 0
      BY <1>5, <2>1 DEF StepFits
    <2> QED BY <2>1, <2>3, <2>4, <2>5, <2>6 DEF StepFits
  <1>9. StepMeasured'
    BY <1>1 DEF Measured, StepMeasured
  <1> QED BY <1>6, <1>7, <1>8, <1>9 DEF Measured

\* A claimed job is not being worked on yet.
LEMMA ClaimMeasured ==
    ASSUME Typed, Measured, NEW p \in Workers, NEW j \in Jobs, Claim(p, j)
    PROVE  Measured'
  <1>1. UNCHANGED <<row, steps, evidence, load, pods, run, runs>>
    BY DEF Claim, ClaimNextStep, fleet
  <1>2. /\ w'[p].pc = "spec" /\ w'[p].attempt = 1
        /\ \A q \in Workers : q # p => w'[q] = w[q]
    BY DEF Claim, Idle, Typed, TypeOK
  <1>3. StepsFit'
    <2>1. ASSUME NEW q \in Workers, w'[q].pc # "idle", NEW f, f = ExecutionOf[w'[q].job]
          PROVE  StepFits(w'[q], row[w'[q].job], load[f], f, pods[f], run, runs)
      <3>1. CASE q = p
        BY <1>2, <3>1 DEF StepFits, Working, Waiting
      <3>2. CASE q # p
        BY <1>2, <2>1, <3>2 DEF Measured, StepsFit
      <3> QED BY <3>1, <3>2
    <2> QED BY <1>1, <2>1 DEF StepsFit
  <1> QED BY <1>1, <1>3 DEF Measured, FleetsFit, StepMeasured

\* The row of a job changes while nobody measures for it.
LEMMA RowFrame ==
    ASSUME Typed, Measured, NEW j \in Jobs, UNCHANGED <<load, pods, run, runs>>,
           \A i \in Jobs : i # j => row'[i] = row[i],
           LET e == ExecutionOf[j] IN FleetFits(row'[j], pods[e], run[e], runs),
           \A q \in Workers :
              \/ w'[q].pc \notin Working \cup {"spec"}
              \/ /\ w'[q] = w[q] /\ w[q].pc # "idle"
                 /\ w[q].job \in Jobs /\ w[q].job # j,
           StepMeasured'
    PROVE  Measured'
  <1>1. OpenOK(run', runs')
    BY DEF Measured
  <1>2. FleetsFit'
    BY DEF Measured, FleetsFit
  <1>3. ASSUME NEW q \in Workers, w'[q].pc # "idle", NEW f, f = ExecutionOf[w'[q].job]
        PROVE  StepFits(w'[q], row'[w'[q].job], load[f], f, pods[f], run, runs)
    <2>1. CASE w'[q].pc \notin Working \cup {"spec"}
      BY <2>1, NotWorkingFits
    <2>2. CASE /\ w'[q] = w[q] /\ w[q].pc # "idle"
               /\ w[q].job \in Jobs /\ w[q].job # j
      <3>1. StepFits(w[q], row[w[q].job], load[f], f, pods[f], run, runs)
        BY <1>3, <2>2 DEF Measured, StepsFit
      <3> QED BY <2>2, <3>1
    <2> QED BY <2>1, <2>2
  <1>4. StepsFit'
    BY <1>3 DEF StepsFit
  <1> QED BY <1>1, <1>2, <1>4 DEF Measured

LEMMA FailMeasured ==
    ASSUME Typed, Owned, Measured, NEW p \in Workers, Fail(p)
    PROVE  Measured'
  <1> DEFINE j == w[p].job
             e == ExecutionOf[j]
  <1>1. w[p].pc # "idle" /\ ~At(p, "idle") /\ Return(p)
    BY DEF Fail, At
  <1>2. j \in Jobs /\ row[j] # None /\ row[j] \in Job
    BY <1>1, WorkerFacts
  <1>3. /\ row' = [row EXCEPT ![j].phase = "failed"]
        /\ UNCHANGED <<steps, evidence, load, pods, run, runs>>
    BY DEF Fail, MarkFailed, fleet
  <1>4. row'[j] = [row[j] EXCEPT !.phase = "failed"] /\ \A i \in Jobs : i # j => row'[i] = row[i]
    BY <1>2, <1>3 DEF Typed, TypeOK
  <1>5. row'[j] \in Job /\ row'[j].phase = "failed"
    BY <1>2, <1>4 DEF Job, Phases
  <1>6. row'[j] # None /\ row'[j].phase \notin Active
    BY <1>5, JobAssumption DEF Active
  <1>7. FleetFits(row'[j], pods[e], run[e], runs)
    BY <1>6 DEF FleetFits
  <1>8. \A q \in Workers :
           \/ w'[q].pc \notin Working \cup {"spec"}
           \/ w'[q] = w[q] /\ w[q].pc # "idle" /\ w[q].job \in Jobs /\ w[q].job # j
    BY <1>1, ReturnType, JobIsMine DEF Working
  <1>9. StepMeasured'
    BY <1>3 DEF Measured, StepMeasured
  <1> HIDE DEF j
  <1> QED BY <1>2, <1>3, <1>4, <1>7, <1>8, <1>9, RowFrame

LEMMA CreateMeasured ==
    ASSUME Typed, Measured, NEW j \in Jobs, Trigger(j)
    PROVE  Measured'
  <1> DEFINE e == ExecutionOf[j]
  <1>1. /\ row[j] = None /\ row' = [row EXCEPT ![j] = PendingJob]
        /\ UNCHANGED <<steps, evidence, load, pods, run, runs, w>>
    BY DEF Trigger, CreateCalibrationJob, fleet
  <1>2. row'[j] = PendingJob /\ \A i \in Jobs : i # j => row'[i] = row[i]
    BY <1>1 DEF Typed, TypeOK
  <1>3. FleetFits(row'[j], pods[e], run[e], runs)
    BY <1>1 DEF Measured, FleetsFit, FleetFits
  <1>4. \A q \in Workers : w[q].pc # "idle" => w[q].job \in Jobs /\ w[q].job # j
    BY <1>1, WorkerFacts DEF At
  <1>5. \A q \in Workers :
           \/ w'[q].pc \notin Working \cup {"spec"}
           \/ w'[q] = w[q] /\ w[q].pc # "idle" /\ w[q].job \in Jobs /\ w[q].job # j
    BY <1>1, <1>4 DEF Working
  <1>6. StepMeasured'
    BY <1>1 DEF Measured, StepMeasured
  <1> QED BY <1>1, <1>2, <1>3, <1>5, <1>6, RowFrame

\* RecordStep: the run whose report is folded was one of the rate asked for, and
\* the engines are at rest when the row moves on.
LEMMA RecordMeasured ==
    ASSUME Typed, Owned, Measured, NEW p \in Workers, Record(p)
    PROVE  Measured'
  <1> DEFINE rpt == runs[w[p].run].report
             cur == w[p].cur
             j == w[p].job
             e == ExecutionOf[j]
             updated == Advance(cur, cur.next, rpt.achieved, rpt.class)
             step == [requested |-> cur.next, achieved |-> rpt.achieved,
                      class |-> rpt.class]
             seen == [rate |-> runs[w[p].run].rate, print |-> runs[w[p].run].print,
                      decided |-> updated]
  <1>1. /\ At(p, "record") /\ w[p].pc = "record" /\ w[p].pc # "idle"
        /\ w[p].pc \in Working /\ w[p].pc \in Waiting
    BY DEF Record, At, Working, Waiting
  <1>2. /\ j \in Jobs /\ rpt \in Report /\ updated \in Job
        /\ runs[w[p].run] \in Run
        /\ rpt.achieved \in Nat /\ rpt.class \in Classifications /\ cur.next \in Nat
    BY <1>1, RecordFacts
  <1>3. /\ e \in Executions
        /\ AwaitFits(w[p], row[j], e, pods[e], run, runs)
        /\ RateFor(row[j]) = CeilRate(cur.next)
    BY <1>1, MeasuredFacts DEF StepFits
  <1>4. /\ steps' = [steps EXCEPT ![j] = Append(@, step)]
        /\ row' = [row EXCEPT ![j] = updated]
        /\ evidence' = [evidence EXCEPT ![j] = Append(@, seen)]
        /\ UNCHANGED <<load, pods, run, runs>>
    BY DEF Record, RecordStep, fleet
  <1>5. \/ Return(p)
        \/ w' = [w EXCEPT ![p].pc = "impaired", ![p].cur = updated]
    BY DEF Record
  <1>6. /\ step \in Step /\ step.requested = cur.next
    BY <1>2 DEF Step
  <1>7. seen \in Evidence /\ seen.rate = runs[w[p].run].rate
    <2> HIDE DEF updated
    <2> QED BY <1>2 DEF Evidence, Run
  <1> HIDE DEF step, seen, updated, cur, rpt
  <1>8. rpt # None
    BY <1>2, JobAssumption
  <1>9. runs[w[p].run].rate = CeilRate(cur.next) /\ pods[e].engine # "running"
    <2>1. w[p].run \in 1..Len(runs) /\ Len(runs) \in Nat
      <3>1. WorkerOK(w[p], row, runs) /\ runs \in Seq(Run)
        BY ZenonT(30) DEF Typed, TypeOK
      <3>2. Len(runs) \in Nat
        BY <3>1
      <3> QED BY ZenonT(30), <1>1, <3>1, <3>2 DEF WorkerOK, Waiting, At
    <2>2. run[e] # w[p].run
      BY SMTT(30), <1>3, <1>8, <2>1 DEF Measured, OpenOK, rpt
    <2> QED BY <1>3, <1>8, <2>2 DEF AwaitFits, rpt
  <1>10. row'[j] = updated /\ \A i \in Jobs : i # j => row'[i] = row[i]
    BY <1>2, <1>4 DEF Typed, TypeOK
  <1>11. FleetFits(row'[j], pods[e], run[e], runs)
    BY <1>9 DEF FleetFits
  <1>12. w'[p].pc \in {"idle", "impaired"} /\ \A q \in Workers : q # p => w'[q] = w[q]
    BY SMTT(30), <1>5, ReturnType DEF Typed, TypeOK, Worker
  <1>13. \A q \in Workers :
           \/ w'[q].pc \notin Working \cup {"spec"}
           \/ w'[q] = w[q] /\ w[q].pc # "idle" /\ w[q].job \in Jobs /\ w[q].job # j
    BY <1>1, <1>12, JobIsMine DEF Working
  <1>14. StepMeasured'
    <2> SUFFICES ASSUME NEW i \in Jobs, NEW k \in DOMAIN steps'[i]
                 PROVE  evidence'[i][k].rate = CeilRate(steps'[i][k].requested)
      BY DEF StepMeasured
    <2>1. CASE i # j
      <3>1. steps'[i] = steps[i] /\ evidence'[i] = evidence[i]
        BY <1>4, <2>1 DEF Typed, TypeOK
      <3> QED BY <3>1 DEF Measured, StepMeasured
    <2>2. CASE i = j
      <3>1. /\ steps'[j] = Append(steps[j], step) /\ evidence'[j] = Append(evidence[j], seen)
            /\ steps[j] \in Seq(Step) /\ evidence[j] \in Seq(Evidence)
        BY <1>2, <1>4 DEF Typed, TypeOK
      <3>2. Len(evidence[j]) = Len(steps[j])
        BY <1>2 DEF Owned, LedgerOK
      <3>3. k \in 1..(Len(steps[j]) + 1)
        BY SMTT(30), <1>6, <2>2, <3>1
      <3>4. CASE k = Len(steps[j]) + 1
        <4>1. steps'[j][k] = step /\ evidence'[j][k] = seen
          BY SMTT(30), <1>6, <1>7, <3>1, <3>2, <3>4
        <4> QED BY <1>6, <1>7, <1>9, <2>2, <4>1
      <3>5. CASE k # Len(steps[j]) + 1
        <4>1. /\ k \in DOMAIN steps[j]
              /\ steps'[j][k] = steps[j][k] /\ evidence'[j][k] = evidence[j][k]
          BY <1>6, <1>7, <3>1, <3>2, <3>3, <3>5
        <4> QED BY <1>2, <2>2, <4>1 DEF Measured, StepMeasured
      <3> QED BY <3>4, <3>5
    <2> QED BY <2>1, <2>2
  <1> HIDE DEF j
  <1> QED BY <1>2, <1>4, <1>10, <1>11, <1>13, <1>14, RowFrame

LEMMA MeasuredInit == Init => Measured
  <1> SUFFICES ASSUME Init PROVE Measured
    OBVIOUS
  <1>1. \A p \in Workers : w[p].pc = "idle"
    BY DEF Init, Idle
  <1>2. \A e \in Executions : run[e] = 0 /\ pods[e].engine # "running"
    BY NoPodsType DEF Init
  <1>3. FleetsFit
    BY <1>2, JobAssumption DEF FleetsFit, FleetFits
  <1>4. StepMeasured
    BY DEF Init, StepMeasured
  <1> QED BY <1>1, <1>2, <1>3, <1>4 DEF Measured, OpenOK, StepsFit

LEMMA MeasuredStep ==
    ASSUME OwnExecutions, Typed, Owned, Measured, [Next]_vars
    PROVE  Measured'
  <1>1. ASSUME UNCHANGED <<row, steps, evidence, load, pods, run, runs, w>>
        PROVE  Measured'
    BY <1>1 DEF Measured, FleetsFit, StepsFit, StepMeasured
  <1>2. ASSUME NEW p \in Workers, Advances(p)
        PROVE  Measured'
    BY <1>2, ClaimMeasured, QuietMeasured, StoreLoadMeasured, DeployMeasured,
       TriggerMeasured, StopAfterReportMeasured, StopAfterTimeoutMeasured,
       RecordMeasured, FailMeasured
       DEF Advances
  <1>3. ASSUME NEW p \in Workers, StatementFails(p) \/ Crash(p)
        PROVE  Measured'
    BY <1>3, QuietMeasured
  <1>4. ASSUME NEW j \in Jobs, LeaseLapses(j)
        PROVE  Measured'
    BY <1>1, <1>4 DEF LeaseLapses, fleet
  <1>5. ASSUME NEW e \in Executions, EditScenario(e)
        PROVE  Measured'
    BY <1>1, <1>5 DEF EditScenario, store, fleet
  <1>6. CASE UNCHANGED vars
    BY <1>1, <1>6 DEF vars
  <1> QED
    BY <1>2, <1>3, <1>4, <1>5, <1>6, CreateMeasured, SettlesMeasured DEF Next

LEMMA MeasuredTrusted ==
    ASSUME Typed, Owned, Measured
    PROVE  StepsTrusted
  <1>1. ASSUME NEW p \in Workers, At(p, "record"),
               runs[w[p].run].report.class = "engine_saturated"
        PROVE  \E k \in 1..(w[p].run - 1) :
                  /\ runs[k].report # None
                  /\ runs[k].report.class = "engine_saturated"
                  /\ runs[k].rate = runs[w[p].run].rate
    <2> DEFINE j == w[p].job
               e == ExecutionOf[j]
    <2>1. /\ w[p].pc = "record" /\ w[p].pc # "idle"
          /\ w[p].pc \in Working \ {"abort"} /\ w[p].pc \in Waiting
      BY <1>1 DEF At, Working, Waiting
    <2>2. StepFits(w[p], row[j], load[e], e, pods[e], run, runs)
      BY <2>1, MeasuredFacts
    <2>3. /\ w[p].run \in 1..Len(runs) /\ runs[w[p].run].report # None /\ Len(runs) \in Nat
      <3>1. WorkerOK(w[p], row, runs)
        BY ZenonT(30), <2>1 DEF Typed
      <3>2. runs \in Seq(Run)
        BY ZenonT(30) DEF Typed, TypeOK
      <3>3. Len(runs) \in Nat
        BY <3>2
      <3> QED BY <2>1, <3>1, <3>3 DEF WorkerOK
    <2>4. runs[w[p].run].rate = RateFor(row[j])
      BY <2>1, <2>2, <2>3 DEF StepFits, AwaitFits
    <2>5. ShortBefore(runs, RateFor(row[j]), w[p].run)
      BY <1>1, <2>1, <2>2 DEF StepFits, InRun
    <2>6. PICK k \in 1..Len(runs) : /\ k < w[p].run
                                    /\ runs[k].report # None
                                    /\ runs[k].report.class = "engine_saturated"
                                    /\ runs[k].rate = RateFor(row[j])
      BY <2>5 DEF ShortBefore
    <2>7. k \in 1..(w[p].run - 1)
      BY SMTT(30), <2>3, <2>6
    <2> QED BY <2>4, <2>6, <2>7
  <1>2. SaturationConfirmed
    BY <1>1 DEF SaturationConfirmed
  <1> QED BY <1>2 DEF StepsTrusted, Measured

\* runClassifiedStep: as long as no step outlives its lease and no two jobs share
\* an execution, every recorded step was classified from a run of exactly the rate
\* the search asked for, and a worker about to blame the engine has seen an
\* earlier run of that rate fall short as well.
THEOREM StepsAreMeasured ==
    ASSUME ~Overrun, OwnExecutions
    PROVE  Spec => []StepsTrusted
  <1>1. Typed /\ Owned /\ Measured => StepsTrusted
    BY MeasuredTrusted
  <1>2. Init => Typed /\ Owned /\ Measured
    BY TypedInit, OwnedInit, MeasuredInit
  <1>3. Typed /\ Owned /\ Measured /\ [Next]_vars => Typed' /\ Owned' /\ Measured'
    BY TypedStep, OwnedStep, MeasuredStep
  <1> QED BY <1>1, <1>2, <1>3, PTL DEF Spec
=============================================================================
