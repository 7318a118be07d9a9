--------------------------- MODULE CalibrationJob ---------------------------
(***************************************************************************)
(* The calibration controller: replicas of cmd/calibrator (and the copy    *)
(* cmd/scheduler hosts) claim a job under a lease, run one step of its     *)
(* search as an ordinary run of the execution, classify the report and     *)
(* record it; a finished search becomes a capacity profile.                *)
(*                                                                         *)
(* calibrationapp/service.go and step.go over                              *)
(* repo/mysql/calibration_repository.go; the search itself is Calibration. *)
(* A worker is its label and its local variables; every database statement *)
(* and every lifecycle call of a step is one action.  Each worker process  *)
(* has its own redeploy counter, which a restart resets.                   *)
(***************************************************************************)
EXTENDS Calibration, Sequences

CONSTANTS
    Jobs,          \* job ids, consecutive numbers from 1
    Executions,    \* the calibration executions
    ExecutionOf,   \* [Jobs -> Executions]
    Workers,       \* controller replicas
    Achieved,      \* throughputs a report may measure
    MaxEdits,      \* edits of the scenarios' content
    MaxFaults,     \* failed statements, timeouts and crashes
    Overrun,       \* may a step outlive its 30 minute lease?
    None

VARIABLES
    row,       \* calibration_job: search state, None until triggered
    claim,     \* claimed_at: free, held (within the lease), lapsed
    steps,     \* calibration_job_step
    evidence,  \* history: what each recorded step's run really measured, and the
               \* decision it led to
    load,      \* the execution's one load profile entry: its throughput
    pods,      \* the StatefulSet: rate compiled in, annotation, engine state
    run,       \* the execution's open run, 0 for none
    runs,      \* every run started: execution, what it measures, its report
    content,   \* version of the scenario's files
    profile,   \* capacity_profile of the execution's key
    counter,   \* redeployCounter of each worker process
    w,         \* the workers
    faults

vars == <<row, claim, steps, evidence, load, pods, run, runs, content,
          profile, counter, w, faults>>

\* What the tables, the fleet and a worker's local variables hold.
Labels ==
    {"idle", "spec", "profile", "deploy", "launch", "trigger", "current", "await",
     "stop", "abort", "record", "impaired", "write", "fail"}

Report == [achieved : Achieved, class : Classifications]

Run == [rate : Nat, print : Nat, report : Report \cup {None}]

Pods == [rate : Nat, print : Nat, nonce : Nat,
         engine : {"absent", "running", "finished"}]

Profile == [job : Jobs, by : Verdicts, perPod : Nat, print : Nat]

Step == [requested : Nat, achieved : Nat, class : Classifications]

Evidence == [rate : Nat, print : Nat, decided : Job]

Worker == [pc : Labels, job : Jobs \cup {0}, cur : Job, attempt : 1..2,
           run : Nat, rate : Nat, print : Nat]

ASSUME JobAssumption ==
    /\ Jobs \subseteq Nat \ {0}
    /\ ExecutionOf \in [Jobs -> Executions]
    /\ Achieved \subseteq Nat
    /\ MaxEdits \in Nat /\ MaxFaults \in Nat /\ Overrun \in BOOLEAN
    /\ None \notin Job \cup Report \cup Profile

Active == {"pending", "bracketing", "bisecting"}

Idle == [pc |-> "idle", job |-> 0, cur |-> PendingJob, attempt |-> 1,
         run |-> 0, rate |-> 0, print |-> 0]

\* Where nothing is deployed there is no annotation to compare with.
NoPods == [rate |-> 0, print |-> 0, nonce |-> 0, engine |-> "absent"]

Init ==
    /\ row = [j \in Jobs |-> None]
    /\ claim = [j \in Jobs |-> "free"]
    /\ steps = [j \in Jobs |-> <<>>]
    /\ evidence = [j \in Jobs |-> <<>>]
    /\ load = [e \in Executions |-> SeedQPS]
    /\ pods = [e \in Executions |-> NoPods]
    /\ run = [e \in Executions |-> 0]
    /\ runs = <<>>
    /\ content = [e \in Executions |-> 0]
    /\ profile = [e \in Executions |-> None]
    /\ counter = [p \in Workers |-> 0]
    /\ w = [p \in Workers |-> Idle]
    /\ faults = 0

store == <<row, claim, steps, evidence>>
fleet == <<load, pods, run, runs, counter>>

Exec(p) == ExecutionOf[w[p].job]

At(p, label) == w[p].pc = label

Goto(p, label) == w' = [w EXCEPT ![p].pc = label]

Return(p) == w' = [w EXCEPT ![p] = Idle]

----------------------------------------------------------------------------
(* The ledger: calibration_repository.go.                                  *)

\* CreateCalibrationJob: ids are handed out in order.
CreateCalibrationJob(j) ==
    /\ row[j] = None
    /\ \A i \in Jobs : i < j => row[i] # None
    /\ row' = [row EXCEPT ![j] = PendingJob]
    /\ UNCHANGED <<claim, steps, evidence>>

\* The WHERE clause of ClaimNextStep.
Claimable(j) ==
    row[j] # None /\ row[j].phase \in Active /\ claim[j] # "held"

\* Mutant: the phase alone decides, whoever holds the claim.
ClaimIgnoresLease(j) ==
    /\ row[j] # None /\ row[j].phase \in Active
    /\ claim' = [claim EXCEPT ![j] = "held"]
    /\ UNCHANGED <<row, steps, evidence>>

\* ClaimNextStep: the first due job is locked, stamped and returned; one
\* transaction.
ClaimNextStep(j) ==
    /\ Claimable(j)
    /\ \A i \in Jobs : Claimable(i) => j <= i
    /\ claim' = [claim EXCEPT ![j] = "held"]
    /\ UNCHANGED <<row, steps, evidence>>

\* RecordStep: append to the history and overwrite the row, whatever it holds
\* now; the claim is cleared.
RecordStep(j, step, updated, measured) ==
    /\ steps' = [steps EXCEPT ![j] = Append(@, step)]
    /\ row' = [row EXCEPT ![j] = updated]
    /\ claim' = [claim EXCEPT ![j] = "free"]
    /\ evidence' = [evidence EXCEPT ![j] = Append(@, measured)]

StepsFor(j) == steps[j]

\* MarkFailed: unconditional, and it clears the claim.
MarkFailed(j) ==
    /\ row' = [row EXCEPT ![j].phase = "failed"]
    /\ claim' = [claim EXCEPT ![j] = "free"]
    /\ UNCHANGED <<steps, evidence>>

\* UpsertCapacityProfile: one row for the scenario, engine and pod size.
UpsertCapacityProfile(e, p) == profile' = [profile EXCEPT ![e] = p]

----------------------------------------------------------------------------
(* Triggering a search, and what goes on around it.                        *)

\* calibrationapp.Trigger: a valid specification and one bound scenario, then
\* a pending row.  Nothing keeps an execution from having several.
Trigger(j) ==
    /\ CreateCalibrationJob(j)
    /\ UNCHANGED <<fleet, content, profile, w, faults>>

\* A new version of the scenario's files is uploaded.
EditScenario(e) ==
    /\ content[e] < MaxEdits
    /\ content' = [content EXCEPT ![e] = @ + 1]
    /\ UNCHANGED <<store, fleet, profile, w, faults>>

\* The claim gets older than leaseFor.  A live worker's step is shorter than
\* that unless Overrun.
LeaseLapses(j) ==
    /\ claim[j] = "held"
    /\ Overrun \/ \A p \in Workers : At(p, "idle") \/ w[p].job # j
    /\ claim' = [claim EXCEPT ![j] = "lapsed"]
    /\ UNCHANGED <<row, steps, evidence, fleet, content, profile, w, faults>>

\* The engine finishes, its sidecar's final push settles the report and
\* metricsapp closes the marker.  The pod stays, its engine never runs again.
RunSettles(e, achieved, class) ==
    /\ run[e] # 0
    /\ pods[e].engine = "running"
    /\ runs' = [runs EXCEPT ![run[e]].report =
                   [achieved |-> achieved, class |-> class]]
    /\ pods' = [pods EXCEPT ![e].engine = "finished"]
    /\ run' = [run EXCEPT ![e] = 0]
    /\ UNCHANGED <<store, load, counter, content, profile, w, faults>>

----------------------------------------------------------------------------
(* AdvanceOne.                                                             *)

\* ClaimNextStep on a tick.
Claim(p, j) ==
    /\ At(p, "idle")
    /\ ClaimNextStep(j)
    /\ w' = [w EXCEPT ![p] = [Idle EXCEPT !.pc = "spec", !.job = j,
                                          !.cur = row[j]]]
    /\ UNCHANGED <<fleet, content, profile, faults>>

\* Mutant: every tick searches from the seed.
AlwaysStarts(persisted) == Start

\* startOrResume: a pending job begins at the seed, any other goes on from
\* what was persisted.
StartOrResume(persisted) ==
    IF persisted.phase = "pending" THEN Start ELSE persisted

\* SpecFor: three reads; the bounds are the same on every tick.
ReadSpec(p) ==
    /\ At(p, "spec")
    /\ w' = [w EXCEPT ![p].pc = "profile", ![p].cur = StartOrResume(@)]
    /\ UNCHANGED <<store, fleet, content, profile, faults>>

\* int(math.Ceil(requestedQPS)): the load profile holds whole requests.
CeilRate(rate) == ((rate + Tolerance - 1) \div Tolerance) * Tolerance

\* Mutant: the entry keeps the rate it had.
KeepsLoadProfile(p) ==
    /\ At(p, "profile")
    /\ Goto(p, "deploy")
    /\ UNCHANGED <<store, fleet, content, profile, faults>>

\* RunStep's first half: the entry is rewritten for this step's rate.
StoreLoadProfile(p) ==
    /\ At(p, "profile")
    /\ load' = [load EXCEPT ![Exec(p)] = CeilRate(w[p].cur.next)]
    /\ Goto(p, "deploy")
    /\ UNCHANGED <<store, pods, run, runs, counter, content, profile, faults>>

\* Deploy up to the compiled shards: refused while a run is open.
Deploy(p) ==
    /\ At(p, "deploy")
    /\ IF run[Exec(p)] # 0
       THEN Goto(p, "fail")
       ELSE w' = [w EXCEPT ![p].pc = "launch", ![p].rate = load[Exec(p)],
                           ![p].print = content[Exec(p)]]
    /\ UNCHANGED <<store, fleet, content, profile, faults>>

\* redeployNonce: unique within the process.
RedeployNonce(p) == counter[p] + 1

\* ensureConfigMap and ensureStatefulSet: pods are replaced when the template
\* differs from the one deployed, and only the annotation ever does.
EnsureStatefulSet(p, old) ==
    LET nonce == RedeployNonce(p)
    IN  IF old.engine # "absent" /\ old.nonce = nonce
        THEN old
        ELSE [rate |-> w[p].rate, print |-> w[p].print, nonce |-> nonce,
              engine |-> "running"]

\* DeployScenario.
DeployScenario(p) ==
    /\ At(p, "launch")
    /\ pods' = [pods EXCEPT ![Exec(p)] = EnsureStatefulSet(p, @)]
    /\ counter' = [counter EXCEPT ![p] = @ + 1]
    /\ Goto(p, "trigger")
    /\ UNCHANGED <<store, load, run, runs, content, profile, faults>>

\* triggerWhenReady, once the pods are ready: an open run refuses it.
TriggerWhenReady(p) ==
    LET e == Exec(p)
    IN  /\ At(p, "trigger")
        /\ IF run[e] # 0
           THEN Goto(p, "fail") /\ UNCHANGED <<run, runs>>
           ELSE /\ runs' = Append(runs, [rate |-> pods[e].rate,
                                         print |-> pods[e].print,
                                         report |-> None])
                /\ run' = [run EXCEPT ![e] = Len(runs) + 1]
                /\ Goto(p, "current")
        /\ UNCHANGED <<store, load, pods, counter, content, profile, faults>>

\* CurrentRun: the run the step will wait for is looked up, not returned.
CurrentRun(p) ==
    /\ At(p, "current")
    /\ IF run[Exec(p)] = 0
       THEN Goto(p, "fail")
       ELSE w' = [w EXCEPT ![p].pc = "await", ![p].run = run[Exec(p)]]
    /\ UNCHANGED <<store, fleet, content, profile, faults>>

\* awaitReport finds the report.
AwaitReport(p) ==
    /\ At(p, "await")
    /\ runs[w[p].run].report # None
    /\ Goto(p, "stop")
    /\ UNCHANGED <<store, fleet, content, profile, faults>>

\* awaitReport gives up after stepReportTimeout.  An engine that runs settles
\* long before, so giving up on one is a fault.
AwaitTimesOut(p) ==
    LET stuck == pods[Exec(p)].engine # "running" \/ run[Exec(p)] # w[p].run
    IN  /\ At(p, "await")
        /\ runs[w[p].run].report = None
        /\ stuck \/ faults < MaxFaults
        /\ faults' = IF stuck THEN faults ELSE faults + 1
        /\ Goto(p, "abort")
        /\ UNCHANGED <<store, fleet, content, profile>>

\* Stop, tolerant of a run that is closed already: the marker is deleted,
\* whichever run it names.
Stop(e) == run' = [run EXCEPT ![e] = 0]

\* The decision after a step: a first engine-short is run once more.
AfterStep(p, class) ==
    IF class = "engine_saturated" /\ w[p].attempt = 1 THEN "profile" ELSE "record"

\* RunStep's second half, and runClassifiedStep's verdict.
StopAfterReport(p) ==
    LET next == AfterStep(p, runs[w[p].run].report.class)
    IN  /\ At(p, "stop")
        /\ Stop(Exec(p))
        /\ w' = [w EXCEPT ![p].pc = next,
                          ![p].attempt = IF next = "profile" THEN 2 ELSE @]
        /\ UNCHANGED <<store, load, pods, runs, counter, content, profile, faults>>

StopAfterTimeout(p) ==
    /\ At(p, "abort")
    /\ Stop(Exec(p))
    /\ Goto(p, "fail")
    /\ UNCHANGED <<store, load, pods, runs, counter, content, profile, faults>>

\* calibration.Next, applyDomainJob and RecordStep.
Record(p) ==
    LET rpt == runs[w[p].run].report
        updated == Advance(w[p].cur, w[p].cur.next, rpt.achieved, rpt.class)
    IN  /\ At(p, "record")
        /\ RecordStep(w[p].job,
                      [requested |-> w[p].cur.next, achieved |-> rpt.achieved,
                       class |-> rpt.class],
                      updated,
                      [rate |-> runs[w[p].run].rate,
                       print |-> runs[w[p].run].print, decided |-> updated])
        /\ IF updated.phase = "done"
           THEN w' = [w EXCEPT ![p].pc = "impaired", ![p].cur = updated]
           ELSE Return(p)
        /\ UNCHANGED <<fleet, content, profile, faults>>

\* Mutant: every finished search is taken at its word.
NeverImpaired(j, done) == FALSE

\* environmentImpaired: the engine is blamed and no step was ever clean.
EnvironmentImpaired(j, done) ==
    /\ done.by = "engine"
    /\ \A i \in DOMAIN StepsFor(j) : StepsFor(j)[i].class # "clean"

JudgeSearch(p) ==
    /\ At(p, "impaired")
    /\ Goto(p, IF EnvironmentImpaired(w[p].job, w[p].cur) THEN "fail" ELSE "write")
    /\ UNCHANGED <<store, fleet, content, profile, faults>>

\* writeProfile: the fingerprint is the one of this moment.
WriteProfile(p) ==
    /\ At(p, "write")
    /\ UpsertCapacityProfile(Exec(p),
          [job |-> w[p].job, by |-> w[p].cur.by, perPod |-> w[p].cur.perPod,
           print |-> content[Exec(p)]])
    /\ Return(p)
    /\ UNCHANGED <<store, fleet, content, faults>>

Fail(p) ==
    /\ At(p, "fail")
    /\ MarkFailed(w[p].job)
    /\ Return(p)
    /\ UNCHANGED <<fleet, content, profile, faults>>

\* A statement or a lifecycle call returns an error.  Until the step's report
\* is there the job is failed; afterwards the error is only logged, and so is
\* MarkFailed's own.
StatementFails(p) ==
    /\ faults < MaxFaults
    /\ faults' = faults + 1
    /\ \/ /\ w[p].pc \in {"spec", "profile", "deploy", "launch", "trigger",
                          "current", "await", "stop", "abort"}
          /\ Goto(p, "fail")
       \/ /\ w[p].pc \in {"record", "impaired", "write", "fail"}
          /\ Return(p)
    /\ UNCHANGED <<store, fleet, content, profile>>

\* The controller process dies and comes back.
Crash(p) ==
    /\ faults < MaxFaults
    /\ ~At(p, "idle")
    /\ faults' = faults + 1
    /\ Return(p)
    /\ counter' = [counter EXCEPT ![p] = 0]
    /\ UNCHANGED <<store, load, pods, run, runs, content, profile>>

Advances(p) ==
    \/ \E j \in Jobs : Claim(p, j)
    \/ ReadSpec(p) \/ StoreLoadProfile(p) \/ Deploy(p) \/ DeployScenario(p)
    \/ TriggerWhenReady(p) \/ CurrentRun(p) \/ AwaitReport(p)
    \/ AwaitTimesOut(p) \/ StopAfterReport(p) \/ StopAfterTimeout(p)
    \/ Record(p) \/ JudgeSearch(p) \/ WriteProfile(p) \/ Fail(p)

Settles(e) ==
    \E achieved \in Achieved, class \in Classifications :
        RunSettles(e, achieved, class)

Next ==
    \/ \E j \in Jobs : Trigger(j) \/ LeaseLapses(j)
    \/ \E e \in Executions : EditScenario(e) \/ Settles(e)
    \/ \E p \in Workers : Advances(p) \/ StatementFails(p) \/ Crash(p)

Spec == Init /\ [][Next]_vars

\* The tickers go on, engines finish, and time passes.
FairSpec ==
    /\ Spec
    /\ \A p \in Workers : WF_vars(Advances(p))
    /\ \A e \in Executions : WF_vars(Settles(e))
    /\ \A j \in Jobs : WF_vars(LeaseLapses(j))
----------------------------------------------------------------------------
(* FanOut: capacityprofile.FanOut over the stored profile.                 *)

FanOut(p, target, print) ==
    LET no(status) == [status |-> status, engines |-> 0]
    IN  CASE p = None -> no("no_profile")
          [] p # None /\ p.print # print -> no("stale")
          [] p # None /\ p.print = print /\ p.by = "target" -> no("target_limited")
          [] p # None /\ p.print = print /\ p.by = "neither" -> no("inconclusive")
          [] p # None /\ p.print = print /\ p.by = "engine" ->
                IF p.perPod = 0 THEN no("engine_floor")
                ELSE [status |-> "ok",
                      engines |-> (target + p.perPod - 1) \div p.perPod]

----------------------------------------------------------------------------

\* The rows, the fleet and the controllers' local variables keep their types.
TypeOK ==
    /\ row \in [Jobs -> Job \cup {None}]
    /\ claim \in [Jobs -> {"free", "held", "lapsed"}]
    /\ steps \in [Jobs -> Seq(Step)]
    /\ evidence \in [Jobs -> Seq(Evidence)]
    /\ load \in [Executions -> Nat]
    /\ pods \in [Executions -> Pods]
    /\ runs \in Seq(Run)
    /\ run \in [Executions -> 0..Len(runs)]
    /\ content \in [Executions -> 0..MaxEdits]
    /\ profile \in [Executions -> Profile \cup {None}]
    /\ counter \in [Workers -> Nat]
    /\ w \in [Workers -> Worker]
    /\ faults \in 0..MaxFaults

\* The decision the recorded steps led to.
Decided(j) ==
    IF evidence[j] = <<>> THEN Start ELSE evidence[j][Len(evidence[j])].decided

\* What a job shows of its search: before the first step the search is about to
\* start, and a failed job stays where its last step left it.
Shown(j) ==
    IF row[j] = None \/ row[j] = PendingJob THEN Start
    ELSE IF row[j].phase = "failed" THEN Decided(j)
    ELSE row[j]

Search(j) == INSTANCE CalibrationSearch WITH job <- Shown(j), log <- steps[j]

\* However many controllers claim, crash and reclaim it, the row and the
\* history of a job go through one search (CalibrationSearch), step by step
\* from the persisted state: what startOrResume promises of NextRequestedQPS.
SearchImplemented ==
    /\ \A j \in Jobs : Search(j)!Init
    /\ [][\A j \in Jobs : [Search(j)!Next]_(Search(j)!vars)]_vars

\* "a step must not silently read an unrelated run's report" (step.go): each
\* recorded step was classified from a run whose pods were compiled at exactly
\* the rate the search asked for.
StepMeasured ==
    \A j \in Jobs : \A i \in DOMAIN steps[j] :
        evidence[j][i].rate = CeilRate(steps[j][i].requested)

\* An engine is blamed only by a step that fell short twice: the run of an
\* engine-saturated step is the second one its worker started for it.
SaturationConfirmed ==
    \A p \in Workers :
        At(p, "record") /\ runs[w[p].run].report.class = "engine_saturated"
            => \E r \in 1..(w[p].run - 1) :
                  /\ runs[r].report # None
                  /\ runs[r].report.class = "engine_saturated"
                  /\ runs[r].rate = runs[w[p].run].rate

\* runClassifiedStep: a step is recorded from a run of its own rate, and a saturated
\* one from two such runs.
StepsTrusted == StepMeasured /\ SaturationConfirmed

\* A stored profile is the result of the finished job it names, and if it
\* blames the engine, some step of that job was clean: a broken environment
\* never overwrites an honest row.
ProfileEarned ==
    \A e \in Executions : profile[e] # None =>
        LET j == profile[e].job
        IN  /\ row[j].phase = "done"
            /\ row[j].by = profile[e].by /\ row[j].perPod = profile[e].perPod
            /\ profile[e].by = "engine" =>
                   \E i \in DOMAIN steps[j] : steps[j][i].class = "clean"

\* When FanOut answers with a number of engines, that many pods at the measured
\* throughput carry the target, one fewer does not, and the throughput is one a
\* clean step of the search achieved.
FanOutBacked ==
    \A e \in Executions : \A target \in 1..MaxQPS :
        LET answer == FanOut(profile[e], target, content[e])
            p == profile[e]
        IN  answer.status = "ok" =>
                /\ answer.engines * p.perPod >= target
                /\ (answer.engines - 1) * p.perPod < target
                /\ \E i \in DOMAIN steps[p.job] :
                      /\ steps[p.job][i].class = "clean"
                      /\ steps[p.job][i].achieved = p.perPod

\* writeProfile and FanOut: what is stored is what a finished search found, and a
\* number of engines is only ever answered from a measurement.
ProfileTrusted == ProfileEarned /\ FanOutBacked

\* No two controllers work on one job: "exactly one ever claims a given due
\* job", and a crashed controller's successor starts only after its lease.
OneController ==
    \A p, q \in Workers :
        p # q /\ ~At(p, "idle") /\ ~At(q, "idle") => w[p].job # w[q].job

\* A triggered job ends: "a wedged controller's job self-heals by expiring
\* back to claimable rather than staying stuck forever".
JobEnds ==
    \A j \in Jobs : row[j] # None ~> row[j] # None /\ row[j].phase \in {"done", "failed"}
=============================================================================
