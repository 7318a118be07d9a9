---------------------------- MODULE RunLifecycle ----------------------------
(***************************************************************************)
(* The life of one execution's runs: lifecycleapp (Deploy, Trigger, Stop,   *)
(* Purge, ReapIdle, Reconcile, ReconcileAbandoned), the finalisation half   *)
(* of metricsapp (Ingest of a final batch, Finalize, FinalizeOrphaned,      *)
(* closeRun) and the MySQL rows they share.                                 *)
(*                                                                         *)
(* Nothing in the code serialises these operations: every HTTP request,     *)
(* every sidecar push and every background loop runs on its own goroutine,  *)
(* often in another replica, and each database call is its own statement.   *)
(* A process is therefore at a label (pc) between two calls, and one action *)
(* of this module is one call.                                              *)
(*                                                                         *)
(* The quota calls of Trigger and teardown are left to QuotaLedger; the      *)
(* measurements that batches carry do not matter here.                       *)
(***************************************************************************)
EXTENDS Naturals

CONSTANTS
    Handlers,    \* API requests being served: operator calls and pushes
    Sweepers,    \* startReconcile goroutines of cmd/api, one per replica
    Schedulers,  \* cmd/scheduler's drain and reaper loops
    Clusters,    \* the clusters the execution fans out to
    Shards,      \* (scenario, shard index) pairs of the load profile
    ExitCodes,   \* the outcomes bzt's exit codes map to
    MaxRuns,     \* bound: runs started
    MaxDeploys,  \* bound: deploys, i.e. engine generations
    MaxFaults    \* bound: crashes and failed calls

Procs == Handlers \cup Sweepers \cup Schedulers
Engines == Clusters \X Shards
Runs == 1 .. MaxRuns
Generations == 1 .. MaxDeploys

ASSUME ProcsDisjoint ==
    /\ Handlers \cap Sweepers = {}
    /\ Handlers \cap Schedulers = {}
    /\ Sweepers \cap Schedulers = {}

ASSUME BoundsAssumption == MaxRuns \in Nat /\ MaxDeploys \in Nat /\ MaxFaults \in Nat

ASSUME FleetAssumption == Clusters # {} /\ Shards # {}

(***************************************************************************)
(* taurus.Outcome. A final batch carries the outcome its exit code maps to, *)
(* or NoCode when the sidecar was torn down before bzt wrote one.           *)
(***************************************************************************)
Outcomes == {"passed", "failed", "aborted", "error"}
ASSUME ExitCodesAssumption == ExitCodes \subseteq Outcomes
NoCode == "nil"
Codes == Outcomes \cup {NoCode}
None == "none"

WorstOutcome(outcomes) ==
    CASE "error" \in outcomes -> "error"
      [] "failed" \in outcomes -> "failed"
      [] "aborted" \in outcomes -> "aborted"
      [] OTHER -> "passed"

\* Mutant: a shard without an exit code counts as clean.
KnownAsPassed(codes) == {IF c = NoCode THEN "passed" ELSE c : c \in codes}

\* exitCodeUnknown: a finished shard without a code counts as an error.
Known(codes) == {IF c = NoCode THEN "error" ELSE c : c \in codes}

CombineOutcomes(codes) ==
    IF codes = {} THEN "error" ELSE WorstOutcome(Known(codes))

VARIABLES
    marker,     \* execution_run: the open run's id, 0 when there is no row
    lastRun,    \* the table's auto-increment
    history,    \* execution_run_history: "none", "open" or "ended" per run
    correlation,\* the deploy generation stamped on the run's history row
    report,     \* execution_report's outcome per run, None before SaveReport
    announced,  \* <<run, outcome>> pairs notified and graded
    progress,   \* report_progress_shard: the finished shards' codes per run
    source,     \* ghost: the generation of the pod behind each progress row
    evidence,   \* ghost: every <<engine, code>> ever absorbed per run
    orphans,    \* execution_orphan_completion, keyed by shard only
    pending,    \* the execution's pending correlation id (a generation)
    launch,     \* execution_launch: the run the open usage launch began with
    marked,     \* running_scenario rows exist
    idle,       \* the activity clock is older than the reaper's TTL
    old,        \* runs older than the abandoned-run threshold
    pods,       \* generation of each engine's ready pod, 0 when there is none
    alive,      \* <<engine, generation>> whose sidecar has yet to push its Final
    net,        \* final batches in flight
    minted,     \* deploys so far, the trace identities minted
    faults,     \* crashes and failed calls so far
    w           \* each process's label and locals

runVars == <<marker, lastRun, history, correlation>>
reportVars == <<report, announced>>
progressVars == <<progress, source, evidence>>
sideVars == <<launch, marked, idle>>
podVars == <<pods, alive, net>>
boundVars == <<minted, faults>>
data == <<runVars, reportVars, progressVars, orphans, pending, sideVars, old,
          podVars, boundVars>>
vars == <<data, w>>

Batches == [engine : Engines, gen : Generations, code : Codes]
NoBatch == [engine |-> None, gen |-> 0, code |-> None]

Labels == {"rest",
    "deploy_park", "deploy_clear", "deploy_pods",
    "trig_status", "trig_orphans", "trig_pending", "trig_start",
    "trig_history", "trig_mark",
    "ing_orphan", "ing_absorb", "ing_count", "ing_codes",
    "reap_current", "reap_capture", "reap_clear", "purge_pods",
    "td_clear", "td_current",
    "rec_orphans", "sweep_open", "sweep_report", "sweep_pods",
    "stop_outcome", "fin_check", "fin_save", "fin_announce", "fin_discard",
    "fin_current", "stop_read", "stop_mark", "stop_delete"}

Ops == {None, "deploy", "trigger", "ingest", "stop", "purge", "drain", "reap",
        "reconcile", "sweep"}

(***************************************************************************)
(* A process's locals: the run it works on, the run id StopRun read, the    *)
(* generation it deploys or stamps, the outcome it will save, whether it    *)
(* found no report (!alreadyFinalised), whether the StopRun under way is    *)
(* closeRun's (else its caller's), the engines still to deploy or purge.    *)
(***************************************************************************)
Locals == [pc : Labels, op : Ops, run : 0 .. MaxRuns, cur : 0 .. MaxRuns,
           gen : 0 .. MaxDeploys, verdict : Outcomes \cup {None},
           fresh : BOOLEAN, closing : BOOLEAN, todo : SUBSET Engines,
           batch : Batches \cup {NoBatch}]

Rest == [pc |-> "rest", op |-> None, run |-> 0, cur |-> 0, gen |-> 0,
         verdict |-> None, fresh |-> FALSE, closing |-> FALSE, todo |-> {},
         batch |-> NoBatch]

NoProgress == [e \in Engines |-> None]
NoOrphans == [s \in Shards |-> None]

Init ==
    /\ marker = 0
    /\ lastRun = 0
    /\ history = [r \in Runs |-> "none"]
    /\ correlation = [r \in Runs |-> 0]
    /\ report = [r \in Runs |-> None]
    /\ announced = {}
    /\ progress = [r \in Runs |-> NoProgress]
    /\ source = [r \in Runs |-> [e \in Engines |-> 0]]
    /\ evidence = [r \in Runs |-> {}]
    /\ orphans = NoOrphans
    /\ pending = 0
    /\ launch = 0
    /\ marked = FALSE
    /\ idle = FALSE
    /\ old = {}
    /\ pods = [e \in Engines |-> 0]
    /\ alive = {}
    /\ net = {}
    /\ minted = 0
    /\ faults = 0
    /\ w = [p \in Procs |-> Rest]

At(p, label) == w[p].pc = label
Become(p, l) == w' = [w EXCEPT ![p] = l]
Goto(p, label) == Become(p, [w[p] EXCEPT !.pc = label])
Return(p) == Become(p, Rest)

(***************************************************************************)
(* What the guards read. The pool covers the profile when every engine is   *)
(* ready on every cluster; the usage ledger holds one launch per execution, *)
(* and cmd/scheduler wires no usage service.                                *)
(***************************************************************************)
CanDeploy == marker = 0
CanStop == marker # 0
EveryClusterReady == \A e \in Engines : pods[e] # 0
PoolEmpty == \A e \in Engines : pods[e] = 0

StartLaunch(p, r) == IF launch = 0 /\ p \notin Schedulers THEN r ELSE launch
FinishLaunch(p) == IF p \in Schedulers THEN launch ELSE 0

(***************************************************************************)
(* Deploy: refused while a run is open; mint and park the correlation id,   *)
(* clear the orphans, stamp the idle clock, then provision engine by engine *)
(* on every cluster. Provisioning replaces the pod of the generation before,*)
(* whose sidecar is still being terminated.                                 *)
(***************************************************************************)
BeginDeploy(p) ==
    /\ At(p, "rest")
    /\ CanDeploy
    /\ minted < MaxDeploys
    /\ minted' = minted + 1
    /\ Become(p, [Rest EXCEPT !.pc = "deploy_park", !.op = "deploy",
                              !.gen = minted + 1])
    /\ UNCHANGED <<runVars, reportVars, progressVars, orphans, pending, sideVars,
                   old, podVars, faults>>

SetPendingCorrelationID(p) ==
    /\ At(p, "deploy_park")
    /\ pending' = w[p].gen
    /\ Goto(p, "deploy_clear")
    /\ UNCHANGED <<runVars, reportVars, progressVars, orphans, sideVars, old,
                   podVars, boundVars>>

DeployClearOrphans(p) ==
    /\ At(p, "deploy_clear")
    /\ orphans' = NoOrphans
    /\ idle' = FALSE
    /\ Become(p, [w[p] EXCEPT !.pc = "deploy_pods", !.todo = Engines])
    /\ UNCHANGED <<runVars, reportVars, progressVars, pending, launch, marked, old,
                   podVars, boundVars>>

DeployScenario(p, e) ==
    /\ At(p, "deploy_pods")
    /\ e \in w[p].todo
    /\ pods' = [pods EXCEPT ![e] = w[p].gen]
    /\ alive' = alive \cup {<<e, w[p].gen>>}
    /\ Become(p, IF w[p].todo = {e} THEN Rest
                 ELSE [w[p] EXCEPT !.todo = @ \ {e}])
    /\ UNCHANGED <<runVars, reportVars, progressVars, orphans, pending, sideVars,
                   old, net, boundVars>>

(***************************************************************************)
(* Trigger. CanTrigger needs no open run and every engine ready on every    *)
(* cluster; orphaned completions refuse it. StartRun is two inserts: the    *)
(* unique marker row, then the history row with the parked correlation id.  *)
(***************************************************************************)
BeginTrigger(p) ==
    /\ At(p, "rest")
    /\ marker = 0
    /\ Become(p, [Rest EXCEPT !.pc = "trig_status", !.op = "trigger"])
    /\ UNCHANGED data

TriggerStatus(p) ==
    /\ At(p, "trig_status")
    /\ IF EveryClusterReady
       THEN Goto(p, "trig_orphans")
       ELSE Return(p)
    /\ UNCHANGED data

TriggerOrphans(p) ==
    /\ At(p, "trig_orphans")
    /\ IF orphans = NoOrphans
       THEN Goto(p, "trig_pending")
       ELSE Return(p)
    /\ UNCHANGED data

PendingCorrelationID(p) ==
    /\ At(p, "trig_pending")
    /\ Become(p, [w[p] EXCEPT !.pc = "trig_start", !.gen = pending])
    /\ UNCHANGED data

StartRun(p) ==
    /\ At(p, "trig_start")
    /\ \/ /\ marker = 0
          /\ lastRun < MaxRuns
          /\ marker' = lastRun + 1
          /\ lastRun' = lastRun + 1
          /\ Become(p, [w[p] EXCEPT !.pc = "trig_history", !.run = lastRun + 1])
       \/ /\ marker # 0
          /\ Return(p)
          /\ UNCHANGED <<marker, lastRun>>
    /\ UNCHANGED <<history, correlation, reportVars, progressVars, orphans, pending,
                   sideVars, old, podVars, boundVars>>

StartRunHistory(p) ==
    /\ At(p, "trig_history")
    /\ history' = [history EXCEPT ![w[p].run] = "open"]
    /\ correlation' = [correlation EXCEPT ![w[p].run] = w[p].gen]
    /\ Become(p, [w[p] EXCEPT !.pc = "trig_mark", !.gen = 0])
    /\ UNCHANGED <<marker, lastRun, reportVars, progressVars, orphans, pending,
                   sideVars, old, podVars, boundVars>>

\* TouchActivity, MarkScenarioRunning, then RecordStart: a launch still open
\* makes it a no-op.
MarkScenarioRunning(p) ==
    /\ At(p, "trig_mark")
    /\ idle' = FALSE
    /\ marked' = TRUE
    /\ launch' = StartLaunch(p, w[p].run)
    /\ Return(p)
    /\ UNCHANGED <<runVars, reportVars, progressVars, orphans, pending, old, podVars,
                   boundVars>>

(***************************************************************************)
(* Where a process goes once a call of a shared subroutine is over.         *)
(* StopRun is called by closeRun and then, for every finalisation but an    *)
(* ingested one, again by the caller. A reconcile pass goes on to the       *)
(* abandoned-run sweep whatever Reconcile returned.                         *)
(***************************************************************************)
EndOfPass(l) ==
    IF l.op = "reconcile" THEN [Rest EXCEPT !.pc = "sweep_open", !.op = "sweep"]
    ELSE Rest

CallerStopRun(l) == [Rest EXCEPT !.pc = "stop_read", !.op = l.op, !.todo = l.todo]

AfterClose(l) == IF l.op = "ingest" THEN Rest ELSE CallerStopRun(l)

AfterStopRun(l) ==
    CASE l.closing -> AfterClose(l)
      [] ~l.closing /\ l.op \in {"purge", "reap"} -> [l EXCEPT !.pc = "purge_pods"]
      [] OTHER -> EndOfPass(l)

\* teardown ignores Finalize's error; Ingest and the sweeps return it.
FinalizeFailed(l) ==
    IF l.op \in {"stop", "purge"} THEN CallerStopRun(l) ELSE EndOfPass(l)

(***************************************************************************)
(* Stop, Purge and drain. teardownAndCapture tears down when there is an    *)
(* open run or a last run; an execution that never ran loses only its pods. *)
(***************************************************************************)
BeginStop(p, op) ==
    /\ At(p, "rest")
    /\ CanStop
    /\ Become(p, [Rest EXCEPT !.pc = "td_clear", !.op = op])
    /\ UNCHANGED data

Captured(l) ==
    [l EXCEPT !.pc = IF marker # 0 \/ \E r \in Runs : history[r] # "none"
                     THEN "td_clear" ELSE "purge_pods"]

BeginPurge(p) ==
    /\ At(p, "rest")
    /\ Become(p, Captured([Rest EXCEPT !.op = "purge", !.todo = Engines]))
    /\ UNCHANGED data

\* TouchActivity, ClearScenarioRunning, RecordFinish (not in cmd/scheduler).
TeardownClear(p) ==
    /\ At(p, "td_clear")
    /\ idle' = FALSE
    /\ marked' = FALSE
    /\ launch' = FinishLaunch(p)
    /\ Goto(p, "td_current")
    /\ UNCHANGED <<runVars, reportVars, progressVars, orphans, pending, old, podVars,
                   boundVars>>

\* cmd/scheduler wires no metrics service: its teardown finalises nothing.
TeardownCurrent(p) ==
    /\ At(p, "td_current")
    /\ Become(p, IF marker # 0 /\ p \notin Schedulers
                 THEN [w[p] EXCEPT !.pc = "stop_outcome", !.run = marker]
                 ELSE CallerStopRun(w[p]))
    /\ UNCHANGED data

\* PurgeExecution on one cluster: Purge goes through every cluster, a reap
\* only removes the pods of the cluster it found them on.
PurgeExecution(p, c) ==
    LET here == {e \in Engines : e[1] = c}
        left == w[p].todo \ here
    IN  /\ At(p, "purge_pods")
        /\ here \cap w[p].todo # {}
        /\ pods' = [e \in Engines |-> IF e \in here THEN 0 ELSE pods[e]]
        /\ Become(p, CASE left # {} -> [w[p] EXCEPT !.todo = left]
                       [] left = {} /\ w[p].op = "reap" ->
                              [w[p] EXCEPT !.pc = "reap_clear", !.todo = {}]
                       [] OTHER -> Rest)
        /\ UNCHANGED <<runVars, reportVars, progressVars, orphans, pending, sideVars,
                       old, alive, net, boundVars>>

(***************************************************************************)
(* ReapIdle on one cluster: the idle clock, the open-run guard, then the    *)
(* shared teardown and the orphans that died with the pods.                 *)
(***************************************************************************)
BeginReap(p, c) ==
    /\ At(p, "rest")
    /\ idle
    /\ \E e \in Engines : e[1] = c /\ pods[e] # 0
    /\ Become(p, [Rest EXCEPT !.pc = "reap_current", !.op = "reap",
                              !.todo = {e \in Engines : e[1] = c}])
    /\ UNCHANGED data

ReapCurrent(p) ==
    /\ At(p, "reap_current")
    /\ IF marker # 0 THEN Return(p) ELSE Goto(p, "reap_capture")
    /\ UNCHANGED data

ReapCapture(p) ==
    /\ At(p, "reap_capture")
    /\ Become(p, Captured(w[p]))
    /\ UNCHANGED data

ReapClearOrphans(p) ==
    /\ At(p, "reap_clear")
    /\ orphans' = NoOrphans
    /\ Return(p)
    /\ UNCHANGED <<runVars, reportVars, progressVars, pending, sideVars, old, podVars,
                   boundVars>>

(***************************************************************************)
(* Ingest of a final batch. The sidecar's final push is made once: an error *)
(* answer is not retried. A batch names no run (the pod spec passes no      *)
(* -run-id), so ErrStaleRun cannot fire and the open run takes the batch.   *)
(***************************************************************************)
BeginIngest(p, b) ==
    /\ At(p, "rest")
    /\ b \in net
    /\ net' = net \ {b}
    /\ Become(p, [Rest EXCEPT
                  !.pc = IF marker = 0 THEN "ing_orphan" ELSE "ing_absorb",
                  !.op = "ingest", !.run = marker, !.batch = b])
    /\ UNCHANGED <<runVars, reportVars, progressVars, orphans, pending, sideVars,
                   old, pods, alive, boundVars>>

RecordOrphanCompletion(p) ==
    /\ At(p, "ing_orphan")
    /\ orphans' = [orphans EXCEPT ![w[p].batch.engine[2]] = w[p].batch.code]
    /\ Return(p)
    /\ UNCHANGED <<runVars, reportVars, progressVars, pending, sideVars, old, podVars,
                   boundVars>>

\* Absorb's shard row: finished, and COALESCE(batch's code, stored code).
Absorb(p) ==
    LET b == w[p].batch
        r == w[p].run
    IN  /\ At(p, "ing_absorb")
        /\ progress' = [progress EXCEPT ![r][b.engine] =
                            IF b.code = NoCode /\ @ # None THEN @ ELSE b.code]
        /\ source' = [source EXCEPT ![r][b.engine] = b.gen]
        /\ evidence' = [evidence EXCEPT ![r] = @ \cup {<<b.engine, b.code>>}]
        /\ Become(p, [w[p] EXCEPT !.pc = "ing_count", !.batch = NoBatch])
        /\ UNCHANGED <<runVars, reportVars, orphans, pending, sideVars, old, podVars,
                       boundVars>>

\* Mutant: planned shards are not multiplied by the fan-out targets.
OneClusterFinished(p) ==
    /\ At(p, "ing_count")
    /\ IF \A s \in Shards : \E c \in Clusters : progress[w[p].run][<<c, s>>] # None
       THEN Goto(p, "ing_codes")
       ELSE Return(p)
    /\ UNCHANGED data

AllShardsFinished(p) ==
    /\ At(p, "ing_count")
    /\ IF \A e \in Engines : progress[w[p].run][e] # None
       THEN Goto(p, "ing_codes")
       ELSE Return(p)
    /\ UNCHANGED data

FinishedCodes(r) == {progress[r][e] : e \in Engines} \ {None}

FinalizeCompleted(p) ==
    /\ At(p, "ing_codes")
    /\ Become(p, [w[p] EXCEPT !.pc = "fin_check",
                              !.verdict = CombineOutcomes(FinishedCodes(w[p].run))])
    /\ UNCHANGED data

(***************************************************************************)
(* The reconcile pass: Reconcile (orphans that cover the profile close the  *)
(* open run), then ReconcileAbandoned. Both work from the OpenRuns listing, *)
(* whose join drops a marker without a history row.                         *)
(***************************************************************************)
OpenRun == marker # 0 /\ history[marker] # "none"

BeginPass(p) ==
    /\ At(p, "rest")
    /\ Become(p, IF OpenRun
                 THEN [Rest EXCEPT !.pc = "rec_orphans", !.op = "reconcile", !.run = marker]
                 ELSE [Rest EXCEPT !.pc = "sweep_open", !.op = "sweep"])
    /\ UNCHANGED data

OrphanCodes == {orphans[s] : s \in Shards} \ {None}

ReconcileOrphans(p) ==
    /\ At(p, "rec_orphans")
    /\ Become(p, IF \A s \in Shards : orphans[s] # None
                 THEN [w[p] EXCEPT !.pc = "fin_check",
                                !.verdict = WorstOutcome({"aborted"} \cup Known(OrphanCodes))]
                 ELSE EndOfPass(w[p]))
    /\ UNCHANGED data

SweepOpen(p) ==
    /\ At(p, "sweep_open")
    /\ Become(p, IF OpenRun /\ marker \in old
                 THEN [w[p] EXCEPT !.pc = "sweep_report", !.run = marker]
                 ELSE Rest)
    /\ UNCHANGED data

\* Mutant: a run that has a report is none of the sweep's business.
SweepSkipsReported(p) ==
    /\ At(p, "sweep_report")
    /\ IF report[w[p].run] # None THEN Return(p) ELSE Goto(p, "sweep_pods")
    /\ UNCHANGED data

SweepReport(p) ==
    /\ At(p, "sweep_report")
    /\ Become(p, IF report[w[p].run] # None THEN CallerStopRun(w[p])
                 ELSE [w[p] EXCEPT !.pc = "sweep_pods"])
    /\ UNCHANGED data

SweepPods(p) ==
    /\ At(p, "sweep_pods")
    /\ IF PoolEmpty THEN Goto(p, "stop_outcome") ELSE Return(p)
    /\ UNCHANGED data

(***************************************************************************)
(* Finalize and finalize: the outcome, the alreadyFinalised check, the      *)
(* first-write-wins save, the announcement and grading, the discard of the  *)
(* working state, and closeRun.                                             *)
(***************************************************************************)
StopOutcome(p) ==
    /\ At(p, "stop_outcome")
    /\ Become(p, [w[p] EXCEPT !.pc = "fin_check",
                              !.verdict = WorstOutcome({"aborted"} \cup
                                                (FinishedCodes(w[p].run) \ {NoCode}))])
    /\ UNCHANGED data

\* Mutant: the working state is discarded before the report is written.
DiscardFirst(p) ==
    /\ At(p, "fin_check")
    /\ progress' = [progress EXCEPT ![w[p].run] = NoProgress]
    /\ Become(p, [w[p] EXCEPT !.pc = "fin_save", !.fresh = (report[w[p].run] = None)])
    /\ UNCHANGED <<runVars, reportVars, source, evidence, orphans, pending, sideVars,
                   old, podVars, boundVars>>

\* GetReport, then RunHistory, which fails on a run without a history row.
CheckReport(p) ==
    /\ At(p, "fin_check")
    /\ Become(p, IF history[w[p].run] = "none" THEN FinalizeFailed(w[p])
                 ELSE [w[p] EXCEPT !.pc = "fin_save", !.fresh = (report[w[p].run] = None)])
    /\ UNCHANGED data

Announced(l) == [l EXCEPT !.pc = "fin_discard", !.fresh = FALSE, !.verdict = None]

\* Mutant: the report is upserted.
SaveReportOverwrites(p) ==
    /\ At(p, "fin_save")
    /\ report' = [report EXCEPT ![w[p].run] = w[p].verdict]
    /\ Become(p, IF w[p].fresh THEN [w[p] EXCEPT !.pc = "fin_announce"]
                 ELSE Announced(w[p]))
    /\ UNCHANGED <<runVars, announced, progressVars, orphans, pending, sideVars,
                   old, podVars, boundVars>>

SaveReport(p) ==
    LET r == w[p].run
    IN  /\ At(p, "fin_save")
        /\ report' = [report EXCEPT ![r] = IF @ = None THEN w[p].verdict ELSE @]
        /\ Become(p, IF w[p].fresh THEN [w[p] EXCEPT !.pc = "fin_announce"]
                     ELSE Announced(w[p]))
        /\ UNCHANGED <<runVars, announced, progressVars, orphans, pending, sideVars,
                       old, podVars, boundVars>>

RunCompleted(p) ==
    /\ At(p, "fin_announce")
    /\ announced' = announced \cup {<<w[p].run, w[p].verdict>>}
    /\ Become(p, Announced(w[p]))
    /\ UNCHANGED <<runVars, report, progressVars, orphans, pending, sideVars, old,
                   podVars, boundVars>>

Discard(p) ==
    /\ At(p, "fin_discard")
    /\ progress' = [progress EXCEPT ![w[p].run] = NoProgress]
    /\ source' = [source EXCEPT ![w[p].run] = [e \in Engines |-> 0]]
    /\ Goto(p, "fin_current")
    /\ UNCHANGED <<runVars, reportVars, evidence, orphans, pending, sideVars, old,
                   podVars, boundVars>>

\* TouchActivity, then closeRun's comparison with CurrentRun.
CloseRun(p) ==
    /\ At(p, "fin_current")
    /\ idle' = FALSE
    /\ Become(p, IF marker = w[p].run /\ marker # 0
                 THEN [w[p] EXCEPT !.pc = "stop_read", !.closing = TRUE]
                 ELSE AfterClose(w[p]))
    /\ UNCHANGED <<runVars, reportVars, progressVars, orphans, pending, launch, marked,
                   old, podVars, boundVars>>

(***************************************************************************)
(* StopRun: read the marker, stamp that run's end, delete the execution's   *)
(* marker row. Three statements, no transaction, deletion by execution id.  *)
(***************************************************************************)
StopRunRead(p) ==
    /\ At(p, "stop_read")
    /\ Become(p, IF marker = 0 THEN AfterStopRun(w[p])
                 ELSE [w[p] EXCEPT !.pc = "stop_mark", !.cur = marker])
    /\ UNCHANGED data

StopRunHistory(p) ==
    /\ At(p, "stop_mark")
    /\ history' = [history EXCEPT ![w[p].cur] = IF @ = "none" THEN @ ELSE "ended"]
    /\ Goto(p, "stop_delete")
    /\ UNCHANGED <<marker, lastRun, correlation, reportVars, progressVars, orphans,
                   pending, sideVars, old, podVars, boundVars>>

StopRunDelete(p) ==
    /\ At(p, "stop_delete")
    /\ marker' = 0
    /\ Become(p, AfterStopRun(w[p]))
    /\ UNCHANGED <<lastRun, history, correlation, reportVars, progressVars, orphans,
                   pending, sideVars, old, podVars, boundVars>>

(***************************************************************************)
(* Faults. A process dies or a call returns an error at any label; teardown *)
(* survives an error inside Finalize; a Trigger none of whose scenario      *)
(* markers could be written rolls its run back.                             *)
(***************************************************************************)
Fail(p) ==
    /\ ~At(p, "rest")
    /\ faults < MaxFaults
    /\ faults' = faults + 1
    /\ Become(p, EndOfPass(w[p]))
    /\ UNCHANGED <<runVars, reportVars, progressVars, orphans, pending, sideVars, old,
                   podVars, minted>>

FinalizeError(p) ==
    /\ w[p].pc \in {"stop_outcome", "fin_check", "fin_save", "fin_announce", "fin_discard",
                    "fin_current"}
    /\ w[p].op \in {"stop", "purge"}
    /\ faults < MaxFaults
    /\ faults' = faults + 1
    /\ Become(p, CallerStopRun(w[p]))
    /\ UNCHANGED <<runVars, reportVars, progressVars, orphans, pending, sideVars, old,
                   podVars, minted>>

TriggerRollback(p) ==
    /\ At(p, "trig_mark")
    /\ faults < MaxFaults
    /\ faults' = faults + 1
    /\ idle' = FALSE
    /\ Become(p, CallerStopRun(w[p]))
    /\ UNCHANGED <<runVars, reportVars, progressVars, orphans, pending, launch, marked,
                   old, podVars, minted>>

(***************************************************************************)
(* The cluster and the clock. bzt exits and its sidecar pushes the code; a  *)
(* sidecar whose pod was replaced or removed pushes a final batch without a *)
(* code; a push is lost; a StatefulSet is lost; time passes.                *)
(***************************************************************************)
EngineFinishes(e, code) ==
    /\ <<e, pods[e]>> \in alive
    /\ alive' = alive \ {<<e, pods[e]>>}
    /\ net' = net \cup {[engine |-> e, gen |-> pods[e], code |-> code]}
    /\ UNCHANGED <<runVars, reportVars, progressVars, orphans, pending, sideVars, old,
                   pods, boundVars, w>>

SidecarTerminated(e, g) ==
    /\ <<e, g>> \in alive
    /\ pods[e] # g
    /\ alive' = alive \ {<<e, g>>}
    /\ net' = net \cup {[engine |-> e, gen |-> g, code |-> NoCode]}
    /\ UNCHANGED <<runVars, reportVars, progressVars, orphans, pending, sideVars, old,
                   pods, boundVars, w>>

PushLost(b) ==
    /\ b \in net
    /\ net' = net \ {b}
    /\ UNCHANGED <<runVars, reportVars, progressVars, orphans, pending, sideVars, old,
                   pods, alive, boundVars, w>>

PodLost(e) ==
    /\ pods[e] # 0
    /\ pods' = [pods EXCEPT ![e] = 0]
    /\ UNCHANGED <<runVars, reportVars, progressVars, orphans, pending, sideVars, old,
                   alive, net, boundVars, w>>

RunAges ==
    /\ OpenRun
    /\ marker \notin old
    /\ old' = old \cup {marker}
    /\ UNCHANGED <<runVars, reportVars, progressVars, orphans, pending, sideVars,
                   podVars, boundVars, w>>

ExecutionIdles ==
    /\ ~idle
    /\ idle' = TRUE
    /\ UNCHANGED <<runVars, reportVars, progressVars, orphans, pending, launch, marked,
                   old, podVars, boundVars, w>>

\* A process's next call, once an operation is under way.
Step(p) ==
    \/ SetPendingCorrelationID(p)
    \/ DeployClearOrphans(p)
    \/ \E e \in Engines : DeployScenario(p, e)
    \/ TriggerStatus(p)
    \/ TriggerOrphans(p)
    \/ PendingCorrelationID(p)
    \/ StartRun(p)
    \/ StartRunHistory(p)
    \/ MarkScenarioRunning(p)
    \/ TeardownClear(p)
    \/ TeardownCurrent(p)
    \/ \E c \in Clusters : PurgeExecution(p, c)
    \/ ReapCurrent(p)
    \/ ReapCapture(p)
    \/ ReapClearOrphans(p)
    \/ RecordOrphanCompletion(p)
    \/ Absorb(p)
    \/ AllShardsFinished(p)
    \/ FinalizeCompleted(p)
    \/ ReconcileOrphans(p)
    \/ SweepOpen(p)
    \/ SweepReport(p)
    \/ SweepPods(p)
    \/ StopOutcome(p)
    \/ CheckReport(p)
    \/ SaveReport(p)
    \/ RunCompleted(p)
    \/ Discard(p)
    \/ CloseRun(p)
    \/ StopRunRead(p)
    \/ StopRunHistory(p)
    \/ StopRunDelete(p)

Request(p) ==
    \/ p \in Handlers \cup Schedulers /\ BeginDeploy(p)
    \/ p \in Handlers \cup Schedulers /\ BeginTrigger(p)
    \/ p \in Handlers /\ BeginStop(p, "stop")
    \/ p \in Handlers /\ BeginPurge(p)
    \/ p \in Handlers /\ \E b \in net : BeginIngest(p, b)
    \/ p \in Schedulers /\ BeginStop(p, "drain")
    \/ p \in Schedulers /\ \E c \in Clusters : BeginReap(p, c)
    \/ p \in Sweepers /\ BeginPass(p)

Fault(p) == Fail(p) \/ FinalizeError(p) \/ TriggerRollback(p)

Environment ==
    \/ \E e \in Engines, code \in ExitCodes : EngineFinishes(e, code)
    \/ \E e \in Engines, g \in Generations : SidecarTerminated(e, g)
    \/ \E b \in net : PushLost(b)
    \/ \E e \in Engines : PodLost(e)
    \/ Sweepers # {} /\ RunAges
    \/ Schedulers # {} /\ ExecutionIdles

Next ==
    \/ \E p \in Procs : Step(p) \/ Request(p) \/ Fault(p)
    \/ Environment

(***************************************************************************)
(* Calls return, the ticker of each reconcile goroutine fires, time passes. *)
(* Operators, engines and faults are under no obligation.                   *)
(***************************************************************************)
Fairness ==
    /\ \A p \in Procs : WF_vars(Step(p))
    /\ \A p \in Sweepers : WF_vars(BeginPass(p))
    /\ WF_vars(RunAges)

Spec == Init /\ [][Next]_vars
FairSpec == Spec /\ Fairness

-----------------------------------------------------------------------------
StoreOK ==
    /\ lastRun \in 0 .. MaxRuns
    /\ marker \in 0 .. lastRun
    /\ history \in [Runs -> {"none", "open", "ended"}]
    /\ correlation \in [Runs -> 0 .. MaxDeploys]
    /\ report \in [Runs -> Outcomes \cup {None}]
    /\ announced \subseteq Runs \X Outcomes
    /\ progress \in [Runs -> [Engines -> Codes \cup {None}]]
    /\ source \in [Runs -> [Engines -> 0 .. MaxDeploys]]
    /\ evidence \in [Runs -> SUBSET (Engines \X Codes)]
    /\ orphans \in [Shards -> Codes \cup {None}]
    /\ pending \in 0 .. MaxDeploys
    /\ launch \in 0 .. MaxRuns
    /\ marked \in BOOLEAN
    /\ idle \in BOOLEAN
    /\ old \subseteq Runs
    /\ pods \in [Engines -> 0 .. MaxDeploys]
    /\ alive \subseteq Engines \X Generations
    /\ net \subseteq Batches
    /\ minted \in 0 .. MaxDeploys
    /\ faults \in 0 .. MaxFaults

\* The rows, the cluster and every process's locals have their types.
TypeOK == StoreOK /\ w \in [Procs -> Locals]

(***************************************************************************)
(* "Never an invented pass": a run is reported passed only when every       *)
(* engine of the profile delivered a final batch with exit code 0 to that   *)
(* run. Two concurrent completions, a late push after the working state     *)
(* was discarded, and a stop racing the last completion must not break it.  *)
(***************************************************************************)
PassEarned ==
    \A r \in Runs : report[r] = "passed" =>
        \A e \in Engines : <<e, "passed">> \in evidence[r]

(***************************************************************************)
(* The working state of a run is discarded only once its report is durable: *)
(* until then every completion the control plane acknowledged is still      *)
(* there for whichever finalisation comes first.                            *)
(***************************************************************************)
NoEvidenceLost ==
    \A r \in Runs : report[r] = None =>
        \A e \in Engines : (\E c \in Codes : <<e, c>> \in evidence[r]) => progress[r][e] # None

(***************************************************************************)
(* SaveReport keeps the first report: whatever races it afterwards (a Purge *)
(* after natural completion, a second sweep), a stored verdict stands.      *)
(***************************************************************************)
ReportStands == [][\A r \in Runs : report[r] # None => report'[r] = report[r]]_vars

(***************************************************************************)
(* A run whose report is stored does not wedge its execution: the marker    *)
(* left behind by a crash between SaveReport and closeRun is cleared.       *)
(***************************************************************************)
WedgedRunCloses ==
    \A r \in Runs : (marker = r /\ report[r] # None) ~> (marker # r)

(***************************************************************************)
(* A run that lost its engines for good is closed by the abandoned-run      *)
(* sweep, with or without anybody asking.                                   *)
(***************************************************************************)
AbandonedRunCloses ==
    <>[]PoolEmpty =>
        \A r \in Runs : (marker = r /\ history[r] # "none") ~> (marker # r)

(***************************************************************************)
(* No open run stands for ever: not one that is finalised already, and not  *)
(* one whose engines are gone.                                              *)
(***************************************************************************)
OpenRunsClose == WedgedRunCloses /\ AbandonedRunCloses

\* The marker is the open run, the auto-increment the last one, the stored report the
\* verdict.
Registry == INSTANCE RunRegistry WITH
    Codes <- Codes, Outcomes <- Outcomes, NoVerdict <- None,
    open <- marker, last <- lastRun, delivered <- evidence, verdict <- report

(***************************************************************************)
(* The rows and the concurrent operations on them implement the registry an *)
(* execution's history is read as: one run open at a time, ids in order, a   *)
(* verdict decided once and from what the engines delivered.                *)
(***************************************************************************)
RegistryImplemented == Registry!Spec

(***************************************************************************)
(* A statement of the code's own comments that the calls do not keep:       *)
(* closeRun "clears the execution's run marker when -- and only when -- it  *)
(* still names the run being finalised".                                    *)
(***************************************************************************)
CloseRunClearsOnlyItsRun ==
    [][\A p \in Procs :
         At(p, "stop_delete") /\ w[p].closing /\ marker' # marker /\ w'[p] # w[p]
            => marker = w[p].run]_vars
=============================================================================
