------------------------------- MODULE Grading -------------------------------
(***************************************************************************)
(* What judges a finished run: the thresholds of its scenario              *)
(* (domain/threshold, app/thresholdapp), the pass/fail criteria of its     *)
(* execution (domain/report/criteria) and the service-level objectives of  *)
(* its project (domain/slo, app/sloapp), over the registries               *)
(* repo/mysql/threshold_repository and slo_repository.                     *)
(*                                                                         *)
(* A run ends with a histogram of whole seconds, an error rate in per cent *)
(* and a throughput; its report keeps the 95th percentile Accumulator      *)
(* makes of the histogram.  A mean is the pair of a sum and a count, a     *)
(* percentage of budget the pair of a numerator and a denominator, so that *)
(* x/0 and 0/0 keep their IEEE order.                                      *)
(***************************************************************************)
EXTENDS Integers, Sequences, FiniteSets, FiniteSetsExt, SequencesExt, Functions

CONSTANTS
    Runs,        \* runs of one project, all of one scenario
    Reports,     \* what a run may end with
    Bounds,      \* threshold definitions an editor may save
    Objectives,  \* SLOs a client may create
    Requests,    \* concurrent POSTs of an SLO
    Window,      \* length of the budget window
    MaxNow, MaxIds, MaxSLOs, MaxFaults,
    None

VARIABLES
    thresholds,  \* scenario_thresholds: [id, def]
    nextId,      \* AUTO_INCREMENT
    reports,     \* execution_report
    at,          \* where each run's finalisation is
    listed,      \* the thresholds EvaluateRun has read
    results,     \* threshold_results
    slos,        \* project_slo
    creating,    \* the SLO each POST has checked and not yet inserted
    now, faults,
    due,         \* history: threshold ids there were when a report was saved
    missed       \* history: runs whose grading failed

A == INSTANCE Accumulator WITH MaxExemplars <- 3, SoakFloor <- 120, Total <- "__total__"

thresholdVars == <<thresholds, nextId>>
runVars == <<reports, at, listed, due, missed>>
sloVars == <<slos, creating>>
vars == <<thresholds, nextId, reports, at, listed, results, slos, creating, now,
          faults, due, missed>>

Init ==
    /\ thresholds = {} /\ nextId = 1
    /\ reports = [r \in Runs |-> None] /\ at = [r \in Runs |-> "running"]
    /\ listed = [r \in Runs |-> {}] /\ results = [r \in Runs |-> {}]
    /\ slos = <<>> /\ creating = [q \in Requests |-> None]
    /\ now = 0 /\ faults = 0
    /\ due = [r \in Runs |-> {}] /\ missed = {}

----------------------------------------------------------------------------
(* domain/threshold.                                                       *)

\* The range a bound's value must lie in; a share may be nothing.
Validate(def) ==
    /\ def.metric \in {"http_p95_ms", "error_rate", "throughput_qps"}
    /\ def.comparison \in {"lt", "gt"}
    /\ IF def.metric = "error_rate" THEN def.value \in 0..100 ELSE def.value > 0

\* The report's figure for a metric: seconds become milliseconds here.
Observe(rep, m) ==
    CASE m = "http_p95_ms" -> IF rep.p95 = None THEN None ELSE rep.p95 * 1000
      [] m = "error_rate" -> rep.errorRate
      [] OTHER -> rep.throughput

\* Strict on both sides.
satisfied(comparison, observed, value) ==
    IF comparison = "gt" THEN observed > value ELSE observed < value

\* A result carries its definition; what was not measured is neither met nor not.
Evaluate(t, rep) ==
    LET observed == Observe(rep, t.def.metric)
    IN  [id |-> t.id, def |-> t.def,
         verdict |-> IF observed = None THEN "unknown"
                     ELSE IF satisfied(t.def.comparison, observed, t.def.value)
                       THEN "met" ELSE "not met"]

----------------------------------------------------------------------------
(* threshold_repository.go, thresholdapp.Replace.                          *)

\* One transaction: a definition that is there verbatim keeps its row, a new one is
\* inserted, and the rest go with their results.  A definition sent twice finds its
\* row taken and runs into the unique key, which rolls the transaction back.
ReplaceThresholds(defs) ==
    LET wanted == ToSet(defs)
        kept == {t \in thresholds : t.def \in wanted}
        new == SelectSeq(defs, LAMBDA d : \A t \in kept : t.def # d)
        inserted == {[id |-> nextId + i - 1, def |-> new[i]] : i \in DOMAIN new}
        stored == {t.id : t \in kept}
    IN  /\ IsInjective(defs)
        /\ nextId + Len(new) <= MaxIds + 1
        /\ thresholds' = kept \cup inserted
        /\ nextId' = nextId + Len(new)
        /\ results' = [r \in Runs |-> {x \in results[r] : x.id \in stored}]

Replace(defs) ==
    /\ \A i \in DOMAIN defs : Validate(defs[i])
    /\ ReplaceThresholds(defs)
    /\ UNCHANGED <<runVars, sloVars, now, faults>>

----------------------------------------------------------------------------
(* The finalisation of a run that won SaveReport: metricsapp.finalize and  *)
(* thresholdapp.EvaluateRun.                                               *)

\* The report is durable, and graded later; the percentile is there whether or not
\* anything was measured.
SaveReport(r, rep) ==
    /\ at[r] = "running"
    /\ reports' = [reports EXCEPT ![r] =
          [started |-> now, outcome |-> rep.outcome, errorRate |-> rep.errorRate,
           throughput |-> rep.throughput, measured |-> A!Count(rep.latency) > 0,
           p95 |-> A!Percentiles(rep.latency, A!reportedPercentiles)[95]]]
    /\ at' = [at EXCEPT ![r] = "grading"]
    /\ due' = [due EXCEPT ![r] = {t.id : t \in thresholds}]
    /\ UNCHANGED <<thresholdVars, listed, results, sloVars, now, faults, missed>>

\* ListThresholdsForScenario; nothing to grade closes the run.  A failed read is
\* the finalisation's error: a later one finds the report and does not grade.
EvaluateRun(r) ==
    /\ at[r] = "grading"
    /\ \/ /\ thresholds # {}
          /\ listed' = [listed EXCEPT ![r] = thresholds]
          /\ at' = [at EXCEPT ![r] = "saving"]
          /\ UNCHANGED <<faults, missed>>
       \/ /\ thresholds = {}
          /\ at' = [at EXCEPT ![r] = "closed"]
          /\ UNCHANGED <<listed, faults, missed>>
       \/ /\ faults < MaxFaults /\ faults' = faults + 1
          /\ at' = [at EXCEPT ![r] = "failed"]
          /\ missed' = missed \cup {r}
          /\ UNCHANGED listed
    /\ UNCHANGED <<thresholdVars, reports, results, sloVars, now, due>>

\* One transaction; a threshold that has gone meanwhile fails its foreign key, and
\* with it the whole write.
SaveThresholdResults(r) ==
    LET graded == {Evaluate(t, reports[r]) : t \in listed[r]}
    IN  /\ at[r] = "saving"
        /\ \/ /\ listed[r] \subseteq thresholds
              /\ results' = [results EXCEPT ![r] = graded]
              /\ at' = [at EXCEPT ![r] = "closed"]
              /\ UNCHANGED <<faults, missed>>
           \/ /\ \/ ~(listed[r] \subseteq thresholds) /\ UNCHANGED faults
                 \/ faults < MaxFaults /\ faults' = faults + 1
              /\ at' = [at EXCEPT ![r] = "failed"]
              /\ missed' = missed \cup {r}
              /\ UNCHANGED results
        /\ listed' = [listed EXCEPT ![r] = {}]
        /\ UNCHANGED <<thresholdVars, reports, sloVars, now, due>>

\* The next finalisation of the run: its report is there, so the notifier and the
\* grader are skipped and the run is closed.
FinaliseAgain(r) ==
    /\ at[r] = "failed"
    /\ at' = [at EXCEPT ![r] = "closed"]
    /\ UNCHANGED <<thresholdVars, reports, listed, results, sloVars, now, faults, due, missed>>

Tick == now < MaxNow /\ now' = now + 1
        /\ UNCHANGED <<thresholdVars, runVars, results, sloVars, faults>>

----------------------------------------------------------------------------
(* sloapp.                                                                 *)

\* An objective tracks at least one target; a latency target is positive, a share
\* lies between nothing and all.
ValidateSLO(o) ==
    /\ {o.p95, o.errorRate, o.success} # {None}
    /\ o.p95 # None => o.p95 > 0
    /\ o.errorRate # None => o.errorRate \in 0..100
    /\ o.success # None => o.success \in 0..100

\* Validate and the look for the name; the insert is a later statement.
Create(q, o) ==
    /\ creating[q] = None
    /\ ValidateSLO(o)
    /\ \A i \in DOMAIN slos : slos[i] # None => slos[i].name # o.name
    /\ creating' = [creating EXCEPT ![q] = o]
    /\ UNCHANGED <<thresholdVars, runVars, results, slos, now, faults>>

\* INSERT under the unique key (project_id, name).
CreateSLO(q) ==
    /\ creating[q] # None
    /\ IF \E i \in DOMAIN slos : slos[i] # None /\ slos[i].name = creating[q].name
         THEN UNCHANGED slos
         ELSE Len(slos) < MaxSLOs /\ slos' = Append(slos, creating[q])
    /\ creating' = [creating EXCEPT ![q] = None]
    /\ UNCHANGED <<thresholdVars, runVars, results, now, faults>>

DeleteSLO(i) ==
    /\ i \in DOMAIN slos /\ slos[i] # None
    /\ slos' = [slos EXCEPT ![i] = None]
    /\ UNCHANGED <<thresholdVars, runVars, results, creating, now, faults>>

\* Reports that started in [now - window, now), aborted ones left out.  A report
\* saved at this instant has started before it.
Eligible(reps) ==
    {r \in Runs : /\ reps[r] # None /\ reps[r].started >= now - Window
                  /\ reps[r].outcome # "aborted"}

WindowMean(f(_), S) ==
    IF S = {} THEN None ELSE [sum |-> MapThenSumSet(f, S), count |-> Cardinality(S)]

\* The window's mean p95 in milliseconds, mean error rate, and share of passed runs.
aggregate(reps) ==
    LET runs == Eligible(reps)
    IN  [p95 |-> WindowMean(LAMBDA r : reps[r].p95 * 1000, {r \in runs : reps[r].p95 # None}),
         errorRate |-> WindowMean(LAMBDA r : reps[r].errorRate, runs),
         success |-> WindowMean(LAMBDA r : IF reps[r].outcome = "passed" THEN 100 ELSE 0, runs)]

\* One target's line: (target - actual) / target for a ceiling, (actual - target) /
\* target for a floor.
BudgetLine(metric, target, actual) ==
    [metric |-> metric,
     measured |-> actual # None,
     over |-> IF actual = None THEN 0
              ELSE (IF metric = "success" THEN 1 ELSE -1) * (actual.sum - target * actual.count),
     under |-> IF actual = None THEN 0 ELSE target * actual.count]

\* The lines of the targets an objective tracks, in the columns' order.
EvaluateSLO(o, actual) ==
    LET metrics == SelectSeq(<<"p95", "errorRate", "success">>, LAMBDA m : o[m] # None)
    IN  [i \in DOMAIN metrics |-> BudgetLine(metrics[i], o[metrics[i]], actual[metrics[i]])]

\* Every measured line within its target; what was not measured violates nothing.
Compliant(o, actual) ==
    LET lines == EvaluateSLO(o, actual)
    IN  \A i \in DOMAIN lines : lines[i].over >= 0

\* over / under, compared as the code compares floats: 0/0 is below nothing and
\* nothing is below it.
Less(a, b) == a.over * b.under < b.over * a.under

\* The first line that no later one is below.
Worst(lines) ==
    FoldLeft(LAMBDA w, x : IF ~x.measured THEN w
                           ELSE IF w = None THEN x
                           ELSE IF Less(x, w) THEN x ELSE w,
             None, lines)

----------------------------------------------------------------------------
(* report/criteria.go and compile/criteria_rewrite.go: a criterion is a    *)
(* subject, an operator and a bound in milliseconds or per cent.           *)

\* Mutant: the boundary moves with the rewrite.
floorsShifted(c) ==
    CASE c.op = "<" -> [c EXCEPT !.op = ">"]
      [] c.op = "<=" -> [c EXCEPT !.op = ">="]
      [] OTHER -> c

\* What a run must keep to is rewritten to what would fail it.
floorsToViolations(c) ==
    CASE c.op = "<" -> [c EXCEPT !.op = ">="]
      [] c.op = "<=" -> [c EXCEPT !.op = ">"]
      [] OTHER -> c

criterionTriggered(measured, op, bound) ==
    CASE op = ">" -> measured > bound
      [] op = ">=" -> measured >= bound
      [] op = "<" -> measured < bound
      [] op = "<=" -> measured <= bound
      [] OTHER -> measured = bound

\* The bound is in milliseconds, the report in seconds: both in milliseconds here.
evaluateOne(rep, c) ==
    LET measured == IF c.subject = "failures" THEN rep.errorRate
                    ELSE IF rep.p95 = None THEN None ELSE rep.p95 * 1000
    IN  IF measured = None THEN "unparsed"
        ELSE IF criterionTriggered(measured, c.op, c.bound) THEN "failed" ELSE "held"

EvaluateCriteria(rep, c) == evaluateOne(rep, floorsToViolations(c))

----------------------------------------------------------------------------
Bodies == {<<>>} \cup {<<d>> : d \in Bounds} \cup {<<d, e>> : d \in Bounds, e \in Bounds}

Next ==
    \/ \E defs \in Bodies : Replace(defs)
    \/ \E r \in Runs :
         \/ \E rep \in Reports : SaveReport(r, rep)
         \/ EvaluateRun(r) \/ SaveThresholdResults(r) \/ FinaliseAgain(r)
    \/ Tick
    \/ \E q \in Requests :
         \/ \E o \in Objectives : Create(q, o)
         \/ CreateSLO(q)
    \/ \E i \in DOMAIN slos : DeleteSLO(i)

Spec == Init /\ [][Next]_vars

----------------------------------------------------------------------------
(* Properties.                                                             *)

\* Migration 0068: the snapshot a result carries and the row it points to agree: a
\* threshold's row is never rewritten under a result, and a result goes with its row.
ResultsLegible ==
    \A r \in Runs : \A x \in results[r] : [id |-> x.id, def |-> x.def] \in thresholds

KeepsResults ==
    \A r \in Runs : \A x \in results[r] :
      (\E t \in thresholds' : t.def = x.def) => x \in results'[r]

\* Migration 0067: "unchanged rows keep their id (and their recorded results) across
\* an idempotent re-save": a result whose definition is in the saved set is kept.
ResaveKeepsResults == [][KeepsResults]_vars

GradedInFull(r) ==
    at[r] = "closed" => \A t \in thresholds : t.id \in due[r] => \E x \in results[r] : x.id = t.id

\* EvaluateRun: a closed run whose grading did not fail has a result for every
\* threshold that was there when its report was saved and still is.
GradedUnlessFailed == \A r \in Runs \ missed : GradedInFull(r)

\* Package threshold: "there is one accounting of what a run produced": on one report a
\* threshold, the criterion that says the same and an objective over that run alone
\* agree, at the boundary too.
GradersAgree ==
    \A r \in Runs : reports[r] # None /\ reports[r].outcome # "aborted" =>
      \A d \in Bounds : d.comparison = "lt" /\ d.metric # "throughput_qps" =>
        LET rep == reports[r]
            subject == IF d.metric = "error_rate" THEN "failures" ELSE "p95"
            verdict == Evaluate([id |-> 0, def |-> d], rep).verdict
            strict == EvaluateCriteria(rep, [subject |-> subject, op |-> "<", bound |-> d.value])
            loose == EvaluateCriteria(rep, [subject |-> subject, op |-> "<=", bound |-> d.value])
            only == [x \in Runs |-> IF x = r THEN [rep EXCEPT !.started = now] ELSE None]
            line == BudgetLine(subject, d.value,
                               IF subject = "p95" THEN aggregate(only).p95
                                                  ELSE aggregate(only).errorRate)
        IN  /\ (verdict = "met") <=> (strict = "held")
            /\ (verdict = "unknown") <=> (strict = "unparsed")
            /\ verdict # "unknown" => ((line.over >= 0) <=> (loose = "held"))

\* sloapp.Create checks the name and inserts later: two objectives of a project never
\* have one name, however the requests interleave.
SLONamesUnique ==
    \A i, j \in DOMAIN slos : i # j /\ slos[i] # None /\ slos[j] # None =>
      slos[i].name # slos[j].name

Meets(o, rep) ==
    /\ o.p95 # None => rep.p95 * 1000 <= o.p95
    /\ o.errorRate # None => rep.errorRate <= o.errorRate
    /\ o.success # None => rep.outcome = "passed"

BurnsNothing ==
    \A r \in Runs : reports[r] = None /\ reports'[r] # None =>
      \A o \in Objectives :
        /\ reports'[r].outcome = "aborted" => aggregate(reports') = aggregate(reports)
        /\ Meets(o, reports'[r]) /\ Compliant(o, aggregate(reports))
             => Compliant(o, aggregate(reports'))

\* sloapp.aggregate: a run that meets an objective on its own never burns its budget,
\* and an aborted run, "the operator's patience, not the target's behaviour", moves
\* no budget at all.
GoodRunNeverBurns == [][BurnsNothing]_vars

\* Budget.Worst: "the metric carrying the least budget remaining": no measured line has
\* less left than the one a digest leads with.
WorstIsLeast ==
    \A o \in Objectives :
      LET lines == EvaluateSLO(o, aggregate(reports))
          w == Worst(lines)
      IN  \A i \in DOMAIN lines : lines[i].measured =>
            w # None /\ ~(lines[i].over < 0 /\ w.over >= 0) /\ ~Less(lines[i], w)
=============================================================================
