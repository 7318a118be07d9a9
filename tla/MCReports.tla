----------------------------- MODULE MCReports ------------------------------
(***************************************************************************)
(* How a report comes about and how it is judged: one instance of          *)
(* RunReport, and three of Grading over one set of variables (thresholds   *)
(* edited while runs are graded, the budgets of a sliding window of runs,  *)
(* objectives created concurrently).  A behaviour is one of the four.      *)
(***************************************************************************)
EXTENDS Integers, Sequences, TLC

CONSTANTS r1, r2, r3, q1, q2, None

VARIABLES mode, ivs, pending, rows, thresholds, nextId, reports, at, listed, results,
          slos, creating, now, faults, due, missed

reportVars == <<ivs, pending, rows>>
gradingVars == <<thresholds, nextId, reports, at, listed, results, slos, creating, now,
                 faults, due, missed>>
vars == <<mode, reportVars, gradingVars>>

Empty == [x \in {} |-> 0]

----------------------------------------------------------------------------
(* Intervals: two labels over three seconds, failures on every side, a row *)
(* without response times and an engine's aggregate row.                   *)
Row(ts, label, users, samples, failed, latency, faulty) ==
    [ts |-> ts, label |-> label, concurrency |-> users, samples |-> samples,
     failed |-> failed, latency |-> latency,
     codes |-> IF failed = 0 /\ samples > 0 THEN ("200" :> samples) ELSE Empty,
     errors |-> faulty]
Fault(code, says, message) == [code |-> code, says |-> says, message |-> message, count |-> 1]

MCKinds == <<
    Row(1, "a", 2, 1, 0, (1 :> 1), <<>>),
    Row(1, "b", 1, 1, 1, (3 :> 1), <<Fault("500", {}, "m1")>>),
    Row(2, "a", 1, 2, 0, (2 :> 2), <<>>),
    Row(2, "a", 1, 2, 2, (1 :> 1) @@ (9 :> 1),
        <<Fault(None, {"engine", "target"}, "m2"), Fault(None, {"target"}, "m3")>>),
    Row(3, "b", 1, 3, 1, (5 :> 3), <<Fault(None, {}, "m4")>>),
    Row(3, "a", 1, 1, 1, (4 :> 1), <<Fault("500", {"engine"}, "m5")>>),
    Row(4, "b", 2, 0, 0, Empty, <<>>),
    Row(4, "total", 5, 2, 1, (1 :> 2), <<>>) >>

R == INSTANCE RunReport WITH MaxExemplars <- 2, SoakFloor <- 2, Total <- "total",
       Kinds <- MCKinds, Measured <- 4, MaxBatch <- 2, Requested <- 3

----------------------------------------------------------------------------
Bound(m, c, v) == [metric |-> m, comparison |-> c, value |-> v]
MCBounds == {Bound("http_p95_ms", "lt", 2000), Bound("error_rate", "lt", 5)}
End(latency, errorRate, throughput, outcome) ==
    [latency |-> latency, errorRate |-> errorRate, throughput |-> throughput, outcome |-> outcome]
Nothing == End(Empty, 0, 0, "error")
Ends == {End((1 :> 1), 5, 9, "passed"), End((2 :> 1), 0, 9, "passed"),
         End((1 :> 1) @@ (3 :> 1), 10, 1, "failed"), End((1 :> 1), 0, 5, "aborted"), Nothing}
GradedEnds == {End((2 :> 1), 5, 9, "passed"), Nothing}
Goal(n, p, e, s) == [name |-> n, p95 |-> p, errorRate |-> e, success |-> s]
Goals == {Goal("a", 2000, None, None), Goal("a", 1500, 5, 50), Goal("b", None, 1, 90)}

G == INSTANCE Grading WITH Runs <- {r1, r2}, Reports <- GradedEnds, Bounds <- MCBounds,
       Objectives <- {}, Requests <- {}, Window <- 1, MaxNow <- 0, MaxIds <- 3,
       MaxSLOs <- 0, MaxFaults <- 1
B == INSTANCE Grading WITH Runs <- {r1, r2, r3}, Reports <- Ends, Bounds <- {},
       Objectives <- Goals, Requests <- {}, Window <- 1, MaxNow <- 2, MaxIds <- 0,
       MaxSLOs <- 0, MaxFaults <- 0
S == INSTANCE Grading WITH Runs <- {}, Reports <- {}, Bounds <- {},
       Objectives <- Goals, Requests <- {q1, q2}, Window <- 1, MaxNow <- 0,
       MaxIds <- 0, MaxSLOs <- 4, MaxFaults <- 0

NoReport == ivs = <<>> /\ pending = {} /\ rows = Empty
Init ==
    \/ mode = "measure" /\ R!Init /\ S!Init
    \/ mode = "grade" /\ G!Init /\ NoReport
    \/ mode = "budget" /\ B!Init /\ NoReport
    \/ mode = "slo" /\ S!Init /\ NoReport
Next ==
    /\ UNCHANGED mode
    /\ \/ mode = "measure" /\ R!Next /\ UNCHANGED gradingVars
       \/ mode = "grade" /\ G!Next /\ UNCHANGED reportVars
       \/ mode = "budget" /\ B!Next /\ UNCHANGED reportVars
       \/ mode = "slo" /\ S!Next /\ UNCHANGED reportVars
Spec == Init /\ [][Next]_vars

----------------------------------------------------------------------------
\* RunReport: batches merged in any order give the report that one pass over the
\* intervals gives, with exact percentiles, every failure on its side, every sample
\* once and trends that agree with each other.
ReportFaithful ==
    mode = "measure" =>
        /\ R!TypeOK /\ R!ReportAsBuilt /\ R!PercentilesExact /\ R!FailuresKeepTheirSide
        /\ R!SamplesOnce /\ R!SoakTrendsAgree

\* Grading: while thresholds and objectives are edited, every stored result can be
\* read and none disappears by saving the same thresholds again; a closed run is
\* graded in full unless a statement failed; the graders agree; names stay unique;
\* and the budget shown is the worst and never burnt by a run that meets it.
GradesFaithful ==
    /\ [](mode = "grade" => G!ResultsLegible /\ G!GradedUnlessFailed /\ G!GradersAgree)
    /\ [](mode = "slo" => S!SLONamesUnique)
    /\ [](mode = "budget" => B!WorstIsLeast)
    /\ [][mode = "grade" => G!KeepsResults]_vars
    /\ [][mode = "budget" => B!BurnsNothing]_vars
=============================================================================
