---------------------------- MODULE Calibration ----------------------------
(***************************************************************************)
(* The pure decision function of the engine-capacity search                *)
(* (src/internal/domain/calibration/calibration.go): Start, Next and the   *)
(* two finishing rules doubleOrFinish and bisectOrFinish.                  *)
(*                                                                         *)
(* Rates are float64 in the code.  Here a rate is a natural number of      *)
(* fixed fractions of one request per second, Tolerance of them to the     *)
(* request; the constants are chosen so that every halving the search      *)
(* performs is exact.                                                      *)
(***************************************************************************)
EXTENDS Naturals

CONSTANTS
    SeedQPS,     \* Spec.SeedQPS, the first rate tried
    MaxQPS,      \* Spec.MaxQPS, the ceiling no step may exceed
    MaxSteps,    \* Spec.MaxSteps, the budget of the whole search
    Tolerance    \* BisectionToleranceQPS, one request per second

\* Spec.Validate: what a stored specification satisfies before a job exists.
ASSUME SpecValid ==
    /\ SeedQPS \in Nat /\ SeedQPS > 0
    /\ MaxQPS \in Nat /\ MaxQPS > SeedQPS
    /\ MaxSteps \in Nat /\ MaxSteps > 0
    /\ Tolerance \in Nat /\ Tolerance > 0

Classifications == {"clean", "engine_saturated", "target_saturated"}

Phases == {"pending", "bracketing", "bisecting", "done", "failed"}

Verdicts == {"none", "engine", "target", "neither"}

\* A Job: the search's decision state plus the Action's NextRequestedQPS,
\* which the ledger persists beside it.
Job == [phase : Phases, steps : Nat, loReq : Nat, loAch : Nat, hiReq : Nat,
        next : Nat, by : Verdicts, perPod : Nat]

\* A ledger row of a job that has never been stepped (CreateCalibrationJob).
PendingJob ==
    [phase |-> "pending", steps |-> 0, loReq |-> 0, loAch |-> 0, hiReq |-> 0,
     next |-> 0, by |-> "none", perPod |-> 0]

\* Start: bracketing begins at the seed rate.
Start == [PendingJob EXCEPT !.phase = "bracketing", !.next = SeedQPS]

Finish(job, by, perPod) ==
    [job EXCEPT !.phase = "done", !.next = 0, !.by = by, !.perPod = perPod]

\* Mutant: running out of bracketing blames the engine.
DoubleBlamesEngine(job) ==
    LET next == 2 * job.loReq
    IN  IF next > MaxQPS \/ job.steps >= MaxSteps
        THEN Finish(job, "engine", job.loAch)
        ELSE [job EXCEPT !.next = next]

DoubleOrFinish(job) ==
    LET next == 2 * job.loReq
    IN  IF next > MaxQPS \/ job.steps >= MaxSteps
        THEN Finish(job, "neither", job.loAch)
        ELSE [job EXCEPT !.next = next]

\* Mutant: a bisection ignores the step budget.
BisectIgnoresBudget(job) ==
    LET width == job.hiReq - job.loReq
    IN  IF width <= Tolerance
        THEN Finish(job, "engine", job.loAch)
        ELSE [job EXCEPT !.next = job.loReq + width \div 2]

BisectOrFinish(job) ==
    LET width == job.hiReq - job.loReq
    IN  IF width <= Tolerance \/ job.steps >= MaxSteps
        THEN Finish(job, "engine", job.loAch)
        ELSE [job EXCEPT !.next = job.loReq + width \div 2]

\* Mutant: the ceiling of the bracket is set once and never lowered.
AdvanceKeepsFirstCeiling(job, requested, achieved, class) ==
    LET counted == [job EXCEPT !.steps = @ + 1]
        saturated == [counted EXCEPT !.phase = "bisecting",
                                     !.hiReq = IF @ = 0 THEN requested ELSE @]
        clean == [counted EXCEPT !.loReq = requested, !.loAch = achieved]
    IN  CASE class = "target_saturated" -> Finish(counted, "target", achieved)
          [] class = "engine_saturated" -> BisectOrFinish(saturated)
          [] class = "clean" ->
                IF job.phase = "bracketing"
                THEN DoubleOrFinish(clean)
                ELSE BisectOrFinish(clean)

\* Next: fold the classified outcome of the step run at rate `requested`.
Advance(job, requested, achieved, class) ==
    LET counted == [job EXCEPT !.steps = @ + 1]
        saturated == [counted EXCEPT !.phase = "bisecting", !.hiReq = requested]
        clean == [counted EXCEPT !.loReq = requested, !.loAch = achieved]
    IN  CASE class = "target_saturated" -> Finish(counted, "target", achieved)
          [] class = "engine_saturated" -> BisectOrFinish(saturated)
          [] class = "clean" ->
                IF job.phase = "bracketing"
                THEN DoubleOrFinish(clean)
                ELSE BisectOrFinish(clean)

============================================================================
