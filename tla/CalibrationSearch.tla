------------------------- MODULE CalibrationSearch -------------------------
(***************************************************************************)
(* One search, driven the way calibrationapp.AdvanceOne drives it: run a   *)
(* step at the rate the last decision prescribed, classify it, fold it.    *)
(* `log` is the step history StepsFor returns (calibration_job_step).      *)
(***************************************************************************)
EXTENDS Calibration, Sequences

CONSTANT Achieved   \* throughputs a step's report may measure

ASSUME AchievedAssumption == Achieved \subseteq Nat

VARIABLES job, log

vars == <<job, log>>

Step == [requested : Nat, achieved : Nat, class : Classifications]

Init == job = Start /\ log = <<>>

Active == job.phase \in {"bracketing", "bisecting"}

\* One tick of the controller for this job: RunStep, classify, Next, RecordStep.
RunStep(achieved, class) ==
    /\ Active
    /\ job' = Advance(job, job.next, achieved, class)
    /\ log' = Append(log, [requested |-> job.next, achieved |-> achieved,
                           class |-> class])

Next == \E achieved \in Achieved, class \in Classifications :
            RunStep(achieved, class)

Spec == Init /\ [][Next]_vars /\ WF_vars(Next)

----------------------------------------------------------------------------

Logged(class) == {i \in DOMAIN log : log[i].class = class}

\* The job row stays a search state Start or Next can produce, and calibration_job_step
\* a sequence of classified steps.
TypeOK == job \in Job /\ log \in Seq(Step)

\* Spec.MaxQPS is "the absolute ceiling the search will never issue a step
\* above", and a step is never issued at zero, which the load profile reads as
\* "unlimited": every rate prescribed or already run lies in (0, MaxQPS].
StepsWithinCeiling ==
    /\ Active => job.next \in 1..MaxQPS
    /\ \A i \in DOMAIN log : log[i].requested \in 1..MaxQPS

\* The bracket the ledger persists is the truth about the whole step history:
\* its floor is the highest rate any step found clean, its ceiling the lowest
\* rate any step found saturated (or the search is still doubling), and a
\* bisection's next rate lies strictly between the two.
BracketMatchesHistory ==
    /\ \A i \in Logged("clean") : log[i].requested <= job.loReq
    /\ \A i \in Logged("engine_saturated") : job.hiReq <= log[i].requested
    /\ Logged("clean") # {} =>
          \E i \in Logged("clean") : log[i].requested = job.loReq
    /\ Logged("engine_saturated") # {} =>
          \E i \in Logged("engine_saturated") : log[i].requested = job.hiReq
    /\ job.phase = "bisecting" => job.loReq < job.next /\ job.next < job.hiReq

\* A verdict is earned by the history: "neither" (which environmentImpaired
\* exempts as unreachable without a clean step) has a clean step and no
\* saturated one, "engine" has a saturated step, and the capacity either
\* reports is what the step at the highest clean rate measured.
VerdictEarned ==
    /\ job.by = "neither" => Logged("clean") # {} /\ Logged("engine_saturated") = {}
    /\ job.by = "engine" => Logged("engine_saturated") # {}
    /\ job.by \in {"engine", "neither"} /\ Logged("clean") # {} =>
          \E i \in Logged("clean") : /\ log[i].requested = job.loReq
                                     /\ log[i].achieved = job.perPod

\* The search ends, within its step budget.
SearchTerminates == <>(job.phase = "done" /\ Len(log) <= MaxSteps)
============================================================================
