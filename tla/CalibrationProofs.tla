------------------------- MODULE CalibrationProofs -------------------------
(***************************************************************************)
(* Invariance proofs for CalibrationSearch: whatever the seed, ceiling,    *)
(* step budget and tolerance, and whatever the steps measure.              *)
(***************************************************************************)
EXTENDS CalibrationSearch, CalibrationLemmas

USE SMTT(30), ZenonT(30), SMTT(90)

\* What the search maintains between steps, beyond the properties proved: the
\* floor stays below the rate about to be tried, a bracketing search has seen
\* nothing saturated, and a bisection's ceiling never exceeds MaxQPS.
BracketInv ==
    /\ job.phase \in {"bracketing", "bisecting", "done"}
    /\ Active => job.loReq < job.next /\ job.next \in 1..MaxQPS
    /\ job.phase = "bracketing" => Logged("engine_saturated") = {}
    /\ job.phase = "bisecting" => job.next < job.hiReq /\ job.hiReq <= MaxQPS
    /\ Logged("clean") = {} => job.loReq = 0

IInv == TypeOK /\ BracketInv /\ StepsWithinCeiling /\ BracketMatchesHistory

\* The invariant holds of a search that starts at the seed.
LEMMA SearchInit == Init => IInv
  <1> SUFFICES ASSUME Init PROVE IInv
    OBVIOUS
  <1>1. TypeOK
    <2>1. job = [phase |-> "bracketing", steps |-> 0, loReq |-> 0, loAch |-> 0,
                 hiReq |-> 0, next |-> SeedQPS, by |-> "none", perPod |-> 0]
      BY DEF Init, Start, PendingJob
    <2>2. job \in Job
      BY <2>1, SpecValid DEF Job, Phases, Verdicts
    <2> QED BY <2>2 DEF Init, TypeOK
  <1>2. Logged("clean") = {} /\ Logged("engine_saturated") = {}
    BY DEF Init, Logged
  <1>3. /\ job.phase = "bracketing" /\ job.loReq = 0 /\ job.next = SeedQPS
        /\ DOMAIN log = {}
    BY DEF Init, Start, PendingJob
  <1> QED
    BY <1>1, <1>2, <1>3, SpecValid
       DEF IInv, BracketInv, StepsWithinCeiling, BracketMatchesHistory, Active

\* ... and every step keeps it.
LEMMA SearchStep == IInv /\ [Next]_vars => IInv'
  <1> SUFFICES ASSUME IInv, [Next]_vars PROVE IInv'
    OBVIOUS
  <1>1. CASE UNCHANGED vars
    BY <1>1 DEF IInv, TypeOK, BracketInv, StepsWithinCeiling,
                BracketMatchesHistory, Active, Logged, vars
  <1>2. ASSUME NEW a \in Achieved, NEW c \in Classifications, RunStep(a, c)
        PROVE  IInv'
    <2> DEFINE q == job.next
               entry == [requested |-> q, achieved |-> a, class |-> c]
    <2>1. /\ job \in Job /\ log \in Seq(Step) /\ a \in Nat
          /\ q \in Nat /\ job.loReq < q /\ q \in 1..MaxQPS
          /\ job.phase \in {"bracketing", "bisecting"}
          /\ job.loReq \in Nat /\ job.hiReq \in Nat
      BY <1>2, AchievedAssumption
         DEF IInv, TypeOK, BracketInv, RunStep, Active, Job
    <2>2. job.phase = "bisecting" => q < job.hiReq /\ job.hiReq <= MaxQPS
      BY DEF IInv, BracketInv
    <2>3. job' = Advance(job, q, a, c)
      BY <1>2 DEF RunStep
    <2>4. /\ job' \in Job
          /\ job'.loReq = IF c = "clean" THEN q ELSE job.loReq
          /\ job'.hiReq = IF c = "engine_saturated" THEN q ELSE job.hiReq
          /\ \/ job'.phase = "done"
             \/ /\ job'.phase = "bracketing" /\ job.phase = "bracketing"
                /\ c = "clean"
                /\ job'.loReq < job'.next /\ job'.next <= MaxQPS
             \/ /\ job'.phase = "bisecting"
                /\ c \in {"clean", "engine_saturated"}
                /\ c = "engine_saturated" \/ job.phase = "bisecting"
                /\ job'.loReq < job'.next /\ job'.next < job'.hiReq
      BY <2>1, <2>2, <2>3, AdvanceType
    <2>5. entry \in Step
      BY <2>1 DEF Step
    <2>6. /\ log' \in Seq(Step)
          /\ Len(log) \in Nat /\ DOMAIN log = 1..Len(log)
          /\ DOMAIN log' = 1..(Len(log) + 1)
          /\ \A i \in DOMAIN log : log'[i] = log[i]
          /\ log'[Len(log) + 1] = entry
      BY <1>2, <2>1, <2>5 DEF RunStep
    <2> HIDE DEF entry
    <2>7. entry.class = c /\ entry.requested = q
      BY DEF entry
    <2>8. \A k \in Classifications :
             Logged(k)' = Logged(k) \cup (IF c = k THEN {Len(log) + 1} ELSE {})
      BY <2>6, <2>7 DEF Logged
    <2>9. Len(log) + 1 \notin DOMAIN log
      BY <2>6
    <2>10. /\ job'.loReq \in Nat /\ job'.hiReq \in Nat /\ job'.next \in Nat
           /\ job'.hiReq <= MaxQPS \/ job'.phase # "bisecting"
      BY <2>1, <2>2, <2>4, SpecValid DEF Job
    <2>11. TypeOK'
      BY <2>4, <2>6 DEF TypeOK
    <2>12. BracketInv'
      <3>1. (Logged("clean") = {} => job.loReq = 0)'
        BY <2>4, <2>8 DEF IInv, BracketInv, Classifications
      <3>2. (job.phase = "bracketing" => Logged("engine_saturated") = {})'
        BY <2>4, <2>8 DEF IInv, BracketInv, Classifications
      <3>3. (job.phase = "bisecting" => job.next < job.hiReq /\ job.hiReq <= MaxQPS)'
        BY <2>4, <2>10
      <3>4. (Active => job.loReq < job.next /\ job.next \in 1..MaxQPS)'
        BY <2>4, <2>10, SpecValid DEF Active
      <3> QED BY <2>4, <3>1, <3>2, <3>3, <3>4 DEF BracketInv
    <2>13. StepsWithinCeiling'
      BY <2>1, <2>6, <2>7, <2>12, SMTT(30)
         DEF IInv, StepsWithinCeiling, BracketInv
    <2>14. BracketMatchesHistory'
      <3>1. \A i \in Logged("clean") \cup Logged("engine_saturated") :
               /\ i \in DOMAIN log /\ log'[i] = log[i]
               /\ log[i].requested \in Nat
        <4>1. \A i \in DOMAIN log : log[i] \in Step
          BY <2>1, <2>6
        <4>2. \A i \in DOMAIN log : log[i].requested \in Nat
          BY <4>1 DEF Step
        <4> QED BY <2>6, <4>2 DEF Logged
      <3>2. (\A i \in Logged("clean") : log[i].requested <= job.loReq)'
        BY <2>1, <2>4, <2>6, <2>7, <2>8, <3>1
           DEF IInv, BracketMatchesHistory, Classifications
      <3>3. (\A i \in Logged("engine_saturated") : job.hiReq <= log[i].requested)'
        BY <2>1, <2>2, <2>4, <2>6, <2>7, <2>8, <3>1
           DEF IInv, BracketInv, BracketMatchesHistory, Classifications
      <3>4. (Logged("clean") # {} =>
                \E i \in Logged("clean") : log[i].requested = job.loReq)'
        BY <2>4, <2>6, <2>7, <2>8, <3>1
           DEF IInv, BracketMatchesHistory, Classifications
      <3>5. (Logged("engine_saturated") # {} =>
                \E i \in Logged("engine_saturated") : log[i].requested = job.hiReq)'
        BY <2>4, <2>6, <2>7, <2>8, <3>1
           DEF IInv, BracketMatchesHistory, Classifications
      <3> QED BY <2>4, <3>2, <3>3, <3>4, <3>5 DEF BracketMatchesHistory
    <2> QED BY <2>11, <2>12, <2>13, <2>14 DEF IInv
  <1> QED BY <1>1, <1>2 DEF Next

\* Every reachable state of the search satisfies the strengthened invariant.
THEOREM SearchInvariant == Spec => []IInv
  BY SearchInit, SearchStep, PTL DEF Spec

\* Spec.MaxQPS is never exceeded and no step is ever issued at rate zero.
THEOREM CeilingRespected == Spec => []StepsWithinCeiling
  <1>1. IInv => StepsWithinCeiling
    BY DEF IInv
  <1> QED BY <1>1, SearchInvariant, PTL

\* The persisted bracket agrees with the recorded steps, at every step.
THEOREM BracketFaithful == Spec => []BracketMatchesHistory
  <1>1. IInv => BracketMatchesHistory
    BY DEF IInv
  <1> QED BY <1>1, SearchInvariant, PTL

\* The search writes job rows and step rows of their types only.
THEOREM SearchTypeCorrect == Spec => []TypeOK
  <1>1. IInv => TypeOK
    BY DEF IInv
  <1> QED BY <1>1, SearchInvariant, PTL

\* What a verdict rests on: none is given before the search is done, a
\* bisection has seen a saturated step, and the floor's measurement is that of
\* the step at the floor, which a finished search reports per pod.
VerdictInv ==
    /\ Active => job.by = "none"
    /\ job.phase = "bisecting" => Logged("engine_saturated") # {}
    /\ Logged("clean") # {} =>
          \E i \in Logged("clean") : /\ log[i].requested = job.loReq
                                     /\ log[i].achieved = job.loAch
    /\ job.by \in {"engine", "neither"} => job.perPod = job.loAch
    /\ VerdictEarned

\* No verdict before the first step.
LEMMA VerdictInit == Init => VerdictInv
  <1> SUFFICES ASSUME Init PROVE VerdictInv
    OBVIOUS
  <1>1. job.phase = "bracketing" /\ job.by = "none"
    BY DEF Init, Start, PendingJob
  <1>2. Logged("clean") = {}
    BY DEF Init, Logged
  <1> QED BY <1>1, <1>2 DEF VerdictInv, VerdictEarned, Active

\* A step gives a verdict only on the strength of what it recorded.
LEMMA VerdictStep == IInv /\ VerdictInv /\ [Next]_vars => VerdictInv'
  <1> SUFFICES ASSUME IInv, VerdictInv, [Next]_vars PROVE VerdictInv'
    OBVIOUS
  <1>1. CASE UNCHANGED vars
    BY <1>1 DEF VerdictInv, VerdictEarned, Active, Logged, vars
  <1>2. ASSUME NEW a \in Achieved, NEW c \in Classifications, RunStep(a, c)
        PROVE  VerdictInv'
    <2> DEFINE q == job.next
               entry == [requested |-> q, achieved |-> a, class |-> c]
    <2>1. /\ job \in Job /\ log \in Seq(Step) /\ a \in Nat /\ q \in Nat
          /\ job.loReq < q /\ (job.phase = "bisecting" => q < job.hiReq)
          /\ job.phase \in {"bracketing", "bisecting"} /\ job.by = "none"
      BY <1>2, AchievedAssumption
         DEF IInv, TypeOK, BracketInv, VerdictInv, RunStep, Active, Job
    <2>2. job' = Advance(job, q, a, c)
      BY <1>2 DEF RunStep
    <2>3. /\ job'.loAch = IF c = "clean" THEN a ELSE job.loAch
          /\ job'.phase = "bisecting" => c = "engine_saturated" \/ job.phase = "bisecting"
          /\ \/ job'.phase # "done" /\ job'.by = "none"
             \/ job'.phase = "done" /\ job'.by = "target"
             \/ /\ job'.phase = "done" /\ job'.by = "neither" /\ job'.perPod = job'.loAch
                /\ c = "clean" /\ job.phase = "bracketing"
             \/ /\ job'.phase = "done" /\ job'.by = "engine" /\ job'.perPod = job'.loAch
                /\ c = "engine_saturated" \/ job.phase = "bisecting"
      BY <2>1, <2>2, AdvanceVerdict
    <2>4. job'.loReq = IF c = "clean" THEN q ELSE job.loReq
      BY <2>1, <2>2, AdvanceType
    <2>5. entry \in Step
      BY <2>1 DEF Step
    <2>6. /\ Len(log) \in Nat /\ DOMAIN log = 1..Len(log)
          /\ DOMAIN log' = 1..(Len(log) + 1)
          /\ \A i \in DOMAIN log : log'[i] = log[i]
          /\ log'[Len(log) + 1] = entry
      BY <1>2, <2>1, <2>5 DEF RunStep
    <2> HIDE DEF entry
    <2>7. entry.class = c /\ entry.requested = q /\ entry.achieved = a
      BY DEF entry
    <2>8. \A k \in Classifications :
             /\ Logged(k) \subseteq DOMAIN log
             /\ Logged(k)' = Logged(k) \cup (IF c = k THEN {Len(log) + 1} ELSE {})
      BY <2>6, <2>7 DEF Logged
    <2>9. (Active => job.by = "none")'
      BY <2>3 DEF Active
    <2>10. (job.phase = "bisecting" => Logged("engine_saturated") # {})'
      BY <2>3, <2>8 DEF VerdictInv, Classifications
    <2>11. (Logged("clean") # {} =>
              \E i \in Logged("clean") : /\ log[i].requested = job.loReq
                                         /\ log[i].achieved = job.loAch)'
      <3>1. CASE c = "clean"
        BY <3>1, <2>3, <2>4, <2>6, <2>7, <2>8 DEF Classifications
      <3>2. CASE c # "clean"
        BY <3>2, <2>3, <2>4, <2>6, <2>8 DEF VerdictInv, Classifications
      <3> QED BY <3>1, <3>2
    <2>12. (job.by \in {"engine", "neither"} => job.perPod = job.loAch)'
      BY <2>3
    <2>13. (job.by = "neither" => Logged("clean") # {} /\ Logged("engine_saturated") = {})'
      BY <2>3, <2>8 DEF IInv, BracketInv, Classifications
    <2>14. (job.by = "engine" => Logged("engine_saturated") # {})'
      BY <2>3, <2>8 DEF VerdictInv, Classifications
    <2>15. VerdictEarned'
      BY <2>11, <2>12, <2>13, <2>14 DEF VerdictEarned
    <2> QED BY <2>9, <2>10, <2>11, <2>12, <2>15 DEF VerdictInv
  <1> QED BY <1>1, <1>2 DEF Next

\* SaturatedBy is earned: every verdict the search ends with rests on recorded
\* steps, and the capacity it reports is what the step at the floor measured.
THEOREM VerdictIsEarned == Spec => []VerdictEarned
  <1>1. VerdictInv => VerdictEarned
    BY DEF VerdictInv
  <1> QED BY <1>1, VerdictInit, VerdictStep, SearchInvariant, PTL DEF Spec
============================================================================
