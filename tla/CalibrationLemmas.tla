------------------------- MODULE CalibrationLemmas -------------------------
(***************************************************************************)
(* What one decision of the capacity search (Calibration) does to the job  *)
(* it is given: the facts the proofs about a single search and about the   *)
(* controllers that persist one share.                                     *)
(***************************************************************************)
EXTENDS Calibration, TLAPS

USE ZenonT(3), SMTT(20), ZenonT(30), SMTT(90)

\* Finish ends a search and leaves its bracket alone.
LEMMA FinishType ==
    ASSUME NEW j \in Job, NEW by \in Verdicts, NEW a \in Nat
    PROVE  /\ Finish(j, by, a) \in Job
           /\ Finish(j, by, a).phase = "done"
           /\ Finish(j, by, a).loReq = j.loReq
           /\ Finish(j, by, a).hiReq = j.hiReq
  BY DEF Finish, Job, Phases

\* doubleOrFinish keeps the bracket; a search that goes on goes on at twice
\* the floor, within the ceiling.
LEMMA DoubleType ==
    ASSUME NEW j \in Job, j.phase = "bracketing", j.loReq > 0
    PROVE  LET k == DoubleOrFinish(j)
           IN  /\ k \in Job
               /\ k.loReq = j.loReq /\ k.hiReq = j.hiReq
               /\ \/ k.phase = "done"
                  \/ /\ k.phase = "bracketing"
                     /\ k.next = 2 * j.loReq /\ k.next <= MaxQPS
                     /\ k.loReq < k.next
  <1>1. j.loReq \in Nat /\ j.loAch \in Nat /\ j.steps \in Nat
    BY DEF Job
  <1>2. CASE 2 * j.loReq > MaxQPS \/ j.steps >= MaxSteps
    BY <1>1, <1>2, FinishType DEF DoubleOrFinish, Verdicts
  <1>3. CASE ~(2 * j.loReq > MaxQPS \/ j.steps >= MaxSteps)
    <2>1. DoubleOrFinish(j) = [j EXCEPT !.next = 2 * j.loReq]
      BY <1>3 DEF DoubleOrFinish
    <2>2. 2 * j.loReq \in Nat /\ 2 * j.loReq <= MaxQPS /\ j.loReq < 2 * j.loReq
      BY <1>1, <1>3, SpecValid
    <2> QED BY <2>1, <2>2 DEF Job
  <1> QED BY <1>2, <1>3

\* bisectOrFinish keeps the bracket; a search that goes on tries a rate
\* strictly inside it.
LEMMA BisectType ==
    ASSUME NEW j \in Job, j.phase = "bisecting", j.loReq < j.hiReq
    PROVE  LET k == BisectOrFinish(j)
           IN  /\ k \in Job
               /\ k.loReq = j.loReq /\ k.hiReq = j.hiReq
               /\ \/ k.phase = "done"
                  \/ /\ k.phase = "bisecting"
                     /\ k.loReq < k.next /\ k.next < k.hiReq
  <1> DEFINE w == j.hiReq - j.loReq
  <1>1. /\ j.loReq \in Nat /\ j.hiReq \in Nat
        /\ j.loAch \in Nat /\ j.steps \in Nat
    BY DEF Job
  <1>2. CASE w <= Tolerance \/ j.steps >= MaxSteps
    BY <1>1, <1>2, FinishType DEF BisectOrFinish, Verdicts
  <1>3. CASE ~(w <= Tolerance \/ j.steps >= MaxSteps)
    <2>1. BisectOrFinish(j) = [j EXCEPT !.next = j.loReq + w \div 2]
      BY <1>3 DEF BisectOrFinish
    <2>2. w \in Nat /\ w >= 2
      BY <1>1, <1>3, SpecValid
    <2>3. w \div 2 \in Nat /\ w \div 2 >= 1 /\ w \div 2 < w
      BY <2>2
    <2>4. /\ j.loReq + w \div 2 \in Nat
          /\ j.loReq < j.loReq + w \div 2
          /\ j.loReq + w \div 2 < j.hiReq
      BY <1>1, <2>3
    <2> QED BY <2>1, <2>4 DEF Job
  <1> QED BY <1>2, <1>3

\* A decision moves one end of the bracket to the rate just run, keeps the
\* other, and never goes back to bracketing.
LEMMA AdvanceType ==
    ASSUME NEW j \in Job, NEW q \in Nat, NEW a \in Nat, NEW c \in Classifications,
           j.phase \in {"bracketing", "bisecting"},
           j.loReq < q,
           j.phase = "bisecting" => q < j.hiReq
    PROVE  LET k == Advance(j, q, a, c)
           IN  /\ k \in Job
               /\ k.loReq = IF c = "clean" THEN q ELSE j.loReq
               /\ k.hiReq = IF c = "engine_saturated" THEN q ELSE j.hiReq
               /\ \/ k.phase = "done"
                  \/ /\ k.phase = "bracketing" /\ j.phase = "bracketing"
                     /\ c = "clean"
                     /\ k.loReq < k.next /\ k.next <= MaxQPS
                  \/ /\ k.phase = "bisecting"
                     /\ c \in {"clean", "engine_saturated"}
                     /\ c = "engine_saturated" \/ j.phase = "bisecting"
                     /\ k.loReq < k.next /\ k.next < k.hiReq
  <1> DEFINE counted == [j EXCEPT !.steps = @ + 1]
             saturated == [counted EXCEPT !.phase = "bisecting", !.hiReq = q]
             clean == [counted EXCEPT !.loReq = q, !.loAch = a]
  <1>1. /\ counted \in Job /\ counted.phase = j.phase
        /\ counted.loReq = j.loReq /\ counted.hiReq = j.hiReq
    BY DEF Job
  <1>2. /\ saturated \in Job /\ saturated.phase = "bisecting"
        /\ saturated.loReq = j.loReq /\ saturated.hiReq = q
    BY <1>1 DEF Job, Phases
  <1>3. /\ clean \in Job /\ clean.phase = j.phase
        /\ clean.loReq = q /\ clean.hiReq = j.hiReq
    BY <1>1 DEF Job
  <1>4. CASE c = "target_saturated"
    <2>1. Advance(j, q, a, c) = Finish(counted, "target", a)
      BY <1>4 DEF Advance
    <2>2. "target" \in Verdicts
      BY DEF Verdicts
    <2> HIDE DEF counted
    <2>3. /\ Finish(counted, "target", a) \in Job
          /\ Finish(counted, "target", a).phase = "done"
          /\ Finish(counted, "target", a).loReq = j.loReq
          /\ Finish(counted, "target", a).hiReq = j.hiReq
      BY <1>1, <2>2, FinishType
    <2> QED BY <1>4, <2>1, <2>3
  <1>5. CASE c = "engine_saturated"
    <2>1. Advance(j, q, a, c) = BisectOrFinish(saturated)
      BY <1>5 DEF Advance
    <2> HIDE DEF saturated
    <2> QED BY <1>2, <1>5, <2>1, BisectType
  <1>6. CASE c = "clean" /\ j.phase = "bracketing"
    <2>1. Advance(j, q, a, c) = DoubleOrFinish(clean)
      BY <1>6 DEF Advance
    <2>2. j.loReq \in Nat
      BY DEF Job
    <2> HIDE DEF clean
    <2> QED BY <1>3, <1>6, <2>1, <2>2, DoubleType
  <1>7. CASE c = "clean" /\ j.phase = "bisecting"
    <2>1. Advance(j, q, a, c) = BisectOrFinish(clean)
      BY <1>7 DEF Advance
    <2> HIDE DEF clean
    <2> QED BY <1>3, <1>7, <2>1, BisectType
  <1> QED BY <1>4, <1>5, <1>6, <1>7 DEF Classifications

\* Finish gives the verdict and the capacity it is told, and keeps the floor's
\* measurement; neither finishing rule gives a verdict unless it finishes.
LEMMA FinishVerdict ==
    ASSUME NEW j \in Job, NEW by \in Verdicts, NEW a \in Nat
    PROVE  /\ Finish(j, by, a).phase = "done" /\ Finish(j, by, a).by = by
           /\ Finish(j, by, a).perPod = a /\ Finish(j, by, a).loAch = j.loAch
  BY DEF Finish, Job

LEMMA DoubleVerdict ==
    ASSUME NEW j \in Job
    PROVE  LET k == DoubleOrFinish(j)
           IN  /\ k.loAch = j.loAch
               /\ \/ k.phase = j.phase /\ k.by = j.by
                  \/ k.phase = "done" /\ k.by = "neither" /\ k.perPod = k.loAch
  <1>1. j.loAch \in Nat
    BY DEF Job
  <1>2. CASE 2 * j.loReq > MaxQPS \/ j.steps >= MaxSteps
    BY <1>1, <1>2, FinishVerdict DEF DoubleOrFinish, Verdicts
  <1>3. CASE ~(2 * j.loReq > MaxQPS \/ j.steps >= MaxSteps)
    BY <1>3 DEF DoubleOrFinish, Job
  <1> QED BY <1>2, <1>3

LEMMA BisectVerdict ==
    ASSUME NEW j \in Job
    PROVE  LET k == BisectOrFinish(j)
           IN  /\ k.loAch = j.loAch
               /\ \/ k.phase = j.phase /\ k.by = j.by
                  \/ k.phase = "done" /\ k.by = "engine" /\ k.perPod = k.loAch
  <1>1. j.loAch \in Nat
    BY DEF Job
  <1>2. CASE j.hiReq - j.loReq <= Tolerance \/ j.steps >= MaxSteps
    BY <1>1, <1>2, FinishVerdict DEF BisectOrFinish, Verdicts
  <1>3. CASE ~(j.hiReq - j.loReq <= Tolerance \/ j.steps >= MaxSteps)
    BY <1>3 DEF BisectOrFinish, Job
  <1> QED BY <1>2, <1>3

\* Which verdict a decision gives, and on the strength of what.
LEMMA AdvanceVerdict ==
    ASSUME NEW j \in Job, NEW q \in Nat, NEW a \in Nat, NEW c \in Classifications,
           j.phase \in {"bracketing", "bisecting"}, j.by = "none"
    PROVE  LET k == Advance(j, q, a, c)
           IN  /\ k.loAch = IF c = "clean" THEN a ELSE j.loAch
               /\ k.phase = "bisecting" => c = "engine_saturated" \/ j.phase = "bisecting"
               /\ \/ k.phase # "done" /\ k.by = "none"
                  \/ k.phase = "done" /\ k.by = "target"
                  \/ /\ k.phase = "done" /\ k.by = "neither" /\ k.perPod = k.loAch
                     /\ c = "clean" /\ j.phase = "bracketing"
                  \/ /\ k.phase = "done" /\ k.by = "engine" /\ k.perPod = k.loAch
                     /\ c = "engine_saturated" \/ j.phase = "bisecting"
  <1> DEFINE counted == [j EXCEPT !.steps = @ + 1]
             saturated == [counted EXCEPT !.phase = "bisecting", !.hiReq = q]
             clean == [counted EXCEPT !.loReq = q, !.loAch = a]
  <1>1. /\ counted \in Job /\ counted.phase = j.phase
        /\ counted.loAch = j.loAch /\ counted.by = "none"
    BY DEF Job
  <1>2. /\ saturated \in Job /\ saturated.phase = "bisecting"
        /\ saturated.loAch = j.loAch /\ saturated.by = "none"
    BY <1>1 DEF Job, Phases
  <1>3. /\ clean \in Job /\ clean.phase = j.phase
        /\ clean.loAch = a /\ clean.by = "none"
    BY <1>1 DEF Job
  <1>4. CASE c = "target_saturated"
    <2>1. Advance(j, q, a, c) = Finish(counted, "target", a)
      BY <1>4 DEF Advance
    <2>2. "target" \in Verdicts
      BY DEF Verdicts
    <2> HIDE DEF counted
    <2> QED BY <1>1, <1>4, <2>1, <2>2, FinishVerdict
  <1>5. CASE c = "engine_saturated"
    <2>1. Advance(j, q, a, c) = BisectOrFinish(saturated)
      BY <1>5 DEF Advance
    <2> HIDE DEF saturated
    <2> QED BY <1>2, <1>5, <2>1, BisectVerdict
  <1>6. CASE c = "clean" /\ j.phase = "bracketing"
    <2>1. Advance(j, q, a, c) = DoubleOrFinish(clean)
      BY <1>6 DEF Advance
    <2> HIDE DEF clean
    <2> QED BY <1>3, <1>6, <2>1, DoubleVerdict
  <1>7. CASE c = "clean" /\ j.phase = "bisecting"
    <2>1. Advance(j, q, a, c) = BisectOrFinish(clean)
      BY <1>7 DEF Advance
    <2> HIDE DEF clean
    <2> QED BY <1>3, <1>7, <2>1, BisectVerdict
  <1> QED BY <1>4, <1>5, <1>6, <1>7 DEF Classifications

\* A job between two decisions: an unfinished search has given no verdict and is
\* about to try a rate inside its bracket, a finished one has given its verdict;
\* a verdict on the engine reports what the floor's step measured.
Sound(job) ==
    /\ job \in Job
    /\ job.phase \in {"bracketing", "bisecting", "done"}
    /\ job.phase # "done" => job.loReq < job.next /\ job.by = "none"
    /\ job.phase = "done" => job.by # "none"
    /\ job.phase = "bisecting" => job.next < job.hiReq
    /\ job.by = "engine" => job.perPod = job.loAch

\* The search starts sound.
LEMMA StartSound == Sound(Start)
  <1> SUFFICES ASSUME NEW job, job = Start PROVE Sound(job)
    OBVIOUS
  <1>1. job = [phase |-> "bracketing", steps |-> 0, loReq |-> 0, loAch |-> 0,
               hiReq |-> 0, next |-> SeedQPS, by |-> "none", perPod |-> 0]
    BY DEF Start, PendingJob
  <1> QED BY <1>1, SpecValid DEF Sound, Job, Phases, Verdicts

\* Next keeps a job sound, and its floor's measurement is the last clean step's.
LEMMA AdvanceSound ==
    ASSUME NEW j, Sound(j), j.phase # "done",
           NEW a \in Nat, NEW c \in Classifications
    PROVE  LET k == Advance(j, j.next, a, c)
           IN  /\ Sound(k)
               /\ k.loAch = IF c = "clean" THEN a ELSE j.loAch
  <1> DEFINE k == Advance(j, j.next, a, c)
  <1>1. /\ j \in Job /\ j.next \in Nat /\ j.loReq < j.next /\ j.by = "none"
        /\ j.phase \in {"bracketing", "bisecting"}
        /\ j.phase = "bisecting" => j.next < j.hiReq
    BY DEF Sound, Job
  <1> HIDE DEF k
  <1>2. /\ k \in Job
        /\ \/ k.phase = "done"
           \/ k.phase = "bracketing" /\ k.loReq < k.next
           \/ k.phase = "bisecting" /\ k.loReq < k.next /\ k.next < k.hiReq
    BY <1>1, AdvanceType DEF k
  <1>3. /\ k.loAch = IF c = "clean" THEN a ELSE j.loAch
        /\ k.phase # "done" => k.by = "none"
        /\ k.phase = "done" => k.by # "none"
        /\ k.by = "engine" => k.perPod = k.loAch
    BY <1>1, AdvanceVerdict DEF k
  <1> QED BY <1>2, <1>3 DEF Sound, k
============================================================================
