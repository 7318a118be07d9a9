------------------------- MODULE RunLifecycleProofs -------------------------
(***************************************************************************)
(* Proofs about RunLifecycle for any number of requests, sweepers and       *)
(* scheduler loops, any fan-out and any load profile: the type invariant,   *)
(* that no pass is invented, that no evidence is lost before the report is  *)
(* durable, that a stored report stands, and that the rows implement        *)
(* RunRegistry.                                                             *)
(***************************************************************************)
EXTENDS RunLifecycle, TLAPS

\* A leaf is tried with SMT, with Zenon and with SMT again, unless it names its prover.
USE SMTT(30), ZenonT(30), SMTT(90)

\* Labels at which a process's run is a run that was started.
RunLabels == {"ing_absorb", "ing_count", "ing_codes", "trig_history", "trig_mark",
              "rec_orphans", "sweep_report", "sweep_pods", "stop_outcome",
              "fin_check", "fin_save", "fin_announce", "fin_discard"}

FullEvidence(r) == \A e \in Engines : <<e, "passed">> \in evidence[r]

(***************************************************************************)
(* What a process relies on at its label. The last three conjuncts carry    *)
(* the argument: while no report is stored, a completion that counted every *)
(* shard still finds every shard, and a verdict "passed" still has its      *)
(* evidence; and the working state is only dropped once a report exists.    *)
(***************************************************************************)
ProcOK(l) ==
    /\ l.pc \in RunLabels => l.run \in 1 .. lastRun
    /\ l.pc \in {"stop_mark", "stop_delete"} => l.cur \in 1 .. lastRun
    /\ l.pc \in {"deploy_park", "deploy_clear", "deploy_pods"} => l.gen \in Generations
    /\ l.pc \in {"ing_orphan", "ing_absorb"} => l.batch \in Batches
    /\ l.pc \in {"fin_check", "fin_save", "fin_announce"} => l.verdict \in Outcomes
    /\ l.pc = "ing_codes" /\ report[l.run] = None
         => \A e \in Engines : progress[l.run][e] # None
    /\ l.pc \in {"fin_check", "fin_save"} /\ l.verdict = "passed" /\ report[l.run] = None
         => FullEvidence(l.run)
    /\ l.pc \in {"fin_announce", "fin_discard"} => report[l.run] # None

\* Every stored code was delivered.
ProgressDelivered ==
    \A r \in Runs, e \in Engines :
        progress[r][e] # None => <<e, progress[r][e]>> \in evidence[r]

DataInv == PassEarned /\ NoEvidenceLost /\ ProgressDelivered

IInv == TypeOK /\ DataInv /\ \A q \in Procs : ProcOK(w[q])

(***************************************************************************)
(* How a step may change the rows other processes rely on.                  *)
(***************************************************************************)
Benign ==
    /\ lastRun <= lastRun'
    /\ \A r \in Runs :
        /\ report[r] # None => report'[r] = report[r]
        /\ evidence[r] \subseteq evidence'[r]
        /\ report'[r] = None =>
              \A e \in Engines : progress[r][e] # None => progress'[r][e] # None

-----------------------------------------------------------------------------
(***************************************************************************)
(* Locals: the constructors the actions use.                                *)
(***************************************************************************)

\* A process at rest has well-typed locals.
LEMMA RestType == Rest \in Locals
  BY BoundsAssumption DEF Rest, Locals, Labels, Ops, NoBatch

\* Updating one field of a process's locals keeps their type.
LEMMA FieldTypes ==
  ASSUME NEW l \in Locals
  PROVE  /\ \A x \in Labels : [l EXCEPT !.pc = x] \in Locals
         /\ \A x \in Ops : [l EXCEPT !.op = x] \in Locals
         /\ \A x \in 0 .. MaxRuns : [l EXCEPT !.run = x] \in Locals
         /\ \A x \in 0 .. MaxRuns : [l EXCEPT !.cur = x] \in Locals
         /\ \A x \in 0 .. MaxDeploys : [l EXCEPT !.gen = x] \in Locals
         /\ \A x \in Outcomes \cup {None} : [l EXCEPT !.verdict = x] \in Locals
         /\ \A x \in BOOLEAN : [l EXCEPT !.fresh = x] \in Locals
         /\ \A x \in BOOLEAN : [l EXCEPT !.closing = x] \in Locals
         /\ \A x \in SUBSET Engines : [l EXCEPT !.todo = x] \in Locals
         /\ \A x \in Batches \cup {NoBatch} : [l EXCEPT !.batch = x] \in Locals
  BY DEF Locals

\* A caller's StopRun starts from typed locals at its first call.
LEMMA CallerStopRunType ==
  ASSUME NEW l \in Locals
  PROVE  CallerStopRun(l) \in Locals /\ CallerStopRun(l).pc = "stop_read"
  BY ZenonT(60), RestType DEF CallerStopRun, Rest, Locals, Labels

\* The end of a reconcile pass is the sweep, of anything else rest.
LEMMA EndOfPassType ==
  ASSUME NEW l
  PROVE  EndOfPass(l) \in Locals /\ EndOfPass(l).pc \in {"rest", "sweep_open"}
  BY ZenonT(60), RestType DEF EndOfPass, Rest, Locals, Labels, Ops
-----------------------------------------------------------------------------
(***************************************************************************)
(* The two shapes of a step: one that changes only its process's locals,    *)
(* and one that also changes rows.                                          *)
(***************************************************************************)

\* A step gives its process new locals and leaves the others alone.
LEMMA BecomeEffect ==
  ASSUME w \in [Procs -> Locals], NEW p \in Procs, NEW l \in Locals, Become(p, l)
  PROVE  /\ w' \in [Procs -> Locals]
         /\ w'[p] = l
         /\ \A q \in Procs : q # p => w'[q] = w[q]
  BY DEF Become

\* Benign changes of the rows break no other process's expectations.
LEMMA ProcOKStable ==
  ASSUME StoreOK, NEW l \in Locals, ProcOK(l), Benign, StoreOK'
  PROVE  ProcOK(l)'
<1> USE BoundsAssumption
<1>1. lastRun \in 0 .. MaxRuns /\ lastRun' \in 0 .. MaxRuns /\ lastRun <= lastRun'
  BY DEF StoreOK, Benign
<1>2. l.pc \in RunLabels => l.run \in 1 .. lastRun' /\ l.run \in Runs
  BY <1>1 DEF ProcOK, Runs
<1>3. l.pc \in {"stop_mark", "stop_delete"} => l.cur \in 1 .. lastRun'
  BY <1>1 DEF ProcOK
<1>4. l.pc = "ing_codes" /\ report'[l.run] = None
        => \A e \in Engines : progress'[l.run][e] # None
  BY <1>2 DEF ProcOK, Benign, RunLabels
<1>5. l.pc \in {"fin_check", "fin_save"} /\ l.verdict = "passed" /\ report'[l.run] = None
        => FullEvidence(l.run)'
  BY ZenonT(60), <1>2 DEF ProcOK, Benign, RunLabels, FullEvidence
<1>6. l.pc \in {"fin_announce", "fin_discard"} => report'[l.run] # None
  BY <1>2 DEF ProcOK, Benign, RunLabels
<1> QED
  BY <1>2, <1>3, <1>4, <1>5, <1>6 DEF ProcOK

\* A step that changes rows benignly preserves the invariant when its
\* process's new locals fit the new rows.
LEMMA RowStep ==
  ASSUME IInv, NEW p \in Procs, NEW l \in Locals, Become(p, l),
         StoreOK', Benign, DataInv', ProcOK(l)'
  PROVE  IInv'
<1>1. /\ w' \in [Procs -> Locals]
      /\ w'[p] = l
      /\ \A q \in Procs : q # p => w'[q] = w[q]
  BY BecomeEffect DEF IInv, TypeOK
<1>2. ASSUME NEW q \in Procs PROVE ProcOK(w[q])'
  <2>1. CASE q = p
    BY <2>1, <1>1 DEF ProcOK, FullEvidence
  <2>2. CASE q # p
    <3> DEFINE m == w[q]
    <3>1. m \in Locals /\ ProcOK(m) /\ StoreOK
      BY DEF IInv, TypeOK
    <3>2. w'[q] = m
      BY <2>2, <1>1
    <3> HIDE DEF m
    <3>3. ASSUME NEW k, k = m PROVE ProcOK(k)'
      BY <3>1, <3>3, ProcOKStable
    <3> QED
      BY <3>2, <3>3 DEF ProcOK, FullEvidence
  <2> QED
    BY <2>1, <2>2
<1> QED
  BY <1>1, <1>2 DEF IInv, TypeOK

\* Unchanged rows are benign.
LEMMA UnchangedBenign ==
  ASSUME StoreOK, UNCHANGED data
  PROVE  Benign /\ StoreOK'
<1> USE DEF data, runVars, reportVars, progressVars, sideVars, podVars, boundVars
<1>1. Benign
  BY BoundsAssumption DEF StoreOK, Benign
<1>2. StoreOK'
  BY DEF StoreOK
<1> QED
  BY <1>1, <1>2

\* A step that changes only its process's locals preserves the invariant when
\* the new locals fit the rows.
LEMMA LocalStep ==
  ASSUME IInv, NEW p \in Procs, NEW l \in Locals, Become(p, l), UNCHANGED data, ProcOK(l)
  PROVE  IInv'
<1>1. Benign /\ StoreOK'
  BY UnchangedBenign DEF IInv, TypeOK
<1>2. DataInv'
  BY DEF IInv, DataInv, PassEarned, NoEvidenceLost, ProgressDelivered, data,
         reportVars, progressVars
<1>3. ProcOK(l)'
  BY DEF ProcOK, FullEvidence, data, runVars, reportVars, progressVars
<1> QED
  BY <1>1, <1>2, <1>3, RowStep

\* So does one that changes only rows no other process relies on.
LEMMA SideStep ==
  ASSUME IInv, NEW p \in Procs, NEW l \in Locals, Become(p, l), StoreOK',
         UNCHANGED <<lastRun, report, progress, evidence>>, ProcOK(l)
  PROVE  IInv'
<1>1. Benign
  BY BoundsAssumption DEF IInv, TypeOK, StoreOK, Benign
<1>2. DataInv'
  BY DEF IInv, DataInv, PassEarned, NoEvidenceLost, ProgressDelivered
<1>3. ProcOK(l)'
  BY DEF ProcOK, FullEvidence
<1> QED
  BY <1>1, <1>2, <1>3, RowStep

\* Labels at which a process relies on nothing.
FreeLabels == {"rest", "trig_status", "trig_orphans", "trig_pending", "trig_start",
               "reap_current", "reap_capture", "reap_clear", "purge_pods", "td_clear",
               "td_current", "sweep_open", "fin_current", "stop_read"}

\* A step of that kind to such a label needs no further argument.
LEMMA FreeStep ==
  ASSUME IInv, NEW p \in Procs, NEW l \in Locals, l.pc \in FreeLabels,
         Become(p, l), UNCHANGED data
  PROVE  IInv'
<1>1. ProcOK(l)
  BY DEF ProcOK, FreeLabels, RunLabels
<1> QED
  BY <1>1, LocalStep

\* Nor does a change of such rows on the way to such a label.
LEMMA FreeSideStep ==
  ASSUME IInv, NEW p \in Procs, NEW l \in Locals, l.pc \in FreeLabels,
         Become(p, l), StoreOK', UNCHANGED <<lastRun, report, progress, evidence>>
  PROVE  IInv'
<1>1. ProcOK(l)
  BY DEF ProcOK, FreeLabels, RunLabels
<1> QED
  BY <1>1, SideStep

\* Moving to such a label with the locals as they are.
LEMMA FreeGoto ==
  ASSUME IInv, NEW p \in Procs, NEW x \in FreeLabels, Goto(p, x), UNCHANGED data
  PROVE  IInv'
<1> DEFINE l == [w[p] EXCEPT !.pc = x]
<1>1. x \in Labels
  BY DEF FreeLabels, Labels
<1>2. w[p] \in Locals
  BY DEF IInv, TypeOK
<1>3. l \in Locals
  BY <1>1, <1>2, FieldTypes
<1>4. l.pc = x
  BY <1>2 DEF Locals
<1>5. Become(p, l)
  BY DEF Goto
<1> HIDE DEF l
<1> QED
  BY <1>3, <1>4, <1>5, FreeStep

\* Returning from an operation.
LEMMA ReturnStep ==
  ASSUME IInv, NEW p \in Procs, Return(p), UNCHANGED data
  PROVE  IInv'
<1>1. Rest.pc \in FreeLabels
  BY DEF Rest, FreeLabels
<1> QED
  BY <1>1, RestType, FreeStep DEF Return

-----------------------------------------------------------------------------
(***************************************************************************)
(* Steps that only read.                                                    *)
(***************************************************************************)

\* Trigger's checks.
LEMMA TriggerReads ==
  ASSUME IInv, NEW p \in Procs,
         TriggerStatus(p) \/ TriggerOrphans(p) \/ PendingCorrelationID(p)
  PROVE  IInv'
<1>1. CASE TriggerStatus(p)
  BY <1>1, FreeGoto, ReturnStep DEF TriggerStatus, FreeLabels
<1>2. CASE TriggerOrphans(p)
  BY <1>2, FreeGoto, ReturnStep DEF TriggerOrphans, FreeLabels
<1>3. CASE PendingCorrelationID(p)
  <2> DEFINE l == [[w[p] EXCEPT !.pc = "trig_start"] EXCEPT !.gen = pending]
  <2>1. w[p] \in Locals /\ pending \in 0 .. MaxDeploys /\ "trig_start" \in Labels
    BY DEF IInv, TypeOK, StoreOK, Labels
  <2>2. [w[p] EXCEPT !.pc = "trig_start"] \in Locals
    BY <2>1, FieldTypes
  <2>3. l \in Locals
    BY ZenonT(60), <2>1, <2>2, FieldTypes
  <2>4. l.pc \in FreeLabels
    BY <2>1 DEF Locals, FreeLabels
  <2>5. Become(p, l) /\ UNCHANGED data
    BY <1>3, <2>1 DEF PendingCorrelationID, Become, Locals
  <2> HIDE DEF l
  <2> QED
    BY <2>3, <2>4, <2>5, FreeStep
<1> QED
  BY <1>1, <1>2, <1>3

\* The first call of an operation that changes no row.
LEMMA Begins ==
  ASSUME IInv, NEW p \in Procs,
         \/ BeginTrigger(p)
         \/ \E op \in {"stop", "drain"} : BeginStop(p, op)
         \/ BeginPurge(p)
         \/ \E c \in Clusters : BeginReap(p, c)
  PROVE  IInv'
<1> DEFINE Start(pc, op, todo) == [Rest EXCEPT !.pc = pc, !.op = op, !.todo = todo]
<1>1. ASSUME NEW pc \in FreeLabels, NEW op \in Ops, NEW todo \in SUBSET Engines,
             Become(p, Start(pc, op, todo)), UNCHANGED data
      PROVE  IInv'
  <2>1. pc \in Labels
    BY DEF Labels, FreeLabels
  <2>2. Start(pc, op, todo) \in Locals /\ Start(pc, op, todo).pc = pc
    BY ZenonT(60), <2>1, RestType DEF Locals
  <2> HIDE DEF Start
  <2> QED
    BY <1>1, <2>2, FreeStep
<1>2. ASSUME NEW pc \in FreeLabels, NEW op \in Ops,
             Become(p, [Rest EXCEPT !.pc = pc, !.op = op]), UNCHANGED data
      PROVE  IInv'
  <2> DEFINE l == [Rest EXCEPT !.pc = pc, !.op = op]
  <2>1. pc \in Labels
    BY DEF Labels, FreeLabels
  <2>2. l \in Locals /\ l.pc = pc
    BY ZenonT(60), <2>1, RestType DEF Locals
  <2>3. Become(p, l)
    BY <1>2
  <2> HIDE DEF l
  <2> QED
    BY <1>2, <2>2, <2>3, FreeStep
<1>3. CASE BeginTrigger(p)
  BY <1>3, <1>2 DEF BeginTrigger, FreeLabels, Ops
<1>4. CASE \E op \in {"stop", "drain"} : BeginStop(p, op)
  BY ZenonT(60), <1>4, <1>2 DEF BeginStop, FreeLabels, Ops
<1>5. CASE BeginPurge(p)
  <2>1. PICK pc \in FreeLabels :
          Captured([Rest EXCEPT !.op = "purge", !.todo = Engines])
            = Start(pc, "purge", Engines)
    BY ZenonT(60) DEF Captured, FreeLabels, Rest
  <2>2. Become(p, Start(pc, "purge", Engines)) /\ UNCHANGED data
    BY ZenonT(60), <1>5, <2>1 DEF BeginPurge, Become
  <2> HIDE DEF Start
  <2> QED
    BY <1>1, <2>2 DEF Ops
<1>6. CASE \E c \in Clusters : BeginReap(p, c)
  <2>1. PICK c \in Clusters : BeginReap(p, c)
    BY <1>6
  <2> DEFINE here == {e \in Engines : e[1] = c}
  <2>2. Become(p, Start("reap_current", "reap", here)) /\ UNCHANGED data
    BY ZenonT(60), <2>1 DEF BeginReap
  <2>3. here \in SUBSET Engines
    OBVIOUS
  <2> HIDE DEF Start, here
  <2> QED
    BY <1>1, <2>2, <2>3 DEF FreeLabels, Ops
<1> QED
  BY <1>3, <1>4, <1>5, <1>6

\* The reconcile pass's listing names a run that was started.
LEMMA BeginPassStep ==
  ASSUME IInv, NEW p \in Procs, BeginPass(p)
  PROVE  IInv'
<1> DEFINE l == IF OpenRun
                THEN [Rest EXCEPT !.pc = "rec_orphans", !.op = "reconcile", !.run = marker]
                ELSE [Rest EXCEPT !.pc = "sweep_open", !.op = "sweep"]
<1>1. marker \in 0 .. lastRun /\ lastRun \in 0 .. MaxRuns
  BY DEF IInv, TypeOK, StoreOK
<1>2. marker \in 0 .. MaxRuns /\ (OpenRun => marker \in 1 .. lastRun)
  BY <1>1, BoundsAssumption DEF OpenRun
<1>3. l \in Locals
  BY ZenonT(60), <1>2, RestType DEF Locals, Labels, Ops
<1>4. ProcOK(l)
  <2>1. CASE OpenRun
    BY <2>1, <1>2 DEF Rest, ProcOK, RunLabels
  <2>2. CASE ~OpenRun
    BY <2>2 DEF Rest, ProcOK, RunLabels
  <2> QED
    BY <2>1, <2>2
<1>5. Become(p, l) /\ UNCHANGED data
  BY DEF BeginPass
<1> HIDE DEF l
<1> QED
  BY <1>3, <1>4, <1>5, LocalStep

-----------------------------------------------------------------------------
(***************************************************************************)
(* Steps that change rows no other process relies on.                       *)
(***************************************************************************)
\* What the invariant says of one process.
LEMMA TypedLocals ==
  ASSUME IInv, NEW p \in Procs
  PROVE  w[p] \in Locals /\ ProcOK(w[p]) /\ StoreOK
  BY DEF IInv, TypeOK

\* Deploy: minting and parking the correlation id.
LEMMA DeployParks ==
  ASSUME IInv, NEW p \in Procs, BeginDeploy(p) \/ SetPendingCorrelationID(p)
  PROVE  IInv'
<1> USE BoundsAssumption
<1>0. StoreOK /\ w[p] \in Locals /\ ProcOK(w[p])
  BY TypedLocals
<1>1. CASE BeginDeploy(p)
  <2> DEFINE l == [Rest EXCEPT !.pc = "deploy_park", !.op = "deploy", !.gen = minted + 1]
  <2>1. minted + 1 \in Generations /\ minted + 1 \in 0 .. MaxDeploys
    BY <1>0, <1>1 DEF BeginDeploy, StoreOK, Generations
  <2>2. l \in Locals
    BY ZenonT(60), <2>1, RestType DEF Locals, Labels, Ops
  <2>3. ProcOK(l)
    BY <2>1 DEF Rest, ProcOK, RunLabels
  <2>4. StoreOK'
    BY <1>0, <1>1, <2>1 DEF BeginDeploy, StoreOK, runVars, reportVars, progressVars,
                            sideVars, podVars
  <2>5. Become(p, l) /\ UNCHANGED <<lastRun, report, progress, evidence>>
    BY <1>1 DEF BeginDeploy, runVars, reportVars, progressVars
  <2> HIDE DEF l
  <2> QED
    BY <2>2, <2>3, <2>4, <2>5, SideStep
<1>2. CASE SetPendingCorrelationID(p)
  <2> DEFINE l == [w[p] EXCEPT !.pc = "deploy_clear"]
  <2>1. w[p].gen \in Generations /\ w[p].gen \in 0 .. MaxDeploys
    BY <1>0, <1>2 DEF SetPendingCorrelationID, At, ProcOK, Generations
  <2>2. l \in Locals
    BY ZenonT(60), <1>0, FieldTypes DEF Labels
  <2>3. l.pc = "deploy_clear" /\ l.gen = w[p].gen
    BY <1>0 DEF Locals
  <2>4. StoreOK'
    BY <1>0, <1>2, <2>1 DEF SetPendingCorrelationID, StoreOK, runVars, reportVars,
                            progressVars, sideVars, podVars, boundVars
  <2>5. Become(p, l) /\ UNCHANGED <<lastRun, report, progress, evidence>>
    BY <1>2 DEF SetPendingCorrelationID, Goto, runVars, reportVars, progressVars
  <2> HIDE DEF l
  <2>6. ProcOK(l)
    BY <2>1, <2>3 DEF ProcOK, RunLabels
  <2> QED
    BY <2>2, <2>4, <2>5, <2>6, SideStep
<1> QED
  BY <1>1, <1>2

\* Deploy: clearing the orphans and provisioning.
LEMMA DeployProvisions ==
  ASSUME IInv, NEW p \in Procs,
         DeployClearOrphans(p) \/ \E e \in Engines : DeployScenario(p, e)
  PROVE  IInv'
<1> USE BoundsAssumption
<1>0. StoreOK /\ w[p] \in Locals /\ ProcOK(w[p])
  BY TypedLocals
<1>1. CASE DeployClearOrphans(p)
  <2> DEFINE l == [w[p] EXCEPT !.pc = "deploy_pods", !.todo = Engines]
  <2>1. w[p].gen \in Generations
    BY <1>0, <1>1 DEF DeployClearOrphans, At, ProcOK
  <2>2. l \in Locals /\ l.pc = "deploy_pods" /\ l.gen = w[p].gen
    BY ZenonT(60), <1>0 DEF Locals, Labels
  <2>3. StoreOK'
    BY ZenonT(60), <1>0, <1>1 DEF DeployClearOrphans, NoOrphans, StoreOK, runVars, reportVars,
                      progressVars, podVars, boundVars
  <2>4. Become(p, l) /\ UNCHANGED <<lastRun, report, progress, evidence>>
    BY <1>1 DEF DeployClearOrphans, runVars, reportVars, progressVars
  <2> HIDE DEF l
  <2>5. ProcOK(l)
    BY <2>1, <2>2 DEF ProcOK, RunLabels
  <2> QED
    BY <2>2, <2>3, <2>4, <2>5, SideStep
<1>2. CASE \E e \in Engines : DeployScenario(p, e)
  <2>1. PICK e \in Engines : DeployScenario(p, e)
    BY <1>2
  <2> DEFINE m == [w[p] EXCEPT !.todo = @ \ {e}]
             l == IF w[p].todo = {e} THEN Rest ELSE m
  <2>2. w[p].gen \in Generations /\ w[p].gen \in 0 .. MaxDeploys /\ w[p].pc = "deploy_pods"
    BY <1>0, <2>1 DEF DeployScenario, At, ProcOK, Generations
  <2>3. m \in Locals /\ m.pc = "deploy_pods" /\ m.gen = w[p].gen
    BY <1>0, <2>2 DEF Locals
  <2>4. StoreOK'
    BY <1>0, <2>1, <2>2 DEF DeployScenario, StoreOK, runVars, reportVars, progressVars,
                            sideVars, boundVars
  <2>5. Become(p, l) /\ UNCHANGED <<lastRun, report, progress, evidence>>
    BY <2>1 DEF DeployScenario, runVars, reportVars, progressVars
  <2> HIDE DEF m
  <2>6. ProcOK(m)
    BY <2>2, <2>3 DEF ProcOK, RunLabels
  <2>7. CASE w[p].todo = {e}
    BY <2>4, <2>5, <2>7, RestType, FreeSideStep DEF Rest, FreeLabels
  <2>8. CASE w[p].todo # {e}
    BY <2>3, <2>4, <2>5, <2>6, <2>8, SideStep
  <2> QED
    BY <2>7, <2>8
<1> QED
  BY <1>1, <1>2

\* Trigger: the run's marker row, under a fresh id.
LEMMA StartRunStep ==
  ASSUME IInv, NEW p \in Procs, StartRun(p)
  PROVE  IInv'
<1> USE BoundsAssumption
<1>0. StoreOK /\ w[p] \in Locals
  BY TypedLocals
<1>1. CASE marker # 0
  <2>1. Return(p) /\ UNCHANGED data
    BY <1>1 DEF StartRun, data, runVars
  <2> QED
    BY <2>1, ReturnStep
<1>2. CASE marker = 0
  <2> DEFINE l == [w[p] EXCEPT !.pc = "trig_history", !.run = lastRun + 1]
  <2>1. /\ lastRun < MaxRuns /\ marker' = lastRun + 1 /\ lastRun' = lastRun + 1
        /\ Become(p, l)
        /\ UNCHANGED <<history, correlation, reportVars, progressVars, orphans, pending,
                       sideVars, old, podVars, boundVars>>
    BY <1>2 DEF StartRun
  <2>2. /\ lastRun + 1 \in 1 .. MaxRuns /\ lastRun + 1 \in 0 .. MaxRuns
        /\ lastRun \in 0 .. MaxRuns /\ "trig_history" \in Labels
    BY <1>0, <2>1 DEF StoreOK, Labels
  <2>3. l \in Locals /\ l.pc = "trig_history" /\ l.run = lastRun + 1
    BY ZenonT(60), <1>0, <2>2 DEF Locals
  <2>4. StoreOK'
    BY <1>0, <2>1, <2>2 DEF StoreOK, reportVars, progressVars, sideVars, podVars, boundVars
  <2>5. Benign
    BY <1>0, <2>1, <2>2 DEF Benign, StoreOK, reportVars, progressVars
  <2>6. DataInv'
    BY <2>1 DEF IInv, DataInv, PassEarned, NoEvidenceLost, ProgressDelivered, reportVars,
                progressVars
  <2>7. PICK m : m = l
    OBVIOUS
  <2> HIDE DEF l
  <2>8. ProcOK(m)'
    BY <2>1, <2>2, <2>3, <2>7 DEF ProcOK, RunLabels
  <2> QED
    BY <2>1, <2>3, <2>4, <2>5, <2>6, <2>7, <2>8, RowStep
<1> QED
  BY <1>1, <1>2

\* Trigger: the history row, the scenario markers and the usage launch.
LEMMA TriggerRecords ==
  ASSUME IInv, NEW p \in Procs, StartRunHistory(p) \/ MarkScenarioRunning(p)
  PROVE  IInv'
<1> USE BoundsAssumption
<1>0. StoreOK /\ w[p] \in Locals /\ ProcOK(w[p])
  BY TypedLocals
<1>1. CASE StartRunHistory(p)
  <2> DEFINE l == [w[p] EXCEPT !.pc = "trig_mark", !.gen = 0]
  <2>1. w[p].run \in 1 .. lastRun /\ w[p].run \in Runs /\ w[p].gen \in 0 .. MaxDeploys
    BY <1>0, <1>1 DEF StartRunHistory, At, ProcOK, RunLabels, StoreOK, Runs, Locals
  <2>6. "trig_mark" \in Labels /\ 0 \in 0 .. MaxDeploys
    BY DEF Labels
  <2>2. l \in Locals /\ l.pc = "trig_mark" /\ l.run = w[p].run
    BY ZenonT(60), <1>0, <2>6 DEF Locals
  <2>3. StoreOK'
    BY <1>0, <1>1, <2>1 DEF StartRunHistory, StoreOK, reportVars, progressVars, sideVars,
                            podVars, boundVars
  <2>4. Become(p, l) /\ UNCHANGED <<lastRun, report, progress, evidence>>
    BY <1>1 DEF StartRunHistory, reportVars, progressVars
  <2> HIDE DEF l
  <2>5. ProcOK(l)
    BY <2>1, <2>2 DEF ProcOK, RunLabels
  <2> QED
    BY <2>2, <2>3, <2>4, <2>5, SideStep
<1>2. CASE MarkScenarioRunning(p)
  <2>1. w[p].run \in 0 .. MaxRuns
    BY <1>0 DEF Locals
  <2>2. StoreOK'
    BY ZenonT(60), <1>0, <1>2, <2>1 DEF MarkScenarioRunning, StartLaunch, StoreOK, runVars,
                            reportVars, progressVars, podVars, boundVars
  <2>3. Become(p, Rest) /\ UNCHANGED <<lastRun, report, progress, evidence>>
    BY <1>2 DEF MarkScenarioRunning, Return, runVars, reportVars, progressVars
  <2> QED
    BY <2>2, <2>3, RestType, FreeSideStep DEF Rest, FreeLabels
<1> QED
  BY <1>1, <1>2

\* teardown: the markers and the usage launch, then the open run.
LEMMA TeardownSteps ==
  ASSUME IInv, NEW p \in Procs, TeardownClear(p) \/ TeardownCurrent(p)
  PROVE  IInv'
<1> USE BoundsAssumption
<1>0. StoreOK /\ w[p] \in Locals /\ ProcOK(w[p])
  BY TypedLocals
<1>1. CASE TeardownClear(p)
  <2> DEFINE l == [w[p] EXCEPT !.pc = "td_current"]
  <2>1. l \in Locals /\ l.pc = "td_current"
    BY <1>0 DEF Locals, Labels
  <2>2. StoreOK'
    <3>1. launch' \in 0 .. MaxRuns
      BY <1>0, <1>1 DEF TeardownClear, FinishLaunch, StoreOK
    <3> QED
      BY ZenonT(60), <1>0, <1>1, <3>1 DEF TeardownClear, StoreOK, runVars, reportVars, progressVars,
                              podVars, boundVars
  <2>3. Become(p, l) /\ UNCHANGED <<lastRun, report, progress, evidence>>
    BY <1>1 DEF TeardownClear, Goto, runVars, reportVars, progressVars
  <2> HIDE DEF l
  <2> QED
    BY <2>1, <2>2, <2>3, FreeSideStep DEF FreeLabels
<1>2. CASE TeardownCurrent(p)
  <2> DEFINE l == [w[p] EXCEPT !.pc = "stop_outcome", !.run = marker]
  <2>1. marker \in 0 .. lastRun /\ marker \in 0 .. MaxRuns
    BY <1>0 DEF StoreOK
  <2>2. l \in Locals /\ l.pc = "stop_outcome" /\ l.run = marker
    BY ZenonT(60), <1>0, <2>1 DEF Locals, Labels
  <2>3. \/ marker # 0 /\ Become(p, l)
        \/ Become(p, CallerStopRun(w[p]))
    BY <1>2 DEF TeardownCurrent
  <2>4. UNCHANGED data
    BY <1>2 DEF TeardownCurrent
  <2> HIDE DEF l
  <2>5. CASE marker # 0 /\ Become(p, l)
    <3>1. marker \in 1 .. lastRun
      BY <1>0, <2>1, <2>5 DEF StoreOK
    <3>2. ProcOK(l)
      BY <2>2, <3>1 DEF ProcOK, RunLabels
    <3> QED
      BY <2>2, <2>4, <2>5, <3>2, LocalStep
  <2>6. CASE Become(p, CallerStopRun(w[p]))
    BY <1>0, <2>4, <2>6, CallerStopRunType, FreeStep DEF FreeLabels
  <2> QED
    BY <2>3, <2>5, <2>6
<1> QED
  BY <1>1, <1>2

\* Purge and reap: the pods of one cluster.
LEMMA PurgeStep ==
  ASSUME IInv, NEW p \in Procs, NEW c \in Clusters, PurgeExecution(p, c)
  PROVE  IInv'
<1> USE BoundsAssumption
<1>0. StoreOK /\ w[p] \in Locals
  BY TypedLocals
<1> DEFINE here == {e \in Engines : e[1] = c}
           left == w[p].todo \ here
           more == [w[p] EXCEPT !.todo = left]
           done == [w[p] EXCEPT !.pc = "reap_clear", !.todo = {}]
<1>1. w[p].pc = "purge_pods" /\ left \in SUBSET Engines
  BY <1>0 DEF PurgeExecution, At, Locals
<1>2. more \in Locals /\ more.pc \in FreeLabels
  BY <1>0, <1>1 DEF Locals, FreeLabels
<1>3. done \in Locals /\ done.pc \in FreeLabels
  BY ZenonT(60), <1>0 DEF Locals, Labels, FreeLabels
<1>4. Rest \in Locals /\ Rest.pc \in FreeLabels
  BY RestType DEF Rest, FreeLabels
<1>5. \E l \in {more, done, Rest} : Become(p, l)
  BY DEF PurgeExecution
<1>6. UNCHANGED <<lastRun, report, progress, evidence>>
  BY DEF PurgeExecution, runVars, reportVars, progressVars
<1>7. StoreOK'
  <2>1. pods' \in [Engines -> 0 .. MaxDeploys]
    BY <1>0 DEF PurgeExecution, StoreOK
  <2> QED
    BY <1>0, <2>1 DEF PurgeExecution, StoreOK, runVars, reportVars, progressVars, sideVars,
                      boundVars
<1> HIDE DEF more, done
<1> QED
  BY <1>2, <1>3, <1>4, <1>5, <1>6, <1>7, FreeSideStep

\* ReapIdle: the open-run guard, the capture, the orphans.
LEMMA ReapSteps ==
  ASSUME IInv, NEW p \in Procs, ReapCurrent(p) \/ ReapCapture(p) \/ ReapClearOrphans(p)
  PROVE  IInv'
<1>0. StoreOK /\ w[p] \in Locals
  BY TypedLocals
<1>1. CASE ReapCurrent(p)
  BY <1>1, FreeGoto, ReturnStep DEF ReapCurrent, FreeLabels
<1>2. CASE ReapCapture(p)
  <2>1. PICK x \in FreeLabels : Captured(w[p]) = [w[p] EXCEPT !.pc = x]
    BY DEF Captured, FreeLabels
  <2>2. Goto(p, x) /\ UNCHANGED data
    BY <1>2, <2>1 DEF ReapCapture, Goto
  <2> QED
    BY <2>2, FreeGoto
<1>3. CASE ReapClearOrphans(p)
  <2>1. StoreOK'
    BY <1>0, <1>3 DEF ReapClearOrphans, NoOrphans, StoreOK, runVars, reportVars,
                      progressVars, sideVars, podVars, boundVars
  <2>2. Become(p, Rest) /\ UNCHANGED <<lastRun, report, progress, evidence>>
    BY <1>3 DEF ReapClearOrphans, Return, runVars, reportVars, progressVars
  <2> QED
    BY <2>1, <2>2, RestType, FreeSideStep DEF Rest, FreeLabels
<1> QED
  BY <1>1, <1>2, <1>3

\* Ingest: the batch is taken by the open run, or kept as an orphan.
LEMMA IngestBegins ==
  ASSUME IInv, NEW p \in Procs, NEW b \in net, BeginIngest(p, b)
  PROVE  IInv'
<1> USE BoundsAssumption
<1>0. StoreOK
  BY TypedLocals
<1> DEFINE l == [Rest EXCEPT !.pc = IF marker = 0 THEN "ing_orphan" ELSE "ing_absorb",
                             !.op = "ingest", !.run = marker, !.batch = b]
<1>1. /\ marker \in 0 .. MaxRuns /\ b \in Batches
      /\ marker # 0 => marker \in 1 .. lastRun
  BY <1>0 DEF StoreOK
<1>2. l \in Locals
  BY ZenonT(60), <1>1, RestType DEF Locals, Labels, Ops
<1>3. l.batch = b /\ l.run = marker /\ l.pc \in {"ing_orphan", "ing_absorb"}
      /\ (l.pc = "ing_absorb" => marker # 0)
  BY DEF Rest
<1>4. StoreOK'
  BY <1>0 DEF BeginIngest, StoreOK, runVars, reportVars, progressVars, sideVars, boundVars
<1>5. Become(p, l) /\ UNCHANGED <<lastRun, report, progress, evidence>>
  BY DEF BeginIngest, runVars, reportVars, progressVars
<1> HIDE DEF l
<1>6. ProcOK(l)
  BY <1>1, <1>3 DEF ProcOK, RunLabels
<1> QED
  BY <1>2, <1>4, <1>5, <1>6, SideStep

\* Ingest outside a run.
LEMMA OrphanStep ==
  ASSUME IInv, NEW p \in Procs, RecordOrphanCompletion(p)
  PROVE  IInv'
<1>0. StoreOK /\ w[p] \in Locals /\ ProcOK(w[p])
  BY TypedLocals
<1>1. w[p].batch \in Batches
  BY <1>0 DEF RecordOrphanCompletion, At, ProcOK
<1>2. w[p].batch.code \in Codes \cup {None} /\ w[p].batch.engine[2] \in Shards
  BY <1>1 DEF Batches, Engines
<1>3. StoreOK'
  BY <1>0, <1>2 DEF RecordOrphanCompletion, StoreOK, runVars, reportVars, progressVars,
                    sideVars, podVars, boundVars
<1>4. Become(p, Rest) /\ UNCHANGED <<lastRun, report, progress, evidence>>
  BY ZenonT(60) DEF RecordOrphanCompletion, Return, runVars, reportVars, progressVars
<1> QED
  BY <1>3, <1>4, RestType, FreeSideStep DEF Rest, FreeLabels

-----------------------------------------------------------------------------
(***************************************************************************)
(* The completion path of Ingest.                                           *)
(***************************************************************************)

\* Absorb adds a completion to its run and takes none away.
LEMMA AbsorbStep ==
  ASSUME IInv, NEW p \in Procs, Absorb(p)
  PROVE  IInv'
<1> USE BoundsAssumption
<1>0. StoreOK /\ w[p] \in Locals /\ ProcOK(w[p]) /\ DataInv
  BY TypedLocals DEF IInv
<1> DEFINE l == [w[p] EXCEPT !.pc = "ing_count", !.batch = NoBatch]
<1>1. PICK b, r : b = w[p].batch /\ r = w[p].run
  OBVIOUS
<1>2. b \in Batches /\ r \in 1 .. lastRun /\ r \in Runs
  BY <1>0, <1>1 DEF Absorb, At, ProcOK, RunLabels, StoreOK, Runs
<1>3. b.engine \in Engines /\ b.code \in Codes /\ b.gen \in 0 .. MaxDeploys /\ b.code # None
  BY <1>2 DEF Batches, Generations, Codes, Outcomes, NoCode, None
<1>4. PICK new : new = IF b.code = NoCode /\ progress[r][b.engine] # None
                       THEN progress[r][b.engine] ELSE b.code
  OBVIOUS
<1>5. new \in Codes \cup {None} /\ new # None
  BY <1>0, <1>2, <1>3, <1>4 DEF StoreOK
<1>6. /\ progress' = [progress EXCEPT ![r] = [@ EXCEPT ![b.engine] = new]]
      /\ source' = [source EXCEPT ![r] = [@ EXCEPT ![b.engine] = b.gen]]
      /\ evidence' = [evidence EXCEPT ![r] = @ \cup {<<b.engine, b.code>>}]
      /\ Become(p, l)
      /\ UNCHANGED <<runVars, reportVars, orphans, pending, sideVars, old, podVars, boundVars>>
  <2>1. progress' = [progress EXCEPT ![r][b.engine] =
                        IF b.code = NoCode /\ @ # None THEN @ ELSE b.code]
    BY <1>1 DEF Absorb
  <2>2. progress' = [progress EXCEPT ![r] = [@ EXCEPT ![b.engine] = new]]
    BY <1>0, <1>2, <1>3, <1>4, <2>1 DEF StoreOK
  <2>3. source' = [source EXCEPT ![r] = [@ EXCEPT ![b.engine] = b.gen]]
    BY <1>1 DEF Absorb
  <2>4. evidence' = [evidence EXCEPT ![r] = @ \cup {<<b.engine, b.code>>}]
    BY <1>1 DEF Absorb
  <2>5. /\ Become(p, l)
        /\ UNCHANGED <<runVars, reportVars, orphans, pending, sideVars, old, podVars,
                       boundVars>>
    BY DEF Absorb
  <2> QED
    BY <2>2, <2>3, <2>4, <2>5
<1>7. l \in Locals /\ l.pc = "ing_count" /\ l.run = r
  <2>1. "ing_count" \in Labels /\ NoBatch \in Batches \cup {NoBatch}
    BY DEF Labels
  <2> QED
    BY ZenonT(60), <1>0, <1>1, <2>1 DEF Locals
<1>8. /\ progress' \in [Runs -> [Engines -> Codes \cup {None}]]
      /\ source' \in [Runs -> [Engines -> 0 .. MaxDeploys]]
      /\ evidence' \in [Runs -> SUBSET (Engines \X Codes)]
  BY <1>0, <1>2, <1>3, <1>5, <1>6 DEF StoreOK
<1>9. StoreOK'
  BY <1>0, <1>6, <1>8 DEF StoreOK, runVars, reportVars, sideVars, podVars, boundVars
<1>10. /\ progress'[r][b.engine] = new
       /\ evidence'[r] = evidence[r] \cup {<<b.engine, b.code>>}
       /\ \A e \in Engines : e # b.engine => progress'[r][e] = progress[r][e]
       /\ \A q \in Runs : q # r => progress'[q] = progress[q] /\ evidence'[q] = evidence[q]
  BY <1>0, <1>2, <1>3, <1>6 DEF StoreOK
<1>11. report' = report /\ lastRun' = lastRun
  BY <1>6 DEF reportVars, runVars
<1>12. Benign
  <2>1. lastRun <= lastRun'
    BY <1>0, <1>11 DEF StoreOK
  <2>2. \A q \in Runs : evidence[q] \subseteq evidence'[q]
    BY <1>10
  <2>3. \A q \in Runs, e \in Engines : progress[q][e] # None => progress'[q][e] # None
    BY <1>5, <1>10
  <2> QED
    BY <1>11, <2>1, <2>2, <2>3 DEF Benign
<1>13. DataInv'
  <2>1. PassEarned'
    BY ZenonT(60), <1>0, <1>10, <1>11 DEF DataInv, PassEarned
  <2>2. ASSUME NEW q \in Runs, report'[q] = None, NEW e \in Engines, NEW c \in Codes,
               <<e, c>> \in evidence'[q]
        PROVE  progress'[q][e] # None
    <3>1. CASE q = r /\ e = b.engine
      BY <3>1, <1>5, <1>10
    <3>2. CASE ~(q = r /\ e = b.engine)
      <4>1. <<e, c>> \in evidence[q]
        BY <2>2, <3>2, <1>10
      <4>2. progress[q][e] # None
        BY <4>1, <2>2, <1>0, <1>11 DEF DataInv, NoEvidenceLost
      <4> QED
        BY <4>2, <3>2, <1>10
    <3> QED
      BY <3>1, <3>2
  <2>3. ASSUME NEW q \in Runs, NEW e \in Engines, progress'[q][e] # None
        PROVE  <<e, progress'[q][e]>> \in evidence'[q]
    <3>1. progress[q][e] # None => <<e, progress[q][e]>> \in evidence[q]
      BY <1>0 DEF DataInv, ProgressDelivered
    <3> QED
      BY <2>3, <3>1, <1>4, <1>10
  <2> QED
    BY ZenonT(60), <2>1, <2>2, <2>3 DEF DataInv, NoEvidenceLost, ProgressDelivered
<1>14. PICK m : m = l
  OBVIOUS
<1> HIDE DEF l
<1>15. ProcOK(m)'
  BY <1>2, <1>7, <1>11, <1>14 DEF ProcOK, RunLabels
<1> QED
  BY <1>6, <1>7, <1>9, <1>12, <1>13, <1>14, <1>15, RowStep

\* allShardsFinished: the count and the codes are read by separate queries; a
\* discard in between happens only after a report was stored.
LEMMA CountStep ==
  ASSUME IInv, NEW p \in Procs, AllShardsFinished(p)
  PROVE  IInv'
<1>0. w[p] \in Locals /\ ProcOK(w[p])
  BY TypedLocals
<1>1. CASE Return(p)
  BY <1>1, ReturnStep DEF AllShardsFinished
<1>2. CASE ~Return(p)
  <2> DEFINE l == [w[p] EXCEPT !.pc = "ing_codes"]
  <2>1. /\ \A e \in Engines : progress[w[p].run][e] # None
        /\ Become(p, l)
        /\ UNCHANGED data
    BY <1>2 DEF AllShardsFinished, Goto
  <2>2. l \in Locals /\ l.pc = "ing_codes" /\ l.run = w[p].run
    BY <1>0 DEF Locals, Labels
  <2>3. w[p].run \in 1 .. lastRun
    BY <1>0 DEF AllShardsFinished, At, ProcOK, RunLabels
  <2> HIDE DEF l
  <2>4. ProcOK(l)
    BY <2>1, <2>2, <2>3 DEF ProcOK, RunLabels
  <2> QED
    BY <2>1, <2>2, <2>4, LocalStep
<1> QED
  BY <1>1, <1>2

\* The worst of a set of outcomes is an outcome, and not "passed" when one of
\* them was aborted.
LEMMA WorstOutcomeFacts ==
  ASSUME NEW outcomes
  PROVE  /\ WorstOutcome(outcomes) \in Outcomes
         /\ "aborted" \in outcomes => WorstOutcome(outcomes) # "passed"
  BY DEF WorstOutcome, Outcomes

\* CombineOutcomes passes only when there is a code and every code is clean.
LEMMA CombineOutcomesFacts ==
  ASSUME NEW codes \in SUBSET Codes
  PROVE  /\ CombineOutcomes(codes) \in Outcomes
         /\ CombineOutcomes(codes) = "passed" => \A c \in codes : c = "passed"
<1>1. CombineOutcomes(codes) \in Outcomes
  BY WorstOutcomeFacts DEF CombineOutcomes, Outcomes
<1>2. ASSUME CombineOutcomes(codes) = "passed", NEW c \in codes
      PROVE  c = "passed"
  <2>1. WorstOutcome(Known(codes)) = "passed"
    BY <1>2 DEF CombineOutcomes
  <2>2. "error" \notin Known(codes) /\ "failed" \notin Known(codes)
        /\ "aborted" \notin Known(codes)
    BY <2>1 DEF WorstOutcome
  <2>3. (IF c = NoCode THEN "error" ELSE c) \in Known(codes)
    BY <1>2 DEF Known
  <2> QED
    BY <2>2, <2>3 DEF Codes, Outcomes, NoCode
<1> QED
  BY <1>1, <1>2

\* finalizeCompleted: a verdict "passed" comes from a clean code of every shard.
LEMMA FinalizeCompletedStep ==
  ASSUME IInv, NEW p \in Procs, FinalizeCompleted(p)
  PROVE  IInv'
<1>0. StoreOK /\ w[p] \in Locals /\ ProcOK(w[p]) /\ DataInv
  BY TypedLocals DEF IInv
<1>1. PICK r, v : r = w[p].run /\ v = CombineOutcomes(FinishedCodes(w[p].run))
  OBVIOUS
<1>2. r \in 1 .. lastRun /\ r \in Runs
  BY <1>0, <1>1, BoundsAssumption DEF FinalizeCompleted, At, ProcOK, RunLabels, StoreOK, Runs
<1>3. FinishedCodes(r) \in SUBSET Codes
  BY <1>0, <1>2 DEF FinishedCodes, StoreOK
<1>4. v \in Outcomes
  BY <1>1, <1>3, CombineOutcomesFacts
<1>5. ASSUME v = "passed", report[r] = None
      PROVE  FullEvidence(r)
  <2>1. \A e \in Engines : progress[r][e] # None
    BY <1>0, <1>1, <1>5 DEF FinalizeCompleted, At, ProcOK
  <2>2. \A e \in Engines : progress[r][e] = "passed"
    <3>1. \A e \in Engines : progress[r][e] \in FinishedCodes(r)
      BY <2>1 DEF FinishedCodes
    <3>2. CombineOutcomes(FinishedCodes(r)) = "passed"
      BY <1>1, <1>5
    <3>3. \A c \in FinishedCodes(r) : c = "passed"
      BY <1>3, <3>2, CombineOutcomesFacts
    <3> QED
      BY <3>1, <3>3
  <2> QED
    BY <1>0, <1>2, <2>1, <2>2 DEF DataInv, ProgressDelivered, FullEvidence
<1> DEFINE l == [w[p] EXCEPT !.pc = "fin_check", !.verdict = v]
<1>6. l \in Locals /\ l.pc = "fin_check" /\ l.run = r /\ l.verdict = v
  BY ZenonT(60), <1>0, <1>1, <1>4 DEF Locals, Labels
<1>7. Become(p, l) /\ UNCHANGED data
  BY <1>1 DEF FinalizeCompleted
<1> HIDE DEF l
<1>8. ProcOK(l)
  BY <1>2, <1>4, <1>5, <1>6 DEF ProcOK, RunLabels
<1> QED
  BY <1>6, <1>7, <1>8, LocalStep

-----------------------------------------------------------------------------
(***************************************************************************)
(* The finalisations that never pass, and the checks before a save.         *)
(***************************************************************************)

\* A finalisation with an outcome other than "passed" needs no evidence.
LEMMA AbortedVerdict ==
  ASSUME IInv, NEW p \in Procs, NEW v \in Outcomes, v # "passed",
         w[p].pc \in RunLabels,
         Become(p, [w[p] EXCEPT !.pc = "fin_check", !.verdict = v]), UNCHANGED data
  PROVE  IInv'
<1>0. w[p] \in Locals /\ ProcOK(w[p])
  BY TypedLocals
<1> DEFINE l == [w[p] EXCEPT !.pc = "fin_check", !.verdict = v]
<1>1. l \in Locals /\ l.pc = "fin_check" /\ l.run = w[p].run /\ l.verdict = v
  BY ZenonT(60), <1>0 DEF Locals, Labels
<1>2. w[p].run \in 1 .. lastRun
  BY <1>0 DEF ProcOK
<1>3. Become(p, l)
  OBVIOUS
<1> HIDE DEF l
<1>4. ProcOK(l)
  BY <1>1, <1>2 DEF ProcOK, RunLabels
<1> QED
  BY <1>1, <1>3, <1>4, LocalStep

\* Finalize's outcome on a stop.
LEMMA StopOutcomeStep ==
  ASSUME IInv, NEW p \in Procs, StopOutcome(p)
  PROVE  IInv'
<1> DEFINE v == WorstOutcome({"aborted"} \cup (FinishedCodes(w[p].run) \ {NoCode}))
<1>1. v \in Outcomes /\ v # "passed"
  BY WorstOutcomeFacts
<1>2. w[p].pc \in RunLabels
  BY DEF StopOutcome, At, RunLabels
<1>3. Become(p, [w[p] EXCEPT !.pc = "fin_check", !.verdict = v]) /\ UNCHANGED data
  BY DEF StopOutcome
<1> HIDE DEF v
<1> QED
  BY ZenonT(60), <1>1, <1>2, <1>3, AbortedVerdict

\* Reconcile's outcome on orphans that cover the profile.
LEMMA ReconcileOrphansStep ==
  ASSUME IInv, NEW p \in Procs, ReconcileOrphans(p)
  PROVE  IInv'
<1> DEFINE v == WorstOutcome({"aborted"} \cup Known(OrphanCodes))
<1>1. v \in Outcomes /\ v # "passed"
  BY WorstOutcomeFacts
<1>2. w[p].pc \in RunLabels
  BY DEF ReconcileOrphans, At, RunLabels
<1>3. \/ Become(p, [w[p] EXCEPT !.pc = "fin_check", !.verdict = v])
      \/ Become(p, EndOfPass(w[p]))
  BY DEF ReconcileOrphans
<1>4. UNCHANGED data
  BY DEF ReconcileOrphans
<1>5. EndOfPass(w[p]) \in Locals /\ EndOfPass(w[p]).pc \in FreeLabels
  BY EndOfPassType DEF FreeLabels
<1> HIDE DEF v
<1> QED
  BY ZenonT(60), <1>1, <1>2, <1>3, <1>4, <1>5, AbortedVerdict, FreeStep

\* A step that keeps its process's run and moves to another label of a run.
LEMMA RunGoto ==
  ASSUME IInv, NEW p \in Procs,
         NEW x \in {"sweep_pods", "stop_outcome"}, w[p].pc \in RunLabels,
         Goto(p, x), UNCHANGED data
  PROVE  IInv'
<1>0. w[p] \in Locals /\ ProcOK(w[p])
  BY TypedLocals
<1> DEFINE l == [w[p] EXCEPT !.pc = x]
<1>1. l \in Locals /\ l.pc = x /\ l.run = w[p].run
  BY <1>0 DEF Locals, Labels
<1>2. w[p].run \in 1 .. lastRun
  BY <1>0 DEF ProcOK
<1>3. Become(p, l)
  BY DEF Goto
<1> HIDE DEF l
<1>4. ProcOK(l)
  BY <1>1, <1>2 DEF ProcOK, RunLabels
<1> QED
  BY <1>1, <1>3, <1>4, LocalStep

\* ReconcileAbandoned's reads.
LEMMA SweepSteps ==
  ASSUME IInv, NEW p \in Procs, SweepOpen(p) \/ SweepReport(p) \/ SweepPods(p)
  PROVE  IInv'
<1>0. StoreOK /\ w[p] \in Locals
  BY TypedLocals
<1>1. CASE SweepOpen(p)
  <2> DEFINE l == [w[p] EXCEPT !.pc = "sweep_report", !.run = marker]
  <2>1. marker \in 0 .. MaxRuns /\ (OpenRun => marker \in 1 .. lastRun)
    BY <1>0, BoundsAssumption DEF StoreOK, OpenRun
  <2>2. l \in Locals /\ l.pc = "sweep_report" /\ l.run = marker
    BY ZenonT(60), <1>0, <2>1 DEF Locals, Labels
  <2>3. (OpenRun /\ Become(p, l)) \/ Return(p)
    BY <1>1 DEF SweepOpen, Return
  <2>4. UNCHANGED data
    BY <1>1 DEF SweepOpen
  <2> HIDE DEF l
  <2>5. OpenRun => ProcOK(l)
    BY <2>1, <2>2 DEF ProcOK, RunLabels
  <2> QED
    BY <2>2, <2>3, <2>4, <2>5, LocalStep, ReturnStep
<1>2. CASE SweepReport(p)
  <2>1. Goto(p, "sweep_pods") \/ Become(p, CallerStopRun(w[p]))
    BY <1>2 DEF SweepReport, Goto
  <2>2. w[p].pc \in RunLabels /\ UNCHANGED data
    BY <1>2 DEF SweepReport, At, RunLabels
  <2>3. CallerStopRun(w[p]) \in Locals /\ CallerStopRun(w[p]).pc \in FreeLabels
    BY <1>0, CallerStopRunType DEF FreeLabels
  <2> QED
    BY <2>1, <2>2, <2>3, RunGoto, FreeStep
<1>3. CASE SweepPods(p)
  <2>1. (Goto(p, "stop_outcome") \/ Return(p)) /\ w[p].pc \in RunLabels /\ UNCHANGED data
    BY <1>3 DEF SweepPods, At, RunLabels
  <2> QED
    BY <2>1, RunGoto, ReturnStep
<1> QED
  BY <1>1, <1>2, <1>3

\* finalize's reads: GetReport and RunHistory.
LEMMA CheckReportStep ==
  ASSUME IInv, NEW p \in Procs, CheckReport(p)
  PROVE  IInv'
<1>0. w[p] \in Locals /\ ProcOK(w[p])
  BY TypedLocals
<1> DEFINE l == [w[p] EXCEPT !.pc = "fin_save", !.fresh = (report[w[p].run] = None)]
<1>1. Become(p, FinalizeFailed(w[p])) \/ Become(p, l)
  BY DEF CheckReport
<1>2. UNCHANGED data /\ w[p].pc = "fin_check"
  BY DEF CheckReport, At
<1>3. FinalizeFailed(w[p]) \in Locals /\ FinalizeFailed(w[p]).pc \in FreeLabels
  <2>1. FinalizeFailed(w[p]) \in {CallerStopRun(w[p]), EndOfPass(w[p])}
    BY DEF FinalizeFailed
  <2> QED
    BY <1>0, <2>1, CallerStopRunType, EndOfPassType DEF FreeLabels
<1>4. l \in Locals /\ l.pc = "fin_save" /\ l.run = w[p].run /\ l.verdict = w[p].verdict
  <2>1. (report[w[p].run] = None) \in BOOLEAN /\ "fin_save" \in Labels
    BY DEF Labels
  <2> QED
    BY ZenonT(60), <1>0, <2>1 DEF Locals
<1> HIDE DEF l
<1>5. ProcOK(l)
  BY <1>0, <1>2, <1>4 DEF ProcOK, RunLabels
<1> QED
  BY <1>1, <1>2, <1>3, <1>4, <1>5, FreeStep, LocalStep

-----------------------------------------------------------------------------
(***************************************************************************)
(* The save, the announcement, the discard and the close.                   *)
(***************************************************************************)

\* Past the announcement a process relies on its run's report alone.
LEMMA AnnouncedType ==
  ASSUME NEW l \in Locals
  PROVE  Announced(l) \in Locals /\ Announced(l).pc = "fin_discard" /\ Announced(l).run = l.run
  BY ZenonT(60) DEF Announced, Locals, Labels

\* SaveReport: the first report stands; one that says "passed" has its evidence.
LEMMA SaveReportStep ==
  ASSUME IInv, NEW p \in Procs, SaveReport(p)
  PROVE  IInv'
<1> USE BoundsAssumption
<1>0. StoreOK /\ w[p] \in Locals /\ ProcOK(w[p]) /\ DataInv
  BY TypedLocals DEF IInv
<1>1. PICK r, v : r = w[p].run /\ v = w[p].verdict
  OBVIOUS
<1>2. r \in 1 .. lastRun /\ r \in Runs /\ v \in Outcomes
  BY <1>0, <1>1 DEF SaveReport, At, ProcOK, RunLabels, StoreOK, Runs
<1>3. report' = [report EXCEPT ![r] = IF report[r] = None THEN v ELSE report[r]]
  BY <1>1 DEF SaveReport
<1>4. /\ report'[r] = IF report[r] = None THEN v ELSE report[r]
      /\ \A q \in Runs : q # r => report'[q] = report[q]
      /\ report' \in [Runs -> Outcomes \cup {None}]
  BY <1>0, <1>2, <1>3 DEF StoreOK
<1>5. report'[r] # None
  BY <1>2, <1>4 DEF Outcomes, None
<1>6. UNCHANGED <<runVars, announced, progressVars, orphans, pending, sideVars, old,
                  podVars, boundVars>>
  BY DEF SaveReport
<1>7. StoreOK'
  BY <1>0, <1>4, <1>6 DEF StoreOK, runVars, progressVars, sideVars, podVars, boundVars
<1>8. lastRun' = lastRun /\ progress' = progress /\ evidence' = evidence
  BY <1>6 DEF runVars, progressVars
<1>9. Benign
  BY <1>0, <1>4, <1>8 DEF Benign, StoreOK
<1>10. DataInv'
  <2>1. report[r] = None /\ v = "passed" => FullEvidence(r)
    BY <1>0, <1>1 DEF SaveReport, At, ProcOK
  <2>2. PassEarned'
    BY ZenonT(60), <1>0, <1>4, <1>8, <2>1 DEF DataInv, PassEarned, FullEvidence
  <2>3. NoEvidenceLost'
    BY <1>0, <1>4, <1>5, <1>8 DEF DataInv, NoEvidenceLost
  <2>4. ProgressDelivered'
    BY <1>0, <1>8 DEF DataInv, ProgressDelivered
  <2> QED
    BY <2>2, <2>3, <2>4 DEF DataInv
<1> DEFINE a == [w[p] EXCEPT !.pc = "fin_announce"]
<1>11. /\ a \in Locals /\ a.pc = "fin_announce" /\ a.run = r /\ a.verdict = v
  BY <1>0, <1>1 DEF Locals, Labels
<1>12. /\ Announced(w[p]) \in Locals
       /\ Announced(w[p]).pc = "fin_discard" /\ Announced(w[p]).run = r
  BY <1>0, <1>1, AnnouncedType
<1>13. PICK m \in Locals : m \in {a, Announced(w[p])} /\ Become(p, m)
  BY <1>11, <1>12 DEF SaveReport
<1> HIDE DEF a
<1>14. ProcOK(m)'
  BY <1>2, <1>5, <1>8, <1>11, <1>12, <1>13 DEF ProcOK, RunLabels
<1> QED
  BY <1>7, <1>9, <1>10, <1>13, <1>14, RowStep

\* The announcement.
LEMMA RunCompletedStep ==
  ASSUME IInv, NEW p \in Procs, RunCompleted(p)
  PROVE  IInv'
<1> USE BoundsAssumption
<1>0. StoreOK /\ w[p] \in Locals /\ ProcOK(w[p])
  BY TypedLocals
<1>1. w[p].run \in 1 .. lastRun /\ w[p].run \in Runs /\ w[p].verdict \in Outcomes
      /\ report[w[p].run] # None
  BY <1>0 DEF RunCompleted, At, ProcOK, RunLabels, StoreOK, Runs
<1>2. StoreOK'
  <2>1. announced' \subseteq Runs \X Outcomes
    <3>1. announced \subseteq Runs \X Outcomes
      BY <1>0 DEF StoreOK
    <3>2. announced' = announced \cup {<<w[p].run, w[p].verdict>>}
      BY DEF RunCompleted
    <3>3. w[p].run \in Runs /\ w[p].verdict \in Outcomes
      BY <1>1
    <3> HIDE BoundsAssumption
    <3> QED
      BY <3>1, <3>2, <3>3
  <2>2. UNCHANGED <<runVars, report, progressVars, orphans, pending, sideVars, old,
                    podVars, boundVars>>
    BY DEF RunCompleted
  <2> QED
    BY <1>0, <2>1, <2>2 DEF StoreOK, runVars, progressVars, sideVars, podVars, boundVars
<1> DEFINE l == Announced(w[p])
<1>3. l \in Locals /\ l.pc = "fin_discard" /\ l.run = w[p].run
  BY <1>0, AnnouncedType
<1>4. Become(p, l) /\ UNCHANGED <<lastRun, report, progress, evidence>>
  BY DEF RunCompleted, runVars, progressVars
<1> HIDE DEF l
<1>5. ProcOK(l)
  BY <1>1, <1>3 DEF ProcOK, RunLabels
<1> QED
  BY ZenonT(60), <1>2, <1>3, <1>4, <1>5, SideStep

\* Discard drops the working state of a run that has its report.
LEMMA DiscardStep ==
  ASSUME IInv, NEW p \in Procs, Discard(p)
  PROVE  IInv'
<1> USE BoundsAssumption
<1>0. StoreOK /\ w[p] \in Locals /\ ProcOK(w[p]) /\ DataInv
  BY TypedLocals DEF IInv
<1>1. PICK r : r = w[p].run
  OBVIOUS
<1>2. r \in 1 .. lastRun /\ r \in Runs /\ report[r] # None
  <2>1. w[p].pc = "fin_discard" /\ lastRun \in 0 .. MaxRuns
    BY ZenonT(60), <1>0 DEF Discard, At, StoreOK
  <2>2. r \in 1 .. lastRun /\ report[r] # None
    BY <1>0, <1>1, <2>1 DEF ProcOK, RunLabels
  <2> QED
    BY <2>1, <2>2 DEF Runs
<1>3. /\ progress' = [progress EXCEPT ![r] = NoProgress]
      /\ source' = [source EXCEPT ![r] = [e \in Engines |-> 0]]
      /\ Goto(p, "fin_current")
      /\ UNCHANGED <<runVars, reportVars, evidence, orphans, pending, sideVars, old,
                     podVars, boundVars>>
  BY <1>1 DEF Discard
<1>4. /\ progress' \in [Runs -> [Engines -> Codes \cup {None}]]
      /\ source' \in [Runs -> [Engines -> 0 .. MaxDeploys]]
  BY <1>0, <1>2, <1>3 DEF StoreOK, NoProgress
<1>5. StoreOK'
  BY <1>0, <1>3, <1>4 DEF StoreOK, runVars, reportVars, sideVars, podVars, boundVars
<1>6. lastRun' = lastRun /\ report' = report /\ evidence' = evidence
  BY <1>3 DEF runVars, reportVars
<1>7. /\ \A q \in Runs : q # r => progress'[q] = progress[q]
      /\ \A e \in Engines : progress'[r][e] = None
  BY ZenonT(60), <1>0, <1>2, <1>3 DEF StoreOK, NoProgress
<1>8. Benign
  <2>1. lastRun <= lastRun'
    BY <1>0, <1>6 DEF StoreOK
  <2>2. ASSUME NEW q \in Runs, report'[q] = None, NEW e \in Engines, progress[q][e] # None
        PROVE  progress'[q][e] # None
    BY <1>2, <1>6, <1>7, <2>2
  <2> QED
    BY ZenonT(60), <1>6, <2>1, <2>2 DEF Benign
<1>9. DataInv'
  BY ZenonT(60), <1>0, <1>2, <1>6, <1>7 DEF DataInv, PassEarned, NoEvidenceLost, ProgressDelivered
<1>10. PICK m : m = [w[p] EXCEPT !.pc = "fin_current"]
  BY ZenonT(60)
<1>11. m \in Locals /\ m.pc = "fin_current" /\ Become(p, m)
  BY <1>0, <1>3, <1>10 DEF Locals, Labels, Goto
<1>12. ProcOK(m)'
  BY <1>11 DEF ProcOK, RunLabels
<1> QED
  BY <1>5, <1>8, <1>9, <1>11, <1>12, RowStep

\* Where StopRun and closeRun return to.
LEMMA AfterStopRunType ==
  ASSUME NEW l \in Locals
  PROVE  /\ AfterClose(l) \in Locals /\ AfterClose(l).pc \in FreeLabels
         /\ AfterStopRun(l) \in Locals /\ AfterStopRun(l).pc \in FreeLabels
<1>1. Rest \in Locals /\ Rest.pc \in FreeLabels
  BY ZenonT(60), RestType DEF Rest, FreeLabels
<1>2. CallerStopRun(l) \in Locals /\ CallerStopRun(l).pc \in FreeLabels
  BY CallerStopRunType DEF FreeLabels
<1>3. EndOfPass(l) \in Locals /\ EndOfPass(l).pc \in FreeLabels
  BY EndOfPassType DEF FreeLabels
<1>4. AfterClose(l) \in {Rest, CallerStopRun(l)}
  BY DEF AfterClose
<1> DEFINE g == [l EXCEPT !.pc = "purge_pods"]
<1>5. g \in Locals /\ g.pc \in FreeLabels
  BY DEF Locals, Labels, FreeLabels
<1>6. AfterStopRun(l) \in {AfterClose(l), g, EndOfPass(l)}
  BY DEF AfterStopRun
<1> HIDE DEF g
<1> QED
  BY <1>1, <1>2, <1>3, <1>4, <1>5, <1>6

\* closeRun's comparison.
LEMMA CloseRunStep ==
  ASSUME IInv, NEW p \in Procs, CloseRun(p)
  PROVE  IInv'
<1>0. StoreOK /\ w[p] \in Locals
  BY TypedLocals
<1> DEFINE l == [w[p] EXCEPT !.pc = "stop_read", !.closing = TRUE]
<1>1. l \in Locals /\ l.pc \in FreeLabels
  BY ZenonT(60), <1>0 DEF Locals, Labels, FreeLabels
<1>2. Become(p, l) \/ Become(p, AfterClose(w[p]))
  BY DEF CloseRun
<1>3. UNCHANGED <<lastRun, report, progress, evidence>>
  BY DEF CloseRun, runVars, reportVars, progressVars
<1>4. StoreOK'
  BY ZenonT(60), <1>0 DEF CloseRun, StoreOK, runVars, reportVars, progressVars, podVars, boundVars
<1> HIDE DEF l
<1> QED
  BY <1>0, <1>1, <1>2, <1>3, <1>4, AfterStopRunType, FreeSideStep

\* StopRun's three statements.
LEMMA StopRunSteps ==
  ASSUME IInv, NEW p \in Procs, StopRunRead(p) \/ StopRunHistory(p) \/ StopRunDelete(p)
  PROVE  IInv'
<1> USE BoundsAssumption
<1>0. StoreOK /\ w[p] \in Locals /\ ProcOK(w[p])
  BY TypedLocals
<1>1. CASE StopRunRead(p)
  <2> DEFINE l == [w[p] EXCEPT !.pc = "stop_mark", !.cur = marker]
  <2>1. marker \in 0 .. MaxRuns /\ (marker # 0 => marker \in 1 .. lastRun)
    BY <1>0 DEF StoreOK
  <2>2. l \in Locals /\ l.pc = "stop_mark" /\ l.cur = marker
    BY ZenonT(60), <1>0, <2>1 DEF Locals, Labels
  <2>3. (marker # 0 /\ Become(p, l)) \/ Become(p, AfterStopRun(w[p]))
    BY <1>1 DEF StopRunRead
  <2>4. UNCHANGED data
    BY <1>1 DEF StopRunRead
  <2> HIDE DEF l
  <2>5. marker # 0 => ProcOK(l)
    BY <2>1, <2>2 DEF ProcOK, RunLabels
  <2> QED
    BY <1>0, <2>2, <2>3, <2>4, <2>5, AfterStopRunType, LocalStep, FreeStep
<1>2. CASE StopRunHistory(p)
  <2> DEFINE l == [w[p] EXCEPT !.pc = "stop_delete"]
  <2>1. w[p].cur \in 1 .. lastRun
    BY <1>0, <1>2 DEF StopRunHistory, At, ProcOK
  <2>2. l \in Locals /\ l.pc = "stop_delete" /\ l.cur = w[p].cur
    BY <1>0 DEF Locals, Labels
  <2>3. StoreOK'
    BY ZenonT(60), <1>0, <1>2 DEF StopRunHistory, StoreOK, reportVars, progressVars, sideVars, podVars,
                      boundVars
  <2>4. Become(p, l) /\ UNCHANGED <<lastRun, report, progress, evidence>>
    BY <1>2 DEF StopRunHistory, Goto, reportVars, progressVars
  <2> HIDE DEF l
  <2>5. ProcOK(l)
    BY ZenonT(60), <2>1, <2>2 DEF ProcOK, RunLabels
  <2> QED
    BY ZenonT(60), <2>2, <2>3, <2>4, <2>5, SideStep
<1>3. CASE StopRunDelete(p)
  <2>1. StoreOK'
    BY <1>0, <1>3 DEF StopRunDelete, StoreOK, reportVars, progressVars, sideVars, podVars,
                      boundVars
  <2>2. Become(p, AfterStopRun(w[p])) /\ UNCHANGED <<lastRun, report, progress, evidence>>
    BY <1>3 DEF StopRunDelete, reportVars, progressVars
  <2> QED
    BY <1>0, <2>1, <2>2, AfterStopRunType, FreeSideStep
<1> QED
  BY <1>1, <1>2, <1>3

\* Crashes and failed calls.
LEMMA FaultSteps ==
  ASSUME IInv, NEW p \in Procs, Fault(p)
  PROVE  IInv'
<1> USE BoundsAssumption
<1>0. StoreOK /\ w[p] \in Locals
  BY TypedLocals
<1>1. \/ Become(p, EndOfPass(w[p]))
      \/ Become(p, CallerStopRun(w[p]))
  BY DEF Fault, Fail, FinalizeError, TriggerRollback
<1>2. UNCHANGED <<lastRun, report, progress, evidence>>
  BY ZenonT(60) DEF Fault, Fail, FinalizeError, TriggerRollback, runVars, reportVars, progressVars
<1>3. faults' \in 0 .. MaxFaults /\ idle' \in BOOLEAN
  <2>1. faults < MaxFaults /\ faults' = faults + 1
    BY ZenonT(60) DEF Fault, Fail, FinalizeError, TriggerRollback
  <2>2. idle' = FALSE \/ idle' = idle
    BY ZenonT(60) DEF Fault, Fail, FinalizeError, TriggerRollback, sideVars
  <2>3. faults \in 0 .. MaxFaults /\ idle \in BOOLEAN
    BY <1>0 DEF StoreOK
  <2>4. faults' \in 0 .. MaxFaults
    BY <2>1, <2>3
  <2> QED
    BY ZenonT(60), <2>2, <2>3, <2>4
<1>4. UNCHANGED <<runVars, reportVars, progressVars, orphans, pending, launch, marked, old,
                  podVars, minted>>
  BY DEF Fault, Fail, FinalizeError, TriggerRollback, sideVars
<1>5. StoreOK'
  BY <1>0, <1>3, <1>4 DEF StoreOK, runVars, reportVars, progressVars, podVars
<1>6. EndOfPass(w[p]) \in Locals /\ EndOfPass(w[p]).pc \in FreeLabels
  BY EndOfPassType DEF FreeLabels
<1>7. CallerStopRun(w[p]) \in Locals /\ CallerStopRun(w[p]).pc \in FreeLabels
  BY <1>0, CallerStopRunType DEF FreeLabels
<1> QED
  BY <1>1, <1>2, <1>5, <1>6, <1>7, FreeSideStep

\* The cluster and the clock touch no row a process relies on.
LEMMA EnvironmentSteps ==
  ASSUME IInv, Environment
  PROVE  IInv'
<1> USE BoundsAssumption DEF runVars, reportVars, progressVars, sideVars, podVars, boundVars
<1>0. StoreOK
  BY DEF IInv, TypeOK
<1>1. SUFFICES StoreOK' /\ UNCHANGED <<lastRun, report, progress, evidence, w>>
  BY ZenonT(60), <1>1 DEF IInv, TypeOK, DataInv, PassEarned, NoEvidenceLost, ProgressDelivered,
              ProcOK, FullEvidence
<1>2. ASSUME NEW e \in Engines, NEW g, NEW c \in Codes, <<e, g>> \in alive
      PROVE  [engine |-> e, gen |-> g, code |-> c] \in Batches
  BY <1>0, <1>2 DEF StoreOK, Batches
<1>3. CASE \E e \in Engines, code \in ExitCodes : EngineFinishes(e, code)
  <2>1. PICK e \in Engines, code \in ExitCodes : EngineFinishes(e, code)
    BY <1>3
  <2>2. code \in Codes
    BY ExitCodesAssumption DEF Codes
  <2>3. [engine |-> e, gen |-> pods[e], code |-> code] \in Batches
    BY <1>2, <2>1, <2>2 DEF EngineFinishes
  <2> QED
    BY <1>0, <2>1, <2>3 DEF EngineFinishes, StoreOK
<1>4. CASE \E e \in Engines, g \in Generations : SidecarTerminated(e, g)
  <2>1. PICK e \in Engines, g \in Generations : SidecarTerminated(e, g)
    BY <1>4
  <2>2. [engine |-> e, gen |-> g, code |-> NoCode] \in Batches
    BY ZenonT(60), <1>2, <2>1 DEF SidecarTerminated, Codes
  <2> QED
    BY <1>0, <2>1, <2>2 DEF SidecarTerminated, StoreOK
<1>5. CASE \E b \in net : PushLost(b)
  BY <1>0, <1>5 DEF PushLost, StoreOK
<1>6. CASE \E e \in Engines : PodLost(e)
  <2>1. PICK e \in Engines : PodLost(e)
    BY <1>6
  <2>2. pods' \in [Engines -> 0 .. MaxDeploys]
    BY <1>0, <2>1 DEF PodLost, StoreOK
  <2> QED
    BY <1>0, <2>1, <2>2 DEF PodLost, StoreOK
<1>7. CASE RunAges
  <2>1. marker \in Runs
    BY <1>0, <1>7 DEF RunAges, OpenRun, StoreOK, Runs
  <2> QED
    BY <1>0, <1>7, <2>1 DEF RunAges, StoreOK
<1>8. CASE ExecutionIdles
  BY <1>0, <1>8 DEF ExecutionIdles, StoreOK
<1> QED
  BY <1>3, <1>4, <1>5, <1>6, <1>7, <1>8 DEF Environment

-----------------------------------------------------------------------------
(***************************************************************************)
(* The invariant.                                                           *)
(***************************************************************************)

\* Before the first request the invariant holds.
LEMMA InitInvariant == Init => IInv
<1> SUFFICES ASSUME Init PROVE IInv
  OBVIOUS
<1> USE BoundsAssumption DEF Init
<1>1. StoreOK
  <2>1. 0 \in 0 .. MaxRuns /\ 0 \in 0 .. MaxDeploys /\ 0 \in 0 .. MaxFaults /\ 0 \in 0 .. 0
    OBVIOUS
  <2> QED
    BY ZenonT(60), <2>1 DEF StoreOK, NoProgress, NoOrphans, Codes, Outcomes
<1>2. w \in [Procs -> Locals]
  BY RestType
<1>3. DataInv
  BY DEF DataInv, PassEarned, NoEvidenceLost, ProgressDelivered, NoProgress, None
<1>4. ProcOK(Rest)
  BY ZenonT(60) DEF ProcOK, Rest, RunLabels
<1>5. ASSUME NEW q \in Procs PROVE ProcOK(w[q])
  <2>1. w[q] = Rest
    OBVIOUS
  <2> QED
    BY <1>4, <2>1
<1> QED
  BY <1>1, <1>2, <1>3, <1>5 DEF IInv, TypeOK

\* Every request keeps it.
LEMMA RequestStep ==
  ASSUME IInv, NEW p \in Procs, Request(p)
  PROVE  IInv'
  BY DeployParks, Begins, IngestBegins, BeginPassStep DEF Request

\* Every call of an operation under way keeps it.
LEMMA ProcessStep ==
  ASSUME IInv, NEW p \in Procs, Step(p)
  PROVE  IInv'
  BY DeployParks, DeployProvisions, TriggerReads, StartRunStep, TriggerRecords,
     TeardownSteps, PurgeStep, ReapSteps, OrphanStep, AbsorbStep, CountStep,
     FinalizeCompletedStep, ReconcileOrphansStep, SweepSteps, StopOutcomeStep,
     CheckReportStep, SaveReportStep, RunCompletedStep, DiscardStep, CloseRunStep,
     StopRunSteps DEF Step

\* The invariant is inductive.
LEMMA NextInvariant == IInv /\ [Next]_vars => IInv'
<1> SUFFICES ASSUME IInv, [Next]_vars PROVE IInv'
  OBVIOUS
<1>1. CASE \E p \in Procs : Step(p) \/ Request(p) \/ Fault(p)
  BY <1>1, ProcessStep, RequestStep, FaultSteps
<1>2. CASE Environment
  BY <1>2, EnvironmentSteps
<1>3. CASE UNCHANGED vars
  BY ZenonT(60), <1>3 DEF vars, data, runVars, reportVars, progressVars, sideVars, podVars, boundVars,
              IInv, TypeOK, StoreOK, DataInv, PassEarned, NoEvidenceLost,
              ProgressDelivered, ProcOK, FullEvidence
<1> QED
  BY <1>1, <1>2, <1>3 DEF Next

(***************************************************************************)
(* Whatever requests, pushes, sweeps, crashes and losses interleave, every  *)
(* process relies only on what the rows still say.                          *)
(***************************************************************************)
THEOREM LifecycleInvariant == Spec => []IInv
  BY InitInvariant, NextInvariant, PTL DEF Spec

\* The rows and the locals keep their types.
THEOREM TypeCorrect == Spec => []TypeOK
<1>1. IInv => TypeOK
  BY DEF IInv
<1> QED
  BY <1>1, LifecycleInvariant, PTL

\* No pass is invented: a run stored as passed has a clean completion of every
\* engine, for any fan-out, profile and number of replicas.
THEOREM NoInventedPass == Spec => []PassEarned
<1>1. IInv => PassEarned
  BY DEF IInv, DataInv
<1> QED
  BY <1>1, LifecycleInvariant, PTL

\* The working state outlives every path to a missing report.
THEOREM EvidenceKept == Spec => []NoEvidenceLost
<1>1. IInv => NoEvidenceLost
  BY DEF IInv, DataInv
<1> QED
  BY <1>1, LifecycleInvariant, PTL

-----------------------------------------------------------------------------
(***************************************************************************)
(* The refinement of RunRegistry.                                           *)
(***************************************************************************)

RegistryRows == <<marker, lastRun, evidence, report>>

\* Four of a process's calls touch the rows the registry is read from.
LEMMA QuietSteps ==
  ASSUME NEW p \in Procs, Step(p),
         ~StartRun(p), ~StopRunDelete(p), ~Absorb(p), ~SaveReport(p)
  PROVE  UNCHANGED RegistryRows
<1> USE DEF RegistryRows, data, runVars, reportVars, progressVars
<1>1. ASSUME SetPendingCorrelationID(p) \/ DeployClearOrphans(p)
             \/ (\E e \in Engines : DeployScenario(p, e))
      PROVE  UNCHANGED RegistryRows
  BY ZenonT(60), <1>1 DEF SetPendingCorrelationID, DeployClearOrphans, DeployScenario
<1>2. ASSUME TriggerStatus(p) \/ TriggerOrphans(p) \/ PendingCorrelationID(p)
             \/ StartRunHistory(p) \/ MarkScenarioRunning(p)
      PROVE  UNCHANGED RegistryRows
  BY <1>2 DEF TriggerStatus, TriggerOrphans, PendingCorrelationID, StartRunHistory,
              MarkScenarioRunning
<1>3. ASSUME TeardownClear(p) \/ TeardownCurrent(p)
             \/ (\E c \in Clusters : PurgeExecution(p, c))
             \/ ReapCurrent(p) \/ ReapCapture(p) \/ ReapClearOrphans(p)
      PROVE  UNCHANGED RegistryRows
  BY ZenonT(60), <1>3 DEF TeardownClear, TeardownCurrent, PurgeExecution, ReapCurrent, ReapCapture,
              ReapClearOrphans
<1>4. ASSUME RecordOrphanCompletion(p) \/ AllShardsFinished(p) \/ FinalizeCompleted(p)
             \/ ReconcileOrphans(p) \/ SweepOpen(p) \/ SweepReport(p) \/ SweepPods(p)
      PROVE  UNCHANGED RegistryRows
  BY <1>4 DEF RecordOrphanCompletion, AllShardsFinished, FinalizeCompleted,
              ReconcileOrphans, SweepOpen, SweepReport, SweepPods
<1>5. ASSUME StopOutcome(p) \/ CheckReport(p) \/ RunCompleted(p) \/ Discard(p)
             \/ CloseRun(p) \/ StopRunRead(p) \/ StopRunHistory(p)
      PROVE  UNCHANGED RegistryRows
  BY <1>5 DEF StopOutcome, CheckReport, RunCompleted, Discard, CloseRun, StopRunRead,
              StopRunHistory
<1> QED
  BY <1>1, <1>2, <1>3, <1>4, <1>5 DEF Step

\* So do no request, no fault and nothing in the cluster.
LEMMA QuietOthers ==
  ASSUME (\E p \in Procs : Request(p) \/ Fault(p)) \/ Environment
  PROVE  UNCHANGED RegistryRows
<1> USE DEF RegistryRows, data, runVars, reportVars, progressVars
<1>1. ASSUME NEW p \in Procs, Request(p) PROVE UNCHANGED RegistryRows
  BY ZenonT(60), <1>1 DEF Request, BeginDeploy, BeginTrigger, BeginStop, BeginPurge, BeginIngest,
              BeginReap, BeginPass
<1>2. ASSUME NEW p \in Procs, Fault(p) PROVE UNCHANGED RegistryRows
  BY ZenonT(60), <1>2 DEF Fault, Fail, FinalizeError, TriggerRollback
<1>3. ASSUME Environment PROVE UNCHANGED RegistryRows
  BY ZenonT(60), <1>3 DEF Environment, EngineFinishes, SidecarTerminated, PushLost, PodLost, RunAges,
              ExecutionIdles
<1> QED
  BY <1>1, <1>2, <1>3

\* StartRun opens a run or changes nothing.
LEMMA StartRunOpens ==
  ASSUME NEW p \in Procs, StartRun(p)
  PROVE  Registry!Open \/ UNCHANGED RegistryRows
  BY DEF StartRun, Registry!Open, RegistryRows, reportVars, progressVars

\* Deleting the marker closes whatever run is open.
LEMMA StopRunDeleteCloses ==
  ASSUME NEW p \in Procs, StopRunDelete(p)
  PROVE  Registry!Close
  BY DEF StopRunDelete, Registry!Close, reportVars, progressVars

\* Absorb delivers one engine's completion to a run that was started.
LEMMA AbsorbDelivers ==
  ASSUME IInv, NEW p \in Procs, Absorb(p)
  PROVE  \E r \in 1 .. lastRun : \E e \in Engines, c \in Codes : Registry!Deliver(r, e, c)
<1>1. StoreOK /\ ProcOK(w[p])
  BY TypedLocals
<1>2. w[p].batch \in Batches /\ w[p].run \in 1 .. lastRun
  BY <1>1 DEF Absorb, At, ProcOK, RunLabels
<1>3. w[p].batch.engine \in Engines /\ w[p].batch.code \in Codes
  BY <1>2 DEF Batches
<1>4. Registry!Deliver(w[p].run, w[p].batch.engine, w[p].batch.code)
  BY DEF Absorb, Registry!Deliver, runVars, reportVars
<1> QED
  BY <1>2, <1>3, <1>4

\* SaveReport decides an undecided run, on evidence, or changes nothing.
LEMMA SaveReportDecides ==
  ASSUME IInv, NEW p \in Procs, SaveReport(p)
  PROVE  \/ \E r \in 1 .. lastRun : \E o \in Outcomes : Registry!Decide(r, o)
         \/ UNCHANGED RegistryRows
<1>1. StoreOK /\ ProcOK(w[p])
  BY TypedLocals
<1>2. PICK r, v : r = w[p].run /\ v = w[p].verdict
  OBVIOUS
<1>3. r \in 1 .. lastRun /\ r \in Runs /\ v \in Outcomes
  BY <1>1, <1>2, BoundsAssumption DEF SaveReport, At, ProcOK, RunLabels, StoreOK, Runs
<1>4. /\ report' = [report EXCEPT ![r] = IF report[r] = None THEN v ELSE report[r]]
      /\ UNCHANGED <<marker, lastRun, evidence>>
  BY <1>2 DEF SaveReport, runVars, progressVars
<1>5. CASE report[r] = None
  <2>1. v = "passed" => FullEvidence(r)
    BY <1>1, <1>2, <1>5 DEF SaveReport, At, ProcOK
  <2>2. Registry!Decide(r, v)
    BY <1>4, <1>5, <2>1 DEF Registry!Decide, FullEvidence
  <2> QED
    BY <1>3, <2>2
<1>6. CASE report[r] # None
  BY <1>1, <1>3, <1>4, <1>6 DEF RegistryRows, StoreOK
<1> QED
  BY <1>5, <1>6

\* Every step is a step of the registry or leaves it alone.
LEMMA RegistryStep == IInv /\ [Next]_vars => [Registry!Next]_(Registry!vars)
<1> SUFFICES ASSUME IInv, [Next]_vars PROVE Registry!Next \/ UNCHANGED RegistryRows
  BY DEF Registry!vars, RegistryRows
<1>1. ASSUME NEW p \in Procs, Step(p)
      PROVE  Registry!Next \/ UNCHANGED RegistryRows
  <2>1. CASE StartRun(p)
    BY <2>1, StartRunOpens DEF Registry!Next
  <2>2. CASE StopRunDelete(p)
    BY <2>2, StopRunDeleteCloses DEF Registry!Next
  <2>3. CASE Absorb(p)
    BY <2>3, AbsorbDelivers DEF Registry!Next
  <2>4. CASE SaveReport(p)
    BY <2>4, SaveReportDecides DEF Registry!Next
  <2> QED
    BY <1>1, <2>1, <2>2, <2>3, <2>4, QuietSteps
<1>2. ASSUME UNCHANGED vars PROVE UNCHANGED RegistryRows
  BY <1>2 DEF RegistryRows, vars, data, runVars, reportVars, progressVars
<1> QED
  BY <1>1, <1>2, QuietOthers DEF Next

\* The rows of a fresh execution are an empty registry.
LEMMA RegistryInit == Init => Registry!Init
  BY DEF Init, Registry!Init, Runs

(***************************************************************************)
(* The rows implement the registry: runs open one at a time under fresh     *)
(* ids, and each gets at most one verdict, a pass only on full evidence,    *)
(* however the concurrent handlers and loops interleave.                    *)
(***************************************************************************)
THEOREM ImplementsRegistry == Spec => RegistryImplemented
  BY RegistryInit, RegistryStep, LifecycleInvariant, PTL
     DEF Spec, RegistryImplemented, Registry!Spec

\* A stored report is never replaced, by whichever finalisation races it.
THEOREM ReportNeverReplaced == Spec => ReportStands
<1>1. IInv /\ [Next]_vars
        => [\A r \in Runs : report[r] # None => report'[r] = report[r]]_vars
  <2> SUFFICES ASSUME IInv, [Registry!Next]_(Registry!vars), NEW r \in Runs,
                      report[r] # None
               PROVE  report'[r] = report[r]
    BY RegistryStep
  <2>1. report \in [Runs -> Outcomes \cup {None}]
    BY DEF IInv, TypeOK, StoreOK
  <2>2. CASE UNCHANGED Registry!vars
    BY <2>2 DEF Registry!vars
  <2>3. CASE Registry!Open \/ Registry!Close
    BY <2>3 DEF Registry!Open, Registry!Close
  <2>4. CASE \E q \in 1 .. lastRun, e \in Engines, c \in Codes : Registry!Deliver(q, e, c)
    BY <2>4 DEF Registry!Deliver
  <2>5. CASE \E q \in 1 .. lastRun, o \in Outcomes : Registry!Decide(q, o)
    BY <2>1, <2>5 DEF Registry!Decide
  <2> QED
    BY <2>2, <2>3, <2>4, <2>5 DEF Registry!Next
<1> QED
  BY <1>1, LifecycleInvariant, PTL DEF Spec, ReportStands
=============================================================================
