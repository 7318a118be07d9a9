--------------------------- MODULE MCControllers ----------------------------
(***************************************************************************)
(* The controllers that start and stop runs by themselves: calibration     *)
(* jobs, and an instance of Campaign beside them, with its freeze, drain   *)
(* and kill-switch.  A behaviour is of one of the two.                     *)
(***************************************************************************)
EXTENDS CalibrationJob, TLC

CONSTANT e1

VARIABLES mode, now, table, deployed, open, reports, cw, cFaults

campaignVars == <<now, table, deployed, open, reports, cw, cFaults>>

OneExecution == [j \in Jobs |-> e1]

----------------------------------------------------------------------------
Def(s, e, f) == [start |-> s, end |-> e, services |-> f]

\* Two windows in turn; refused: an empty one, a foreign project and a foreign
\* execution.
Defs ==
    {Def(1, 2, "p1" :> "x1"), Def(2, 3, "p1" :> "x1"), Def(2, 2, "p1" :> "x1"),
     Def(1, 2, "p2" :> "x3"), Def(1, 2, "p1" :> "x3")}

\* Two tenants, a project each, two executions in the first.
C == INSTANCE Campaign WITH
       Campaigns <- {1, 2}, Tenants <- {"t1", "t2"}, TenantOf <- [p1 |-> "t1", p2 |-> "t2"],
       ProjectOf <- [x1 |-> "p1", x2 |-> "p1", x3 |-> "p2"],
       ClusterOf <- [x \in {"x1", "x2", "x3"} |-> "home"], Home <- "home",
       Calibrations <- {}, Fleet <- {"x1", "x2"},
       Results <- {[outcome |-> "passed", short |-> b] : b \in BOOLEAN},
       Definitions <- Defs, MayManage <- {<<"a1", "t1">>}, Requests <- {"r1"},
       Drainers <- {"d1"}, LastInstant <- 2, MaxReports <- 1, MaxFaults <- 1,
       SlowEdits <- FALSE, Timed <- FALSE,
       run <- open, w <- cw, faults <- cFaults

MCInit == mode \in {"campaign", "job"} /\ Init /\ C!Init
MCNext == \/ mode = "job" /\ Next /\ UNCHANGED <<mode, campaignVars>>
          \/ mode = "campaign" /\ C!Next /\ UNCHANGED <<mode, vars>>
MCSpec == MCInit /\ [][MCNext]_<<mode, vars, campaignVars>>

----------------------------------------------------------------------------
(* The properties of Campaign.                                             *)

\* Verdict, Compare and the default baseline: one gate decides whether a service is at
\* risk, and the campaign compared with is the latest one that has ended.
GatesAgree == C!GatesAgree /\ C!BaselineIsLatestEnded

\* The freeze is enforced as it was announced (campaignapp, executionapp.checkFreeze).
FreezeHolds == C!FreezeHolds
=============================================================================
