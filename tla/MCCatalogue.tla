---------------------------- MODULE MCCatalogue -----------------------------
(***************************************************************************)
(* What users author and subscribe to: Webhooks, and beside it instances   *)
(* of Scenarios and Executions.  A behaviour is of one of the three; the   *)
(* others stay where they start.                                           *)
(***************************************************************************)
EXTENDS Webhooks, TLC

CONSTANTS e1, e2, e3, c1, c2, p1, p2

VARIABLES mode,
    row, test, data, requests, versions, objects, links, inserted, sw, begun, sFaults,
    past, tangled,
    projects, scenarios, executions, entry, criteria, files, fileObjects, profile,
    xInserted, xw, xBegun, xFaults, calibrations, xTangled, broken

scenarioVars == <<row, test, data, requests, versions, objects, links, inserted, sw, begun,
                  sFaults, past, tangled>>
executionVars == <<projects, scenarios, executions, entry, criteria, files, fileObjects,
                   profile, xInserted, xw, xBegun, xFaults, calibrations, xTangled, broken>>

----------------------------------------------------------------------------
\* Two runs of one project, an account in each of two.
RunsOfOne == [r1 |-> p1, r2 |-> p1]
Grants == {<<c1, p1>>, <<c2, p2>>}

\* Two colleagues, whom nothing tells apart, and an account of another tenant.
Colleagues == Permutations({e1, e2})

S == INSTANCE Scenarios WITH
       Editors <- {e1, e2, e3}, Projects <- {p1},
       TenantOf <- (e1 :> "t1") @@ (e2 :> "t1") @@ (p1 :> "t1") @@ (e3 :> "t2"),
       EngineOf <- [jmx |-> "jmeter", js |-> "k6"], DataFiles <- {"csv"},
       Fragments <- {"f1"}, MaxScenarios <- 1, MaxRequests <- 3, MaxFaults <- 1,
       MaxVersions <- 2, w <- sw, faults <- sFaults

\* A mode entry and an advanced one, and one that names a foreign scenario.
Configs ==
    {[upload |-> 1, scenario |-> "s1", mode |-> "soak", throughput |-> 100,
      engines |-> 0, concurrency |-> 0],
     [upload |-> 2, scenario |-> "s1", mode |-> "", throughput |-> 100,
      engines |-> 3, concurrency |-> 50],
     [upload |-> 3, scenario |-> "s2", mode |-> "", throughput |-> 0,
      engines |-> 1, concurrency |-> 1]}
\* A slow pod, one too slow for the engine limit, one that went stale.
Stale == [status |-> "stale", perEngine |-> 4, hint |-> 50]
Measured ==
    {[status |-> "ok", perEngine |-> 4, hint |-> 50],
     [status |-> "ok", perEngine |-> 3, hint |-> 400], Stale}

X == INSTANCE Executions WITH
       Callers <- {e1, e2, e3},
       TenantOf <- (e1 :> "t1") @@ (e2 :> "t1") @@ (p1 :> "t1") @@ (e3 :> "t2") @@ (p2 :> "t2"),
       ScenarioIn <- [s1 |-> p1, s2 |-> p2], Uploads <- Configs, Profiles <- Measured,
       Files <- {"csv"}, MaxEngines <- 30, MaxExecutions <- 1, MaxRequests <- 3,
       MaxFaults <- 1, MaxCalibrations <- 1,
       objects <- fileObjects, inserted <- xInserted, w <- xw, begun <- xBegun,
       faults <- xFaults, tangled <- xTangled

----------------------------------------------------------------------------
MCInit ==
    /\ mode \in {"webhooks", "scenarios", "executions"}
    /\ Init /\ S!Init
    /\ X!Init /\ (mode # "executions" => profile = Stale)
MCNext ==
    \/ mode = "webhooks" /\ Next /\ UNCHANGED <<mode, scenarioVars, executionVars>>
    \/ mode = "scenarios" /\ S!Next /\ UNCHANGED <<mode, vars, executionVars>>
    \/ mode = "executions" /\ X!Next /\ UNCHANGED <<mode, vars, scenarioVars>>
MCSpec == MCInit /\ [][MCNext]_<<mode, vars, scenarioVars, executionVars>>

----------------------------------------------------------------------------
\* A scenario's history tells what it was: nothing it rested in is missing, and a
\* restore brings a version back exactly (scenarioapp's captureVersion and Restore).
HistoryFaithful == S!HistoryComplete /\ S!RestoreExact

\* A call that failed left nothing behind: no row, no record, no object
\* (the rollbacks of scenarioapp's Create and uploads, of executionapp's AddFile).
FailedMeansUndone == S!NothingLeftBehind /\ X!FilesBacked

\* Whatever is deleted meanwhile, no row names one that is gone: not a configuration
\* its scenario, not an entry its execution, not an execution its project.
NothingDangles == S!BoundScenarioExists /\ X!NoOrphanLinks /\ X!ProjectOutlivesExecutions

\* A stored configuration is one upload's, with the numbers its mode resolves to and
\* work for every pod (executionapp's StoreConfig and Resolve).
ConfigWhole == X!ConfigWhole /\ X!StatedIsStored /\ X!PodsAllRun
=============================================================================
