------------------------------- MODULE MCLive -------------------------------
(***************************************************************************)
(* What has to happen in the end, component by component: the search, and  *)
(* an instance of each component whose own loops bring something to an     *)
(* end.  A behaviour is of one of them, under the fairness of its FairSpec;*)
(* the others stay where they start.                                       *)
(***************************************************************************)
EXTENDS MCCalibrationSearch, TLC

CONSTANTS a1, e1, f1, h1, h2, k1, o1, q1, q2, s1, t1, u1, x1, None

VARIABLES mode,
    hooks, completed, todo, queue, started, worker, tries, listed, settled, logged,
    wiped, hookFaults,
    sNow, created, schedules, occs, reservations, serial, lock, failures, sw,
    file, exitFile, side, net, h, owner, add, json, shardRow, tally, open, report,
    finals, pushFaults,
    dNow, schedule, digests, dRun, confirmed, dw, edits, digestFaults,
    registry, secrets, accepts, active, req, minted, shown, cache, call, made,
    clusterFaults, tangled, halved, hungUp,
    cNow, table, deployed, cRun, reports, cw, campaignFaults,
    row, claim, steps, evidence, load, pods, jRun, runs, content, profile, counter, jw,
    jobFaults

hookVars == <<hooks, completed, todo, queue, started, worker, tries, listed, settled,
              logged, wiped, hookFaults>>
scheduleVars == <<sNow, created, schedules, occs, reservations, serial, lock, failures, sw>>
pushVars == <<file, exitFile, side, net, h, owner, add, json, shardRow, tally, open,
              report, finals, pushFaults>>
digestVars == <<dNow, schedule, digests, dRun, confirmed, dw, edits, digestFaults>>
clusterVars == <<registry, secrets, accepts, active, req, minted, shown, cache, call,
                 made, clusterFaults, tangled, halved, hungUp>>
campaignVars == <<cNow, table, deployed, cRun, reports, cw, campaignFaults>>
jobVars == <<row, claim, steps, evidence, load, pods, jRun, runs, content, profile,
             counter, jw, jobFaults>>

----------------------------------------------------------------------------
\* Two runs of a project with one webhook, and a queue that holds one notice.
W == INSTANCE Webhooks WITH
       Hooks <- {1}, Projects <- {"p1"}, ProjectOf <- [r1 |-> "p1", r2 |-> "p1"],
       MayAdminister <- {<<a1, "p1">>}, Workers <- {k1}, QueueCap <- 1,
       DeliverAttempts <- 2, MaxFaults <- 1, faults <- hookFaults

\* One recurring schedule, one extender and one firer.
S == INSTANCE Schedule WITH
       Schedules <- {s1}, Recurring <- {s1}, FireTimes <- [s \in {s1} |-> {1}],
       Exe <- [s \in {s1} |-> e1], Handlers <- {h1}, Extenders <- {x1}, Firers <- {f1},
       Horizon <- 2, Instants <- {0, 2}, MaxFailures <- 1, now <- sNow, w <- sw

\* One shard whose pod or control plane may fail.
P == INSTANCE ReportProgress WITH
       Shards <- {s1}, Handlers <- {h1, h2},
       Lines <- <<[second |-> 1, label |-> "a", err |-> TRUE]>>,
       MaxStreams <- 2, MaxFaults <- 1, LateStreams <- FALSE, faults <- pushFaults

\* One project, two replicas.
D == INSTANCE Digests WITH
       Projects <- {1}, Replicas <- {q1, q2}, Duration <- [daily |-> 2, weekly |-> 3],
       Targets <- {t1}, LastInstant <- 2, MaxDigests <- 1, MaxEdits <- 1, MaxFaults <- 0,
       now <- dNow, run <- dRun, w <- dw, faults <- digestFaults

\* One cluster, whose credential is rotated under two goroutines' calls.
Whole == [context |-> TRUE, plugin |-> None, file |-> FALSE, server |-> TRUE,
          ca |-> TRUE, token |-> FALSE, cert |-> TRUE, key |-> TRUE]
K == INSTANCE Clusters WITH
       Names <- {"c1"}, Executions <- [other |-> [own |-> "c2", fanOut |-> {}]],
       Requests <- {a1}, Workers <- {k1, u1}, Kubeconfigs <- {Whole}, Namespaces <- {1},
       EngineToken <- 0, MaxCreds <- 2, MaxTokens <- 1, MaxRequests <- 2, MaxFaults <- 0,
       MaxHangups <- 0, faults <- clusterFaults

\* One campaign over the executions of a project.
C == INSTANCE Campaign WITH
       Campaigns <- {1}, Tenants <- {"t1", "t2"}, TenantOf <- [p1 |-> "t1", p2 |-> "t2"],
       ProjectOf <- [x1 |-> "p1", x2 |-> "p1", x3 |-> "p2"],
       ClusterOf <- [x \in {"x1", "x2", "x3"} |-> "home"], Home <- "home",
       Calibrations <- {}, Fleet <- {"x1", "x2"},
       Results <- {}, Definitions <- {[start |-> 1, end |-> 2, services |-> "p1" :> "x1"]},
       MayManage <- {<<a1, "t1">>}, Requests <- {h1}, Drainers <- {o1}, LastInstant <- 2,
       MaxReports <- 1, SlowEdits <- FALSE, Timed <- FALSE, MaxFaults <- 1,
       now <- cNow, run <- cRun, w <- cw, faults <- campaignFaults

\* One job and a controller that may die under its lease.
J == INSTANCE CalibrationJob WITH
       Jobs <- {1}, Executions <- {e1}, ExecutionOf <- [j \in {1} |-> e1],
       Workers <- {k1}, Achieved <- {2}, SeedQPS <- 4, MaxQPS <- 8, MaxSteps <- 2,
       Tolerance <- 2, MaxEdits <- 0, MaxFaults <- 1, Overrun <- FALSE,
       run <- jRun, w <- jw, faults <- jobFaults

----------------------------------------------------------------------------
MCInit ==
    /\ mode \in {"search", "webhooks", "schedule", "ingest", "digests", "clusters",
                 "campaign", "job"}
    /\ mode # "digests" => dRun = [p \in {1} |-> [started |-> 0, saved |-> FALSE]]
    /\ Init /\ W!Init /\ S!Init /\ P!Init /\ D!Init /\ K!Init /\ C!Init /\ J!Init

MCNext ==
    \/ /\ mode = "search" /\ Next
       /\ UNCHANGED <<mode, hookVars, scheduleVars, pushVars, digestVars, clusterVars,
                      campaignVars, jobVars>>
    \/ /\ mode = "webhooks" /\ W!Next
       /\ UNCHANGED <<mode, vars, scheduleVars, pushVars, digestVars, clusterVars,
                      campaignVars, jobVars>>
    \/ /\ mode = "schedule" /\ S!Next
       /\ UNCHANGED <<mode, vars, hookVars, pushVars, digestVars, clusterVars,
                      campaignVars, jobVars>>
    \/ /\ mode = "ingest" /\ P!Next
       /\ UNCHANGED <<mode, vars, hookVars, scheduleVars, digestVars, clusterVars,
                      campaignVars, jobVars>>
    \/ /\ mode = "digests" /\ D!Next
       /\ UNCHANGED <<mode, vars, hookVars, scheduleVars, pushVars, clusterVars,
                      campaignVars, jobVars>>
    \/ /\ mode = "clusters" /\ K!Next
       /\ UNCHANGED <<mode, vars, hookVars, scheduleVars, pushVars, digestVars,
                      campaignVars, jobVars>>
    \/ /\ mode = "campaign" /\ C!Next
       /\ UNCHANGED <<mode, vars, hookVars, scheduleVars, pushVars, digestVars,
                      clusterVars, jobVars>>
    \/ /\ mode = "job" /\ J!Next
       /\ UNCHANGED <<mode, vars, hookVars, scheduleVars, pushVars, digestVars,
                      clusterVars, campaignVars>>

\* The fairness of the components' own FairSpec.
MCFairness ==
    /\ WF_vars(mode = "search" /\ Next)
    /\ \A r \in {"r1", "r2"} : WF_hookVars(mode = "webhooks" /\ W!Enqueue(r))
    /\ \A p \in {h1, x1, f1} : WF_scheduleVars(mode = "schedule" /\ S!Step(p))
    /\ WF_scheduleVars(mode = "schedule" /\ S!ExtendHorizons(x1))
    /\ WF_scheduleVars(mode = "schedule" /\ S!ClaimDueOccurrence(f1))
    /\ WF_pushVars(mode = "ingest" /\ P!Sidecar(s1))
    /\ \A p \in {h1, h2} : WF_pushVars(mode = "ingest" /\ P!Serve(p))
    /\ \A q \in {q1, q2} : WF_digestVars(mode = "digests" /\ (D!Claims(q) \/ D!Fires(q)))
    /\ \A k \in {k1, u1} : WF_clusterVars(mode = "clusters" /\ K!WorkerStep(k))
    /\ WF_campaignVars(mode = "campaign" /\ C!Serves(h1))
    /\ WF_campaignVars(mode = "campaign" /\ C!Drains(o1))
    /\ WF_jobVars(mode = "job" /\ J!Advances(k1))
    /\ WF_jobVars(mode = "job" /\ J!Settles(e1))
    /\ WF_jobVars(mode = "job" /\ J!LeaseLapses(1))

MCFairSpec ==
    /\ MCInit
    /\ [][MCNext]_<<mode, vars, hookVars, scheduleVars, pushVars, digestVars, clusterVars,
                    campaignVars, jobVars>>
    /\ MCFairness

----------------------------------------------------------------------------
(* The liveness properties of the components.                              *)

\* A search comes to a verdict, and a job ends although its controller may die under
\* the lease (calibrationapp's Search and Controller).
CalibrationEnds == (mode = "search" => SearchTerminates) /\ J!JobEnds

\* A run's end waits for no receiver, and every notice is delivered, given up or
\* logged (webhookapp's Enqueue and worker).
NoticesSettle == W!RunNeverWaits /\ W!DeliverySettles

\* What is due is served: horizons are booked, due occurrences fired, due digests
\* claimed (the loops of scheduleapp and digestapp).
DueIsServed == S!HorizonCovered /\ S!DueFires /\ D!DueIsClaimed

\* Every run whose engines end is reported (the sidecars and handlers of metricsapp).
RunReported == P!RunReported

\* What was decided on a stale view is put right: a client whose credential has been
\* rotated leaves the cache, a run that slipped past the freeze is stopped.
StaleViewsRecover == K!RotationRecovers /\ C!FreezeSettles
=============================================================================
