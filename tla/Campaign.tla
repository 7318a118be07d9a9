------------------------------ MODULE Campaign ------------------------------
(***************************************************************************)
(* Campaigns: readiness events that freeze the projects taking part in     *)
(* them.  The campaign ledger (repo/mysql/campaign_repository.go), its use *)
(* cases (app/campaignapp) and their HTTP handlers, the freeze check of    *)
(* lifecycleapp.Trigger, the drain sweep of cmd/scheduler, the kill-switch *)
(* (app/adminapp) and the verdict and the comparison read from reports.    *)
(*                                                                         *)
(* A definition is a window and the designated execution of each project   *)
(* taking part.  Runs are RunLifecycle's; here an execution is deployed,   *)
(* its run is open or not, and its reports are what a verdict reads.       *)
(***************************************************************************)
EXTENDS Integers, Sequences, FiniteSets, FiniteSetsExt, SequencesExt

CONSTANTS
    Campaigns,     \* campaign ids, numbers from 1
    Tenants,
    TenantOf,      \* [projects -> Tenants]
    ProjectOf,     \* [executions -> projects]
    ClusterOf,     \* [executions -> clusters]
    Home,          \* the default cluster, the reference ""
    Calibrations,  \* executions of kind CalibrateEngine
    Fleet,         \* the executions that get deployed
    Results,       \* how a run that ends by itself is judged: [outcome, short]
    Definitions,   \* what a form can ask for: [start, end, services]
    MayManage,     \* accounts with a campaign role, as <<account, tenant>>
    Requests,      \* what serves the API: an edit, a trigger or a kill at a time
    Drainers,      \* the schedulers' drain loops
    LastInstant,   \* the clock stops there
    MaxReports,    \* reports in all: past it, none is filed
    MaxFaults,     \* failed Purge, Stop and Abort calls
    SlowEdits,     \* may the clock move during an Update?
    Timed,         \* do reports keep their time?  Only VerdictWithinWindow reads it
    None

ExecutionIds == DOMAIN ProjectOf
Projects == DOMAIN TenantOf
Instants == 0 .. LastInstant
Procs == Requests \cup Drainers
Outcomes == {"passed", "failed", "aborted"}

VARIABLES
    now,
    table,      \* campaign and campaign_service: a definition, or None
    deployed,   \* executions holding engines
    run,        \* executions with an open run
    reports,    \* each execution's reports, oldest first
    w,          \* the processes
    faults

vars == <<now, table, deployed, run, reports, w, faults>>
fleet == <<deployed, run, reports>>

Idle == [pc |-> "idle", c |-> 0, x |-> None, def |-> None, todo |-> {}, targets |-> {}]

Init ==
    /\ now = 0
    /\ table = [c \in Campaigns |-> None]
    /\ deployed = {} /\ run = {}
    /\ reports = [x \in ExecutionIds |-> <<>>]
    /\ w = [p \in Procs |-> Idle]
    /\ faults = 0

At(p, label) == w[p].pc = label
Become(p, l) == w' = [w EXCEPT ![p] = l]

----------------------------------------------------------------------------
(* domain/campaign.                                                        *)

\* Campaign.Validate; a services function names each project once.
Validate(d) == d.start < d.end /\ DOMAIN d.services # {}

\* Campaign.IsActive.
IsActive(c, t) ==
    table[c] # None /\ ~table[c].aborted /\ table[c].start <= t /\ t < table[c].end

Includes(c, project) == project \in DOMAIN table[c].services

\* Campaign.DesignatedExecution.
DesignatedExecution(c, project) == table[c].services[project]

Designated(c) == Range(table[c].services)

----------------------------------------------------------------------------
(* campaign_repository.go.                                                 *)

CreateCampaign(c, tenant, d) ==
    /\ table[c] = None
    /\ \A b \in Campaigns : b < c => table[b] # None
    /\ table' = [table EXCEPT ![c] =
          [tenant |-> tenant, start |-> d.start, end |-> d.end,
           services |-> d.services, aborted |-> FALSE]]

GetCampaign(c) == table[c]

ListActiveCampaigns(t) == {c \in Campaigns : IsActive(c, t)}

\* By tenant, in the order of window_start.
ListCampaignsByTenant(tenant) ==
    SetToSortSeq({c \in Campaigns : table[c] # None /\ table[c].tenant = tenant},
                 LAMBDA a, b : \/ table[a].start < table[b].start
                               \/ table[a].start = table[b].start /\ a < b)

AbortCampaign(c) == table' = [table EXCEPT ![c].aborted = TRUE]

\* UpdateCampaign: the definition and nothing else, in one transaction.
UpdateCampaign(c, d) ==
    table' = [table EXCEPT ![c].start = d.start, ![c].end = d.end,
                           ![c].services = d.services]

----------------------------------------------------------------------------
(* campaignapp: Create, Update and Abort behind their handlers.            *)

AuthorizeCampaignTenant(a, tenant) == <<a, tenant>> \in MayManage

VerifyServices(tenant, d) ==
    \A p \in DOMAIN d.services :
        /\ ProjectOf[d.services[p]] = p
        /\ TenantOf[p] = tenant

Create(c, tenant, d) ==
    /\ Validate(d) /\ VerifyServices(tenant, d)
    /\ CreateCampaign(c, tenant, d)

\* createCampaign: the tenant is the path's.
HandleCreate(a, c, tenant, d) ==
    /\ AuthorizeCampaignTenant(a, tenant)
    /\ Create(c, tenant, d)
    /\ UNCHANGED <<now, fleet, w, faults>>

\* The preparation-only check of Update.
MayEdit(c) == now < GetCampaign(c).start

\* Update up to its transaction.
Update(p, c, d) ==
    /\ At(p, "idle")
    /\ MayEdit(c)
    /\ Validate(d) /\ VerifyServices(table[c].tenant, d)
    /\ Become(p, [Idle EXCEPT !.pc = "update", !.c = c, !.def = d])

\* updateCampaign: the tenant is the stored campaign's.
HandleUpdate(a, p, c, d) ==
    /\ table[c] # None
    /\ AuthorizeCampaignTenant(a, table[c].tenant)
    /\ Update(p, c, d)
    /\ UNCHANGED <<now, table, fleet, faults>>

UpdateCommits(p) ==
    /\ At(p, "update")
    /\ UpdateCampaign(w[p].c, w[p].def)
    /\ Become(p, Idle)
    /\ UNCHANGED <<now, fleet, faults>>

Abort(c) == AbortCampaign(c)

\* abortCampaign: closes the event and tears nothing down.
HandleAbort(a, c) ==
    /\ table[c] # None
    /\ AuthorizeCampaignTenant(a, table[c].tenant)
    /\ Abort(c)
    /\ UNCHANGED <<now, fleet, w, faults>>

----------------------------------------------------------------------------
(* Freeze, and the executions around it.                                   *)

\* IsFrozen: one campaign that designates the execution exempts it.
IsFrozen(x) ==
    LET including == {c \in ListActiveCampaigns(now) : Includes(c, ProjectOf[x])}
    IN  /\ including # {}
        /\ \A c \in including : DesignatedExecution(c, ProjectOf[x]) # x

\* Deploy and the operator's Purge, which stops an open run first.
Deploy(x) ==
    /\ x \in Fleet \ deployed
    /\ deployed' = deployed \cup {x}
    /\ UNCHANGED <<now, table, run, reports, w, faults>>

ReportCount == MapThenSumSet(LAMBDA x : Len(reports[x]), ExecutionIds)

Filed(x, outcome, short) ==
    reports' = [reports EXCEPT ![x] =
        IF ReportCount = MaxReports THEN @
        ELSE Append(@, [at |-> IF Timed THEN now ELSE 0, outcome |-> outcome, short |-> short])]

\* Trigger, from the freeze check to the moment before StartRun.
TriggerChecks(p, x) ==
    /\ At(p, "idle")
    /\ x \in deployed \ run
    /\ ~IsFrozen(x)
    /\ Become(p, [Idle EXCEPT !.pc = "start", !.x = x])
    /\ UNCHANGED <<now, table, fleet, faults>>

TriggerStarts(p) ==
    /\ At(p, "start")
    /\ run' = IF w[p].x \in deployed THEN run \cup {w[p].x} ELSE run
    /\ Become(p, Idle)
    /\ UNCHANGED <<now, table, deployed, reports, faults>>

\* A run ends by itself; its engines never run again, so they are removed.
RunEnds(x, r) ==
    /\ x \in run
    /\ ReportCount < MaxReports
    /\ run' = run \ {x}
    /\ deployed' = deployed \ {x}
    /\ Filed(x, r.outcome, r.short)
    /\ UNCHANGED <<now, table, w, faults>>

Tick ==
    /\ now < LastInstant
    /\ SlowEdits \/ \A p \in Procs : ~At(p, "update")
    /\ now' = now + 1
    /\ UNCHANGED <<table, fleet, w, faults>>

----------------------------------------------------------------------------
(* The drain sweep.                                                        *)

\* The scheduler lists one cluster's deployments: the default one's.
DeployedExecutions(cluster) == {x \in deployed : ClusterOf[x] = cluster}

\* Mutant: the readiness tests are in scope as well.
ScopeWithDesignated(c) ==
    {x \in DeployedExecutions(Home) : Includes(c, ProjectOf[x])}

\* Mutant: the test for the designated execution is the wrong way round.
ScopeInverted(c) ==
    {x \in DeployedExecutions(Home) \cap Designated(c) : Includes(c, ProjectOf[x])}

InScopeExecutions(c) ==
    {x \in DeployedExecutions(Home) \ Designated(c) : Includes(c, ProjectOf[x])}

DrainTick(p) ==
    /\ At(p, "idle")
    /\ ListActiveCampaigns(now) # {}
    /\ Become(p, [Idle EXCEPT !.pc = "drain", !.todo = ListActiveCampaigns(now)])
    /\ UNCHANGED <<now, table, fleet, faults>>

\* The next campaign of the sweep, or its end.
DrainScope(p) ==
    /\ At(p, "drain") /\ w[p].targets = {}
    /\ \/ \E c \in w[p].todo :
             Become(p, [w[p] EXCEPT !.todo = @ \ {c},
                                    !.targets = InScopeExecutions(c)])
       \/ w[p].todo = {} /\ Become(p, Idle)
    /\ UNCHANGED <<now, table, fleet, faults>>

\* Stop: the run is closed and reported as aborted; the engines stay.
Stop(x) == run' = run \ {x} /\ Filed(x, "aborted", FALSE)

\* CurrentRun and Stop of the next execution; an error is left to the next tick.
DrainStop(p) ==
    \E x \in w[p].targets :
        /\ At(p, "drain")
        /\ Become(p, [w[p] EXCEPT !.targets = @ \ {x}])
        /\ \/ x \in run /\ Stop(x) /\ UNCHANGED faults
           \/ x \notin run /\ UNCHANGED <<run, reports, faults>>
           \/ /\ x \in run /\ faults < MaxFaults /\ faults' = faults + 1
              /\ UNCHANGED <<run, reports>>
        /\ UNCHANGED <<now, table, deployed>>

----------------------------------------------------------------------------
(* The kill-switch.                                                        *)

CampaignExecutionIDs(c) ==
    InScopeExecutions(c) \cup (Designated(c) \cap DeployedExecutions(Home))

DeployedExecutionsForTenant(tenant) ==
    {x \in DeployedExecutions(Home) : TenantOf[ProjectOf[x]] = tenant}

MatchingExecutions(scope, value) ==
    CASE scope = "campaign" -> CampaignExecutionIDs(value)
      [] scope = "tenant" -> DeployedExecutionsForTenant(value)
      [] scope = "cluster" -> DeployedExecutions(value)
      [] scope = "execution_list" -> value

KillScopes ==
    {<<"campaign", c>> : c \in {b \in Campaigns : table[b] # None}} \cup
    {<<"tenant", t>> : t \in Tenants} \cup {<<"cluster", Home>>} \cup
    {<<"execution_list", {x}>> : x \in Fleet}

KillMatch(p, scope, value) ==
    /\ At(p, "idle")
    /\ Become(p, [Idle EXCEPT !.pc = "purge", !.c = IF scope = "campaign" THEN value ELSE 0,
                              !.targets = MatchingExecutions(scope, value)])
    /\ UNCHANGED <<now, table, fleet, faults>>

\* Purge stops the run and removes the engines.
Purge(x) ==
    /\ deployed' = deployed \ {x}
    /\ IF x \in run THEN Stop(x) ELSE UNCHANGED <<run, reports>>

\* One Purge; a failed one is passed over.
KillPurge(p) ==
    \E x \in w[p].targets :
        /\ At(p, "purge")
        /\ Become(p, [w[p] EXCEPT !.targets = @ \ {x}])
        /\ \/ Purge(x) /\ UNCHANGED faults
           \/ faults < MaxFaults /\ faults' = faults + 1 /\ UNCHANGED fleet
        /\ UNCHANGED <<now, table>>

\* The campaign is closed last, however much was torn down.
KillClose(p) ==
    /\ At(p, "purge") /\ w[p].targets = {}
    /\ \/ w[p].c = 0 /\ UNCHANGED <<table, faults>>
       \/ w[p].c # 0 /\ Abort(w[p].c) /\ UNCHANGED faults
       \/ w[p].c # 0 /\ faults < MaxFaults /\ faults' = faults + 1 /\ UNCHANGED table
    /\ Become(p, Idle)
    /\ UNCHANGED <<now, fleet>>
----------------------------------------------------------------------------
(* Verdict and comparison: reads.                                          *)

Latest(x) == reports[x][Len(reports[x])]

ServiceVerdict(x) ==
    IF reports[x] = <<>>
    THEN [hasReport |-> FALSE, outcome |-> "failed", short |-> FALSE]
    ELSE [hasReport |-> TRUE, outcome |-> Latest(x).outcome, short |-> Latest(x).short]

Judged(c) ==
    {p \in DOMAIN table[c].services : table[c].services[p] \notin Calibrations}

Verdict(c) ==
    LET verdict(p) == ServiceVerdict(table[c].services[p])
    IN  [services |-> [p \in Judged(c) |-> verdict(p)],
         go |-> \A p \in Judged(c) :
                   /\ verdict(p).hasReport
                   /\ verdict(p).outcome = "passed"
                   /\ ~verdict(p).short]

\* Mutant: a passing run short of its target counts.
SignalsWithoutGate(v) ==
    [p \in DOMAIN v.services |->
        v.services[p].hasReport /\ v.services[p].outcome = "passed"]

\* toSignals: Verdict's condition, written a second time.
ToSignals(v) ==
    [p \in DOMAIN v.services |->
        v.services[p].hasReport /\ v.services[p].outcome = "passed" /\ ~v.services[p].short]

Classify(hasCurr, currGo, hasBase, baseGo) ==
    CASE ~hasCurr -> "dropped"
      [] hasCurr /\ ~hasBase -> IF currGo THEN "new" ELSE "newly_at_risk"
      [] hasCurr /\ hasBase /\ currGo -> IF baseGo THEN "steady" ELSE "improved"
      [] hasCurr /\ hasBase /\ ~currGo -> IF baseGo THEN "regressed" ELSE "still_at_risk"

\* campaign.Compare.
CompareSignals(current, baseline) ==
    [p \in DOMAIN current \cup DOMAIN baseline |->
        Classify(p \in DOMAIN current, p \in DOMAIN current /\ current[p],
                 p \in DOMAIN baseline, p \in DOMAIN baseline /\ baseline[p])]

HasEnded(c) == table[c].aborted \/ now >= table[c].end

\* resolveDefaultBaseline's loop over the tenant's campaigns; 0 for none.
ResolveDefaultBaseline(c) ==
    FoldLeft(LAMBDA best, b :
                IF b # c /\ HasEnded(b) /\ table[b].start < table[c].start
                   /\ (best = 0 \/ table[b].start > table[IF best = 0 THEN b ELSE best].start)
                THEN b ELSE best,
             0, ListCampaignsByTenant(table[c].tenant))

Compare(c, baseline) ==
    CompareSignals(ToSignals(Verdict(c)), ToSignals(Verdict(baseline)))
----------------------------------------------------------------------------
Accounts == {m[1] : m \in MayManage}

Drains(p) == DrainTick(p) \/ DrainScope(p) \/ DrainStop(p)

\* What a request still has to do once its checks are over.
Serves(p) == UpdateCommits(p) \/ TriggerStarts(p) \/ KillPurge(p) \/ KillClose(p)

Next ==
    \/ \E a \in Accounts, c \in Campaigns :
          \/ \E t \in Tenants, d \in Definitions : HandleCreate(a, c, t, d)
          \/ \E p \in Requests, d \in Definitions : HandleUpdate(a, p, c, d)
          \/ HandleAbort(a, c)
    \/ \E p \in Requests : Serves(p)
    \/ \E x \in ExecutionIds :
          \/ Deploy(x)
          \/ \E p \in Requests : TriggerChecks(p, x)
          \/ \E r \in Results : RunEnds(x, r)
    \/ \E p \in Drainers : Drains(p)
    \/ \E p \in Requests, k \in KillScopes : KillMatch(p, k[1], k[2])
    \/ Tick

Spec == Init /\ [][Next]_vars

\* Requests are served and the sweep's ticker goes on.
FairSpec ==
    /\ Spec
    /\ \A p \in Requests : WF_vars(Serves(p))
    /\ \A p \in Drainers : WF_vars(Drains(p))
----------------------------------------------------------------------------
(* Properties.                                                             *)

\* "Once the window has opened the definition is frozen": no step changes the
\* window or the services of a campaign whose window has opened.
DefinitionFrozen ==
    [][\A c \in Campaigns :
          table[c] # None /\ now >= table[c].start =>
              /\ table'[c].start = table[c].start /\ table'[c].end = table[c].end
              /\ table'[c].services = table[c].services]_vars

\* An aborted campaign stays aborted, also when an edit that began before the
\* abort commits after it.
AbortSticks ==
    [][\A c \in Campaigns :
          table[c] # None /\ table[c].aborted => table'[c].aborted]_vars

\* The drain sweep never stops the readiness test of a campaign in force.
DrainSparesDesignated ==
    [][\A p \in Drainers : DrainStop(p) =>
          \A c \in ListActiveCampaigns(now) : (run \ run') \cap Designated(c) = {}]_vars

\* Verdict and the comparison apply one gate: a campaign is a go exactly when
\* its comparison, with any baseline, shows none of its services at risk.
GatesAgree ==
    LET listed == {c \in Campaigns : table[c] # None}
        atRisk(c, b) == Range(Compare(c, b))
                          \cap {"regressed", "newly_at_risk", "still_at_risk"}
    IN  \A c \in listed :
            LET go == Verdict(c).go
            IN  \A b \in listed : go <=> atRisk(c, b) = {}

\* The default baseline is a campaign of the same tenant that has ended, and no
\* other ended one started between it and the campaign compared.
BaselineIsLatestEnded ==
    \A c \in Campaigns : table[c] # None =>
        LET prior == {b \in Campaigns \ {c} :
                        /\ table[b] # None /\ table[b].tenant = table[c].tenant
                        /\ HasEnded(b) /\ table[b].start < table[c].start}
            found == ResolveDefaultBaseline(c)
        IN  IF prior = {} THEN found = 0
            ELSE found \in prior /\ \A b \in prior : table[b].start <= table[found].start

\* A run the freeze is meant to keep out.
Noncompliant(x) == x \in run /\ IsFrozen(x)

\* Freeze and drain together: whatever ran when a window opened, or slipped in
\* between the check and the start of a run, is stopped, and nothing follows.
FreezeSettles == <>[](\A x \in ExecutionIds : ~Noncompliant(x))

\* "freeze must lift even from a partial abort": a kill-switch invocation on a
\* campaign never ends with the campaign open, whatever its purges did, unless
\* the statement that closes it fails.
KillSwitchCloses ==
    [][\A p \in Requests :
          At(p, "purge") /\ w[p].c # 0 /\ w'[p].pc = "idle" =>
              table'[w[p].c].aborted \/ faults' > faults]_vars

\* The freeze is enforced as it was announced: an open window's definition and an
\* abort stand, the sweep spares the readiness tests, and the kill-switch closes.
FreezeHolds ==
    DefinitionFrozen /\ AbortSticks /\ DrainSparesDesignated /\ KillSwitchCloses
=============================================================================
