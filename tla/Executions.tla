----------------------------- MODULE Executions -----------------------------
(***************************************************************************)
(* Executions, their configuration and files, and the projects that hold   *)
(* them: app/executionapp and app/projectapp over                          *)
(* repo/mysql/execution_repository.go and project_repository.go.  A request *)
(* is the list of statements its use-case issues; requests interleave.  A  *)
(* configuration has one entry: the scenario, the mode with its rate, and  *)
(* the numbers the mode resolves to.                                       *)
(***************************************************************************)
EXTENDS Integers, Sequences, FiniteSets

CONSTANTS
    Callers,
    TenantOf,       \* [caller or project -> tenant]
    ScenarioIn,     \* [scenario -> project]
    Uploads,        \* the configurations callers send, told apart by id
    Profiles,       \* capacity profiles calibration may store
    Files,
    MaxEngines,     \* Service.maxEngines
    MaxExecutions, MaxRequests, MaxFaults, MaxCalibrations,
    None

ProjectIds == {ScenarioIn[s] : s \in DOMAIN ScenarioIn}
Scenarios == DOMAIN ScenarioIn
Ids == 1 .. MaxExecutions

VARIABLES
    projects,    \* project rows
    scenarios,   \* scenario rows
    executions,  \* execution: [project, tenant], or None
    entry,       \* execution_scenario, one row an execution or None
    criteria,    \* execution_criteria: the upload they came with, or None
    files, objects,
    profile,     \* capacity_profile of the key the entry resolves against
    inserted, w, begun, faults, calibrations,
    tangled,     \* executions and projects two requests worked on at once
    broken       \* executions a crash or a failed rollback hit

tables == <<projects, scenarios, executions, entry, criteria, files, objects, profile, inserted>>
counters == <<begun, faults, calibrations, tangled, broken>>
vars == <<tables, w, counters>>

NoConfig == [upload |-> 0, scenario |-> None, mode |-> "", throughput |-> 0,
             engines |-> 0, concurrency |-> 0]

Idle == [op |-> "idle", id |-> 0, project |-> None, todo |-> <<>>, undo |-> <<>>,
         failed |-> FALSE, home |-> None, entry |-> NoConfig, criteria |-> None]

Init ==
    /\ projects = ProjectIds /\ scenarios = Scenarios
    /\ executions = [i \in Ids |-> None]
    /\ entry = [i \in Ids |-> None] /\ criteria = [i \in Ids |-> None]
    /\ files = [i \in Ids |-> {}] /\ objects = {}
    /\ profile \in Profiles
    /\ inserted = 0
    /\ w = [p \in Callers |-> Idle]
    /\ begun = 0 /\ faults = 0 /\ calibrations = 0 /\ tangled = {} /\ broken = {}

----------------------------------------------------------------------------
(* Mode resolution.                                                        *)

CeilDiv(a, b) == (a + b - 1) \div b
Larger(a, b) == IF a < b THEN b ELSE a

ConcurrencyFloor == 20
ConcurrencyHeadroom == 3

\* loadmode.Concurrency: Little's Law with headroom, the hint in milliseconds.
Concurrency(rate, hint) ==
    IF hint <= 0 THEN ConcurrencyFloor
    ELSE Larger(CeilDiv(rate * hint * ConcurrencyHeadroom, 1000), ConcurrencyFloor)

\* capacityprofile.FanOut on a usable profile: pods at the measured rate.
FanOut(rate) == CeilDiv(rate, profile.perEngine)

\* resolveModes on an entry, given a profile whose status is ok.
Resolve(e) ==
    IF e.mode = "" THEN e
    ELSE LET engines == FanOut(e.throughput)
         IN  [e EXCEPT !.engines = engines,
                       !.concurrency = Larger(Concurrency(e.throughput, profile.hint), engines)]

WithinEngineLimit(e) == e.engines <= MaxEngines

\* A mode entry is refused unless the profile answers with a number.
Resolvable(e) == e.mode = "" \/ profile.status = "ok"

----------------------------------------------------------------------------
(* The use-cases, as the statements they issue.                            *)

Create == <<"project", "insert">>
Delete == <<"get", "files", "deleteExecution">>
UploadFile == <<"get", "addFile", "put">>
DeleteFile == <<"dropFile", "unput">>
StoreConfig == <<"get", "resolve", "scenario", "exists", "store">>

\* ReResolveConfig: GetConfig's three reads, then StoreConfig.
ReResolveConfig == <<"get", "readEntry", "readCriteria">> \o StoreConfig

\* projectapp.Delete.
DeleteProject == <<"project", "noScenarios", "noExecutions", "deleteProject">>

----------------------------------------------------------------------------
Doing(p, statement) == w[p].todo # <<>> /\ Head(w[p].todo) = statement
Working(p) == w[p].op # "idle"
Id(p) == w[p].id

Continue(p, l) == w' = [w EXCEPT ![p] = [l EXCEPT !.todo = Tail(@)]]

\* The statement's error; an upload rolls its record back, a rollback's own
\* error is dropped.
Failed(p) ==
    LET l == w[p]
    IN  w' = [w EXCEPT ![p] = IF l.failed THEN [l EXCEPT !.todo = Tail(@)]
                              ELSE [l EXCEPT !.failed = TRUE, !.todo = l.undo, !.undo = <<>>]]

\* A read or a check.
Check(p, statement, holds, l) ==
    /\ Doing(p, statement)
    /\ IF holds THEN Continue(p, l) ELSE Failed(p)
    /\ UNCHANGED <<tables, counters>>

GetExecution(p) ==
    /\ Doing(p, "get")
    /\ LET row == executions[Id(p)]
       IN  IF row = None THEN Failed(p) ELSE Continue(p, [w[p] EXCEPT !.home = row.project])
    /\ UNCHANGED <<tables, counters>>

GetProject(p) == Check(p, "project", w[p].project \in projects, w[p])

ListScenariosByProject(q) == {s \in scenarios : ScenarioIn[s] = q}
ListExecutionsByProject(q) == {i \in Ids : executions[i] # None /\ executions[i].project = q}

\* projectapp.Delete's guards.
ProjectGuards(p) ==
    \/ Check(p, "noScenarios", ListScenariosByProject(w[p].project) = {}, w[p])
    \/ Check(p, "noExecutions", ListExecutionsByProject(w[p].project) = {}, w[p])

DeleteProjectRow(p) ==
    /\ Doing(p, "deleteProject")
    /\ projects' = projects \ {w[p].project}
    /\ IF w[p].project \in projects THEN Continue(p, w[p]) ELSE Failed(p)
    /\ UNCHANGED <<scenarios, executions, entry, criteria, files, objects, profile,
                   inserted, counters>>

\* CreateExecution with its project's tenant.
CreateExecution(p) ==
    /\ Doing(p, "insert")
    /\ inserted < MaxExecutions /\ inserted' = inserted + 1
    /\ executions' = [executions EXCEPT ![inserted + 1] =
                        [project |-> w[p].project, tenant |-> TenantOf[w[p].project]]]
    /\ Continue(p, w[p])
    /\ UNCHANGED <<projects, scenarios, entry, criteria, files, objects, profile, counters>>

\* resolveModes, Validate and the engine limit; then every scenario of it.
StoreConfigChecks(p) ==
    LET e == w[p].entry
    IN  \/ /\ Doing(p, "resolve")
           /\ Check(p, "resolve", Resolvable(e) /\ WithinEngineLimit(Resolve(e)),
                    [w[p] EXCEPT !.entry = Resolve(e)])
        \/ /\ Doing(p, "scenario")
           /\ Check(p, "scenario", e.scenario \in scenarios
                      /\ ScenarioIn[e.scenario] = w[p].home, w[p])
        \/ /\ Doing(p, "exists")
           /\ Check(p, "exists", executions[Id(p)] # None, w[p])

\* Mutant: the criteria are written by a later call.
StoreEntryOnly(p) ==
    /\ Doing(p, "store")
    /\ entry' = [entry EXCEPT ![Id(p)] = w[p].entry]
    /\ Continue(p, w[p])
    /\ UNCHANGED <<projects, scenarios, executions, criteria, files, objects, profile,
                   inserted, counters>>

\* StoreExecutionConfig from its first write, which takes the locks, to commit.
StoreExecutionConfig(p) ==
    /\ Doing(p, "store")
    /\ entry' = [entry EXCEPT ![Id(p)] = w[p].entry]
    /\ criteria' = [criteria EXCEPT ![Id(p)] = w[p].criteria]
    /\ Continue(p, w[p])
    /\ UNCHANGED <<projects, scenarios, executions, files, objects, profile, inserted, counters>>

\* LoadProfileFor and CriteriaFor.
LoadProfileFor(p) ==
    LET i == Id(p)
    IN  /\ Doing(p, "readEntry")
        /\ Check(p, "readEntry", entry[i] # None, [w[p] EXCEPT !.entry = entry[i]])

CriteriaFor(p) ==
    Check(p, "readCriteria", TRUE, [w[p] EXCEPT !.criteria = criteria[Id(p)]])

\* Mutant: the links are left behind.
DeleteRowOnly(p) ==
    /\ Doing(p, "deleteExecution")
    /\ executions' = [executions EXCEPT ![Id(p)] = None]
    /\ IF executions[Id(p)] # None THEN Continue(p, w[p]) ELSE Failed(p)
    /\ UNCHANGED <<projects, scenarios, entry, criteria, files, objects, profile, inserted, counters>>

\* DeleteExecution: the links and the row in one transaction; a row that is gone
\* rolls it back.
DeleteExecution(p) ==
    /\ Doing(p, "deleteExecution")
    /\ IF executions[Id(p)] # None
       THEN /\ executions' = [executions EXCEPT ![Id(p)] = None]
            /\ entry' = [entry EXCEPT ![Id(p)] = None]
            /\ Continue(p, w[p])
       ELSE Failed(p) /\ UNCHANGED <<executions, entry>>
    /\ UNCHANGED <<projects, scenarios, criteria, files, objects, profile, inserted, counters>>

TheFile == CHOOSE f \in Files : TRUE

\* Delete's loop over the data files.
DeleteObjects(p) ==
    /\ Doing(p, "files")
    /\ objects' = objects \ ({Id(p)} \X files[Id(p)])
    /\ Continue(p, w[p])
    /\ UNCHANGED <<projects, scenarios, executions, entry, criteria, files, profile,
                   inserted, counters>>

\* AddExecutionFile; from here on a failure takes the record back.
AddExecutionFile(p) ==
    /\ Doing(p, "addFile")
    /\ files' = [files EXCEPT ![Id(p)] = @ \cup {TheFile}]
    /\ IF TheFile \in files[Id(p)] THEN Failed(p)
       ELSE Continue(p, [w[p] EXCEPT !.undo = <<"dropFile">>])
    /\ UNCHANGED <<projects, scenarios, executions, entry, criteria, objects, profile,
                   inserted, counters>>

DeleteExecutionFile(p) ==
    /\ Doing(p, "dropFile")
    /\ files' = [files EXCEPT ![Id(p)] = @ \ {TheFile}]
    /\ IF TheFile \in files[Id(p)] THEN Continue(p, w[p]) ELSE Failed(p)
    /\ UNCHANGED <<projects, scenarios, executions, entry, criteria, objects, profile,
                   inserted, counters>>

\* The object store.
StoreObject(p) ==
    /\ Doing(p, "put") \/ Doing(p, "unput")
    /\ objects' = IF Doing(p, "put") THEN objects \cup {<<Id(p), TheFile>>}
                                     ELSE objects \ {<<Id(p), TheFile>>}
    /\ Continue(p, w[p])
    /\ UNCHANGED <<projects, scenarios, executions, entry, criteria, files, profile,
                   inserted, counters>>

Respond(p) ==
    /\ Working(p) /\ w[p].todo = <<>>
    /\ w' = [w EXCEPT ![p] = Idle]
    /\ UNCHANGED <<tables, counters>>

\* A statement fails; a transaction that fails has done nothing.
StatementFails(p) ==
    /\ Working(p) /\ w[p].todo # <<>>
    /\ faults < MaxFaults /\ faults' = faults + 1
    /\ broken' = IF w[p].failed \/ w[p].op = "delete" THEN broken \cup {Id(p)} ELSE broken
    /\ Failed(p)
    /\ UNCHANGED <<tables, begun, calibrations, tangled>>

\* The API process dies with the request.
Crash(p) ==
    /\ Working(p)
    /\ faults < MaxFaults /\ faults' = faults + 1
    /\ broken' = broken \cup {Id(p)}
    /\ w' = [w EXCEPT ![p] = Idle]
    /\ UNCHANGED <<tables, begun, calibrations, tangled>>

----------------------------------------------------------------------------
(* The handlers.                                                           *)

\* authorizeExecution: scoped to the execution's own tenant.
AuthorizeExecution(p, i) == executions[i] # None /\ executions[i].tenant = TenantOf[p]

\* authorizeProject.
AuthorizeProject(p, q) == q \in projects /\ TenantOf[q] = TenantOf[p]

\* Requests that touch the same execution, or the same project's rows.
Overlaps(i, q) ==
    \E c \in Callers : Working(c) /\ ((i # 0 /\ Id(c) = i) \/ (q # None /\ w[c].project = q))

Begin(p, op, i, q, todo, e, c) ==
    /\ ~Working(p)
    /\ begun < MaxRequests /\ begun' = begun + 1
    /\ w' = [w EXCEPT ![p] = [Idle EXCEPT !.op = op, !.id = i, !.project = q, !.todo = todo,
                                          !.entry = e, !.criteria = c]]
    /\ tangled' = IF Overlaps(i, q) THEN tangled \cup ({i, q} \ {0, None}) ELSE tangled
    /\ UNCHANGED <<tables, faults, calibrations, broken>>

CreateExecutionRequest(p) ==
    \E q \in ProjectIds :
        /\ AuthorizeProject(p, q) /\ inserted < MaxExecutions
        /\ Begin(p, "create", 0, q, Create, NoConfig, None)

DeleteExecutionRequest(p, i) ==
    AuthorizeExecution(p, i) /\ Begin(p, "delete", i, None, Delete, NoConfig, None)

UploadExecutionFile(p, i) ==
    AuthorizeExecution(p, i) /\ Begin(p, "upload", i, None, UploadFile, NoConfig, None)

DeleteExecutionFileRequest(p, i) ==
    AuthorizeExecution(p, i) /\ Begin(p, "deleteFile", i, None, DeleteFile, NoConfig, None)

UploadExecutionConfig(p, i) ==
    /\ AuthorizeExecution(p, i)
    /\ \E u \in Uploads : Begin(p, "config", i, None, StoreConfig, u, u.upload)

ReResolveExecutionConfig(p, i) ==
    AuthorizeExecution(p, i) /\ Begin(p, "reresolve", i, None, ReResolveConfig, NoConfig, None)

DeleteProjectRequest(p) ==
    \E q \in ProjectIds :
        AuthorizeProject(p, q) /\ Begin(p, "deleteProject", 0, q, DeleteProject, NoConfig, None)

\* scenarioapp.Delete, refused while an entry names the scenario.
ScenarioDeleted(s) ==
    /\ s \in scenarios /\ s \notin {entry[i].scenario : i \in {j \in Ids : entry[j] # None}}
    /\ \A c \in Callers : ~Working(c)
    /\ scenarios' = scenarios \ {s}
    /\ UNCHANGED <<projects, executions, entry, criteria, files, objects, profile, inserted,
                   w, counters>>

\* A calibration stores another profile for the key, or it goes stale.
Recalibrated ==
    /\ calibrations < MaxCalibrations /\ calibrations' = calibrations + 1
    /\ profile' \in Profiles \ {profile}
    /\ UNCHANGED <<projects, scenarios, executions, entry, criteria, files, objects,
                   inserted, w, begun, faults, tangled, broken>>

Requests(p) ==
    \/ CreateExecutionRequest(p) \/ DeleteProjectRequest(p)
    \/ \E i \in Ids :
          \/ DeleteExecutionRequest(p, i)
          \/ UploadExecutionFile(p, i) \/ DeleteExecutionFileRequest(p, i)
          \/ UploadExecutionConfig(p, i) \/ ReResolveExecutionConfig(p, i)

Statement(p) ==
    \/ GetExecution(p) \/ GetProject(p) \/ ProjectGuards(p) \/ DeleteProjectRow(p)
    \/ CreateExecution(p) \/ StoreConfigChecks(p) \/ StoreExecutionConfig(p)
    \/ LoadProfileFor(p) \/ CriteriaFor(p) \/ DeleteExecution(p) \/ DeleteObjects(p)
    \/ AddExecutionFile(p) \/ DeleteExecutionFile(p) \/ StoreObject(p)

Next ==
    \/ \E p \in Callers :
          Requests(p) \/ Statement(p) \/ Respond(p) \/ StatementFails(p) \/ Crash(p)
    \/ \E s \in Scenarios : ScenarioDeleted(s)
    \/ Recalibrated

Spec == Init /\ [][Next]_vars
----------------------------------------------------------------------------
(* Properties.                                                             *)

\* "a failure partway through can never leave the execution with a new load
\* profile but stale (or missing) criteria": the entry and the criteria of an
\* execution come from one upload, whatever fails or crashes, unless requests
\* on it overlapped.
ConfigWhole ==
    \A i \in Ids \ tangled : entry[i] # None => criteria[i] = entry[i].upload

\* "Every engine pod must run at least one virtual user": no mode entry is ever
\* stored that shard.Plan would clamp to fewer pods than it says.
PodsAllRun ==
    \A i \in Ids : entry[i] # None /\ entry[i].mode # "" => entry[i].engines <= entry[i].concurrency

\* "entries without a mode are re-validated and re-persisted byte-identically":
\* what an operator stated is stored as stated, through any re-resolution and
\* any recalibration.
StatedIsStored ==
    \A i \in Ids : entry[i] # None =>
        \E u \in Uploads :
            /\ u.upload = entry[i].upload /\ u.throughput = entry[i].throughput
            /\ u.mode = "" => u = entry[i]

\* "left behind they survive as orphaned execution_scenario rows that keep
\* ScenarioInUse true forever": a link belongs to an execution that exists,
\* unless the delete overlapped a config upload.
NoOrphanLinks == \A i \in Ids \ tangled : entry[i] # None => executions[i] # None

\* Delete "refuses to delete a project that still has scenarios or executions":
\* unless a create overlapped it, an execution's project exists.
ProjectOutlivesExecutions ==
    \A i \in Ids : executions[i] # None =>
        executions[i].project \in projects \cup tangled

\* A file record has its object: a failed upload takes its record back, and a
\* delete takes the record first; only a crash, a failed delete of the whole
\* execution or requests that overlap leave one without.
FilesBacked ==
    \A i \in Ids \ (tangled \cup broken) :
        (\A c \in Callers : Id(c) # i) /\ executions[i] # None =>
            {i} \X files[i] \subseteq objects
=============================================================================
