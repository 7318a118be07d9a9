----------------------------- MODULE Scenarios ------------------------------
(***************************************************************************)
(* Scenarios, their files and their edit history: app/scenarioapp over     *)
(* repo/mysql/scenario_repository.go, scenario_version_repository.go and   *)
(* the object store.  A request is authorized, becomes the list of         *)
(* statements its use-case issues, and runs them one by one beside the     *)
(* other requests; a statement that fails makes it run its rollback.  A    *)
(* definition is what a version records: kind, engine, file names and the  *)
(* requests fragment.                                                      *)
(***************************************************************************)
EXTENDS Integers, Sequences, FiniteSets, SequencesExt

CONSTANTS
    Editors,
    TenantOf,      \* [editor or project -> tenant]: the role grants, project.tenant_id
    Projects,
    EngineOf,      \* [test file -> engine]: engineForArtefact
    DataFiles,
    Fragments,     \* valid requests fragments; template fragments are among them
    MaxScenarios,  \* rows ever inserted
    MaxRequests,   \* requests ever begun
    MaxFaults,     \* failed statements and crashes
    MaxVersions,   \* versions a scenario gets
    None

TestFiles == DOMAIN EngineOf
Files == TestFiles \cup DataFiles
Ids == 1 .. MaxScenarios

VARIABLES
    row,        \* scenario: [tenant, kind, engine], or None
    test,       \* scenario_test_file: one slot a scenario
    data,       \* scenario_data
    requests,   \* scenario_requests
    versions,   \* scenario_versions: snapshots in order
    objects,    \* the object store's keys, <<id, file>>
    links,      \* execution_scenario: the ids a configuration names
    inserted,   \* AUTO_INCREMENT
    w,          \* the requests under way
    begun, faults,
    past,       \* the definitions a scenario has rested in
    tangled     \* ids two requests wrote at once

store == <<row, test, data, requests, versions, objects, links, inserted>>
vars == <<store, w, begun, faults, past, tangled>>

NoDefinition == [kind |-> None, engine |-> None, test |-> None, data |-> {}, requests |-> None]

Idle == [op |-> "idle", id |-> 0, project |-> None, todo |-> <<>>, undo |-> <<>>,
         failed |-> FALSE, snap |-> NoDefinition, want |-> NoDefinition]

Init ==
    /\ row = [i \in Ids |-> None] /\ test = [i \in Ids |-> None]
    /\ data = [i \in Ids |-> {}] /\ requests = [i \in Ids |-> None]
    /\ versions = [i \in Ids |-> <<>>]
    /\ objects = {} /\ links = {} /\ inserted = 0
    /\ w = [p \in Editors |-> Idle]
    /\ begun = 0 /\ faults = 0
    /\ past = [i \in Ids |-> {}] /\ tangled = {}

\* What the scenario is now.
Definition(i) ==
    [kind |-> row[i].kind, engine |-> row[i].engine, test |-> test[i],
     data |-> data[i], requests |-> requests[i]]

----------------------------------------------------------------------------
(* The use-cases, as the statements they issue.                            *)

\* captureVersion: the row, the files, the fragment, and the append.
Capture == <<<<"readRow">>, <<"readFiles">>, <<"readRequests">>, <<"append">>>>

\* engineForArtefact.
EngineForArtefact(f) == EngineOf[f]

\* Create: the row, then version 1.
Create == <<<<"insert", "portable", None>>>> \o Capture

\* Mutant: the fragment is overwritten before it is captured.
SetRequestsFirst(fragment) ==
    <<<<"portable">>, <<"setRequests", fragment>>>> \o Capture

\* SetRequests, once requestDiagnostics accepts the fragment.
SetRequests(fragment) ==
    <<<<"portable">>>> \o Capture \o <<<<"setRequests", fragment>>>>

\* Instantiate: the template's fragment in a new portable scenario.
Instantiate(fragment) ==
    <<<<"insert", "portable", None>>>> \o SetRequests(fragment)

\* UploadFile: an artefact also decides the scenario's kind.
UploadFile(f) ==
    <<<<"absent", f>>>> \o Capture \o <<<<"addFile", f>>>>
    \o (IF f \in TestFiles THEN <<<<"setKind", EngineForArtefact(f)>>>> ELSE <<>>)
    \o <<<<"put", f>>>>

\* ImportJMX, once the plan has been inspected.
ImportJMX(f) == <<<<"insert", "native", EngineForArtefact(f)>>>> \o UploadFile(f)

\* DeleteFile.
DeleteFile(f) ==
    <<<<"present", f>>>> \o Capture \o <<<<"dropFile", f>>, <<"unput", f>>>>

\* Restore: the pre-restore state becomes a version, then the row, the file
\* records and the fragment are rewritten from the snapshot.
Restore(snapshot) ==
    Capture
    \o <<<<"update", snapshot.kind, snapshot.engine>>, <<"restoreFiles">>,
         IF snapshot.requests = None THEN <<"clearRequests">>
                                     ELSE <<"setRequests", snapshot.requests>>>>

\* Delete: refused in use; the objects go, then the row.
Delete == <<<<"unused">>, <<"listFiles">>, <<"deleteRow">>>>

\* executionapp.StoreConfig: the scenario must exist when it is looked up.
Bind == <<<<"readRow">>, <<"link">>>>

----------------------------------------------------------------------------
(* The request's steps.                                                    *)

Doing(p, statement) == w[p].todo # <<>> /\ Head(w[p].todo)[1] = statement
Arg(p) == Head(w[p].todo)[2]
Id(p) == w[p].id

Writing(p) == w[p].op # "idle"

\* The next statement, or what the rest of the list becomes.
Continue(p, l) == w' = [w EXCEPT ![p] = [l EXCEPT !.todo = Tail(@)]]

\* The statement's error: the rollback runs, and its own errors are dropped.
Failed(p) ==
    LET l == w[p]
    IN  w' = [w EXCEPT ![p] =
          IF l.failed THEN [l EXCEPT !.todo = Tail(@)]
          ELSE [l EXCEPT !.failed = TRUE, !.undo = <<>>,
                         !.todo = IF Head(@)[1] = "put"
                                  THEN <<<<"dropFile", Head(@)[2]>>>> \o l.undo ELSE l.undo]]

\* A guard that refuses, or lets the request go on.
Check(p, statement, holds) ==
    /\ Doing(p, statement)
    /\ IF holds THEN Continue(p, w[p]) ELSE Failed(p)
    /\ UNCHANGED <<store, begun, faults, past, tangled>>

\* filePresent.
FilePresent(i, f) == IF f \in TestFiles THEN test[i] = f ELSE f \in data[i]

ScenarioInUse(i) == i \in links

\* The refusals that come before anything is captured.
Refusals(p) ==
    \/ Check(p, "portable", row[Id(p)] # None /\ row[Id(p)].kind = "portable")
    \/ Doing(p, "absent") /\ Check(p, "absent", row[Id(p)] # None /\ ~FilePresent(Id(p), Arg(p)))
    \/ Doing(p, "present") /\ Check(p, "present", FilePresent(Id(p), Arg(p)))
    \/ Check(p, "unused", row[Id(p)] # None /\ ~ScenarioInUse(Id(p)))

\* resolveTenant.
ResolveTenant(project) == TenantOf[project]

\* Mutant: nothing is rolled back.
CreateScenarioKept(p) ==
    LET i == inserted + 1
        l == w[p]
    IN  /\ Doing(p, "insert")
        /\ i \in Ids
        /\ inserted' = i
        /\ row' = [row EXCEPT ![i] =
              [tenant |-> ResolveTenant(l.project), kind |-> Head(l.todo)[2], engine |-> Head(l.todo)[3]]]
        /\ Continue(p, [l EXCEPT !.id = i])
        /\ UNCHANGED <<test, data, requests, versions, objects, links, begun, faults, past, tangled>>

\* CreateScenario, stamped with the project's tenant; the rollback deletes it.
CreateScenario(p) ==
    LET i == inserted + 1
        l == w[p]
    IN  /\ Doing(p, "insert")
        /\ i \in Ids
        /\ inserted' = i
        /\ row' = [row EXCEPT ![i] =
              [tenant |-> ResolveTenant(l.project), kind |-> Head(l.todo)[2], engine |-> Head(l.todo)[3]]]
        /\ Continue(p, [l EXCEPT !.id = i, !.undo = <<<<"deleteRow">>>>])
        /\ UNCHANGED <<test, data, requests, versions, objects, links, begun, faults, past, tangled>>

\* GetScenario inside captureVersion.
SnapshotRow(p) ==
    LET i == Id(p)
    IN  /\ Doing(p, "readRow")
        /\ IF row[i] = None THEN Failed(p)
           ELSE Continue(p, [w[p] EXCEPT !.snap.kind = row[i].kind, !.snap.engine = row[i].engine])
        /\ UNCHANGED <<store, begun, faults, past, tangled>>

\* scenarioSnapshot's two other reads.
SnapshotFiles(p) ==
    /\ Doing(p, "readFiles")
    /\ Continue(p, [w[p] EXCEPT !.snap.test = test[Id(p)], !.snap.data = data[Id(p)]])
    /\ UNCHANGED <<store, begun, faults, past, tangled>>

SnapshotRequests(p) ==
    /\ Doing(p, "readRequests")
    /\ Continue(p, [w[p] EXCEPT !.snap.requests = requests[Id(p)]])
    /\ UNCHANGED <<store, begun, faults, past, tangled>>

\* AppendScenarioVersion: max + 1 under FOR UPDATE; the foreign key refuses a
\* scenario that is gone.
AppendScenarioVersion(p) ==
    LET i == Id(p)
    IN  /\ Doing(p, "append")
        /\ Len(versions[i]) < MaxVersions
        /\ IF row[i] = None THEN Failed(p) /\ UNCHANGED versions
           ELSE /\ versions' = [versions EXCEPT ![i] = Append(@, w[p].snap)]
                /\ Continue(p, w[p])
        /\ UNCHANGED <<row, test, data, requests, objects, links, inserted,
                       begun, faults, past, tangled>>

\* AddScenarioFile: the key of scenario_test_file is the scenario.
AddScenarioFile(p) ==
    LET i == Id(p)
        f == Arg(p)
    IN  /\ Doing(p, "addFile")
        /\ IF f \in TestFiles
           THEN /\ test' = [test EXCEPT ![i] = IF @ = None THEN f ELSE @]
                /\ IF test[i] = None THEN Continue(p, w[p]) ELSE Failed(p)
                /\ UNCHANGED data
           ELSE /\ data' = [data EXCEPT ![i] = @ \cup {f}]
                /\ IF f \in data[i] THEN Failed(p) ELSE Continue(p, w[p])
                /\ UNCHANGED test
        /\ UNCHANGED <<row, requests, versions, objects, links, inserted,
                       begun, faults, past, tangled>>

\* DeleteScenarioFile: ErrNotFound when it is not there.
DeleteScenarioFile(p) ==
    LET i == Id(p)
        f == Arg(p)
    IN  /\ Doing(p, "dropFile")
        /\ test' = [test EXCEPT ![i] = IF @ = f THEN None ELSE @]
        /\ data' = [data EXCEPT ![i] = @ \ {f}]
        /\ IF FilePresent(i, f) THEN Continue(p, w[p]) ELSE Failed(p)
        /\ UNCHANGED <<row, requests, versions, objects, links, inserted,
                       begun, faults, past, tangled>>

\* SetScenarioKind and UpdateScenario: ErrNotFound when the row is gone.
UpdateRow(p, statement, kind, engine) ==
    LET i == Id(p)
    IN  /\ Doing(p, statement)
        /\ IF row[i] = None THEN Failed(p) /\ UNCHANGED row
           ELSE /\ row' = [row EXCEPT ![i].kind = kind, ![i].engine = engine]
                /\ Continue(p, w[p])
        /\ UNCHANGED <<test, data, requests, versions, objects, links, inserted,
                       begun, faults, past, tangled>>

SetScenarioKind(p) == Doing(p, "setKind") /\ UpdateRow(p, "setKind", "native", Arg(p))
UpdateScenario(p) ==
    Doing(p, "update") /\ UpdateRow(p, "update", Arg(p), Head(w[p].todo)[3])

\* SetScenarioRequests and DeleteScenarioRequests: no row is asked for.
WriteRequests(p, statement, fragment) ==
    /\ Doing(p, statement)
    /\ requests' = [requests EXCEPT ![Id(p)] = fragment]
    /\ Continue(p, w[p])
    /\ UNCHANGED <<row, test, data, versions, objects, links, inserted,
                   begun, faults, past, tangled>>

SetScenarioRequests(p) == Doing(p, "setRequests") /\ WriteRequests(p, "setRequests", Arg(p))
DeleteScenarioRequests(p) == WriteRequests(p, "clearRequests", None)

\* The object store.
StoreObject(p) ==
    /\ Doing(p, "put") \/ Doing(p, "unput")
    /\ objects' = IF Doing(p, "put") THEN objects \cup {<<Id(p), Arg(p)>>}
                                     ELSE objects \ {<<Id(p), Arg(p)>>}
    /\ Continue(p, w[p])
    /\ UNCHANGED <<row, test, data, requests, versions, links, inserted,
                   begun, faults, past, tangled>>

Statements(statement, files) == [k \in 1 .. Cardinality(files) |-> <<statement, SetToSeq(files)[k]>>]

\* restoreFiles: the test slot is emptied and filled, then the data files.
RestoreFiles(i, snapshot) ==
    (IF test[i] = snapshot.test THEN <<>>
     ELSE Statements("dropFile", {test[i]} \ {None})
          \o Statements("addFile", {snapshot.test} \ {None}))
    \o Statements("dropFile", data[i] \ snapshot.data)
    \o Statements("addFile", snapshot.data \ data[i])

\* Reads whose result is the statements that follow.
Expand(p, statement, statements) ==
    /\ Doing(p, statement)
    /\ w' = [w EXCEPT ![p].todo = statements \o Tail(@)]
    /\ UNCHANGED <<store, begun, faults, past, tangled>>

ScenarioFilesFor(i) == data[i] \cup ({test[i]} \ {None})

ReadFiles(p) ==
    \/ Expand(p, "restoreFiles", RestoreFiles(Id(p), w[p].want))
    \/ Expand(p, "listFiles", Statements("unput", ScenarioFilesFor(Id(p))))

\* DeleteScenario: the versions cascade, the other tables keep their rows.
DeleteScenario(p) ==
    LET i == Id(p)
    IN  /\ Doing(p, "deleteRow")
        /\ row' = [row EXCEPT ![i] = None]
        /\ versions' = [versions EXCEPT ![i] = <<>>]
        /\ IF row[i] = None THEN Failed(p) ELSE Continue(p, w[p])
        /\ UNCHANGED <<test, data, requests, objects, links, inserted,
                       begun, faults, past, tangled>>

\* StoreExecutionConfig, as far as the scenario goes.
LinkScenario(p) ==
    /\ Doing(p, "link")
    /\ links' = links \cup {Id(p)}
    /\ Continue(p, w[p])
    /\ UNCHANGED <<row, test, data, requests, versions, objects, inserted,
                   begun, faults, past, tangled>>

\* The last statement is done: the scenario rests.
Rest(p) ==
    LET i == Id(p)
    IN  /\ past' = [past EXCEPT ![i] =
              IF row[i] = None THEN {} ELSE @ \cup {Definition(i)}]
        /\ w' = [w EXCEPT ![p] = Idle]

Respond(p) ==
    /\ Writing(p) /\ w[p].todo = <<>>
    /\ IF Id(p) \in Ids THEN Rest(p) ELSE UNCHANGED past /\ w' = [w EXCEPT ![p] = Idle]
    /\ UNCHANGED <<store, begun, faults, tangled>>

\* A statement fails.
StatementFails(p) ==
    /\ Writing(p) /\ w[p].todo # <<>>
    /\ faults < MaxFaults /\ faults' = faults + 1
    /\ Failed(p)
    /\ UNCHANGED <<store, begun, past, tangled>>

\* The API process dies with the request.
Crash(p) ==
    /\ Writing(p) /\ Id(p) \in Ids
    /\ faults < MaxFaults /\ faults' = faults + 1
    /\ Rest(p)
    /\ UNCHANGED <<store, begun, tangled>>

----------------------------------------------------------------------------
(* The handlers.                                                           *)

\* authorizeScenario: the grant is scoped to the scenario's own tenant.
AuthorizeScenario(p, i) == row[i] # None /\ row[i].tenant = TenantOf[p]

\* authorizeCreateScenario: the tenant of the project the body names.
AuthorizeCreateScenario(p, project) == TenantOf[project] = TenantOf[p]

Begin(p, op, i, project, todo, want) ==
    /\ ~Writing(p)
    /\ begun < MaxRequests /\ begun' = begun + 1
    /\ w' = [w EXCEPT ![p] = [Idle EXCEPT !.op = op, !.id = i, !.project = project,
                                          !.todo = todo, !.want = want]]
    /\ tangled' = IF i # 0 /\ \E q \in Editors \ {p} : Writing(q) /\ Id(q) = i
                  THEN tangled \cup {i} ELSE tangled
    /\ UNCHANGED <<store, faults, past>>

CreateFor(p, todo) ==
    \E project \in Projects :
        /\ AuthorizeCreateScenario(p, project)
        /\ inserted < MaxScenarios
        /\ Begin(p, "create", 0, project, todo, NoDefinition)

CreateScenarioRequest(p) == CreateFor(p, Create)
InstantiateTemplate(p) == \E fragment \in Fragments : CreateFor(p, Instantiate(fragment))
ImportScenario(p) == \E f \in TestFiles : CreateFor(p, ImportJMX(f))

UploadScenarioFile(p, i) ==
    /\ AuthorizeScenario(p, i)
    /\ \E f \in Files : Begin(p, "upload", i, None, UploadFile(f), NoDefinition)

DeleteScenarioFileRequest(p, i) ==
    /\ AuthorizeScenario(p, i)
    /\ \E f \in Files : Begin(p, "deleteFile", i, None, DeleteFile(f), NoDefinition)

\* setScenarioRequests.
SetScenarioRequestsRequest(p, i) ==
    /\ AuthorizeScenario(p, i)
    /\ \E fragment \in Fragments :
          Begin(p, "requests", i, None, SetRequests(fragment), NoDefinition)

\* restoreScenarioVersion: a version that exists, read before the capture.
RestoreScenarioVersion(p, i) ==
    /\ AuthorizeScenario(p, i)
    /\ \E k \in DOMAIN versions[i] :
          Begin(p, "restore", i, None, Restore(versions[i][k]), versions[i][k])

\* deleteScenario.
DeleteScenarioRequest(p, i) ==
    /\ AuthorizeScenario(p, i)
    /\ Begin(p, "delete", i, None, Delete, NoDefinition)

\* uploadExecutionConfig names the scenario.
BindRequest(p, i) ==
    /\ AuthorizeScenario(p, i) /\ i \notin links
    /\ Begin(p, "bind", i, None, Bind, NoDefinition)

Requests(p) ==
    \/ CreateScenarioRequest(p) \/ InstantiateTemplate(p) \/ ImportScenario(p)
    \/ \E i \in Ids :
          \/ UploadScenarioFile(p, i) \/ DeleteScenarioFileRequest(p, i)
          \/ SetScenarioRequestsRequest(p, i)
          \/ RestoreScenarioVersion(p, i) \/ DeleteScenarioRequest(p, i) \/ BindRequest(p, i)

Statement(p) ==
    \/ Refusals(p) \/ CreateScenario(p)
    \/ SnapshotRow(p) \/ SnapshotFiles(p) \/ SnapshotRequests(p) \/ AppendScenarioVersion(p)
    \/ AddScenarioFile(p) \/ DeleteScenarioFile(p) \/ SetScenarioKind(p) \/ UpdateScenario(p)
    \/ SetScenarioRequests(p) \/ DeleteScenarioRequests(p)
    \/ StoreObject(p) \/ ReadFiles(p) \/ DeleteScenario(p) \/ LinkScenario(p)

Next ==
    \E p \in Editors :
        Requests(p) \/ Statement(p) \/ Respond(p) \/ StatementFails(p) \/ Crash(p)

Spec == Init /\ [][Next]_vars
----------------------------------------------------------------------------
(* Properties.                                                             *)

AtRest(i) == \A p \in Editors : Writing(p) => Id(p) # i

\* "every write the service applies captures the CURRENT state as version max+1
\* first": whatever fails or crashes between the capture and the write, a
\* definition a scenario rested in, and that no two requests raced to replace,
\* is the live one or can be restored from a version.
HistoryComplete ==
    \A i \in Ids \ tangled :
        AtRest(i) /\ row[i] # None =>
            \A d \in past[i] : d = Definition(i) \/ d \in ToSet(versions[i])

\* Restore is exact: when it succeeds and nobody raced it, the scenario is what
\* the version recorded, test file slot and dropped data files included.
RestoreExact ==
    \A p \in Editors :
        w[p].op = "restore" /\ w[p].todo = <<>> /\ ~w[p].failed /\ Id(p) \notin tangled =>
            Definition(Id(p)) = w[p].want

\* "a failed import leaves no scenario behind", nor does a failed create or
\* instantiate: after one failure the request answers with its row gone.
NothingLeftBehind ==
    \A p \in Editors :
        /\ w[p].op = "create" /\ w[p].todo = <<>> /\ w[p].failed
        /\ Id(p) \in Ids \ tangled /\ faults <= 1
        => row[Id(p)] = None

\* A configuration names scenarios that exist: ScenarioInUse refuses the delete
\* of one, unless the delete and the upload of the configuration overlap.
BoundScenarioExists ==
    \A i \in links \ tangled : row[i] # None
=============================================================================
