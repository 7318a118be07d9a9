------------------------------ MODULE Handlers ------------------------------
(***************************************************************************)
(* The HTTP handlers (internal/adapters/httpapi), one definition each: the   *)
(* sequence of steps a request goes through, in the handler's order.  Every  *)
(* step may answer the request instead of passing it on; Api gives the       *)
(* steps their meaning.  Parsing and rendering are left out, the refusals    *)
(* they lead to are not.                                                     *)
(***************************************************************************)
EXTENDS Sequences

Step(op, kind, via, what, action) ==
    [op |-> op, kind |-> kind, via |-> via, what |-> what, action |-> action]

\* An optional service that is not wired: 404.
Configured == Step("configured", "", "", "", "")

\* An id of the path or the form, a body, a query: 400 when it does not parse.
pathInt(kind) == Step("id", kind, "", "", "")
Body == Step("body", "", "", "", "")

\* A name of the path or the query, taken as it is.
Name(kind) == Step("name", kind, "", "", "")

\* Read the row the id names: 404 when there is none.
LoadAs(kind, via) == Step("load", kind, via, "", "")
Load(kind) == LoadAs(kind, kind)

\* Load the row of kind via in kind's place, and decide on its tenant.
AuthorizeRow(kind, via, resource, action) ==
    Step("authorize", kind, via, resource, action)
authorizeInProject(resource, action) ==
    AuthorizeRow("project", "project", resource, action)
authorizeProject(action) == authorizeInProject("project", action)
authorizeCreateExecution == authorizeInProject("execution", "create")
authorizeCreateScenario == authorizeInProject("scenario", "create")
authorizeScenario(action) == AuthorizeRow("scenario", "scenario", "scenario", action)
authorizeExecution(action) == AuthorizeRow("execution", "execution", "execution", action)
authorizeRun(action) == AuthorizeRow("execution", "execution", "run", action)
authorizeReport(kind) == AuthorizeRow(kind, "execution", "report", "read")

\* Decide on the tenant of the row just loaded, on the tenant the path or the
\* form names, or on no tenant at all (platform-wide roles only).
AskLoaded(resource, action) == Step("ask", "loaded", "", resource, action)
AskTenant(resource, action) == Step("ask", "tenant", "", resource, action)
AskPlatform(resource, action) == Step("ask", "platform", "", resource, action)

\* campaign:read on the campaign's tenant, or project:read on a project of it.
authorizeAnyParticipatingProject == Step("participant", "campaign", "", "", "")

\* A service call that changes the row of kind, which belongs to the row of
\* kind via; a failing call changes nothing.
Do(verb, kind, via) == Step("do", kind, via, verb, "")

\* A service call that only reads below the row of kind, for the answer.
Read(kind) == Step("read", kind, kind, "", "")

\* The rows of kind in the caller's tenants, or all of them.
visible(kind) == Step("list", kind, "", "", "")

Audit == Step("audit", "", "", "", "")

----------------------------------------------------------------------------
\* Sessions.

listSessionProfiles == <<Configured>>
createSession == <<Configured, Body, Do("issue", "session", "caller")>>
deleteSession == <<Configured, Do("clear", "session", "caller")>>
me == <<>>
apmLinks == <<>>

----------------------------------------------------------------------------
\* Projects, and what is registered per project.

listProjects == <<visible("project")>>
createProject == <<Body, pathInt("tenant"), AskTenant("project", "create"),
                   Do("create", "project", "tenant")>>
getProject == <<pathInt("project"), Load("project"), AskLoaded("project", "read")>>
projectSummary == <<pathInt("project"), authorizeProject("read"), Read("project")>>
deleteProject == <<pathInt("project"), authorizeProject("delete"),
                   Do("delete", "project", "project")>>

createWebhook == <<Configured, pathInt("project"), authorizeProject("create"), Body,
                   Do("create", "webhook", "project")>>
listWebhooks == <<Configured, pathInt("project"), authorizeProject("read"),
                  Read("project")>>
deleteWebhookUnchecked == <<Configured, pathInt("project"), pathInt("webhook"),
                   Do("delete", "webhook", "webhook")>>
deleteWebhook == <<Configured, pathInt("project"), pathInt("webhook"),
                   authorizeProject("delete"), Do("delete", "webhook", "project")>>
setWebhookEnabled == <<Configured, pathInt("project"), pathInt("webhook"),
                       authorizeProject("update"), Body,
                       Do("update", "webhook", "project")>>

createSLO == <<Configured, pathInt("project"), authorizeProject("create"), Body,
               Do("create", "slo", "project")>>
listSLOs == <<Configured, pathInt("project"), authorizeProject("read"), Read("project")>>
deleteSLO == <<Configured, pathInt("project"), pathInt("slo"),
               authorizeProject("delete"), Do("delete", "slo", "project")>>
sloBudget == <<Configured, pathInt("project"), pathInt("slo"),
               authorizeProject("read"), Read("project")>>

setDigestConfig == <<Configured, pathInt("project"), authorizeProject("update"), Body,
                     Do("update", "project", "project"), Read("project")>>
getDigestConfig == <<Configured, pathInt("project"), authorizeProject("read"),
                     Read("project")>>
deleteDigestConfig == <<Configured, pathInt("project"), authorizeProject("update"),
                        Do("update", "project", "project")>>
listDigests == <<Configured, pathInt("project"), authorizeProject("read"),
                 Read("project")>>

----------------------------------------------------------------------------
\* Scenarios, their files, versions, thresholds and templates.

listScenarios == <<visible("scenario"), Body>>
createScenario == <<Body, pathInt("project"), authorizeCreateScenario,
                    Do("create", "scenario", "project")>>
importScenario == <<Body, pathInt("project"), authorizeCreateScenario,
                    Do("create", "scenario", "project")>>
getScenario == <<pathInt("scenario"), authorizeScenario("read"), Load("scenario"),
                 Read("scenario")>>
deleteScenario == <<pathInt("scenario"), authorizeScenario("delete"),
                    Do("delete", "scenario", "scenario")>>
listScenarioFiles == <<pathInt("scenario"), authorizeScenario("read"), Read("scenario")>>
uploadScenarioFile == <<pathInt("scenario"), authorizeScenario("update"), Body,
                        Do("update", "scenario", "scenario")>>
deleteScenarioFile == <<pathInt("scenario"), authorizeScenario("delete"),
                        Do("update", "scenario", "scenario")>>
getScenarioRequests == <<pathInt("scenario"), authorizeScenario("read"),
                         Read("scenario")>>
validateScenarioRequests == <<pathInt("scenario"), authorizeScenario("update"), Body,
                              Read("scenario")>>
setScenarioRequests == <<pathInt("scenario"), authorizeScenario("update"), Body,
                         Do("update", "scenario", "scenario")>>
listScenarioExecutions == <<pathInt("scenario"), authorizeScenario("read"),
                            Read("scenario")>>
listScenarioThresholds == <<Configured, pathInt("scenario"), authorizeScenario("read"),
                            Read("scenario")>>
replaceScenarioThresholds == <<Configured, pathInt("scenario"),
                               authorizeScenario("update"), Body,
                               Do("update", "scenario", "scenario")>>
listScenarioVersions == <<Configured, pathInt("scenario"), authorizeScenario("read"),
                          Read("scenario")>>
getScenarioVersion == <<Configured, pathInt("scenario"), Body,
                        authorizeScenario("read"), Read("scenario")>>
restoreScenarioVersion == <<Configured, pathInt("scenario"), Body,
                            authorizeScenario("update"),
                            Do("update", "scenario", "scenario")>>
listTemplates == <<AskPlatform("scenario", "list"), visible("template")>>
instantiateTemplate == <<pathInt("scenario"), Load("scenario"),
                         AskLoaded("scenario", "read"), Body, pathInt("project"),
                         authorizeCreateScenario, Do("create", "scenario", "project")>>

----------------------------------------------------------------------------
\* Executions, their files, runs and schedules.

listExecutions == <<visible("execution")>>
createExecution == <<Body, pathInt("project"), authorizeCreateExecution, Body,
                     Do("create", "execution", "project")>>
getExecution == <<pathInt("execution"), authorizeExecution("read"), Load("execution"),
                  Read("execution")>>
deleteExecution == <<pathInt("execution"), authorizeExecution("delete"),
                     Do("delete", "execution", "execution")>>
listExecutionFiles == <<pathInt("execution"), authorizeExecution("read"),
                        Read("execution")>>
uploadExecutionFile == <<pathInt("execution"), authorizeExecution("update"), Body,
                         Do("update", "execution", "execution")>>
deleteExecutionFile == <<pathInt("execution"), authorizeExecution("delete"),
                         Do("update", "execution", "execution")>>
uploadExecutionConfig == <<pathInt("execution"), authorizeExecution("update"), Body,
                           Do("update", "execution", "execution")>>
getExecutionConfig == <<pathInt("execution"), authorizeExecution("read"),
                        Read("execution")>>
reResolveExecutionConfig == <<pathInt("execution"), authorizeExecution("update"),
                              Do("update", "execution", "execution")>>

lifecycleMutation(verb, action) ==
    <<pathInt("execution"), authorizeRun(action), Do(verb, "execution", "execution")>>
deployExecution == lifecycleMutation("deploy", "create")
stopExecution == lifecycleMutation("stop", "update")
purgeExecution == lifecycleMutation("purge", "delete")
\* The handler retries Trigger while the engines come up, until a deadline:
\* attempts that were refused leave nothing behind.
triggerExecution == <<pathInt("execution"), authorizeRun("create"),
                      Do("trigger", "execution", "execution")>>
executionStatus == <<pathInt("execution"), authorizeExecution("read"),
                     Read("execution")>>
executionEngines == <<pathInt("execution"), authorizeExecution("read"),
                      Load("execution"), Read("execution")>>
scenarioPodLog == <<pathInt("execution"), authorizeExecution("read"),
                    pathInt("scenario"), Read("execution")>>
streamExecution == <<pathInt("execution"), authorizeExecution("read")>>

createSchedule == <<pathInt("execution"), authorizeExecution("create"), Body,
                    pathInt("tenant"), AskTenant("schedule", "create"), Body,
                    Do("create", "schedule", "tenant")>>
listSchedules == <<pathInt("execution"), authorizeExecution("read"), Read("execution")>>
deleteSchedule == <<pathInt("schedule"), Load("schedule"),
                    AuthorizeRow("schedule", "execution", "execution", "delete"),
                    Do("delete", "schedule", "schedule")>>

----------------------------------------------------------------------------
\* Run reports, their annotations and their public links.

executionReports == <<pathInt("execution"), authorizeReport("execution"),
                      Read("execution")>>
executionTrend == <<pathInt("execution"), authorizeReport("execution"),
                    Read("execution")>>
executionErrorSignatureHistory == <<pathInt("execution"), authorizeReport("execution"),
                                    Read("execution")>>
\* Two runs are compared: each is loaded and asked about in turn.
runsCompare == <<Body, pathInt("run"), pathInt("other"), Load("run"),
                 authorizeReport("run"), LoadAs("other", "run"),
                 authorizeReport("other"), Body>>
runReport == <<pathInt("run"), Load("run"), authorizeReport("run")>>
runRecommendations == <<pathInt("run"), Load("run"), authorizeReport("run")>>
runSeries == <<Configured, pathInt("run"), Load("run"), authorizeReport("run"),
               Read("run")>>
runExport == <<Body, Configured, pathInt("run"), Load("run"), authorizeReport("run"),
               Read("run")>>
runShardObject == <<pathInt("run"), Body, Load("run"), authorizeReport("run"),
                    Read("run")>>
runStar == <<pathInt("run"), Body, Load("run"), authorizeReport("run"),
             Do("annotate", "run", "run")>>
runNote == <<pathInt("run"), Body, Load("run"), authorizeReport("run"),
             Do("annotate", "run", "run")>>

authorizeShareGate == <<Load("run"), authorizeReport("run")>>
createRunShare == <<Configured, pathInt("run"), Body>> \o authorizeShareGate
                    \o <<Do("create", "share", "run")>>
listRunShares == <<Configured, pathInt("run")>> \o authorizeShareGate \o <<Read("run")>>
deleteRunShare == <<Configured, pathInt("run"), Name("share")>> \o authorizeShareGate
                    \o <<Do("delete", "share", "run")>>
\* Public: the token is the credential.
Unexpired == Step("unexpired", "share", "", "", "")
sharedReport == <<Configured, Name("share"), Load("share"), Unexpired,
                  LoadAs("share", "run")>>

----------------------------------------------------------------------------
\* Administration: usage, the kill switch, tenants, roles and clusters.

authorizeSystemAdmin == AskPlatform("system", "admin")
usageHistory == <<authorizeSystemAdmin, Body, visible("usage")>>
usageSummary == <<authorizeSystemAdmin, Body, visible("usage")>>
adminExecutions == <<authorizeSystemAdmin, visible("usage")>>
adminNodes == <<authorizeSystemAdmin, visible("usage")>>
abortExecutions == <<authorizeSystemAdmin, Body, Do("abort", "system", "platform"), Audit>>

\* A path that names no tenant, or one that does not parse, asks platform-wide.
tenantAdminGate == <<Configured, AskTenant("tenant", "admin")>>
createTenant == <<Configured, AskPlatform("tenant", "admin"), Body,
                  Do("create", "tenant", "platform"), Read("new tenant"), Audit>>
listTenants == <<Configured, AskPlatform("tenant", "admin"), visible("tenant")>>
getTenant == tenantAdminGate \o <<pathInt("tenant"), Load("tenant")>>
setTenantStatus == tenantAdminGate
    \o <<pathInt("tenant"), Body, Do("update", "tenant", "tenant"), Audit>>
setTenantQuota == tenantAdminGate
    \o <<pathInt("tenant"), Body, Do("update", "tenant", "tenant"), Audit>>
getTenantQuota == tenantAdminGate \o <<pathInt("tenant"), Read("tenant")>>
tenantReservations == <<Configured, pathInt("tenant"), AskTenant("schedule", "list"), Body,
                        Configured, Read("tenant")>>
listTenantRoles == tenantAdminGate \o <<pathInt("tenant"), Read("tenant")>>

assignRole(scope) == <<Body, Name("role"), Do("assign", "grant", scope), Audit>>
revokeRole(scope) == <<Name("role"), Do("revoke", "grant", scope), Audit>>
assignTenantRole == tenantAdminGate \o <<pathInt("tenant")>> \o assignRole("tenant")
revokeTenantRole == tenantAdminGate \o <<pathInt("tenant")>> \o revokeRole("tenant")
assignGlobalRole == <<Configured, AskPlatform("tenant", "admin")>> \o assignRole("platform")
revokeGlobalRole == <<Configured, AskPlatform("tenant", "admin")>> \o revokeRole("platform")

clusterAdminGate == <<Configured, AskPlatform("system", "admin")>>
createCluster == clusterAdminGate \o <<Body, Do("create", "cluster", "platform"), Audit>>
listClusters == clusterAdminGate \o <<visible("usage")>>
rotateIngestToken == clusterAdminGate
    \o <<Body, Do("update", "cluster", "platform"), Audit>>
getCluster == clusterAdminGate \o <<visible("usage")>>
updateCluster == clusterAdminGate \o <<Body, Do("update", "cluster", "platform"), Audit>>
deleteCluster == clusterAdminGate \o <<Do("delete", "cluster", "platform"), Audit>>

----------------------------------------------------------------------------
\* Campaigns, calibrations and files.

createCampaign == <<Configured, pathInt("tenant"), AskTenant("campaign", "create"), Body,
                    Do("create", "campaign", "tenant")>>
listCampaigns == <<Configured, pathInt("tenant"), AskTenant("campaign", "list"),
                   Read("tenant")>>
listAllCampaigns == <<Configured, visible("campaign")>>
getCampaign == <<Configured, pathInt("campaign"), Load("campaign"),
                 AskLoaded("campaign", "read")>>
updateCampaign == <<Configured, pathInt("campaign"), Load("campaign"),
                    AskLoaded("campaign", "update"), Body,
                    Do("update", "campaign", "campaign")>>
abortCampaign == <<Configured, pathInt("campaign"), Load("campaign"),
                   AskLoaded("campaign", "delete"),
                   Do("update", "campaign", "campaign"), Load("campaign"), Audit>>
getCampaignVerdict == <<Configured, pathInt("campaign"), Load("campaign"),
                        authorizeAnyParticipatingProject, Read("campaign")>>
getCampaignComparison == <<Configured, pathInt("campaign"), Load("campaign"),
                           authorizeAnyParticipatingProject, Body, Read("campaign")>>

createCalibration == <<Configured, Body, pathInt("project"), authorizeCreateExecution,
                       Body, pathInt("execution"), authorizeExecution("read"),
                       Do("create", "execution", "project"), Read("execution")>>
triggerCalibration == <<Configured, pathInt("execution"), authorizeExecution("create"),
                        Do("trigger", "execution", "execution"), Read("execution")>>
triggerScenarioCalibration == <<Configured, pathInt("scenario"),
                                authorizeScenario("create"),
                                Do("trigger", "scenario", "scenario"), Read("scenario")>>
getCalibrationJob == <<Configured, pathInt("job"), Load("job"),
                       AuthorizeRow("job", "execution", "execution", "read")>>
getCapacityProfile == <<Configured, pathInt("scenario"), authorizeScenario("read"), Body,
                        Read("scenario")>>
fanOutCapacity == <<Configured, pathInt("scenario"), authorizeScenario("read"), Body,
                    Read("scenario")>>
listCapacityProfiles == <<Configured, visible("scenario")>>

downloadFile(kind) == <<Body, pathInt(kind), AuthorizeRow(kind, kind, kind, "read"),
                        Read(kind)>>

----------------------------------------------------------------------------
\* The route table.

PublicRoutes == {listSessionProfiles, createSession, deleteSession, sharedReport}

Routes ==
    {listSessionProfiles, createSession, deleteSession, me, apmLinks,
     listProjects, createProject, getProject, projectSummary, deleteProject,
     createWebhook, listWebhooks, deleteWebhook, setWebhookEnabled,
     createSLO, listSLOs, deleteSLO, sloBudget, setDigestConfig,
     getDigestConfig, deleteDigestConfig, listDigests, listScenarios,
     createScenario, importScenario, getScenario, deleteScenario,
     listScenarioFiles, uploadScenarioFile, deleteScenarioFile,
     getScenarioRequests, validateScenarioRequests, setScenarioRequests,
     listScenarioExecutions, listScenarioThresholds,
     replaceScenarioThresholds, listScenarioVersions, getScenarioVersion,
     restoreScenarioVersion, listTemplates, instantiateTemplate,
     createExecution, listExecutions, getExecution, deleteExecution,
     listExecutionFiles, uploadExecutionFile, deleteExecutionFile,
     uploadExecutionConfig, getExecutionConfig, reResolveExecutionConfig,
     deployExecution, triggerExecution, stopExecution, purgeExecution,
     executionStatus, executionEngines, scenarioPodLog, streamExecution,
     createSchedule, listSchedules, deleteSchedule, executionReports,
     executionTrend, executionErrorSignatureHistory, runsCompare, runReport,
     runRecommendations, runSeries, runExport, runShardObject, runStar,
     runNote, createRunShare, listRunShares, deleteRunShare, sharedReport,
     usageHistory, usageSummary, adminExecutions, adminNodes,
     abortExecutions, createTenant, listTenants, getTenant, setTenantStatus,
     setTenantQuota, getTenantQuota, tenantReservations, assignTenantRole,
     listTenantRoles, revokeTenantRole, assignGlobalRole, revokeGlobalRole,
     createCluster, listClusters, rotateIngestToken, getCluster,
     updateCluster, deleteCluster, createCampaign, listCampaigns,
     listAllCampaigns, getCampaign, updateCampaign, abortCampaign,
     getCampaignVerdict, getCampaignComparison, createCalibration,
     triggerCalibration, triggerScenarioCalibration, getCalibrationJob,
     getCapacityProfile, fanOutCapacity, listCapacityProfiles,
     downloadFile("scenario"), downloadFile("execution")}
=============================================================================
