CONSTANTS
    Procs = {p1, p2}
    e1 = e1
    e2 = e2
    c1 = c1
    c2 = c2
    Executions = {e1, e2}
    Clusters = {c1}
    Targets <- SoloTargets
    Home <- HomeCluster
    Units <- EngineUnits
    Window <- Durations
    DefaultCeiling = 1
    Ceilings = {2}
    MaxTime = 2
    MaxRows = 2
    None = None
SPECIFICATION FairSpec
PROPERTIES
    AdmissionFits RequestsAnswered
CHECK_DEADLOCK FALSE
