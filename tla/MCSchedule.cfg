CONSTANTS
    e1 = e1
    Schedules = {s1}
    Recurring = {s1}
    FireTimes <- Cron
    Exe <- OneExecution
    Handlers = {h1}
    Extenders = {x1, x2}
    Firers = {f1}
    Horizon = 4
    Instants = {0, 2}
    MaxFailures = 1
    None = None
SYMMETRY Replicas
SPECIFICATION Spec
INVARIANTS NoDuplicateExtension HorizonContiguous
