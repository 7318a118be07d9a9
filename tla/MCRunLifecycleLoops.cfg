SPECIFICATION Spec
CONSTANTS
    Handlers = {h1}
    Sweepers = {}
    Schedulers = {s1}
    Clusters = {c1, c2}
    Shards = {k1}
    ExitCodes = {"passed"}
    MaxRuns = 1
    MaxDeploys = 1
    MaxFaults = 0
PROPERTY RegistryImplemented
CHECK_DEADLOCK FALSE
