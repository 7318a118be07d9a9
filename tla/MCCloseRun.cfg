SPECIFICATION Spec
CONSTANTS
    Handlers = {h1, h2}
    Sweepers = {}
    Schedulers = {}
    Clusters = {c1}
    Shards = {k1}
    ExitCodes = {"passed"}
    MaxRuns = 2
    MaxDeploys = 1
    MaxFaults = 0
PROPERTY CloseRunClearsOnlyItsRun
CHECK_DEADLOCK FALSE
