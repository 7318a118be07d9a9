SPECIFICATION FairSpec
CONSTANTS
    Handlers = {h1}
    Sweepers = {r1}
    Schedulers = {}
    Clusters = {c1}
    Shards = {k1}
    ExitCodes = {"passed"}
    MaxRuns = 1
    MaxDeploys = 1
    MaxFaults = 2
PROPERTY OpenRunsClose
CHECK_DEADLOCK FALSE
