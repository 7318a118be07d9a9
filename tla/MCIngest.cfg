SPECIFICATION MCSpec
CONSTANTS
    Shards = {s1, s2}
    Handlers = {h1, h2}
    Lines <- OneLine
    MaxStreams = 2
    MaxFaults = 1
    LateStreams = FALSE
    None = None
INVARIANTS
    TablesExact NoLockCycle ReportExact 
PROPERTIES
    AbsorbImplemented
CHECK_DEADLOCK FALSE
