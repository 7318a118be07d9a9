SPECIFICATION MCSpec
CONSTANTS
    e1 = e1
    Jobs = {1}
    Executions = {e1}
    ExecutionOf <- OneExecution
    Workers = {w1, w2}
    Achieved = {2}
    SeedQPS = 4
    MaxQPS = 8
    MaxSteps = 2
    Tolerance = 2
    MaxEdits = 1
    MaxFaults = 1
    Overrun = FALSE
    None = None
INVARIANTS
    StepsTrusted ProfileTrusted OneController 
PROPERTIES
    SearchImplemented 
CHECK_DEADLOCK FALSE
