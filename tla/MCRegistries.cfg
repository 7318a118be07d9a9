SPECIFICATION MCSpec
CONSTANTS
    a1 = a1
    q1 = q1
    q2 = q2
    t1 = t1
    Names = {"c1"}
    Executions <- Fleet
    Requests = {a1, a2}
    Workers = {w1, w2}
    Kubeconfigs <- Uploads
    Namespaces = {1, 2}
    EngineToken = 0
    MaxCreds = 2
    MaxTokens = 2
    MaxRequests = 3
    MaxFaults = 1
    MaxHangups = 1
    None = None
INVARIANTS
    SecretsMatchEntries TokensScoped

     
CHECK_DEADLOCK FALSE
