SPECIFICATION MCSpec
CONSTANTS
    e1 = e1
    e2 = e2
    e3 = e3
    c1 = c1
    c2 = c2
    p1 = p1
    p2 = p2
    Hooks = {1, 2}
    Projects = {p1, p2}
    ProjectOf <- RunsOfOne
    MayAdminister <- Grants
    Workers = {k1}
    QueueCap = 1
    DeliverAttempts = 2
    MaxFaults = 1
    None = None
SYMMETRY Colleagues
INVARIANTS
    NothingForgotten     
CHECK_DEADLOCK FALSE
