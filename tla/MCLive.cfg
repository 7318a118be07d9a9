SPECIFICATION MCFairSpec
CONSTANTS
    SeedQPS <- MCSeed
    MaxQPS <- MCMax
    MaxSteps = 7
    Tolerance <- MCTolerance
    Achieved <- MCAchieved
    a1 = a1
    e1 = e1
    f1 = f1
    h1 = h1
    h2 = h2
    k1 = k1
    o1 = o1
    q1 = q1
    q2 = q2
    s1 = s1
    t1 = t1
    u1 = u1
    x1 = x1
    None = None
INVARIANTS
    BracketMatchesHistory VerdictEarned
PROPERTIES
    CalibrationEnds NoticesSettle DueIsServed RunReported StaleViewsRecover
CHECK_DEADLOCK FALSE
