CONSTANTS
    Tenants <- MCTenants
    Callers <- MCCallers
    Subjects <- MCSubjects
    Subject <- MCSubject
    Persona <- MCPersona
    Starts <- MCStarts
    Grantable <- MCGrantable
    MayCall <- MCMayCall
    Slots <- MCSlots
    Global = Global
    None = None
    Bad = Bad
    Faulty <- MCFaulty
    Expired <- MCExpired
    r1 = r1
    r2 = r2
    r3 = r3
    q1 = q1
    q2 = q2
SPECIFICATION MCSpec
INVARIANTS
     ReportFaithful

    
CHECK_DEADLOCK FALSE
