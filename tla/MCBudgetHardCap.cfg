SPECIFICATION Spec
CONSTANTS
    t1 = t1
    t2 = t2
    t3 = t3
    r1 = r1
    r2 = r2
    r3 = r3
    Requests = {r1, r2, r3}
    Teams <- OneTeam
    Budgeted <- OneTeam
    Amount <- AmountTwo
    SoftLimit <- SoftOne
    Downgrading <- OneTeam
    Enforcement = {TRUE}
    MaxSpent = 6
    MaxCost = 2
    MaxMonth = 1
    MaxInFlight = 3
    Faults = FALSE
PROPERTY HardCap
