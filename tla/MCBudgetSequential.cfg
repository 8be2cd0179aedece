SPECIFICATION Spec
CONSTANTS
    t1 = t1
    t2 = t2
    t3 = t3
    r1 = r1
    r2 = r2
    r3 = r3
    Requests = {r1, r2, r3}
    Teams <- ThreeTeams
    Budgeted <- TwoTeams
    Amount <- AmountTwoOrFour
    SoftLimit <- SoftOneOrThree
    Downgrading <- OneTeam
    Enforcement = {TRUE}
    MaxSpent = 4
    MaxCost = 2
    MaxMonth = 2
    MaxInFlight = 1
    Faults = FALSE
INVARIANTS OneUsageRow OvershootBounded
PROPERTY ImplementsLedger
