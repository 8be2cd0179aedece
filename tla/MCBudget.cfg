SPECIFICATION FairSpec
CONSTANTS
    t1 = t1
    t2 = t2
    t3 = t3
    r1 = r1
    r2 = r2
    r3 = r3
    Requests = {r1, r2, r3}
    Teams <- OneTeam
    Budgeted <- OneTeam
    Amount <- AmountTwo
    SoftLimit <- SoftOne
    Downgrading <- OneTeam
    Enforcement = {TRUE, FALSE}
    MaxSpent = 2
    MaxCost = 1
    MaxMonth = 2
    MaxInFlight = 3
    Faults = TRUE
INVARIANTS TypeOK NeverOvercharged EnforcementJustified
PROPERTY EveryCallAnswered
