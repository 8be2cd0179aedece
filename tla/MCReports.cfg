SPECIFICATION Spec
CONSTANTS
    j1 = j1
    j2 = j2
    j3 = j3
    Jobs = {j1, j2, j3}
    Scenarios <- MCScenarios
    Usage <- MCUsage
    Scheduled <- MCScheduled
    SlotsPerDay = 6
    Windows = {3, 6, 12}
    Dollar = 4
SYMMETRY AnyJob
INVARIANTS TypeOK CopiesOverlap AlarmsAreSpikes
