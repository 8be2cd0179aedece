SPECIFICATION Spec
CONSTANTS
    a = a
    b = b
    Replicas = {a, b}
    Limit = 2
    Window = 3
    MaxDelay = 3
    MaxTime = 8
SYMMETRY Symmetry
INVARIANTS TypeOK RecentBounded WindowBounded RefusedWhenUsedUp
