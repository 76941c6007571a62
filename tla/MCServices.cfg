SPECIFICATION Spec
CONSTANTS
    Names = {n1, n2}
    Managers = {m1, m2}
    MaxRuns = 2
    MaxUpdates = 3
    MaxFails = 1
    MaxStops = 1
SYMMETRY Sym
INVARIANTS
    SchedulesKept CleanupExclusive HistoryKept AgentsKept
    DeliveredInOrder RecordsKept ChatKept GraphKept SessionsKept AccountsKept
PROPERTY ClosedUnleased
CHECK_DEADLOCK FALSE
