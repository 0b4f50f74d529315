SPECIFICATION MCSpec
CONSTANTS
    None = None
    Requests = {r1, r2}
    Costs = {1, 4}
    Budgets = {0, 5, 6}
    MaxSpent = 6
    Request = r1
    Projects = {p1}
    Jobs = {j1}
    MaxClaims = 2
    MaxModels = 1
    MaxExports = 1
    Invoices = {i1}
    Cycle = 2
    Grace = 1
    MaxTier = 2
    MaxTime = 4
    MaxReceipts = 2
    RestoreDays = 2
    MaxAttempts = 1
    MaxDay = 4
INVARIANTS IInv AlertedOnce SuspendedRefuses
PROPERTIES MonthStamped ClaimsEnd PendingEnds GraceEnds DeletedPurged
CHECK_DEADLOCK FALSE
