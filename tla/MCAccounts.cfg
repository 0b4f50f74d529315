SPECIFICATION MCSpec
CONSTANTS
    Requests = {r1, r2}
    MaxAttempts = 2
    MaxResends = 1
    MaxMails = 2
    FailureLimit = 2
    MaxEnrolments = 2
    RestoreDays = 2
    AccountMaxAttempts = 1
    MaxDay = 3
    Grants = {g1, g2}
    Clients = {c1, c2}
    Users = {u1, u2}
    Codes = {k1}
    Discounts = {d1}
    Invoices = {i1, i2}
    MaxUses = 2
    Projects = {p1, p2}
    None = None
SYMMETRY Interchangeable
INVARIANTS PasswordProven GuessesBounded CodesOfOneEnrolment PurgeFinal AccessJustified ModelsServed NeverBlocked
PROPERTY CodeRedemptionsBounded
PROPERTY OneTimeSecretSpec
CHECK_DEADLOCK FALSE
