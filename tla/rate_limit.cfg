\* Four requests from one named address or none, a window of two seconds in half
\* seconds, two windows and a half of time.
CONSTANTS
    Requests = {r1, r2, r3, r4}
    Addresses = {a}
    Unspecified = unspecified
    IpBudget = 1
    JktBudget = 0
    TrustForwardedHeaders = FALSE
    TicksPerSecond = 2
    Window = 4
    MaxClock = 8
    MaxHold = 1
SYMMETRY MCSymmetry
SPECIFICATION Spec
INVARIANTS BudgetPerKey RefusedForOwnRequests SweepForgets
PROPERTY RetryAfterIsHonest
CHECK_DEADLOCK FALSE
