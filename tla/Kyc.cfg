SPECIFICATION FairSpec
CONSTANTS
    Users = {u1, u2}
    Customers = {u1}
    Calls = {c1, c2}
    Environments <- MCEnvironments
    MaxAttempts = 1
    MaxDays = 2
    MaxCrashes = 1
    None = None
INVARIANTS TypeOK VerifiedIsConfirmed OutcomesArePublished
PROPERTIES PendingIsResolved
CHECK_DEADLOCK FALSE
