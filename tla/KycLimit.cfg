SPECIFICATION Spec
CONSTANTS
    Users = {u1}
    Customers = {u1}
    Calls = {c1, c2, c3, c4}
    Environments <- MCCalm
    MaxAttempts = 3
    MaxDays = 1
    MaxCrashes = 0
    None = None
INVARIANTS DailyLimit
CHECK_DEADLOCK FALSE
