SPECIFICATION Spec
CONSTANTS
    Requests = {r1}
    Approvers = {a1, a2}
    Submissions = {s1, s2}
    Required <- MCRequired
    Environments <- MCOverlap
    MaxCrashes = 0
    None = None
INVARIANT DualControl
CHECK_DEADLOCK FALSE
