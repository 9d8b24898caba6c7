SPECIFICATION FairSpec
CONSTANTS
    Requests = {r1}
    Approvers = {a1, a2}
    Submissions = {s1, s2, s3}
    Required <- MCRequired
    Environments <- MCEnvironments
    MaxCrashes = 1
    None = None
INVARIANTS TypeOK ApprovalsAreSound VerdictIsOnItsWay
PROPERTIES ImplementsDualApproval PendingIsResolved
CHECK_DEADLOCK FALSE
