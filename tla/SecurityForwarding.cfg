SPECIFICATION Spec
CONSTANTS
    SecEvents = {e1, e2, e3}
    BufferSize = 2
    ForwardLimit = 1
    q1 = q1
    q2 = q2
    Entries = {q1, q2}
    TargetOf <- MCTargetOf
    Targets <- MCTargets
    MaxRetries <- MCRetries
    BatchSize = 1
    Evaluations = {v1, v2}
    Logins = {s1, s2, s3}
    MaxConcurrent = 1
    SessionActions = {x1, x2, x3}
    r1 = r1
    RoleCodes = {r1, r2}
    Privileged = {r1, r2}
    NeedsApproval = {r1}
    PrivCalls = {c1, c2, c3}
    JitRequests = {j1}
    p1 = p1
    p2 = p2
    Policies = {p1, p2}
    InitialModes <- MCModes
    GuardCalls = {c1, c2}
    MaxChecks = 1
    MaxTampering = 1
    MaxUpdates = 1
    Environments <- MCForwarding
    None = None
PROPERTIES EventsReachSiem
CHECK_DEADLOCK FALSE
