SPECIFICATION Spec
CONSTANTS
    a1 = a1
    a2 = a2
    Keys = {x1, x2}
    KeyCalls = {job, a1}
    RotationJob = job
    Certs = {x1}
    MaxMaterials = 2
    MaxSealed = 1
    MaxIncidents = 1
    MaxLevel = 1
    Items = {t1, t2}
    IncidentCalls = {c1, c2}
    Evidence = {e1, e2}
    Cases = {f1}
    Schedules = {s1}
    Executions = {b1, b2}
    Activations = {a1, a2}
    Tests = {t1, t2}
    RecoveryCalls = {c1, c2}
    MaxUpdates = 2
    Permissions = {p1}
    Contracts = {t1}
    Assessments = {a1, a2}
    Findings = {f1}
    VendorCalls = {c1, c2}
    Vulnerabilities = {u1, u2}
    Severe = {u1}
    RegisterCalls = {c1, c2}
    MaxVersions = 3
    Environments <- MCEnvironments
    None = None
INVARIANTS TypeOK IncidentSafety RecoverySafety RegisterSafety
PROPERTY WorkMovesOn
CHECK_DEADLOCK FALSE
