SPECIFICATION Spec
CONSTANTS
    o1 = o1
    o2 = o2
    n1 = n1
    n2 = n2
    n3 = n3
    k1 = k1
    i1 = i1
    i2 = i2
    a1 = a1
    a2 = a2
    Olts = {o1, o2}
    Onus = {n1, n2, n3}
    Customers = {k1}
    Vendor <- MCVendor
    Home <- MCHome
    Registered = {n1, n3}
    OnuOf <- MCOnuOf
    AdminCalls = {a1, a2}
    NetRequests = {a1, a2}
    Drivers = {d1, d2, d3, d4}
    CareCalls = {c1, c2}
    Notices = {i1, i2}
    Reachable = {i1}
    Channel = "gateway"
    Exports = {e1, e2}
    Cancels = {c1}
    LastHour = 2
    MaxRange = 1
    PdfRows = 1
    Accesses = {x1, x2, x3}
    Schedules = {s1}
    ScheduleCalls = {g1, g2}
    Environments <- MCEnvironments
    None = None
INVARIANTS TypeOK SubscriberSafety OfficeSafety
PROPERTIES StepsAreSound WorkEnds
CHECK_DEADLOCK FALSE
