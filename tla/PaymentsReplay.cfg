SPECIFICATION Spec
CONSTANTS
    Invoices = {i1}
    Payments = {p1, p2}
    Attempts = {a1, a2}
    Intents = {n1, n2}
    Webhooks = {w1, w2}
    Gateways = {"jazzcash"}
    InvoiceAmount <- MCAmount
    InitialStatuses = {"pending", "cancelled"}
    Environments <- MCOverlap
    MaxCrashes = 1
    MaxCredits = 2
    MaxDrift = 2
    None = None
SYMMETRY Symmetry
INVARIANT CreditedOnce
CHECK_DEADLOCK FALSE
