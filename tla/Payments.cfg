SPECIFICATION Spec
CONSTANTS
    Invoices = {i1}
    Payments = {p1, p2}
    Attempts = {a1, a2}
    Intents = {n1, n2}
    Webhooks = {w1, w2}
    Gateways = {"jazzcash"}
    InvoiceAmount <- MCAmount
    InitialStatuses = {"pending", "cancelled"}
    Environments <- MCEnvironments
    MaxCrashes = 1
    MaxCredits = 2
    MaxDrift = 2
    None = None
SYMMETRY Symmetry
INVARIANTS TypeOK MoneyWasCaptured SuccessIsSettled SerialCreditsOnce OneOpenPayment
PROPERTIES ImplementsSettlement OutcomeIsStable
CHECK_DEADLOCK FALSE
