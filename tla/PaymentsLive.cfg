SPECIFICATION FairSpec
CONSTANTS
    Invoices = {i1}
    Payments = {p1}
    Attempts = {a1, a2}
    Intents = {n1}
    Webhooks = {w1, w2}
    Gateways = {"payfast", "jazzcash"}
    InvoiceAmount <- MCAmount
    InitialStatuses = {"pending"}
    Environments <- MCCalm
    MaxCrashes = 1
    MaxCredits = 2
    MaxDrift = 1
    None = None
PROPERTIES FinishedIsNoticed
CHECK_DEADLOCK FALSE
