SPECIFICATION RadiusSpec
CONSTANTS
    Users = {u1, u2}
    Unknown = {u2}
    MaxAuthAttempts = 1
    Window = 1
    MaxPerTick = 2
    Sessions = {s1}
    MaxDeaths = 1
    MaxReports = 4
    MaxOctets = 2
    MaxRows = 1
    Wrap = 2
    Environments <- MCEnvironments
    None = None
INVARIANTS RadiusTypeOK BarredIsRejected GuessesBounded RecordsAreTrue OrderedIsStored
PROPERTIES ImplementsMetering EndedIsClosed
