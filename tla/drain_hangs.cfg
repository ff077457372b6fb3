\* A request whose client waits as long as it takes.
SPECIFICATION PatientSpec
CONSTANTS
    Rules = {k1}
    Runs = {1, 2}
    NoRun = NoRun
    NoRule = NoRule
    Lease = 1
    MinInterval = 0
    MinBeat = 1
    Workers = {w1}
    Events = {e1}
    Dispatchers = {}
    Users = {"manual"}
    Punctual = TRUE
    DbFails = FALSE
PROPERTIES
    RequestDrains
