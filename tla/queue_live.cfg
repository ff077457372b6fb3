\* The scheduler, a user, and one worker that may be late; a client that gives up.
SPECIFICATION FairSpec
CONSTANTS
    Rules = {k1}
    Runs = {1, 2}
    NoRun = NoRun
    NoRule = NoRule
    Lease = 1
    MinInterval = 1
    MinBeat = 1
    Workers = {w1}
    Events = {}
    Dispatchers = {d1}
    Users = {"cleanup", "enable", "disable"}
    Punctual = FALSE
    DbFails = TRUE
INVARIANTS
    TypeOK
    OneScheduledRun
PROPERTIES
    ClaimedRunEnds
    PendingRunClaimed
    RequestEndsOrListens
