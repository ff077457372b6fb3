\* Two workers on one rule, all of them on time; a beat every lease.
SPECIFICATION Spec
CONSTANTS
    Rules = {k1}
    Runs = {1, 2}
    NoRun = NoRun
    NoRule = NoRule
    Lease = 1
    MinInterval = 0
    MinBeat = 1
    Workers = {w1, w2}
    Events = {e1}
    Dispatchers = {}
    Users = {"manual", "delete"}
    Punctual = TRUE
    DbFails = TRUE
SYMMETRY WorkerSymmetry
INVARIANTS
    ClaimedOnce
    LockHeldWhileExecuting
    RuleExclusive
PROPERTIES
    SuccessIsWhole
    WatchdogSparesLive
    FailedStaysFailed
    LocksAreNotStolen
