SPECIFICATION Spec
CONSTANTS
    Connections = {c1}
    Workers = {w1}
    MaxGrants = 3
    Absent = Absent
INVARIANTS
    TypeOK
    StoredTokensOpen
PROPERTIES
    NoOlderGrant
    RunEndsOrListens
