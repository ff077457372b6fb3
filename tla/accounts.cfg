SPECIFICATION Spec
CONSTANTS
    MaxUsers = 2
    MaxConnections = 2
    MaxStates = 1
    RuleIds = {r1}
    Requests = {q1, q2}
    Identities <- MCSwapped
    Subs = {s1}
    x1 = x1
    x2 = x2
    x3 = x3
    e1 = e1
    e2 = e2
    Absent = Absent
INVARIANTS
    CalendarsHaveToken
PROPERTIES
    MergeLosesNothing
SYMMETRY MCSymmetry
