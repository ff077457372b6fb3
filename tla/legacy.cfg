SPECIFICATION Spec
CONSTANTS
    MaxUsers = 3
    MaxConnections = 2
    MaxStates = 1
    RuleIds = {r1}
    Requests = {q1}
    Identities <- MCLegacy
    Subs = {s1, s2}
    x1 = x1
    x2 = x2
    x3 = x3
    e1 = e1
    e2 = e2
    Absent = Absent
INVARIANTS
    TypeOK
    TokensFit
    MergeCannotFail
PROPERTIES
    RulesKeepAccounts
SYMMETRY MCSymmetry
