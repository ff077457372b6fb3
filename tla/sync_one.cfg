\* One rule, its settings, users, and a window that moves.
SPECIFICATION FairSpec
CONSTANTS
    A = A
    B = B
    C = C
    t1 = t1
    t2 = t2
    Calendars = {A, B}
    Originals = {e1}
    Texts = {t1, t2}
    Transformers <- Known
    Looks <- Shown
    NoEvent = NoEvent
    NoProperties = NoProperties
    KeepsIds = TRUE
    LastDay = 1
    Window = 1
    PageSize = 9
    Rules = {r1}
    Configs <- Settings
    Users = {"edit", "rule", "lose"}
    MaxChanges = 2
INVARIANTS
    TypeOK
PROPERTIES
    SyncIsExact
    CleanupIsComplete
    OnlyOwnCopies
    Reflects
