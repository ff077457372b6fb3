\* Two rules that run side by side, fail half-way, and clean up.
SPECIFICATION Spec
CONSTANTS
    A = A
    B = B
    C = C
    t1 = t1
    t2 = t2
    Calendars = {A, B, C}
    Originals = {e1}
    Texts = {t1}
    Transformers <- Known
    Looks <- Shown
    NoEvent = NoEvent
    NoProperties = NoProperties
    KeepsIds = TRUE
    LastDay = 0
    Window = 1
    PageSize = 1
    Rules = {r1, r2}
    Configs <- Triangle
    Users = {}
    MaxChanges = 0
INVARIANTS
    CopiesAreDirect
PROPERTIES
    SyncIsExact
    OnlyOwnCopies
