\* Rules may leave fields empty.
SPECIFICATION Spec
CONSTANTS
    Requests = {q1}
    Rules = {r1}
    Names = {PrefixTitle, RegexTitle}
    Texts = {t1, t2}
    Default = Default
    Empty = Empty
    Number = Number
    Invalid = Invalid
    Lists <- Distinct
INVARIANTS
    OwnConfiguration
