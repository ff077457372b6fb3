\* One event, its copy, and its rule.
SPECIFICATION Spec
CONSTANTS
    work = work
    test = test
    Desc = Desc
    Room = Room
    Meet = Meet
    ann = ann
    bad = bad
    Words <- MCWords
    Addresses = {ann, bad}
    Cases <- MCCases
    Saves <- MCSaves
    Edits <- MCEdits
    MaxChanges = 2
    Excluded = {test}
    FreeDays = {5, 6}
    Frame <- MCFrame
    Invalid = {bad}
    Markup = Markup
    Plain = Plain
    Placeholder = Placeholder
    Busy = Busy
    NewTitle = NewTitle
    Prefix = Prefix
    Link = Link
    None = None
INVARIANTS
    SettledNeedsNothing
    TimeFiltersKeepHours
PROPERTIES
    SyncShowsWanted
