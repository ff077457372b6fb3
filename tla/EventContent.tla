---------------------------- MODULE EventContent ----------------------------
(***************************************************************************)
(* What a copy shows of its event: a rule as it is stored and read, its    *)
(* filters (internal/filter), its transformers (internal/transformation)   *)
(* in their order, the comparison with the copy that exists                *)
(* (internal/models/event.go), and the conversions to and from Google      *)
(* (internal/adapter/google).  One event and its copy; CalendarSync, which *)
(* has many, takes their contents as one text.                             *)
(***************************************************************************)
EXTENDS Integers, Sequences, FiniteSets, SequencesExt

CONSTANTS
    Words,         \* texts of events
    Addresses,     \* of people who are invited
    Cases,         \* pairs of a rule and an event to begin with
    Saves,         \* rules its user may save later
    Edits,         \* what the event may become
    MaxChanges,    \* bound: edits and saves
    Excluded,      \* titles that the ExcludeRegexp matches
    FreeDays,      \* ExcludeDays, as days of the week 0 .. 6
    Frame,         \* hours of the filters TimeFrame and TimeFilter, as a pair
    Invalid,       \* addresses that mail.ParseAddress refuses
    Markup,        \* a description that the sanitizer makes Plain
    Plain,
    Placeholder, Busy, NewTitle, Prefix, Link,   \* texts that CalendarSync writes
    None           \* no text, no event

\* What Google and the database may hold.  A rule may name filters and
\* transformers that are unknown.
Rule == [payload : {"full", "busy"}, filters : SUBSET STRING, transformations : SUBSET STRING]

\* An address that leads nowhere.
Dummy(address) == <<address, "localhost">>

\* What an event may be on its way to a copy.
Content == [title : Seq(Words), description : Seq(Words), location : Words \cup {None},
            attendees : SUBSET (Addresses \cup {Dummy(a) : a \in Addresses}), reminders : SUBSET Int,
            link : Words \cup {None}, accepted : BOOLEAN, allDay : BOOLEAN, busy : BOOLEAN,
            start : Int, end : Int, metadata : BOOLEAN]

\* What Google has stored; every event that is listed gets metadata.
Event == {e \in Content : /\ e.attendees \subseteq Addresses
                          /\ e.reminders \subseteq Nat /\ IsFiniteSet(e.reminders)
                          /\ e.start <= e.end /\ e.metadata}

\* What a copy shows of an event.
Shown == [title : Seq(Words), description : Seq(Words), location : Words \cup {None},
          attendees : SUBSET {Dummy(a) : a \in Addresses}, reminders : SUBSET Nat,
          allDay : BOOLEAN, busy : BOOLEAN, start : Int, end : Int]

ASSUME RuleAssumption  == Cases \subseteq Rule \X Event /\ Saves \subseteq Rule
ASSUME EventAssumption == Edits \subseteq Event
ASSUME WordAssumption  == {Plain, Placeholder, Busy, NewTitle, Prefix, Link} \subseteq Words
ASSUME NoneAssumption  == None \notin Content /\ None \notin Shown

\* Hours of a day, 24 included; the first may be the later one, and no hour is in
\* the frame then.
ASSUME FrameAssumption == Frame \in (0 .. 24) \X (0 .. 24)

VARIABLES
    rule,      \* as stored: payload, filters, transformations
    source,    \* the event, as Google stores it
    copy,      \* its copy, likewise, or None
    job,       \* the run of the rule
    settled,   \* a run has succeeded, and nothing that counts has changed since
    changes

vars == <<rule, source, copy, job, settled, changes>>

NoJob == [at |-> "idle", rule |-> None, quiet |-> TRUE]

Init ==
    /\ \E c \in Cases : rule = c[1] /\ source = c[2]
    /\ copy = None
    /\ job = NoJob
    /\ settled = FALSE
    /\ changes = 0

Text(t) == IF t = None THEN <<>> ELSE <<t>>

-----------------------------------------------------------------------------
(* Google's events, and models.Event.  Both have start and end, in minutes *)
(* since a Monday began; reminders are minutes before the start there, and *)
(* points in time here.                                                    *)

calendarEventToEvent(e) == [e EXCEPT !.reminders = {e.start - m : m \in e.reminders}]

\* Mutant: the reminders as points in time.
StoredPoints(ev) == [ev EXCEPT !.link = None, !.accepted = TRUE]

\* CreateEvent and UpdateEvent; a copy has no meeting, and nobody declines it.
Stored(ev) == [ev EXCEPT !.reminders = {ev.start - t : t \in ev.reminders},
                         !.link = None, !.accepted = TRUE]

-----------------------------------------------------------------------------
(* Filters; TRUE keeps the event *)

Minutes == 24 * 60   \* of a day

Hour(t) == (t % Minutes) \div 60

\* Mutant: without the case of an event that begins before the frame.
TimeFrameOfStart(ev) == ev.allDay \/ Hour(ev.start) \in Frame[1] .. Frame[2]

TimeFrame(ev) ==
    \/ ev.allDay
    \/ Hour(ev.start) \in Frame[1] .. Frame[2]
    \/ Hour(ev.end) \in Frame[1] .. Frame[2]

TimeFilter(ev) == ev.allDay \/ ~(Hour(ev.start) >= Frame[1] /\ Hour(ev.end) <= Frame[2])

DeclinedEvents(ev)   == ev.accepted
FreeEvents(ev)       == ev.busy
AllDayEvents(ev)     == ~ev.allDay
BusyAllDayEvents(ev) == ev.allDay => ~ev.busy
FreeAllDayEvents(ev) == ev.allDay => ev.busy
Days(ev)             == (ev.start \div Minutes) % 7 \notin FreeDays
RegexTitle(ev)       == ev.title \notin {Text(t) : t \in Excluded}

Keeps(name, ev) ==
    CASE name = "TimeFrame"        -> TimeFrame(ev)
      [] name = "TimeFilter"       -> TimeFilter(ev)
      [] name = "DeclinedEvents"   -> DeclinedEvents(ev)
      [] name = "FreeEvents"       -> FreeEvents(ev)
      [] name = "AllDayEvents"     -> AllDayEvents(ev)
      [] name = "BusyAllDayEvents" -> BusyAllDayEvents(ev)
      [] name = "FreeAllDayEvents" -> FreeAllDayEvents(ev)
      [] name = "Days"             -> Days(ev)
      [] name = "RegexTitle"       -> RegexTitle(ev)

filterConfigMapping == {"TimeFrame", "TimeFilter", "DeclinedEvents", "FreeEvents", "AllDayEvents",
                        "BusyAllDayEvents", "FreeAllDayEvents", "Days", "RegexTitle"}

\* Unknown filters are skipped.
FilterEvent(filters, ev) == \A name \in filters \cap filterConfigMapping : Keeps(name, ev)

-----------------------------------------------------------------------------
(* Transformers: each makes a new copy of the event and the copy so far *)

NewSyncEvent(origin) ==
    [origin EXCEPT !.title = <<Placeholder>>, !.description = <<>>, !.location = None,
                   !.attendees = {}, !.reminders = {}, !.link = None, !.accepted = FALSE]

\* The event that comes with an error: empty, and without metadata.
Nothing == [title |-> <<>>, description |-> <<>>, location |-> None, attendees |-> {}, reminders |-> {},
            link |-> None, accepted |-> FALSE, allDay |-> FALSE, busy |-> FALSE,
            start |-> 0, end |-> 0, metadata |-> FALSE]

Sanitized(text) == IF text = <<Markup>> THEN <<Plain>> ELSE text

KeepAttendees(ev, sink) ==
    IF ev.attendees \cap Invalid # {} THEN Nothing
    ELSE [sink EXCEPT !.attendees = {Dummy(a) : a \in ev.attendees}]

KeepLocation(ev, sink)    == [sink EXCEPT !.location = ev.location]
KeepReminders(ev, sink)   == [sink EXCEPT !.reminders = ev.reminders]
KeepDescription(ev, sink) == [sink EXCEPT !.description = Sanitized(ev.description)]
KeepMeetingLink(ev, sink) == [sink EXCEPT !.description = Text(ev.link) \o @]
KeepTitle(ev, sink)       == [sink EXCEPT !.title = ev.title]
PrefixTitle(sink)         == [sink EXCEPT !.title = <<Prefix>> \o @]
ReplaceTitle(sink, title) == [sink EXCEPT !.title = <<title>>]

AddOriginalLink(sink) ==
    IF ~sink.metadata \/ Link \in ToSet(sink.description) THEN sink
    ELSE [sink EXCEPT !.description = @ \o <<Link>>]

Transform(name, ev, sink, title) ==
    CASE name = "KeepAttendees"   -> KeepAttendees(ev, sink)
      [] name = "KeepLocation"    -> KeepLocation(ev, sink)
      [] name = "KeepReminders"   -> KeepReminders(ev, sink)
      [] name = "KeepDescription" -> KeepDescription(ev, sink)
      [] name = "KeepMeetingLink" -> KeepMeetingLink(ev, sink)
      [] name = "AddOriginalLink" -> AddOriginalLink(sink)
      [] name = "KeepTitle"       -> KeepTitle(ev, sink)
      [] name = "PrefixTitle"     -> PrefixTitle(sink)
      [] name = "ReplaceTitle"    -> ReplaceTitle(sink, title)

transformerOrder ==
    <<"KeepAttendees", "KeepLocation", "KeepReminders", "KeepDescription", "KeepMeetingLink",
      "AddOriginalLink", "KeepTitle", "PrefixTitle", "ReplaceTitle">>

\* The places of those that are configured, however the user has listed them.
TransformerFactory(names) == {i \in 1 .. Len(transformerOrder) : transformerOrder[i] \in names}

\* Errors are ignored.
TransformEvent(names, title, ev) ==
    LET sinks[i \in 0 .. Len(transformerOrder)] ==
          IF i = 0 THEN NewSyncEvent(ev)
          ELSE IF i \in TransformerFactory(names) THEN Transform(transformerOrder[i], ev, sinks[i - 1], title)
          ELSE sinks[i - 1]
    IN sinks[Len(transformerOrder)]

payloadTransformations(r) ==
    IF r.payload = "busy" THEN [names |-> {"ReplaceTitle"}, title |-> Busy]
    ELSE [names |-> r.transformations, title |-> NewTitle]

Transformed(r, ev) ==
    LET t == payloadTransformations(r) IN TransformEvent(t.names, t.title, ev)

-----------------------------------------------------------------------------
(* The difference, as far as it depends on contents *)

\* Mutant: any number of reminders is taken for the default of the sink.
SameRemindersOrNone(a, b) == a = {} \/ a = b

\* A single reminder is taken for the default of the sink calendar.
SameReminders(a, b) == a = b \/ (a = {} /\ Cardinality(b) = 1)

\* The start of an all-day event counts as a date, which it is here anyway.
IsSameEvent(a, b) ==
    /\ a.title = b.title /\ a.description = b.description /\ a.location = b.location
    /\ a.allDay = b.allDay /\ a.busy = b.busy /\ a.start = b.start /\ a.end = b.end
    /\ SameReminders(a.reminders, b.reminders)
    /\ a.attendees = b.attendees

\* The request a run makes.  An event without metadata is none.
Request(r, e, c) ==
    LET ev     == calendarEventToEvent(e)
        wanted == Transformed(r, ev)
    IN IF ~FilterEvent(r.filters, ev) \/ ~wanted.metadata
       THEN IF c = None THEN "none" ELSE "delete"
       ELSE IF c = None THEN "create"
       ELSE IF IsSameEvent(wanted, calendarEventToEvent(c)) THEN "none" ELSE "update"

-----------------------------------------------------------------------------
(* Runs: the rule is read in three statements *)

Reading(at, j) == job.at = at /\ job' = j /\ UNCHANGED <<rule, source, copy, settled, changes>>

GetRule ==
    Reading("idle", [NoJob EXCEPT !.at = "filters", !.rule = rule])

loadFilters ==
    Reading("filters", [job EXCEPT !.at = "transformations", !.rule.filters = rule.filters])

loadTransformations ==
    Reading("transformations", [job EXCEPT !.at = "sync", !.rule.transformations = rule.transformations])

\* The minutes of a reminder at the start are left out of an update, but Google
\* wants them: the request is refused.
Accepted(request, wanted) == request = "update" => wanted.start \notin wanted.reminders

Synchronise ==
    /\ job.at = "sync"
    /\ LET wanted  == Transformed(job.rule, calendarEventToEvent(source))
           request == Request(job.rule, source, copy)
       IN /\ Accepted(request, wanted)
          /\ copy' = CASE request = "none" -> copy
                       [] request = "delete" -> None
                       [] request \in {"create", "update"} -> Stored(wanted)
    /\ settled' = job.quiet
    /\ job' = NoJob
    /\ UNCHANGED <<rule, source, changes>>

\* A statement or a request fails, or the process dies.
GiveUp ==
    /\ job.at # "idle"
    /\ job' = NoJob
    /\ UNCHANGED <<rule, source, copy, settled, changes>>

-----------------------------------------------------------------------------
(* People *)

Change == changes < MaxChanges /\ changes' = changes + 1

UpdateRule(r) ==
    /\ Change
    /\ rule' = r
    /\ settled' = FALSE
    /\ job' = [job EXCEPT !.quiet = FALSE]
    /\ UNCHANGED <<source, copy>>

\* What a copy is to show, field by field; None if there is to be no copy.
Wanted(r, e) ==
    LET busy  == r.payload = "busy"
        Has(n) == ~busy /\ n \in r.transformations
        Part(n, text) == IF Has(n) THEN text ELSE <<>>
        body  == Part("KeepMeetingLink", Text(e.link)) \o Part("KeepDescription", Sanitized(e.description))
        ev    == calendarEventToEvent(e)
    IN IF ~FilterEvent(r.filters, ev) \/ (Has("KeepAttendees") /\ e.attendees \cap Invalid # {}) THEN None
       ELSE [start |-> e.start, end |-> e.end, allDay |-> e.allDay, busy |-> e.busy,
             title |-> IF busy THEN <<Busy>> ELSE IF Has("ReplaceTitle") THEN <<NewTitle>>
                       ELSE Part("PrefixTitle", <<Prefix>>) \o IF Has("KeepTitle") THEN e.title ELSE <<Placeholder>>,
             description |-> body \o IF Link \in ToSet(body) THEN <<>> ELSE Part("AddOriginalLink", <<Link>>),
             location |-> IF Has("KeepLocation") THEN e.location ELSE None,
             attendees |-> IF Has("KeepAttendees") THEN {Dummy(a) : a \in e.attendees} ELSE {},
             reminders |-> IF Has("KeepReminders") THEN e.reminders ELSE {}]

\* An event the rule sees as before leaves it settled.
EditSource(e) ==
    /\ Change
    /\ e # source
    /\ source' = e
    /\ settled' = (settled /\ Wanted(rule, e) = Wanted(rule, source))
    /\ UNCHANGED <<rule, copy, job>>

EditCopy ==
    /\ Change
    /\ copy # None
    /\ copy' \in {[copy EXCEPT !.title = source.title], [copy EXCEPT !.reminders = {10}],
                  [copy EXCEPT !.reminders = {}], [copy EXCEPT !.attendees = {}]}
    /\ settled' = FALSE
    /\ UNCHANGED <<rule, source, job>>

Next ==
    \/ GetRule \/ loadFilters \/ loadTransformations \/ Synchronise \/ GiveUp
    \/ \E r \in Saves : UpdateRule(r)
    \/ \E e \in Edits : EditSource(e)
    \/ EditCopy

Spec == Init /\ [][Next]_vars

-----------------------------------------------------------------------------
(* Properties *)

\* The copy is as wanted; but for a reminder that somebody has added to a copy
\* without any.
Shows(c, w) ==
    IF w = None THEN c = None
    ELSE /\ c # None
         /\ \A f \in DOMAIN w \ {"reminders"} : c[f] = w[f]
         /\ c.reminders = w.reminders \/ (w.reminders = {} /\ Cardinality(c.reminders) = 1)

\* Whatever earlier runs have left there, with the rule as it was before or with
\* parts of two versions of it (GetRule), a run that has read the rule as it is
\* makes the copy show exactly what the rule keeps of the event, by the fields
\* the rule names and in whichever order it names them (FilterEvent,
\* TransformEvent, IsSameEvent, CreateEvent, UpdateEvent).
SyncShowsWanted ==
    [][Synchronise /\ job.quiet => Shows(copy', Wanted(rule, source))]_vars

\* The next run sends nothing, also after edits of what the rule hides: a copy
\* that Google has stored and listed again compares equal to what made it
\* (calendarEventToEvent, IsSameEvent), and hidden fields do not leak into the
\* time at which a copy was updated.
SettledNeedsNothing == settled => Request(rule, source, copy) = "none"

\* An event takes the minutes from its start up to its end, without the last.
During(ev, t) == ev.start <= t /\ t < ev.end

\* From the one hour to the other, on any day.
Between(first, last, t) == 60 * first <= t % Minutes /\ t % Minutes < 60 * last

\* An event that begins and ends on one day; midnight belongs to the next.
WithinDay(ev) == ev.start \div Minutes = ev.end \div Minutes

\* Both filters look at the hours of the two ends only, and yet: of events no
\* longer than the frame TimeFrame keeps each that takes a minute of it, also over
\* midnight, and of any length none that neither takes nor touches one of it or of
\* the hour that begins at HourEnd.  Of events within a day TimeFilter removes each
\* that lies in the frame, and none with a minute outside the frame and that hour.
TimeFiltersKeepHours ==
    LET ev     == source
        frame  == 60 * (Frame[2] - Frame[1])
    IN ~ev.allDay =>
         /\ /\ ev.end - ev.start <= frame
            /\ \E t \in ev.start .. ev.end : During(ev, t) /\ Between(Frame[1], Frame[2], t)
            => Keeps("TimeFrame", ev)
         /\ Keeps("TimeFrame", ev) =>
              \E t \in ev.start .. ev.end : Between(Frame[1], Frame[2] + 1, t)
         /\ /\ WithinDay(ev) /\ ev.start < ev.end
            /\ \A t \in ev.start .. ev.end : During(ev, t) => Between(Frame[1], Frame[2], t)
            => ~Keeps("TimeFilter", ev)
         /\ WithinDay(ev) /\ ~Keeps("TimeFilter", ev) =>
              \A t \in ev.start .. ev.end : Between(Frame[1], Frame[2] + 1, t)
=============================================================================
