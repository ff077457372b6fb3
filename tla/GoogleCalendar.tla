--------------------------- MODULE GoogleCalendar ---------------------------
(***************************************************************************)
(* The calendars, and what internal/adapter/google does with them: the     *)
(* events it lists, and the three requests that change an event.  A title, *)
(* a description, and all other contents of an event are one text.         *)
(***************************************************************************)
EXTENDS Naturals

CONSTANTS
    Calendars,
    Originals,     \* IDs of the events people create, and are invited to
    Texts,         \* contents of events
    LastDay,       \* events take place on the days 0 .. LastDay
    NoEvent,       \* no event has this ID in this calendar
    NoProperties,  \* an event without CalendarSync's private properties
    KeepsIds       \* whether the ID of a deleted event stays taken

VARIABLES
    calendar,   \* calendar[c][id]: the event, or NoEvent
    trash       \* trash[c]: the IDs of deleted events

calendars == <<calendar, trash>>

\* "cs<source>a<SyncID>"; the SyncID of an event stands for its ID.
ManagedEventID(source, sync) == <<source, sync>>

Copies(ids) == {ManagedEventID(s, i) : s \in Calendars, i \in ids}

\* Bound: no copies of copies of copies.
EventIDs == Originals \cup Copies(Originals) \cup Copies(Copies(Originals))

Properties == [sync : EventIDs, source : Calendars]

Stored == [text : Texts, day : 0 .. LastDay, properties : Properties \cup {NoProperties}]

\* People's events do not have IDs that CalendarSync makes.
ASSUME CalendarAssumption ==
    /\ LastDay \in Nat /\ KeepsIds \in BOOLEAN
    /\ Originals \cap Copies(EventIDs) = {}
    /\ NoProperties \notin Properties /\ NoEvent \notin Stored

CalendarTypeOK ==
    /\ calendar \in [Calendars -> [EventIDs -> Stored \cup {NoEvent}]]
    /\ trash \in [Calendars -> SUBSET EventIDs]

\* People have used the calendars, and no run has been there.
CalendarInit ==
    /\ \E own \in [Calendars \X Originals -> {NoEvent} \cup
                     [text : Texts, day : 0 .. LastDay, properties : {NoProperties}]] :
         calendar = [c \in Calendars |-> [id \in EventIDs |->
                       IF id \in Originals THEN own[c, id] ELSE NoEvent]]
    /\ trash = [c \in Calendars |-> {}]

Has(c, id) == calendar[c][id] # NoEvent

IsManagedEventIDForSource(id, source) ==
    \E i \in EventIDs : id = ManagedEventID(source, i)

-----------------------------------------------------------------------------
(* models.Event: an event as it was listed, or as it is to be stored *)

Event == [id : EventIDs, text : Texts, day : 0 .. LastDay,
          sync : EventIDs, source : Calendars, managed : BOOLEAN]

\* With ensureMetadata: an event without properties is its own origin.
calendarEventToEvent(c, id) ==
    LET e == calendar[c][id]
        m == IF e.properties # NoProperties THEN e.properties ELSE [sync |-> id, source |-> c]
    IN [id |-> id, text |-> e.text, day |-> e.day,
        sync |-> m.sync, source |-> m.source, managed |-> e.properties # NoProperties]

ListEvents(c, days) ==
    {calendarEventToEvent(c, id) : id \in {i \in EventIDs : Has(c, i) /\ calendar[c][i].day \in days}}

StoredEvent(ev) == [text |-> ev.text, day |-> ev.day,
                    properties |-> [sync |-> ev.sync, source |-> ev.source]]

-----------------------------------------------------------------------------
(* Requests; CanX says whether the request succeeds *)

Store(c, id, e) == calendar' = [calendar EXCEPT ![c][id] = e]

CreatedId(ev) == ManagedEventID(ev.source, ev.sync)

CanCreate(c, ev) == ~Has(c, CreatedId(ev)) /\ ~(KeepsIds /\ CreatedId(ev) \in trash[c])

CreateEvent(c, ev) ==
    /\ CanCreate(c, ev)
    /\ Store(c, CreatedId(ev), StoredEvent(ev))
    /\ UNCHANGED trash

\* "already deleted" is an error here ...
CanUpdate(c, ev) == Has(c, ev.id)

UpdateEvent(c, ev) ==
    /\ CanUpdate(c, ev)
    /\ Store(c, ev.id, StoredEvent(ev))
    /\ UNCHANGED trash

\* ... and a success here.
DeleteEvent(c, ev) ==
    /\ Store(c, ev.id, NoEvent)
    /\ trash' = IF KeepsIds /\ Has(c, ev.id) THEN [trash EXCEPT ![c] = @ \cup {ev.id}] ELSE trash
=============================================================================
