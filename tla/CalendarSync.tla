---------------------------- MODULE CalendarSync ----------------------------
(***************************************************************************)
(* What runs do to calendars (internal/sync/controller.go): each rule      *)
(* copies the events of its source calendar to its target calendar, as its *)
(* filters and transformations say, or cleans them up, while people use    *)
(* the calendars and the other rules run.  The run queue, which lets at    *)
(* most one run of a rule work at a time, is modelled elsewhere.           *)
(***************************************************************************)
EXTENDS GoogleCalendar, FiniteSets

CONSTANTS
    Rules,
    Configs,      \* configurations of a rule a user may save
    Transformers, \* the transformers, by name
    Looks,        \* Looks[ts][text]: what the transformers ts make of a text
    Window,       \* days of the sync window, beginning with today
    PageSize,     \* events on a page of a listing
    Users,        \* what users do: "edit", "rule", and "lose" (properties)
    MaxChanges    \* bound: how often they do it

ASSUME ConfigAssumption ==
    /\ "ReplaceTitle" \in Transformers
    /\ Looks \in [SUBSET Transformers -> [Texts -> Texts]]
    /\ Window \in Nat \ {0} /\ MaxChanges \in Nat
    /\ Configs \subseteq [source : Calendars, target : Calendars, payload : {"full", "busy"},
                          transformers : SUBSET Transformers, accepts : SUBSET Texts,
                          dryRun : BOOLEAN]

VARIABLES
    rule,     \* the configuration of each rule
    job,      \* the run of each rule
    result,   \* how the last run of each rule ended
    today,
    changes   \* changes users have made so far

vars == <<calendars, rule, job, result, today, changes>>

Days == today .. (today + Window - 1)

\* A request of the pool; 2 where an event is listed twice.
Task == [op : {"create", "update", "delete"}, event : Event, nth : {1, 2}]

\* quiet is a history variable: nobody else has interfered since the run began.
NoJob == [phase |-> "idle", kind |-> "sync", config |-> CHOOSE f \in Configs : TRUE, days |-> {},
          source |-> {}, twice |-> {}, todo |-> {}, failed |-> FALSE, quiet |-> TRUE]

Job == [phase : {"idle", "source", "sink", "tasks"}, kind : {"sync", "cleanup"},
        config : Configs, days : SUBSET Nat, source : SUBSET Event, twice : SUBSET EventIDs,
        todo : SUBSET Task, failed : BOOLEAN, quiet : BOOLEAN]

TypeOK ==
    /\ CalendarTypeOK
    /\ rule \in [Rules -> Configs]
    /\ \A r \in Rules : /\ DOMAIN job[r] = DOMAIN NoJob
                        /\ job[r].config \in Configs
                        /\ job[r].source \subseteq Event /\ job[r].twice \subseteq EventIDs
                        /\ job[r].todo \subseteq Task
    /\ result \in [Rules -> {"none", "success", "failed"}]
    /\ today \in 0 .. LastDay /\ changes \in 0 .. MaxChanges

Init ==
    /\ CalendarInit
    /\ rule \in [Rules -> Configs]
    /\ job = [r \in Rules |-> NoJob]
    /\ result = [r \in Rules |-> "none"]
    /\ today = 0
    /\ changes = 0

Source(r) == job[r].config.source
Target(r) == job[r].config.target

-----------------------------------------------------------------------------
(* The difference of two listings *)

\* Mutant: copies are copied on.
KeepsManaged(f, ev) == ev.text \in f.accepts

\* Events that are copies themselves, and events a filter rejects, are skipped.
Keeps(f, ev) == ~ev.managed /\ ev.text \in f.accepts

\* A busy-only copy has a title and nothing else.
payloadTransformations(f) == IF f.payload = "busy" THEN {"ReplaceTitle"} ELSE f.transformers

\* NewSyncEvent and the transformers: the times and the metadata of the source event.
TransformEvent(f, ev) == [ev EXCEPT !.text = Looks[payloadTransformations(f)][@]]

Transformed(f, listed) == {TransformEvent(f, ev) : ev \in {e \in listed : Keeps(f, e)}}

IsSameEvent(a, b) == a.text = b.text /\ a.day = b.day

\* Mutant: a field is forgotten.
OverwriteDay(ev, by) == [by EXCEPT !.id = ev.id, !.text = ev.text]

Overwrite(ev, by) == [by EXCEPT !.id = ev.id]

\* maps: of the events with one SyncID, the last one listed; listings are ordered
\* by day.
Maps(listed) ==
    LET syncs == {ev.sync : ev \in listed}
        last(s) == {ev \in listed : ev.sync = s /\ \A o \in listed : o.sync = s => o.day <= ev.day}
    IN {m \in [syncs -> listed] : \A s \in syncs : m[s] \in last(s)}

ToCreate(f, source, sink) ==
    {ev \in source : ev.sync \notin DOMAIN sink /\ ev.source # f.target}

\* Mutant: whoever synced it.
ToUpdateAny(f, source, sink) ==
    {Overwrite(sink[ev.sync], ev) :
       ev \in {e \in source : e.sync \in DOMAIN sink /\ ~IsSameEvent(e, sink[e.sync])}}

ToUpdate(f, source, sink) ==
    {Overwrite(sink[ev.sync], ev) :
       ev \in {e \in source : /\ e.sync \in DOMAIN sink
                              /\ ~IsSameEvent(e, sink[e.sync])
                              /\ sink[e.sync].source = f.source}}

\* Mutant: whoever synced it.
ToDeleteAny(f, source, listed) ==
    {ev \in listed : ~ \E s \in source : s.sync = ev.sync}

ToDelete(f, source, listed) ==
    {ev \in listed : /\ ~ \E s \in source : s.sync = ev.sync
                     /\ ev.source = f.source}

\* An event listed twice makes two tasks; twice holds the SyncIDs of such events.
Tasks(op, events, twice) ==
    {[op |-> op, event |-> ev, nth |-> 1] : ev \in events} \cup
    {[op |-> op, event |-> ev, nth |-> 2] : ev \in {e \in events : e.sync \in twice}}

\* All tasks of a sync, for one way to resolve events with the same SyncID.
SyncTasks(f, source, twice, listed, twiceInSink, sink) ==
    Tasks("create", ToCreate(f, source, sink), twice)
      \cup Tasks("update", ToUpdate(f, source, sink), twice)
      \cup Tasks("delete", ToDelete(f, source, listed), twiceInSink)

-----------------------------------------------------------------------------
(* Cleanup *)

\* Mutant: of every rule.
MatchesOrphans(f) == TRUE

\* Of a rule whose copies can be told from their originals.
cleanupCanMatchOrphans(f) ==
    payloadTransformations(f) \cap {"PrefixTitle", "ReplaceTitle", "AddOriginalLink"} # {}

\* Mutant: only by the properties.
DeletesByProperties(f, source, ev) == ev.managed /\ ev.source = f.source

shouldDeleteDuringCleanup(f, source, ev) ==
    \/ IsManagedEventIDForSource(ev.id, f.source)
    \/ ev.source = f.source
    \/ cleanupCanMatchOrphans(f) /\ \E s \in source : IsSameEvent(s, ev)

CleanupTasks(f, source, listed, twiceInSink) ==
    Tasks("delete", {ev \in listed : shouldDeleteDuringCleanup(f, source, ev)}, twiceInSink)

-----------------------------------------------------------------------------
(* Runs *)

\* The other runs that a change of an event may concern: their source has changed,
\* or a copy of theirs, or an event that stands in its place.
Concerns(r, c, id) ==
    \/ c = Source(r)
    \/ c = Target(r) /\ \/ IsManagedEventIDForSource(id, Source(r))
                        \/ \E ev \in job[r].source : \/ ev.sync = id
                                                     \/ \E s \in Calendars : id = ManagedEventID(s, ev.sync)

Disturbed(j, c, id) ==
    [r \in Rules |-> IF Concerns(r, c, id) THEN [j[r] EXCEPT !.quiet = FALSE] ELSE j[r]]

\* executeRun has read the rule and the clock.
StartRun(r, kind) ==
    /\ job[r].phase = "idle"
    /\ job' = [job EXCEPT ![r] = [NoJob EXCEPT !.phase = "source", !.kind = kind, !.config = rule[r],
                                    !.days = IF kind = "sync" THEN Days ELSE 0 .. LastDay]]
    /\ UNCHANGED <<calendars, rule, result, today, changes>>

\* A listing of more than a page has the events of the first page twice: their
\* SyncIDs, for each way to order the events of a day.
Twice(listed) ==
    IF Cardinality(listed) <= PageSize THEN {{}}
    ELSE {{ev.sync : ev \in page} :
            page \in {p \in SUBSET listed : /\ Cardinality(p) = PageSize
                                            /\ \A a \in p, b \in listed \ p : a.day <= b.day}}

LoadSource(r) ==
    /\ job[r].phase = "source"
    /\ LET listed == ListEvents(Source(r), job[r].days) IN
       \E twice \in Twice(listed) :
         job' = [job EXCEPT ![r].phase = "sink", ![r].source = listed, ![r].twice = twice]
    /\ UNCHANGED <<calendars, rule, result, today, changes>>

\* The sink is listed and the tasks are made.
LoadSink(r) ==
    /\ job[r].phase = "sink"
    /\ LET f      == job[r].config
           listed == ListEvents(f.target, job[r].days)
           source == Transformed(f, job[r].source)
       IN \E twice \in Twice(listed), m \in Maps(listed) :
            LET todo == IF job[r].kind = "cleanup" THEN CleanupTasks(f, source, listed, twice)
                        ELSE IF f.dryRun THEN {}
                        ELSE SyncTasks(f, source, job[r].twice, listed, twice, m)
            IN job' = [job EXCEPT ![r].phase = "tasks", ![r].todo = todo]
    /\ UNCHANGED <<calendars, rule, result, today, changes>>

Perform(c, t) == CASE t.op = "create" -> CreateEvent(c, t.event)
                   [] t.op = "update" -> UpdateEvent(c, t.event)
                   [] t.op = "delete" -> DeleteEvent(c, t.event)

Refused(c, t) == \/ t.op = "create" /\ ~CanCreate(c, t.event)
                 \/ t.op = "update" /\ ~CanUpdate(c, t.event)

Touched(t) == IF t.op = "create" THEN CreatedId(t.event) ELSE t.event.id

\* The pool executes its tasks in any order.
DoTask(r, t) ==
    /\ t \in job[r].todo
    /\ \/ /\ Perform(Target(r), t)
          /\ job' = [Disturbed(job, Target(r), Touched(t)) EXCEPT
                       ![r] = [job[r] EXCEPT !.todo = @ \ {t}]]
       \/ /\ Refused(Target(r), t)
          /\ job' = [job EXCEPT ![r].todo = @ \ {t}, ![r].failed = TRUE]
          /\ UNCHANGED calendars
    /\ UNCHANGED <<rule, result, today, changes>>

\* The request fails for another reason.
FailTask(r, t) ==
    /\ t \in job[r].todo
    /\ job' = [job EXCEPT ![r].todo = @ \ {t}, ![r].failed = TRUE]
    /\ UNCHANGED <<calendars, rule, result, today, changes>>

\* Mutant: the errors of the pool are not returned.
FinishAnyway(r) ==
    /\ job[r].phase = "tasks"
    /\ job[r].todo = {}
    /\ result' = [result EXCEPT ![r] = "success"]
    /\ job' = [job EXCEPT ![r] = NoJob]
    /\ UNCHANGED <<calendars, rule, today, changes>>

Finish(r) ==
    /\ job[r].phase = "tasks"
    /\ job[r].todo = {}
    /\ result' = [result EXCEPT ![r] = IF job[r].failed THEN "failed" ELSE "success"]
    /\ job' = [job EXCEPT ![r] = NoJob]
    /\ UNCHANGED <<calendars, rule, today, changes>>

\* A listing fails, the lock is lost, the worker dies.
GiveUp(r) ==
    /\ job[r].phase # "idle"
    /\ result' = [result EXCEPT ![r] = "failed"]
    /\ job' = [job EXCEPT ![r] = NoJob]
    /\ UNCHANGED <<calendars, rule, today, changes>>

-----------------------------------------------------------------------------
(* People and time *)

Change(what) == what \in Users /\ changes < MaxChanges /\ changes' = changes + 1

\* An event is created, or edited; a copy may be edited as well.
PutEvent(c, id, text, day) ==
    /\ Change("edit")
    /\ id \in Originals \/ Has(c, id)
    /\ LET old == IF Has(c, id) THEN calendar[c][id].properties ELSE NoProperties
           new == [text |-> text, day |-> day, properties |-> old]
       IN calendar[c][id] # new /\ Store(c, id, new)
    /\ job' = Disturbed(job, c, id)
    /\ UNCHANGED <<trash, rule, result, today>>

RemoveEvent(c, id) ==
    /\ Change("edit")
    /\ Has(c, id)
    /\ DeleteEvent(c, [id |-> id])
    /\ job' = Disturbed(job, c, id)
    /\ UNCHANGED <<rule, result, today>>

\* The private properties of an event get lost (TestCleanUpDeletesManagedIDWithoutMetadata).
\* Bound: those of a copy of a copy do not.
LoseProperties(c, id) ==
    /\ Change("lose")
    /\ id \notin Copies(Copies(Originals))
    /\ Has(c, id) /\ calendar[c][id].properties # NoProperties
    /\ calendar' = [calendar EXCEPT ![c][id].properties = NoProperties]
    /\ job' = Disturbed(job, c, id)
    /\ UNCHANGED <<trash, rule, result, today>>

\* Mutant: a column is bound to the wrong value.
ChangeRuleSource(r, f) ==
    /\ Change("rule")
    /\ rule[r] # f
    /\ rule' = [rule EXCEPT ![r] = [f EXCEPT !.target = f.source]]
    /\ UNCHANGED <<calendars, job, result, today>>

ChangeRule(r, f) ==
    /\ Change("rule")
    /\ rule[r] # f
    /\ rule' = [rule EXCEPT ![r] = f]
    /\ UNCHANGED <<calendars, job, result, today>>

NextDay ==
    /\ today + Window <= LastDay
    /\ today' = today + 1
    /\ UNCHANGED <<calendars, rule, job, result, changes>>

UserStep ==
    \/ \E c \in Calendars, id \in EventIDs :
         \/ \E text \in Texts, day \in 0 .. LastDay : PutEvent(c, id, text, day)
         \/ RemoveEvent(c, id)
         \/ LoseProperties(c, id)
    \/ \E r \in Rules, f \in Configs : ChangeRule(r, f)

RunStep(r) ==
    \/ \E kind \in {"sync", "cleanup"} : StartRun(r, kind)
    \/ LoadSource(r) \/ LoadSink(r)
    \/ \E t \in job[r].todo : DoTask(r, t) \/ FailTask(r, t)
    \/ Finish(r) \/ GiveUp(r)

Next == UserStep \/ NextDay \/ \E r \in Rules : RunStep(r)

Spec == Init /\ [][Next]_vars

\* A sync none of whose steps fails for a reason of its own.
SyncStep(r) ==
    \/ StartRun(r, "sync") \/ LoadSource(r) \/ LoadSink(r)
    \/ \E t \in job[r].todo : DoTask(r, t)
    \/ Finish(r)

\* Every rule is synced again and again.
FairSpec == Spec /\ \A r \in Rules : WF_vars(SyncStep(r))

-----------------------------------------------------------------------------
(* Properties *)

\* What a sync of the configuration makes of the events of the source ...
Wanted(f, days) == Transformed(f, ListEvents(f.source, days))

Own(f, k) == k.managed /\ k.source = f.source

\* ... is in the target; an event that somebody else has put there under the same
\* SyncID (an invitation, the copy of another source) is left to him ...
Copied(f, days, ev) ==
    LET sink == ListEvents(f.target, days) IN
    \E k \in sink :
       /\ k.sync = ev.sync
       /\ Own(f, k) => IsSameEvent(k, ev) \/ \E o \in sink : o.sync = k.sync /\ ~Own(f, o)

\* ... and no other copy is.
NoneLeftOver(f, days) ==
    \A k \in ListEvents(f.target, days) :
       Own(f, k) => \E ev \in Wanted(f, days) : ev.sync = k.sync

Mirrored(f, days) ==
    /\ \A ev \in Wanted(f, days) : Copied(f, days, ev)
    /\ NoneLeftOver(f, days)

Succeeds(r, kind) ==
    Finish(r) /\ result'[r] = "success" /\ job[r].kind = kind /\ job[r].quiet

\* A sync that succeeds has made the target what it should be, in its window,
\* although it compares two listings of different moments and executes its tasks
\* later and in any order; unless somebody changed the events it is about in the
\* meantime (SynchroniseTimeframe, diffEvents, the requests of the client).
SyncIsExact ==
    [][\A r \in Rules : Succeeds(r, "sync") /\ ~job[r].config.dryRun
                          => Mirrored(job[r].config, job[r].days)]_vars

\* A cleanup that succeeds leaves no copy of its source in its target: not
\* outside of the sync window, not if a filter rejects it now, not if it lost its
\* properties (CleanUp, shouldDeleteDuringCleanup).
CleanupIsComplete ==
    [][\A r \in Rules : Succeeds(r, "cleanup") =>
         \A id \in EventIDs : IsManagedEventIDForSource(id, Source(r)) => ~Has(Target(r), id)]_vars

\* A rule that marks its copies, with a title or a link.
Marks(f) == \/ f.payload = "busy"
            \/ \E mark \in {"PrefixTitle", "ReplaceTitle", "AddOriginalLink"} : mark \in f.transformers

\* A run changes nothing but the copies of its source: no event of its user, and
\* no copy of another source, whatever happened since it listed the events.  Only
\* a cleanup of a rule that marks its copies may also take an event which, when it
\* was listed, looked like the copy of one (TestCleanUpDeletesOrphanedPrefixedEvents).
OnlyOwnCopies ==
    [][\A r \in Rules : \A t \in job[r].todo : DoTask(r, t) =>
         \A c \in Calendars, id \in EventIDs : calendar'[c][id] # calendar[c][id] =>
           /\ c = Target(r)
           /\ \/ IsManagedEventIDForSource(id, Source(r))
              \/ /\ job[r].kind = "cleanup" /\ Marks(job[r].config)
                 /\ \E s \in Transformed(job[r].config, job[r].source) : IsSameEvent(s, t.event)]_vars

\* Copies are never copied on: while nobody changes a rule, every copy comes from
\* the source of a rule into its calendar, also where rules form a chain.
CopiesAreDirect ==
    "rule" \notin Users =>
      \A c, s \in Calendars, id \in EventIDs :
        Has(c, id) /\ IsManagedEventIDForSource(id, s) =>
          \E r \in Rules : rule[r].source = s /\ rule[r].target = c

\* The copy cannot be created, because its ID is taken; and it is not listed.
Lost(f, days, ev) ==
    /\ ~CanCreate(f.target, ev)
    /\ \A k \in ListEvents(f.target, days) : k.sync # ev.sync

Undisturbed == <>[][\E r \in Rules : SyncStep(r)]_vars

\* Syncs repair what users, failed runs, cleanups and the passing of days have
\* left: once all of that stops, nothing fails, and rules are only synced, the
\* target is and stays what it should be; but for events whose copy has been
\* deleted, moved out of the window or stripped of its properties, while its ID
\* is taken (diffEvents, the errors of CreateEvent and UpdateEvent).
Reflects ==
    Undisturbed => <>[](\A r \in Rules : LET f == rule[r] IN f.dryRun \/
        /\ \A ev \in Wanted(f, Days) : Copied(f, Days, ev) \/ Lost(f, Days, ev)
        /\ NoneLeftOver(f, Days))
=============================================================================
