------------------------ MODULE CalendarSync_proofs ------------------------
(* Theorems about the runs of rules, for any number of calendars, events,    *)
(* rules and configurations, and whatever users do in between.               *)
EXTENDS CalendarSync, TLAPS

USE CalendarAssumption, ConfigAssumption

\* No rule from a calendar to itself: then copies and originals look alike.
Apart == \A f \in Configs : f.source # f.target

\* Events with these IDs may be copied: a copy of a copy keeps its properties.
Copyable == Originals \cup Copies(Originals)

\* The properties of an event tell the calendar that its ID names.
RowsOK ==
    /\ CalendarTypeOK
    /\ \A c \in Calendars, id \in EventIDs : Has(c, id) =>
         /\ calendar[c][id].properties = NoProperties => id \in Copyable
         /\ Apart /\ calendar[c][id].properties # NoProperties =>
              IsManagedEventIDForSource(id, calendar[c][id].properties.source)

\* A task is about an event of the source of its run, or about a copy of one; or
\* it deletes what the orphan match takes for one.
TaskOK(j, t) ==
    /\ t.op = "create" => t.event.source = j.config.source /\ t.event.sync \in Copyable
    /\ t.op = "update" =>
         /\ t.event.source = j.config.source
         /\ Apart => IsManagedEventIDForSource(t.event.id, j.config.source)
    /\ t.op = "delete" /\ Apart =>
         \/ IsManagedEventIDForSource(t.event.id, j.config.source)
         \/ /\ j.kind = "cleanup" /\ Marks(j.config)
            /\ \E s \in Transformed(j.config, j.source) : IsSameEvent(s, t.event)

\* What an event says of itself when it was listed from calendar c.
ListedOK(ev, c) == ~ev.managed => ev.source = c /\ ev.sync \in Copyable

JobOK(j) ==
    /\ j \in Job
    /\ \A ev \in j.source : ListedOK(ev, j.config.source)
    /\ \A t \in j.todo : TaskOK(j, t)
    /\ j.phase # "tasks" => j.todo = {}

IInv ==
    /\ RowsOK
    /\ \A r \in Rules : JobOK(job[r])
    /\ job \in [Rules -> Job] /\ rule \in [Rules -> Configs]
    /\ result \in [Rules -> {"none", "success", "failed"}]
    /\ today \in 0 .. LastDay /\ changes \in 0 .. MaxChanges

-----------------------------------------------------------------------------
(* IDs, events, and listings *)

\* Copies of copyable events have IDs, and none that a person gives.
LEMMA IDs ==
  /\ Copyable \subseteq EventIDs /\ Originals \subseteq EventIDs
  /\ \A s \in Calendars, i \in Copyable :
       ManagedEventID(s, i) \in EventIDs /\ IsManagedEventIDForSource(ManagedEventID(s, i), s)
  /\ \A id \in Originals, s \in Calendars : ~IsManagedEventIDForSource(id, s)
  BY DEF Copyable, EventIDs, Copies, IsManagedEventIDForSource

\* A rule without a run.
LEMMA NoJobOK == Configs # {} => JobOK(NoJob)
  <1> SUFFICES ASSUME Configs # {} PROVE JobOK(NoJob)
    OBVIOUS
  <1> DEFINE f == CHOOSE g \in Configs : TRUE
  <1>1. f \in Configs
    OBVIOUS
  <1> HIDE DEF f
  <1>2. NoJob = [phase |-> "idle", kind |-> "sync", config |-> f, days |-> {}, source |-> {},
                 twice |-> {}, todo |-> {}, failed |-> FALSE, quiet |-> TRUE]
    BY DEF NoJob, f
  <1> QED BY <1>1, <1>2 DEF JobOK, Job

\* Listed events say where they come from.
LEMMA Listed ==
  ASSUME RowsOK, NEW c \in Calendars, NEW days, NEW ev \in ListEvents(c, days)
  PROVE  /\ ev \in Event /\ ListedOK(ev, c)
         /\ ev.managed \/ ev.source = c
         /\ Apart /\ ev.managed => IsManagedEventIDForSource(ev.id, ev.source)
  <1>1. PICK id \in EventIDs : Has(c, id) /\ ev = calendarEventToEvent(c, id)
    BY DEF ListEvents
  <1> DEFINE e == calendar[c][id]
  <1>2. e \in Stored /\ e.text \in Texts /\ e.day \in 0 .. LastDay
        /\ e.properties \in Properties \cup {NoProperties}
    BY <1>1 DEF RowsOK, CalendarTypeOK, Has, Stored
  <1>3. /\ e.properties = NoProperties => id \in Copyable
        /\ Apart /\ e.properties # NoProperties => IsManagedEventIDForSource(id, e.properties.source)
    BY <1>1 DEF RowsOK
  <1>4. CASE e.properties = NoProperties
    <2>1. ev = [id |-> id, text |-> e.text, day |-> e.day, sync |-> id, source |-> c, managed |-> FALSE]
      BY <1>1, <1>4 DEF calendarEventToEvent
    <2> HIDE DEF e
    <2> QED BY <1>2, <1>3, <1>4, <2>1 DEF Event, ListedOK
  <1>5. CASE e.properties # NoProperties
    <2>1. e.properties \in Properties
      BY <1>2, <1>5
    <2>2. ev = [id |-> id, text |-> e.text, day |-> e.day, sync |-> e.properties.sync,
                source |-> e.properties.source, managed |-> TRUE]
      BY <1>1, <1>5 DEF calendarEventToEvent
    <2> HIDE DEF e
    <2> QED BY <1>2, <1>3, <1>5, <2>1, <2>2 DEF Event, ListedOK, Properties
  <1> QED BY <1>4, <1>5

\* Transformers make texts of texts.
LEMMA LooksType ==
  ASSUME NEW f \in Configs, NEW text \in Texts
  PROVE  Looks[payloadTransformations(f)][text] \in Texts
  <1>1. payloadTransformations(f) \in SUBSET Transformers
    BY DEF payloadTransformations
  <1> HIDE DEF payloadTransformations
  <1> QED BY <1>1

\* What a rule makes of listed events has their metadata.
LEMMA TransformedOK ==
  ASSUME NEW f \in Configs, NEW listed \in SUBSET Event, NEW w \in Transformed(f, listed),
         \A ev \in listed : ListedOK(ev, f.source)
  PROVE  w \in Event /\ w.source = f.source /\ w.sync \in Copyable
  <1>1. PICK ev \in listed : Keeps(f, ev) /\ w = TransformEvent(f, ev)
    BY DEF Transformed
  <1> DEFINE text == Looks[payloadTransformations(f)][ev.text]
  <1>2. ev \in Event /\ w = [ev EXCEPT !.text = text]
    BY <1>1 DEF TransformEvent
  <1>4. text \in Texts
    BY <1>2, LooksType DEF Event
  <1> HIDE DEF text
  <1>3. w \in Event /\ w.source = ev.source /\ w.sync = ev.sync
    BY <1>2, <1>4 DEF Event
  <1> QED BY <1>1, <1>3 DEF Keeps, ListedOK

\* Tasks are about the events they are made for.
LEMMA TasksOf ==
  ASSUME NEW op \in {"create", "update", "delete"}, NEW events \in SUBSET Event, NEW twice,
         NEW t \in Tasks(op, events, twice)
  PROVE  t \in Task /\ t.op = op /\ t.event \in events
  BY DEF Tasks, Task

-----------------------------------------------------------------------------
(* The tasks of a sync and of a cleanup *)

\* maps knows listed events only.
LEMMA SinkOf ==
  ASSUME RowsOK, NEW f \in Configs, NEW days, NEW m \in Maps(ListEvents(f.target, days)),
         NEW s \in DOMAIN m
  PROVE  m[s] \in ListEvents(f.target, days)
  BY DEF Maps

\* An event of the target that has the source's metadata is a copy.
LEMMA OwnCopy ==
  ASSUME RowsOK, NEW f \in Configs, NEW days, NEW k \in ListEvents(f.target, days), Apart,
         k.source = f.source
  PROVE  IsManagedEventIDForSource(k.id, f.source)
  <1>1. f.target \in Calendars /\ f.source # f.target
    BY DEF Apart
  <1> QED BY <1>1, Listed

\* A sync makes tasks about events and copies of its source.
LEMMA SyncTasksOK ==
  ASSUME RowsOK, NEW j \in Job, \A ev \in j.source : ListedOK(ev, j.config.source), NEW days,
         NEW tw, NEW tws, NEW m \in Maps(ListEvents(j.config.target, days)),
         NEW t \in SyncTasks(j.config, Transformed(j.config, j.source), tw,
                             ListEvents(j.config.target, days), tws, m)
  PROVE  t \in Task /\ TaskOK(j, t)
  <1> DEFINE f == j.config
             source == Transformed(f, j.source)
             listed == ListEvents(f.target, days)
  <1>1. f \in Configs /\ j.source \in SUBSET Event /\ f.target \in Calendars
    BY DEF Job
  <1>2. \A w \in source : w \in Event /\ w.source = f.source /\ w.sync \in Copyable
    BY <1>1, TransformedOK
  <1>3. listed \subseteq Event
    BY <1>1, Listed
  <1>4. CASE t \in Tasks("create", ToCreate(f, source, m), tw)
    <2>1. ToCreate(f, source, m) \subseteq source
      BY DEF ToCreate
    <2> HIDE DEF f, source, listed
    <2>2. t \in Task /\ t.op = "create" /\ t.event \in source
      BY <1>2, <1>4, <2>1, TasksOf
    <2> QED BY <1>2, <2>2 DEF TaskOK, f
  <1>5. CASE t \in Tasks("update", ToUpdate(f, source, m), tw)
    <2>1. ASSUME NEW u \in ToUpdate(f, source, m)
          PROVE  u \in Event /\ u.source = f.source /\ (Apart => IsManagedEventIDForSource(u.id, f.source))
      <3>1. PICK w \in source : /\ w.sync \in DOMAIN m /\ m[w.sync].source = f.source
                                /\ u = Overwrite(m[w.sync], w)
        BY DEF ToUpdate
      <3>2. m[w.sync] \in listed
        BY <1>1, <3>1, SinkOf
      <3>3. Apart => IsManagedEventIDForSource(m[w.sync].id, f.source)
        BY <1>1, <3>1, <3>2, OwnCopy
      <3>4. m[w.sync].id \in EventIDs
        BY <1>3, <3>2 DEF Event
      <3> HIDE DEF f, source, listed
      <3>5. w \in Event /\ w.source = f.source
        BY <1>2
      <3> QED BY <3>1, <3>3, <3>4, <3>5 DEF Overwrite, Event
    <2> HIDE DEF f, source, listed
    <2>2. ToUpdate(f, source, m) \in SUBSET Event
      BY <2>1
    <2>3. t \in Task /\ t.op = "update" /\ t.event \in ToUpdate(f, source, m)
      BY <1>5, <2>2, TasksOf
    <2> QED BY <2>1, <2>3 DEF TaskOK, f
  <1>6. CASE t \in Tasks("delete", ToDelete(f, source, listed), tws)
    <2>1. ToDelete(f, source, listed) \subseteq {k \in listed : k.source = f.source}
      BY DEF ToDelete
    <2>2. \A k \in listed : Apart /\ k.source = f.source => IsManagedEventIDForSource(k.id, f.source)
      BY <1>1, OwnCopy
    <2> HIDE DEF f, source, listed
    <2>3. t \in Task /\ t.op = "delete" /\ t.event \in ToDelete(f, source, listed)
      BY <1>3, <1>6, <2>1, TasksOf
    <2> QED BY <2>1, <2>2, <2>3 DEF TaskOK, f
  <1> QED BY <1>4, <1>5, <1>6 DEF SyncTasks

\* A cleanup deletes copies of its source, or what looks like one.
LEMMA CleanupTasksOK ==
  ASSUME RowsOK, NEW j \in Job, j.kind = "cleanup", NEW days, NEW tws,
         NEW t \in CleanupTasks(j.config, Transformed(j.config, j.source),
                                ListEvents(j.config.target, days), tws)
  PROVE  t \in Task /\ TaskOK(j, t)
  <1> DEFINE f == j.config
             source == Transformed(f, j.source)
             listed == ListEvents(f.target, days)
             found == {ev \in listed : shouldDeleteDuringCleanup(f, source, ev)}
  <1>1. f \in Configs /\ f.target \in Calendars
    BY DEF Job
  <1>2. listed \subseteq Event
    BY <1>1, Listed
  <1>3. t \in Task /\ t.op = "delete" /\ t.event \in found
    BY <1>2, TasksOf DEF CleanupTasks
  <1>4. \A k \in listed : Apart /\ k.source = f.source => IsManagedEventIDForSource(k.id, f.source)
    BY <1>1, OwnCopy
  <1>5. cleanupCanMatchOrphans(f) => Marks(f)
    BY DEF cleanupCanMatchOrphans, payloadTransformations, Marks
  <1> QED BY <1>3, <1>4, <1>5 DEF TaskOK, shouldDeleteDuringCleanup

-----------------------------------------------------------------------------
(* Changes of events *)

\* An event that is stored under a proper ID.
StoredOK(e, id) ==
    /\ e \in Stored
    /\ e.properties = NoProperties => id \in Copyable
    /\ Apart /\ e.properties # NoProperties => IsManagedEventIDForSource(id, e.properties.source)

\* An event that is stored under a proper ID spoils nothing.
LEMMA StoreKeeps ==
  ASSUME RowsOK, NEW c \in Calendars, NEW id \in EventIDs, NEW e, Store(c, id, e),
         e = NoEvent \/ StoredOK(e, id), trash' \in [Calendars -> SUBSET EventIDs]
  PROVE  RowsOK' /\ \A d \in Calendars, i \in EventIDs : d # c \/ i # id => calendar'[d][i] = calendar[d][i]
  <1>1. calendar' \in [Calendars -> [EventIDs -> Stored \cup {NoEvent}]]
    BY DEF RowsOK, CalendarTypeOK, Store, StoredOK
  <1>2. calendar'[c][id] = e
        /\ \A d \in Calendars, i \in EventIDs : d # c \/ i # id => calendar'[d][i] = calendar[d][i]
    BY DEF RowsOK, CalendarTypeOK, Store
  <1>3. \A d \in Calendars, i \in EventIDs : Has(d, i)' =>
         /\ calendar'[d][i].properties = NoProperties => i \in Copyable
         /\ Apart /\ calendar'[d][i].properties # NoProperties =>
              IsManagedEventIDForSource(i, calendar'[d][i].properties.source)
    BY <1>2 DEF RowsOK, Has, StoredOK
  <1> QED BY <1>1, <1>2, <1>3 DEF RowsOK, CalendarTypeOK

\* Neither does an event that is deleted.
LEMMA DeleteKeeps ==
  ASSUME RowsOK, NEW c \in Calendars, NEW ev, ev.id \in EventIDs, DeleteEvent(c, ev)
  PROVE  RowsOK' /\ \A d \in Calendars, i \in EventIDs : d # c \/ i # ev.id => calendar'[d][i] = calendar[d][i]
  <1>1. trash' \in [Calendars -> SUBSET EventIDs]
    BY DEF DeleteEvent, RowsOK, CalendarTypeOK
  <1> QED BY <1>1, StoreKeeps DEF DeleteEvent

\* What a task stores.
LEMMA StoredEventOK ==
  ASSUME NEW ev \in Event, NEW id \in EventIDs, Apart => IsManagedEventIDForSource(id, ev.source)
  PROVE  StoredOK(StoredEvent(ev), id)
  <1>1. [sync |-> ev.sync, source |-> ev.source] \in Properties
    BY DEF Event, Properties
  <1>2. [sync |-> ev.sync, source |-> ev.source].source = ev.source
    OBVIOUS
  <1> DEFINE p == [sync |-> ev.sync, source |-> ev.source]
  <1> HIDE DEF p
  <1>3. StoredEvent(ev) = [text |-> ev.text, day |-> ev.day, properties |-> p]
    BY DEF StoredEvent, p
  <1>4. p \in Properties /\ p # NoProperties /\ p.source = ev.source
    BY <1>1, <1>2 DEF p
  <1> QED BY <1>3, <1>4 DEF StoredOK, Stored, Event

\* A task changes one event of the target.
LEMMA PerformKeeps ==
  ASSUME RowsOK, NEW j \in Job, NEW t \in Task, TaskOK(j, t), Perform(j.config.target, t)
  PROVE  /\ RowsOK'
         /\ \A c \in Calendars, id \in EventIDs : calendar'[c][id] # calendar[c][id] =>
              /\ c = j.config.target
              /\ id = Touched(t)
  <1> DEFINE c == j.config.target
  <1>1. c \in Calendars /\ t.event \in Event /\ t.event.id \in EventIDs /\ t.event.source \in Calendars
        /\ t.op \in {"create", "update", "delete"}
    BY DEF Job, Task, Event
  <1>2. UNCHANGED trash => trash' \in [Calendars -> SUBSET EventIDs]
    BY DEF RowsOK, CalendarTypeOK
  <1>3. CASE t.op = "create"
    <2>1. CreateEvent(c, t.event)
      BY <1>3 DEF Perform
    <2>2. CreatedId(t.event) \in EventIDs
          /\ IsManagedEventIDForSource(CreatedId(t.event), t.event.source)
      BY <1>1, <1>3, IDs DEF TaskOK, CreatedId
    <2> QED BY <1>1, <1>2, <1>3, <2>1, <2>2, StoredEventOK, StoreKeeps DEF CreateEvent, Touched
  <1>4. CASE t.op = "update"
    <2>1. UpdateEvent(c, t.event)
      BY <1>4 DEF Perform
    <2>2. Apart => IsManagedEventIDForSource(t.event.id, t.event.source)
      BY <1>4 DEF TaskOK
    <2> QED BY <1>1, <1>2, <1>4, <2>1, <2>2, StoredEventOK, StoreKeeps DEF UpdateEvent, Touched
  <1>5. CASE t.op = "delete"
    <2>1. DeleteEvent(c, t.event)
      BY <1>5 DEF Perform
    <2> QED BY <1>1, <1>5, <2>1, DeleteKeeps DEF Touched
  <1> QED BY <1>1, <1>3, <1>4, <1>5
-----------------------------------------------------------------------------
(* Steps *)

\* Steps that leave the calendars alone.
LEMMA RowsSame == RowsOK /\ UNCHANGED calendars => RowsOK'
  BY DEF calendars, RowsOK, CalendarTypeOK, Has

\* A step of run r that leaves the others as they are.
LEMMA SetJob ==
  ASSUME IInv, NEW r \in Rules, NEW j, JobOK(j), job' = [job EXCEPT ![r] = j]
  PROVE  job' \in [Rules -> Job] /\ \A q \in Rules : JobOK(job'[q])
  BY DEF IInv, JobOK

\* Only a job's phase, its list of tasks, and whether one failed, are new.
LEMMA LessToDo ==
  ASSUME NEW j, JobOK(j), NEW i, i \in Job, i.todo \subseteq j.todo,
         i.kind = j.kind /\ i.config = j.config /\ i.source = j.source /\ i.phase = j.phase
  PROVE  JobOK(i)
  BY DEF JobOK, TaskOK

\* The invariant, step by step of a run.
LEMMA StartStep ==
  ASSUME IInv, NEW r \in Rules, NEW kind \in {"sync", "cleanup"}, StartRun(r, kind)
  PROVE  IInv'
  <1> DEFINE d == IF kind = "sync" THEN Days ELSE 0 .. LastDay
             j == [NoJob EXCEPT !.phase = "source", !.kind = kind, !.config = rule[r], !.days = d]
  <1>1. job' = [job EXCEPT ![r] = j]
    BY DEF StartRun
  <1>2. today \in Nat /\ rule[r] \in Configs /\ d \in SUBSET Nat
    BY DEF IInv, Days
  <1> HIDE DEF d
  <1>3. NoJob \in Job /\ NoJob.source = {} /\ NoJob.todo = {}
    <2>1. NoJob.source = {} /\ NoJob.todo = {}
      BY DEF NoJob
    <2> QED BY <1>2, <2>1, NoJobOK DEF JobOK
  <1>4. j \in Job /\ j.source = {} /\ j.todo = {}
    BY <1>2, <1>3 DEF Job
  <1> HIDE DEF j
  <1>5. JobOK(j)
    BY <1>4 DEF JobOK
  <1> QED BY <1>1, <1>5, SetJob, RowsSame DEF StartRun, IInv

\* The source is listed.
LEMMA SourceStep ==
  ASSUME IInv, NEW r \in Rules, LoadSource(r) PROVE IInv'
  <1> DEFINE listed == ListEvents(Source(r), job[r].days)
  <1>1. PICK tw \in Twice(listed) :
          job' = [job EXCEPT ![r].phase = "sink", ![r].source = listed, ![r].twice = tw]
    BY DEF LoadSource
  <1> DEFINE j == [job[r] EXCEPT !.phase = "sink", !.source = listed, !.twice = tw]
  <1>2. /\ job[r] \in Job /\ Source(r) \in Calendars /\ job[r].todo = {} /\ RowsOK
        /\ Source(r) = job[r].config.source
    BY DEF IInv, JobOK, LoadSource, Source, Job
  <1>3. listed \subseteq Event /\ \A ev \in listed : ListedOK(ev, Source(r))
    BY <1>2, Listed
  <1>4. tw \subseteq EventIDs
    BY <1>3 DEF Twice, Event
  <1> HIDE DEF listed
  <1>5. /\ j \in Job /\ j.todo = {} /\ j.source = listed /\ j.config = job[r].config
    BY <1>2, <1>3, <1>4 DEF Job
  <1>6. job' = [job EXCEPT ![r] = j]
    BY <1>1
  <1> HIDE DEF j
  <1>7. JobOK(j)
    BY <1>2, <1>3, <1>5 DEF JobOK
  <1> QED BY <1>6, <1>7, SetJob, RowsSame DEF LoadSource, IInv

\* The target is listed, and there are tasks.
LEMMA SinkStep ==
  ASSUME IInv, NEW r \in Rules, LoadSink(r) PROVE IInv'
  <1> DEFINE f == job[r].config
             listed == ListEvents(f.target, job[r].days)
             source == Transformed(f, job[r].source)
  <1>1. PICK tw \in Twice(listed), m \in Maps(listed) :
          job' = [job EXCEPT ![r].phase = "tasks", ![r].todo =
                    IF job[r].kind = "cleanup" THEN CleanupTasks(f, source, listed, tw)
                    ELSE IF f.dryRun THEN {}
                    ELSE SyncTasks(f, source, job[r].twice, listed, tw, m)]
    BY DEF LoadSink
  <1> DEFINE todo == IF job[r].kind = "cleanup" THEN CleanupTasks(f, source, listed, tw)
                     ELSE IF f.dryRun THEN {}
                     ELSE SyncTasks(f, source, job[r].twice, listed, tw, m)
             j == [job[r] EXCEPT !.phase = "tasks", !.todo = todo]
  <1>2. job[r] \in Job /\ RowsOK /\ \A ev \in job[r].source : ListedOK(ev, f.source)
    BY DEF IInv, JobOK
  <1>3. \A t \in todo : t \in Task /\ TaskOK(job[r], t)
    BY <1>2, SyncTasksOK, CleanupTasksOK
  <1>4. job' = [job EXCEPT ![r] = j]
    BY <1>1
  <1> HIDE DEF todo
  <1>5. /\ j \in Job /\ j.todo = todo /\ j.source = job[r].source /\ j.config = job[r].config
        /\ j.kind = job[r].kind /\ j.phase = "tasks"
    BY <1>2, <1>3 DEF Job
  <1> HIDE DEF j
  <1>6. JobOK(j)
    BY <1>2, <1>3, <1>5 DEF JobOK, TaskOK
  <1> QED BY <1>4, <1>6, SetJob, RowsSame DEF LoadSink, IInv

\* Somebody else's change of an event leaves the jobs what they are.
LEMMA DisturbedOK ==
  ASSUME IInv, NEW c, NEW id
  PROVE  LET j == Disturbed(job, c, id)
         IN j \in [Rules -> Job] /\ \A r \in Rules : JobOK(j[r]) /\ j[r].config = job[r].config /\ j[r].phase = job[r].phase
  <1> DEFINE k(r) == [job[r] EXCEPT !.quiet = FALSE]
  <1>1. ASSUME NEW r \in Rules
        PROVE  JobOK(k(r)) /\ k(r).config = job[r].config /\ k(r).phase = job[r].phase
    <2>1. job[r] \in Job /\ JobOK(job[r])
      BY DEF IInv
    <2>2. /\ k(r) \in Job /\ k(r).todo = job[r].todo /\ k(r).kind = job[r].kind
          /\ k(r).config = job[r].config /\ k(r).source = job[r].source /\ k(r).phase = job[r].phase
      BY <2>1 DEF Job
    <2> HIDE DEF k
    <2> QED BY <2>1, <2>2, LessToDo
  <1>2. \A r \in Rules : Disturbed(job, c, id)[r] = k(r) \/ Disturbed(job, c, id)[r] = job[r]
    BY DEF Disturbed
  <1>3. DOMAIN Disturbed(job, c, id) = Rules /\ Disturbed(job, c, id) = [r \in Rules |-> Disturbed(job, c, id)[r]]
    BY DEF Disturbed
  <1> HIDE DEF k
  <1> QED BY <1>1, <1>2, <1>3 DEF IInv, JobOK

\* A task is taken off the list.
LEMMA TaskDone ==
  ASSUME IInv, NEW r \in Rules, NEW t, NEW b \in BOOLEAN
  PROVE  JobOK([job[r] EXCEPT !.todo = @ \ {t}, !.failed = b])
  <1> DEFINE j == [job[r] EXCEPT !.todo = @ \ {t}, !.failed = b]
  <1>1. job[r] \in Job /\ JobOK(job[r])
    BY DEF IInv
  <1>2. /\ j \in Job /\ j.todo \subseteq job[r].todo /\ j.kind = job[r].kind
        /\ j.config = job[r].config /\ j.source = job[r].source /\ j.phase = job[r].phase
    BY <1>1 DEF Job
  <1> HIDE DEF j
  <1>3. JobOK(j)
    BY <1>1, <1>2, LessToDo
  <1> QED BY <1>3 DEF j

\* A task is done, refused, or fails.
LEMMA TaskStep ==
  ASSUME IInv, NEW r \in Rules, NEW t \in job[r].todo, DoTask(r, t) \/ FailTask(r, t)
  PROVE  IInv'
  <1>1. job[r] \in Job /\ t \in Task /\ TaskOK(job[r], t) /\ Target(r) = job[r].config.target
    BY DEF IInv, JobOK, Job, Target
  <1> DEFINE b == [job[r] EXCEPT !.todo = @ \ {t}, !.failed = TRUE]
             k == [job[r] EXCEPT !.todo = @ \ {t}, !.failed = job[r].failed]
             a == [job[r] EXCEPT !.todo = @ \ {t}]
  <1>2. JobOK(b) /\ JobOK(k)
    BY <1>1, TaskDone DEF Job
  <1>3. a = k
    BY <1>1 DEF Job
  <1>4. CASE Perform(Target(r), t) /\ job' = [Disturbed(job, Target(r), Touched(t)) EXCEPT ![r] = a]
    <2> HIDE DEF a, k
    <2>1. RowsOK'
      BY <1>1, <1>4, PerformKeeps DEF IInv
    <2>2. job' \in [Rules -> Job] /\ \A q \in Rules : JobOK(job'[q])
      BY <1>2, <1>3, <1>4, DisturbedOK DEF JobOK
    <2> QED BY <2>1, <2>2 DEF IInv, DoTask, FailTask
  <1>5. CASE job' = [job EXCEPT ![r] = b] /\ UNCHANGED calendars
    BY <1>2, <1>5, SetJob, RowsSame DEF IInv, DoTask, FailTask
  <1> QED BY <1>4, <1>5 DEF DoTask, FailTask

\* A run ends.
LEMMA EndStep ==
  ASSUME IInv, NEW r \in Rules, Finish(r) \/ GiveUp(r) PROVE IInv'
  <1>1. Configs # {}
    BY DEF IInv
  <1>2. job' = [job EXCEPT ![r] = NoJob] /\ UNCHANGED calendars
    BY DEF Finish, GiveUp
  <1>3. result' \in [Rules -> {"none", "success", "failed"}]
    BY DEF Finish, GiveUp, IInv
  <1> QED BY <1>1, <1>2, <1>3, NoJobOK, SetJob, RowsSame DEF IInv, Finish, GiveUp

\* People change and delete events, whichever they see.
LEMMA PeopleStep ==
  ASSUME IInv, NEW c \in Calendars, NEW id \in EventIDs,
         \/ \E text \in Texts, day \in 0 .. LastDay : PutEvent(c, id, text, day)
         \/ RemoveEvent(c, id) \/ LoseProperties(c, id)
  PROVE  /\ RowsOK' /\ job' = Disturbed(job, c, id)
         /\ \A d \in Calendars, i \in EventIDs : Has(d, i)' => Has(d, i) \/ i \in Originals
  <1>1. RowsOK /\ trash \in [Calendars -> SUBSET EventIDs]
    BY DEF IInv, RowsOK, CalendarTypeOK
  <1> DEFINE e == calendar[c][id]
  <1>2. Has(c, id) => e \in Stored /\ StoredOK(e, id)
    BY <1>1 DEF RowsOK, CalendarTypeOK, Has, StoredOK
  <1>3. CASE \E text \in Texts, day \in 0 .. LastDay : PutEvent(c, id, text, day)
    <2>1. PICK text \in Texts, day \in 0 .. LastDay : PutEvent(c, id, text, day)
      BY <1>3
    <2> DEFINE old == IF Has(c, id) THEN e.properties ELSE NoProperties
               new == [text |-> text, day |-> day, properties |-> old]
    <2>2. Store(c, id, new) /\ UNCHANGED trash /\ job' = Disturbed(job, c, id)
          /\ (id \in Originals \/ Has(c, id))
      BY <2>1 DEF PutEvent
    <2>3. /\ old \in Properties \cup {NoProperties}
          /\ old = NoProperties => id \in Copyable
          /\ Apart /\ old # NoProperties => IsManagedEventIDForSource(id, old.source)
      BY <1>2, <2>2 DEF StoredOK, Stored, Copyable
    <2> HIDE DEF old
    <2>4. StoredOK(new, id)
      BY <2>3 DEF StoredOK, Stored
    <2> HIDE DEF new
    <2> QED BY <1>1, <2>2, <2>4, StoreKeeps DEF Has
  <1>4. CASE RemoveEvent(c, id)
    <2>1. DeleteEvent(c, [id |-> id]) /\ job' = Disturbed(job, c, id) /\ Has(c, id)
      BY <1>4 DEF RemoveEvent
    <2>2. [id |-> id].id = id
      OBVIOUS
    <2> QED BY <1>1, <2>1, <2>2, DeleteKeeps DEF Has
  <1>5. CASE LoseProperties(c, id)
    <2> DEFINE new == [e EXCEPT !.properties = NoProperties]
    <2>1. /\ Store(c, id, new) /\ UNCHANGED trash /\ job' = Disturbed(job, c, id) /\ Has(c, id)
          /\ id \notin Copies(Copies(Originals))
      BY <1>5 DEF LoseProperties, Store
    <2>2. id \in Copyable
      BY <2>1 DEF EventIDs, Copyable
    <2>3. StoredOK(new, id)
      BY <1>2, <2>1, <2>2 DEF StoredOK, Stored
    <2> HIDE DEF new
    <2> QED BY <1>1, <2>1, <2>3, StoreKeeps DEF Has
  <1> QED BY <1>3, <1>4, <1>5

\* People's events are all there is in the beginning.
LEMMA InitOriginals ==
  ASSUME Init
  PROVE  /\ CalendarTypeOK
         /\ \A c \in Calendars, id \in EventIDs :
              Has(c, id) => id \in Originals /\ calendar[c][id].properties = NoProperties
  <1>1. PICK own \in [Calendars \X Originals -> {NoEvent} \cup
                        [text : Texts, day : 0 .. LastDay, properties : {NoProperties}]] :
          calendar = [c \in Calendars |-> [id \in EventIDs |->
                        IF id \in Originals THEN own[c, id] ELSE NoEvent]]
    BY DEF Init, CalendarInit
  <1>2. ASSUME NEW c \in Calendars, NEW id \in EventIDs
        PROVE  /\ calendar[c][id] \in Stored \cup {NoEvent}
               /\ Has(c, id) => id \in Originals /\ calendar[c][id].properties = NoProperties
    <2>1. id \in Originals => own[c, id] \in {NoEvent} \cup
                        [text : Texts, day : 0 .. LastDay, properties : {NoProperties}]
      OBVIOUS
    <2> QED BY <1>1, <2>1 DEF Has, Stored
  <1>3. CalendarTypeOK
    BY <1>1, <1>2 DEF Init, CalendarInit, CalendarTypeOK
  <1> QED BY <1>2, <1>3

\* No job has begun, and no event has properties.
THEOREM InitIInv == Init => IInv
  <1> SUFFICES ASSUME Init PROVE IInv
    OBVIOUS
  <1>2. RowsOK
    BY InitOriginals DEF RowsOK, Copyable
  <1>3. \A r \in Rules : JobOK(NoJob)
    BY NoJobOK DEF Init
  <1> QED BY <1>2, <1>3 DEF IInv, Init, JobOK

\* Every step keeps the invariant.
THEOREM NextIInv == IInv /\ [Next]_vars => IInv'
  <1> SUFFICES ASSUME IInv, [Next]_vars PROVE IInv'
    OBVIOUS
  <1>1. ASSUME NEW c \in Calendars, NEW id \in EventIDs,
               \/ \E text \in Texts, day \in 0 .. LastDay : PutEvent(c, id, text, day)
               \/ RemoveEvent(c, id) \/ LoseProperties(c, id)
        PROVE  IInv'
    <2>1. changes' = changes + 1 /\ changes < MaxChanges /\ UNCHANGED <<rule, result, today>>
      BY <1>1 DEF PutEvent, RemoveEvent, LoseProperties, Change
    <2>2. changes' \in 0 .. MaxChanges
      BY <2>1 DEF IInv
    <2>3. job' \in [Rules -> Job] /\ \A r \in Rules : JobOK(job'[r])
      BY <1>1, PeopleStep, DisturbedOK
    <2> QED BY <1>1, <2>1, <2>2, <2>3, PeopleStep DEF IInv
  <1>2. ASSUME NEW r \in Rules, NEW f \in Configs, ChangeRule(r, f) PROVE IInv'
    <2>1. changes' \in 0 .. MaxChanges /\ rule' \in [Rules -> Configs] /\ UNCHANGED <<calendars, job, result, today>>
      BY <1>2 DEF ChangeRule, Change, IInv
    <2> QED BY <2>1, RowsSame DEF IInv
  <1>3. CASE NextDay
    <2>1. today' \in 0 .. LastDay /\ UNCHANGED <<calendars, rule, job, result, changes>>
      BY <1>3 DEF NextDay, IInv
    <2> QED BY <2>1, RowsSame DEF IInv
  <1>4. ASSUME NEW r \in Rules, RunStep(r) PROVE IInv'
    BY <1>4, StartStep, SourceStep, SinkStep, TaskStep, EndStep DEF RunStep
  <1>5. CASE UNCHANGED vars
    BY <1>5, RowsSame DEF vars, IInv
  <1> QED BY <1>1, <1>2, <1>3, <1>4, <1>5 DEF Next, UserStep

\* The invariant always holds.
LEMMA SpecIInv == Spec => []IInv
  BY InitIInv, NextIInv, PTL DEF Spec

\* Calendars, jobs and rules stay well-typed: no run ever stores an event under
\* an ID that CalendarSync does not know, however copies are copied and lose
\* their properties.
THEOREM TypeCorrect == Spec => []TypeOK
  <1>1. IInv => TypeOK
    <2> SUFFICES ASSUME IInv PROVE TypeOK
      OBVIOUS
    <2>1. ASSUME NEW r \in Rules
          PROVE  /\ DOMAIN job[r] = DOMAIN NoJob /\ job[r].config \in Configs
                 /\ job[r].source \subseteq Event /\ job[r].twice \subseteq EventIDs
                 /\ job[r].todo \subseteq Task
      <3>1. job[r] \in Job
        BY DEF IInv
      <3>2. DOMAIN NoJob = {"phase", "kind", "config", "days", "source", "twice", "todo", "failed", "quiet"}
        BY DEF NoJob
      <3> QED BY <3>1, <3>2 DEF Job
    <2> QED BY <2>1 DEF IInv, RowsOK, TypeOK
  <1> QED BY <1>1, SpecIInv, PTL

\* A run changes nothing but copies of its source in its target, whatever was
\* changed since it listed the events, as long as no rule leads from a calendar
\* to itself.
THEOREM OwnCopies == ASSUME Apart PROVE Spec => OnlyOwnCopies
  <1> DEFINE OnlyOwn == \A r \in Rules : \A t \in job[r].todo : DoTask(r, t) =>
         \A c \in Calendars, id \in EventIDs : calendar'[c][id] # calendar[c][id] =>
           /\ c = Target(r)
           /\ \/ IsManagedEventIDForSource(id, Source(r))
              \/ /\ job[r].kind = "cleanup" /\ Marks(job[r].config)
                 /\ \E s \in Transformed(job[r].config, job[r].source) : IsSameEvent(s, t.event)
  <1>1. IInv => OnlyOwn
    <2> SUFFICES ASSUME IInv, NEW r \in Rules, NEW t \in job[r].todo, DoTask(r, t),
                        NEW c \in Calendars, NEW id \in EventIDs, calendar'[c][id] # calendar[c][id]
                 PROVE  /\ c = Target(r)
                        /\ \/ IsManagedEventIDForSource(id, Source(r))
                           \/ /\ job[r].kind = "cleanup" /\ Marks(job[r].config)
                              /\ \E s \in Transformed(job[r].config, job[r].source) : IsSameEvent(s, t.event)
      OBVIOUS
    <2>1. /\ job[r] \in Job /\ t \in Task /\ TaskOK(job[r], t) /\ RowsOK
          /\ Target(r) = job[r].config.target /\ Source(r) = job[r].config.source
      BY DEF IInv, JobOK, Job, Target, Source
    <2>2. Perform(Target(r), t)
      BY DEF DoTask, calendars
    <2>3. c = Target(r) /\ id = Touched(t)
      BY <2>1, <2>2, PerformKeeps
    <2>4. t.op = "create" => IsManagedEventIDForSource(id, Source(r))
      BY <2>1, <2>3, IDs DEF TaskOK, Touched, CreatedId, Job
    <2>5. t.op \in {"create", "update", "delete"}
      BY <2>1 DEF Task
    <2> QED BY <2>1, <2>3, <2>4, <2>5 DEF TaskOK, Touched
  <1> HIDE DEF OnlyOwn
  <1>2. IInv => [OnlyOwn]_vars
    BY <1>1
  <1>3. Spec => [][OnlyOwn]_vars
    BY <1>2, SpecIInv, PTL DEF Spec
  <1> QED BY <1>3 DEF OnlyOwnCopies, OnlyOwn

\* While no rule is changed a run works with its rule as it is stored, and every
\* copy comes from the source of a rule into that calendar.
Direct ==
    "rule" \notin Users =>
      /\ \A r \in Rules : job[r].phase # "idle" => job[r].config = rule[r]
      /\ CopiesAreDirect

CopiesFit ==
    \A c, s \in Calendars, id \in EventIDs :
      Has(c, id) /\ IsManagedEventIDForSource(id, s) =>
        \E r \in Rules : rule[r].source = s /\ rule[r].target = c

\* The only new event that a task can make is the copy it is about.
LEMMA NewEvent ==
  ASSUME IInv, NEW r \in Rules, NEW t \in job[r].todo, DoTask(r, t),
         NEW c \in Calendars, NEW id \in EventIDs, Has(c, id)', ~Has(c, id)
  PROVE  c = Target(r) /\ id = ManagedEventID(Source(r), t.event.sync)
  <1>1. /\ job[r] \in Job /\ t \in Task /\ TaskOK(job[r], t) /\ RowsOK
        /\ Target(r) = job[r].config.target /\ Source(r) = job[r].config.source
    BY DEF IInv, JobOK, Job, Target, Source
  <1>2. calendar'[c][id] # calendar[c][id]
    BY DEF Has
  <1>3. Perform(Target(r), t)
    BY <1>2 DEF DoTask, calendars
  <1>4. c = Target(r) /\ id = Touched(t)
    BY <1>1, <1>2, <1>3, PerformKeeps
  <1>5. t.op # "update"
    BY <1>3, <1>4 DEF Perform, UpdateEvent, CanUpdate, Touched
  <1>6. t.op # "delete"
    <2> SUFFICES ASSUME t.op = "delete" PROVE FALSE
      OBVIOUS
    <2>1. Store(c, id, NoEvent)
      BY <1>3, <1>4 DEF Perform, DeleteEvent, Touched
    <2>2. calendar'[c][id] = NoEvent
      BY <1>1, <2>1 DEF Store, RowsOK, CalendarTypeOK
    <2> QED BY <2>2 DEF Has
  <1>7. t.op = "create"
    BY <1>1, <1>5, <1>6 DEF Task
  <1> QED BY <1>1, <1>4, <1>7 DEF TaskOK, Touched, CreatedId

\* A pair names one calendar.
LEMMA OneSource ==
  ASSUME NEW s, NEW u, NEW i, IsManagedEventIDForSource(ManagedEventID(u, i), s)
  PROVE  s = u
  BY DEF IsManagedEventIDForSource, ManagedEventID

\* Users who change no rule keep copies direct, and so do runs.
LEMMA NextDirect ==
  ASSUME IInv, Direct, [Next]_vars PROVE Direct'
  <1> SUFFICES ASSUME "rule" \notin Users
               PROVE  /\ \A r \in Rules : job'[r].phase # "idle" => job'[r].config = rule'[r]
                      /\ CopiesFit'
    BY DEF Direct, CopiesAreDirect, CopiesFit, Has
  <1>1. /\ \A r \in Rules : job[r].phase # "idle" => job[r].config = rule[r]
        /\ CopiesFit
    BY DEF Direct, CopiesAreDirect, CopiesFit
  <1>2. ASSUME UNCHANGED <<calendar, rule>> PROVE CopiesFit'
    BY <1>1, <1>2 DEF CopiesFit, Has
  <1>3. rule \in [Rules -> Configs] /\ job \in [Rules -> Job]
    BY DEF IInv
  <1>4. ASSUME NEW c \in Calendars, NEW id \in EventIDs,
               \/ \E text \in Texts, day \in 0 .. LastDay : PutEvent(c, id, text, day)
               \/ RemoveEvent(c, id) \/ LoseProperties(c, id)
        PROVE  /\ \A r \in Rules : job'[r].phase # "idle" => job'[r].config = rule'[r]
               /\ CopiesFit'
    <2>1. UNCHANGED rule
      BY <1>4 DEF PutEvent, RemoveEvent, LoseProperties
    <2>2. /\ job' = Disturbed(job, c, id)
          /\ \A d \in Calendars, i \in EventIDs : Has(d, i)' => Has(d, i) \/ i \in Originals
      BY <1>4, PeopleStep
    <2>3. \A r \in Rules : job'[r].config = job[r].config /\ job'[r].phase = job[r].phase
      BY <2>2, DisturbedOK
    <2>4. CopiesFit'
      BY <1>1, <2>1, <2>2, IDs DEF CopiesFit
    <2> QED BY <1>1, <2>1, <2>3, <2>4
  <1>5. ASSUME NEW r \in Rules, NEW f \in Configs, ChangeRule(r, f) PROVE FALSE
    BY <1>5 DEF ChangeRule, Change
  <1>6. ASSUME NEW r \in Rules, NEW kind \in {"sync", "cleanup"}, StartRun(r, kind)
        PROVE  /\ \A q \in Rules : job'[q].phase # "idle" => job'[q].config = rule'[q]
               /\ CopiesFit'
    <2> DEFINE d == IF kind = "sync" THEN Days ELSE 0 .. LastDay
    <2>1. job' = [job EXCEPT ![r] = [NoJob EXCEPT !.phase = "source", !.kind = kind,
                                       !.config = rule[r], !.days = d]]
          /\ UNCHANGED <<calendar, rule>>
      BY <1>6 DEF StartRun, calendars
    <2> HIDE DEF d
    <2>2. [NoJob EXCEPT !.phase = "source", !.kind = kind, !.config = rule[r], !.days = d].config = rule[r]
      BY DEF NoJob
    <2> QED BY <1>1, <1>2, <1>3, <2>1, <2>2
  <1>7. ASSUME NEW r \in Rules, LoadSource(r) \/ LoadSink(r)
        PROVE  /\ \A q \in Rules : job'[q].phase # "idle" => job'[q].config = rule'[q]
               /\ CopiesFit'
    <2>1. UNCHANGED <<calendar, rule>> /\ job[r].phase # "idle"
      BY <1>7 DEF LoadSource, LoadSink, calendars
    <2>2. \A q \in Rules : q # r => job'[q] = job[q]
      BY <1>3, <1>7 DEF LoadSource, LoadSink
    <2>3. job'[r].config = job[r].config
      BY <1>3, <1>7 DEF LoadSource, LoadSink, Job
    <2> QED BY <1>1, <1>2, <2>1, <2>2, <2>3
  <1>8. ASSUME NEW r \in Rules, NEW t \in job[r].todo, DoTask(r, t) \/ FailTask(r, t)
        PROVE  /\ \A q \in Rules : job'[q].phase # "idle" => job'[q].config = rule'[q]
               /\ CopiesFit'
    <2>1. /\ UNCHANGED rule /\ job[r] \in Job /\ JobOK(job[r])
          /\ job[r].phase = "tasks"
      BY <1>8 DEF DoTask, FailTask, IInv, JobOK
    <2> DEFINE b == [job[r] EXCEPT !.todo = @ \ {t}, !.failed = TRUE]
               a == [job[r] EXCEPT !.todo = @ \ {t}]
    <2>2. a.config = job[r].config /\ b.config = job[r].config
      BY <2>1 DEF Job
    <2>3. \/ job' = [job EXCEPT ![r] = b]
          \/ job' = [Disturbed(job, Target(r), Touched(t)) EXCEPT ![r] = a]
      BY <1>8 DEF DoTask, FailTask
    <2> HIDE DEF a, b
    <2>4. \A q \in Rules : job'[q].phase # "idle" => job'[q].config = rule'[q]
      <3>1. CASE job' = [job EXCEPT ![r] = b]
        BY <1>1, <1>3, <2>1, <2>2, <3>1
      <3>2. CASE job' = [Disturbed(job, Target(r), Touched(t)) EXCEPT ![r] = a]
        BY <1>1, <1>3, <2>1, <2>2, <3>2, DisturbedOK
      <3> QED BY <2>3, <3>1, <3>2
    <2>5. CopiesFit'
      <3>1. CASE UNCHANGED calendar
        BY <1>2, <2>1, <3>1
      <3>2. CASE calendar' # calendar
        <4>1. DoTask(r, t)
          BY <1>8, <3>2 DEF FailTask, calendars
        <4> SUFFICES ASSUME NEW c \in Calendars, NEW s \in Calendars, NEW id \in EventIDs,
                            Has(c, id)', IsManagedEventIDForSource(id, s)
                     PROVE  \E q \in Rules : rule[q].source = s /\ rule[q].target = c
          BY <2>1 DEF CopiesFit
        <4>2. CASE Has(c, id)
          BY <1>1, <4>2 DEF CopiesFit
        <4>3. CASE ~Has(c, id)
          <5>1. c = Target(r) /\ id = ManagedEventID(Source(r), t.event.sync)
            BY <4>1, <4>3, NewEvent
          <5>2. s = Source(r)
            BY <5>1, OneSource
          <5>3. rule[r].source = s /\ rule[r].target = c
            BY <1>1, <2>1, <5>1, <5>2 DEF Source, Target
          <5> QED BY <5>3
        <4> QED BY <4>2, <4>3
      <3> QED BY <3>1, <3>2
    <2> QED BY <2>4, <2>5
  <1>9. ASSUME NEW r \in Rules, Finish(r) \/ GiveUp(r)
        PROVE  /\ \A q \in Rules : job'[q].phase # "idle" => job'[q].config = rule'[q]
               /\ CopiesFit'
    <2>1. job' = [job EXCEPT ![r] = NoJob] /\ UNCHANGED <<calendar, rule>>
      BY <1>9 DEF Finish, GiveUp, calendars
    <2>2. NoJob.phase = "idle"
      BY DEF NoJob
    <2> QED BY <1>1, <1>2, <1>3, <2>1, <2>2
  <1>10. CASE NextDay \/ UNCHANGED vars
    BY <1>1, <1>2, <1>10 DEF NextDay, vars, calendars
  <1> QED BY <1>4, <1>5, <1>6, <1>7, <1>8, <1>9, <1>10 DEF Next, UserStep, RunStep

\* Copies are never copied on: however rules form chains and circles, every copy
\* in a calendar comes from the source of a rule into that calendar, as long as
\* no rule is changed.
THEOREM DirectCopies == Spec => []CopiesAreDirect
  <1>1. Init => Direct
    <2> SUFFICES ASSUME Init PROVE Direct
      OBVIOUS
    <2>1. \A r \in Rules : job[r].phase = "idle"
      BY DEF Init, NoJob
    <2>2. \A c \in Calendars, id \in EventIDs : Has(c, id) => id \in Originals
      BY InitOriginals
    <2> QED BY <2>1, <2>2, IDs DEF Direct, CopiesAreDirect
  <1>2. IInv /\ Direct /\ [Next]_vars => Direct'
    BY NextDirect
  <1>3. Direct => CopiesAreDirect
    BY DEF Direct, CopiesAreDirect
  <1> QED BY <1>1, <1>2, <1>3, SpecIInv, PTL DEF Spec

-----------------------------------------------------------------------------
(* What a step is to one run: a step of its own, or somebody else's.         *)

\* Nothing that the run is about has changed.
Untouched(r) ==
    /\ job'[r] = job[r]
    /\ \A c \in Calendars, id \in EventIDs : Concerns(r, c, id) => calendar'[c][id] = calendar[c][id]

\* Somebody else's change of one event either does not concern the run, or the
\* run is not quiet any more.
LEMMA DisturbedOrNot ==
  ASSUME IInv, NEW r \in Rules, NEW c \in Calendars, NEW id \in EventIDs,
         job'[r] = Disturbed(job, c, id)[r],
         \A d \in Calendars, i \in EventIDs : d # c \/ i # id => calendar'[d][i] = calendar[d][i]
  PROVE  Untouched(r) \/ job'[r] = [job[r] EXCEPT !.quiet = FALSE]
  BY DEF Disturbed, Untouched

\* One event changes in a user's step.
LEMMA PeopleChange ==
  ASSUME IInv, NEW c \in Calendars, NEW id \in EventIDs,
         \/ \E text \in Texts, day \in 0 .. LastDay : PutEvent(c, id, text, day)
         \/ RemoveEvent(c, id) \/ LoseProperties(c, id)
  PROVE  \A d \in Calendars, i \in EventIDs : d # c \/ i # id => calendar'[d][i] = calendar[d][i]
  <1>1. calendar \in [Calendars -> [EventIDs -> Stored \cup {NoEvent}]]
    BY DEF IInv, RowsOK, CalendarTypeOK
  <1>2. \E e : calendar' = [calendar EXCEPT ![c][id] = e]
    <2>1. CASE \E text \in Texts, day \in 0 .. LastDay : PutEvent(c, id, text, day)
      BY <2>1 DEF PutEvent, Store
    <2>2. CASE RemoveEvent(c, id)
      BY <2>2 DEF RemoveEvent, DeleteEvent, Store
    <2>3. CASE LoseProperties(c, id)
      BY <2>3 DEF LoseProperties
    <2> QED BY <2>1, <2>2, <2>3
  <1> QED BY <1>1, <1>2

\* And one in a task.
LEMMA TaskChange ==
  ASSUME IInv, NEW r \in Rules, NEW t \in job[r].todo, Perform(Target(r), t)
  PROVE  /\ Target(r) \in Calendars /\ Touched(t) \in EventIDs
         /\ \A d \in Calendars, i \in EventIDs :
              d # Target(r) \/ i # Touched(t) => calendar'[d][i] = calendar[d][i]
  <1>0. job[r] \in Job /\ t \in Task /\ TaskOK(job[r], t) /\ RowsOK
        /\ Target(r) = job[r].config.target
    BY DEF IInv, JobOK, Job, Target
  <1>1. Target(r) \in Calendars
    BY <1>0 DEF Job
  <1>2. t.event \in Event /\ t.event.id \in EventIDs /\ t.event.source \in Calendars
    BY <1>0 DEF Task, Event
  <1>3. Touched(t) \in EventIDs
    BY <1>0, <1>2, IDs DEF Touched, TaskOK, CreatedId, Task
  <1> QED BY <1>0, <1>1, <1>3, PerformKeeps

\* Every step, as one run sees it.
LEMMA View ==
  ASSUME IInv, [Next]_vars, NEW r \in Rules
  PROVE  RunStep(r) \/ Untouched(r) \/ job'[r] = [job[r] EXCEPT !.quiet = FALSE]
  <1>1. ASSUME NEW c \in Calendars, NEW id \in EventIDs,
               \/ \E text \in Texts, day \in 0 .. LastDay : PutEvent(c, id, text, day)
               \/ RemoveEvent(c, id) \/ LoseProperties(c, id)
        PROVE  Untouched(r) \/ job'[r] = [job[r] EXCEPT !.quiet = FALSE]
    <2>1. job' = Disturbed(job, c, id)
      BY <1>1, PeopleStep
    <2> QED BY <1>1, <2>1, PeopleChange, DisturbedOrNot
  <1>2. ASSUME UNCHANGED <<calendar, job>> PROVE Untouched(r)
    BY <1>2 DEF Untouched
  <1>3. ASSUME NEW q \in Rules, NEW f \in Configs, ChangeRule(q, f) PROVE Untouched(r)
    BY <1>2, <1>3 DEF ChangeRule, calendars
  <1>4. CASE NextDay \/ UNCHANGED vars
    BY <1>2, <1>4 DEF NextDay, vars, calendars
  <1>5. ASSUME NEW q \in Rules, q # r, RunStep(q)
        PROVE  Untouched(r) \/ job'[r] = [job[r] EXCEPT !.quiet = FALSE]
    <2>1. ASSUME UNCHANGED calendar, job'[r] = job[r] PROVE Untouched(r)
      BY <2>1 DEF Untouched
    <2>2. job \in [Rules -> Job]
      BY DEF IInv
    <2>3. CASE \E kind \in {"sync", "cleanup"} : StartRun(q, kind)
      BY <1>5, <2>1, <2>2, <2>3 DEF StartRun, calendars
    <2>4. CASE LoadSource(q) \/ LoadSink(q)
      <3>1. UNCHANGED calendar
        BY <2>4 DEF LoadSource, LoadSink, calendars
      <3>2. job'[r] = job[r]
        BY <1>5, <2>2, <2>4 DEF LoadSource, LoadSink
      <3> QED BY <2>1, <3>1, <3>2
    <2>5. CASE Finish(q) \/ GiveUp(q)
      BY <1>5, <2>1, <2>2, <2>5 DEF Finish, GiveUp, calendars
    <2>6. ASSUME NEW t \in job[q].todo, DoTask(q, t) \/ FailTask(q, t)
          PROVE  Untouched(r) \/ job'[r] = [job[r] EXCEPT !.quiet = FALSE]
      <3> DEFINE b == [job[q] EXCEPT !.todo = @ \ {t}, !.failed = TRUE]
                 a == [job[q] EXCEPT !.todo = @ \ {t}]
      <3>1. \/ job' = [job EXCEPT ![q] = b] /\ UNCHANGED calendar
            \/ /\ Perform(Target(q), t)
               /\ job' = [Disturbed(job, Target(q), Touched(t)) EXCEPT ![q] = a]
        BY <2>6 DEF DoTask, FailTask, calendars
      <3> HIDE DEF a, b
      <3>2. CASE job' = [job EXCEPT ![q] = b] /\ UNCHANGED calendar
        BY <1>5, <2>1, <2>2, <3>2
      <3>3. CASE /\ Perform(Target(q), t)
                 /\ job' = [Disturbed(job, Target(q), Touched(t)) EXCEPT ![q] = a]
        <4>1. job'[r] = Disturbed(job, Target(q), Touched(t))[r]
          BY <1>5, <2>2, <3>3, DisturbedOK
        <4> QED BY <2>6, <3>3, <4>1, TaskChange, DisturbedOrNot
      <3> QED BY <3>1, <3>2, <3>3
    <2> QED BY <1>5, <2>3, <2>4, <2>5, <2>6 DEF RunStep
  <1> QED BY <1>1, <1>3, <1>4, <1>5 DEF Next, UserStep

\* What its own steps make of a run: it begins ...
LEMMA Begins ==
  ASSUME IInv, NEW r \in Rules, NEW kind \in {"sync", "cleanup"}, StartRun(r, kind)
  PROVE  /\ job'[r].phase = "source" /\ job'[r].kind = kind /\ job'[r].todo = {}
         /\ kind = "cleanup" => job'[r].days = 0 .. LastDay
         /\ UNCHANGED calendar
  <1> DEFINE d == IF kind = "sync" THEN Days ELSE 0 .. LastDay
             j == [NoJob EXCEPT !.phase = "source", !.kind = kind, !.config = rule[r], !.days = d]
  <1>1. job' = [job EXCEPT ![r] = j] /\ UNCHANGED calendar
    BY DEF StartRun, calendars
  <1>2. job'[r] = j
    BY <1>1 DEF IInv
  <1> HIDE DEF d
  <1>3. j.phase = "source" /\ j.kind = kind /\ j.todo = {} /\ j.days = d
    BY DEF NoJob
  <1> HIDE DEF j
  <1> QED BY <1>1, <1>2, <1>3 DEF d

\* ... stays the same run, with the same days and configuration ...
SameRun(r) == /\ job'[r].kind = job[r].kind /\ job'[r].config = job[r].config
              /\ job'[r].days = job[r].days /\ job'[r].quiet = job[r].quiet

\* ... lists the source ...
LEMMA ListsSource ==
  ASSUME IInv, NEW r \in Rules, LoadSource(r)
  PROVE  /\ SameRun(r) /\ job'[r].phase = "sink"
         /\ job'[r].source = ListEvents(Source(r), job[r].days)
         /\ UNCHANGED calendar
  <1>1. PICK tw \in Twice(ListEvents(Source(r), job[r].days)) :
          job' = [job EXCEPT ![r].phase = "sink", ![r].source = ListEvents(Source(r), job[r].days),
                             ![r].twice = tw]
    BY DEF LoadSource
  <1> DEFINE listed == ListEvents(Source(r), job[r].days)
             j == [job[r] EXCEPT !.phase = "sink", !.source = listed, !.twice = tw]
  <1>2. job'[r] = j /\ job[r] \in Job
    BY <1>1 DEF IInv
  <1> HIDE DEF listed
  <1>3. /\ j.kind = job[r].kind /\ j.config = job[r].config /\ j.days = job[r].days
        /\ j.quiet = job[r].quiet /\ j.phase = "sink" /\ j.source = listed
    BY <1>2 DEF Job
  <1> HIDE DEF j
  <1> QED BY <1>2, <1>3 DEF SameRun, LoadSource, calendars, listed

\* ... plans its tasks ...
LEMMA MakesTasks ==
  ASSUME IInv, NEW r \in Rules, LoadSink(r)
  PROVE  /\ SameRun(r) /\ job'[r].phase = "tasks" /\ job'[r].source = job[r].source
         /\ job'[r].failed = job[r].failed
         /\ LET f == job[r].config
                listed == ListEvents(f.target, job[r].days)
                source == Transformed(f, job[r].source)
            IN \E tw \in Twice(listed), m \in Maps(listed) :
                 job'[r].todo = IF job[r].kind = "cleanup" THEN CleanupTasks(f, source, listed, tw)
                                ELSE IF f.dryRun THEN {}
                                ELSE SyncTasks(f, source, job[r].twice, listed, tw, m)
         /\ UNCHANGED calendar
  <1> DEFINE f == job[r].config
             listed == ListEvents(f.target, job[r].days)
             source == Transformed(f, job[r].source)
             todo(tw, m) == IF job[r].kind = "cleanup" THEN CleanupTasks(f, source, listed, tw)
                            ELSE IF f.dryRun THEN {}
                            ELSE SyncTasks(f, source, job[r].twice, listed, tw, m)
  <1>1. PICK tw \in Twice(listed), m \in Maps(listed) :
          job' = [job EXCEPT ![r].phase = "tasks", ![r].todo = todo(tw, m)]
    BY DEF LoadSink
  <1> DEFINE d == todo(tw, m)
             j == [job[r] EXCEPT !.phase = "tasks", !.todo = d]
  <1>2. job'[r] = j /\ job[r] \in Job
    BY <1>1 DEF IInv
  <1> HIDE DEF todo, d
  <1>3. /\ j.kind = job[r].kind /\ j.config = job[r].config /\ j.days = job[r].days
        /\ j.quiet = job[r].quiet /\ j.phase = "tasks" /\ j.source = job[r].source
        /\ j.failed = job[r].failed /\ j.todo = d
    BY <1>2 DEF Job
  <1> HIDE DEF j
  <1>4. job'[r].todo = todo(tw, m)
    BY <1>2, <1>3 DEF d
  <1> QED BY <1>1, <1>2, <1>3, <1>4 DEF SameRun, LoadSink, calendars, todo

\* ... executes one of them, or has failed ...
LEMMA DoesTask ==
  ASSUME IInv, NEW r \in Rules, NEW t \in job[r].todo, DoTask(r, t) \/ FailTask(r, t)
  PROVE  /\ SameRun(r) /\ job'[r].phase = job[r].phase /\ job'[r].source = job[r].source
         /\ job'[r].todo = job[r].todo \ {t}
         /\ \/ job'[r].failed = TRUE
            \/ job'[r].failed = job[r].failed /\ Perform(Target(r), t)
  <1> DEFINE b == [job[r] EXCEPT !.todo = @ \ {t}, !.failed = TRUE]
             a == [job[r] EXCEPT !.todo = @ \ {t}]
  <1>1. \/ job' = [job EXCEPT ![r] = b]
        \/ /\ Perform(Target(r), t)
           /\ job' = [Disturbed(job, Target(r), Touched(t)) EXCEPT ![r] = a]
    BY DEF DoTask, FailTask
  <1>2. job[r] \in Job /\ job \in [Rules -> Job]
    BY DEF IInv
  <1>3. /\ b.kind = job[r].kind /\ b.config = job[r].config /\ b.days = job[r].days /\ b.quiet = job[r].quiet
        /\ b.phase = job[r].phase /\ b.source = job[r].source /\ b.todo = job[r].todo \ {t} /\ b.failed = TRUE
        /\ a.kind = job[r].kind /\ a.config = job[r].config /\ a.days = job[r].days /\ a.quiet = job[r].quiet
        /\ a.phase = job[r].phase /\ a.source = job[r].source /\ a.todo = job[r].todo \ {t}
        /\ a.failed = job[r].failed
    BY <1>2 DEF Job
  <1> HIDE DEF a, b
  <1>4. \/ job'[r] = b
        \/ job'[r] = a /\ Perform(Target(r), t)
    BY <1>1, <1>2, DisturbedOK
  <1> QED BY <1>3, <1>4 DEF SameRun

\* ... and ends.
LEMMA Ends ==
  ASSUME IInv, NEW r \in Rules, Finish(r) \/ GiveUp(r)
  PROVE  job'[r].phase = "idle" /\ UNCHANGED calendar
  <1>1. job'[r] = NoJob
    BY DEF Finish, GiveUp, IInv
  <1>2. NoJob.phase = "idle"
    BY DEF NoJob
  <1> QED BY <1>1, <1>2 DEF Finish, GiveUp, calendars

-----------------------------------------------------------------------------
(* A cleanup *)

\* Between its listing and its end, a cleanup that nobody disturbed and none of
\* whose tasks failed has a task for every copy that is still there.
Swept(r) ==
    job[r].kind = "cleanup" /\ job[r].phase # "idle" =>
      /\ job[r].days = 0 .. LastDay
      /\ job[r].phase = "tasks" =>
           /\ \A t \in job[r].todo : t.op = "delete"
           /\ job[r].quiet /\ ~job[r].failed =>
                \A id \in EventIDs : IsManagedEventIDForSource(id, Source(r)) /\ Has(Target(r), id) =>
                  \E t \in job[r].todo : t.event.id = id

\* The listing of all days has every copy.
LEMMA SweepPlanned ==
  ASSUME IInv, NEW r \in Rules, Swept(r), LoadSink(r)
  PROVE  Swept(r)'
  <1> SUFFICES ASSUME job[r].kind = "cleanup" PROVE Swept(r)'
    BY MakesTasks DEF Swept, SameRun
  <1> DEFINE f == job[r].config
             listed == ListEvents(f.target, job[r].days)
             source == Transformed(f, job[r].source)
             found == {ev \in listed : shouldDeleteDuringCleanup(f, source, ev)}
  <1>1. PICK tw : job'[r].todo = Tasks("delete", found, tw)
    BY MakesTasks DEF CleanupTasks
  <1>2. /\ SameRun(r) /\ job'[r].phase = "tasks" /\ UNCHANGED calendar
    BY MakesTasks
  <1>3. job[r].days = 0 .. LastDay
    BY DEF Swept, LoadSink
  <1>4. f \in Configs /\ f.target \in Calendars /\ RowsOK /\ Target(r) = f.target /\ Source(r) = f.source
    BY DEF IInv, Job, Target, Source
  <1>5. ASSUME NEW id \in EventIDs, IsManagedEventIDForSource(id, Source(r)), Has(Target(r), id)
        PROVE  \E t \in job'[r].todo : t.event.id = id
    <2> DEFINE ev == calendarEventToEvent(f.target, id)
    <2>1. calendar[f.target][id].day \in 0 .. LastDay
      BY <1>4, <1>5 DEF RowsOK, CalendarTypeOK, Has, Stored
    <2>2. ev \in listed
      BY <1>3, <1>4, <1>5, <2>1 DEF ListEvents
    <2>3. ev.id = id
      BY DEF calendarEventToEvent
    <2> HIDE DEF ev
    <2>4. ev \in found
      BY <1>4, <1>5, <2>2, <2>3 DEF shouldDeleteDuringCleanup
    <2> DEFINE t == [op |-> "delete", event |-> ev, nth |-> 1]
    <2>5. t \in Tasks("delete", found, tw) /\ t.event.id = id
      BY <2>3, <2>4 DEF Tasks
    <2> QED BY <1>1, <2>5
  <1>6. \A t \in job'[r].todo : t.op = "delete"
    BY <1>1 DEF Tasks
  <1> HIDE DEF f, listed, source, found
  <1>7. Source(r)' = Source(r) /\ Target(r)' = Target(r)
    BY <1>2 DEF SameRun, Source, Target
  <1> QED BY <1>2, <1>3, <1>5, <1>6, <1>7 DEF Swept, SameRun, Has

\* A task that is done leaves no event to delete.
LEMMA SweepGoesOn ==
  ASSUME IInv, NEW r \in Rules, Swept(r), NEW t \in job[r].todo, DoTask(r, t) \/ FailTask(r, t)
  PROVE  Swept(r)'
  <1>1. /\ SameRun(r) /\ job'[r].phase = job[r].phase /\ job'[r].todo = job[r].todo \ {t}
        /\ job'[r].failed = TRUE \/ (job'[r].failed = job[r].failed /\ Perform(Target(r), t))
    BY DoesTask
  <1>2. job[r].phase = "tasks" /\ RowsOK /\ t \in Task /\ Target(r) \in Calendars
    <2>1. JobOK(job[r]) /\ job[r] \in Job
      BY DEF IInv
    <2>2. Target(r) \in Calendars /\ t \in Task
      BY <2>1 DEF Job, Target
    <2> QED BY <2>1, <2>2 DEF JobOK, IInv
  <1>3. Source(r)' = Source(r) /\ Target(r)' = Target(r)
    BY <1>1 DEF SameRun, Source, Target
  <1>4. ASSUME job'[r].kind = "cleanup", job'[r].quiet, ~job'[r].failed,
               NEW id \in EventIDs, IsManagedEventIDForSource(id, Source(r)), Has(Target(r), id)'
        PROVE  \E u \in job'[r].todo : u.event.id = id
    <2>1. /\ job[r].kind = "cleanup" /\ job[r].quiet /\ ~job[r].failed /\ Perform(Target(r), t)
      BY <1>1, <1>4 DEF SameRun
    <2>2. t.op = "delete"
      BY <1>2, <2>1 DEF Swept
    <2>3. Store(Target(r), t.event.id, NoEvent)
      BY <2>1, <2>2 DEF Perform, DeleteEvent
    <2>4. id # t.event.id /\ calendar'[Target(r)][id] = calendar[Target(r)][id]
      <3>1. calendar \in [Calendars -> [EventIDs -> Stored \cup {NoEvent}]]
        BY <1>2 DEF RowsOK, CalendarTypeOK
      <3>2. id = t.event.id => calendar'[Target(r)][id] = NoEvent
        BY <1>2, <2>3, <3>1 DEF Store
      <3>3. id # t.event.id => calendar'[Target(r)][id] = calendar[Target(r)][id]
        BY <1>2, <2>3, <3>1 DEF Store
      <3> QED BY <1>3, <1>4, <3>2, <3>3 DEF Has
    <2>5. Has(Target(r), id)
      BY <1>3, <1>4, <2>4 DEF Has
    <2>6. PICK u \in job[r].todo : u.event.id = id
      BY <1>2, <1>4, <2>1, <2>5 DEF Swept
    <2> QED BY <1>1, <2>4, <2>6
  <1> QED BY <1>1, <1>2, <1>3, <1>4 DEF Swept, SameRun

LEMMA NextSwept ==
  ASSUME IInv, NEW r \in Rules, Swept(r), [Next]_vars
  PROVE  Swept(r)'
  <1>1. CASE Untouched(r)
    <2>1. /\ job'[r] = job[r] /\ Source(r)' = Source(r) /\ Target(r)' = Target(r)
      BY <1>1 DEF Untouched, Source, Target
    <2>2. Target(r) \in Calendars
      BY DEF IInv, Job, Target
    <2>3. ASSUME NEW id \in EventIDs, IsManagedEventIDForSource(id, Source(r))
          PROVE  Has(Target(r), id)' <=> Has(Target(r), id)
      <3>1. calendar'[Target(r)][id] = calendar[Target(r)][id]
        BY <1>1, <2>2, <2>3 DEF Untouched, Concerns
      <3> QED BY <2>1, <3>1 DEF Has
    <2> QED BY <2>1, <2>3 DEF Swept
  <1>2. CASE job'[r] = [job[r] EXCEPT !.quiet = FALSE]
    <2> DEFINE j == [job[r] EXCEPT !.quiet = FALSE]
    <2>1. job[r] \in Job
      BY DEF IInv
    <2>2. j.quiet = FALSE /\ j.kind = job[r].kind /\ j.phase = job[r].phase /\ j.days = job[r].days
          /\ j.todo = job[r].todo
      BY <2>1 DEF Job
    <2> HIDE DEF j
    <2>3. job'[r] = j
      BY <1>2 DEF j
    <2> QED BY <2>2, <2>3 DEF Swept
  <1>3. CASE RunStep(r)
    <2>1. ASSUME NEW kind \in {"sync", "cleanup"}, StartRun(r, kind) PROVE Swept(r)'
      BY <2>1, Begins DEF Swept
    <2>2. CASE LoadSource(r)
      BY <2>2, ListsSource DEF Swept, SameRun, LoadSource
    <2>3. CASE LoadSink(r)
      BY <2>3, SweepPlanned
    <2>4. ASSUME NEW t \in job[r].todo, DoTask(r, t) \/ FailTask(r, t) PROVE Swept(r)'
      BY <2>4, SweepGoesOn
    <2>5. CASE Finish(r) \/ GiveUp(r)
      BY <2>5, Ends DEF Swept
    <2> QED BY <1>3, <2>1, <2>2, <2>3, <2>4, <2>5 DEF RunStep
  <1> QED BY <1>1, <1>2, <1>3, View

\* A cleanup that succeeds, and that nobody disturbed, leaves no copy of its
\* source in its target: whatever the window and the filters say, and whether or
\* not the copies still have their properties; any events, rules and calendars,
\* also for a rule from a calendar to itself (CleanUp, shouldDeleteDuringCleanup).
THEOREM CleanupsAreComplete == Spec => CleanupIsComplete
  <1> DEFINE AllSwept == \A r \in Rules : Swept(r)
             Complete == \A r \in Rules : Succeeds(r, "cleanup") =>
               \A id \in EventIDs : IsManagedEventIDForSource(id, Source(r)) => ~Has(Target(r), id)
  <1>1. Init => AllSwept
    <2>1. NoJob.phase = "idle"
      BY DEF NoJob
    <2> QED BY <2>1 DEF Init, Swept
  <1>2. IInv /\ AllSwept /\ [Next]_vars => AllSwept'
    BY NextSwept
  <1>3. IInv /\ AllSwept => Complete
    <2> SUFFICES ASSUME IInv, NEW r \in Rules, Swept(r), Succeeds(r, "cleanup"),
                        NEW id \in EventIDs, IsManagedEventIDForSource(id, Source(r)), Has(Target(r), id)
                 PROVE  FALSE
      OBVIOUS
    <2>1. /\ job[r].phase = "tasks" /\ job[r].todo = {} /\ job[r].kind = "cleanup" /\ job[r].quiet
          /\ result' = [result EXCEPT ![r] = IF job[r].failed THEN "failed" ELSE "success"]
          /\ result'[r] = "success"
      BY DEF Succeeds, Finish
    <2>2. ~job[r].failed
      BY <2>1 DEF IInv
    <2> QED BY <2>1, <2>2 DEF Swept
  <1> HIDE DEF AllSwept, Complete
  <1>4. IInv /\ AllSwept => [Complete]_vars
    BY <1>3
  <1>5. Spec => [][Complete]_vars
    BY <1>1, <1>2, <1>4, SpecIInv, PTL DEF Spec
  <1> QED BY <1>5 DEF CleanupIsComplete, Complete

-----------------------------------------------------------------------------
(* IDs say what the properties say                                           *)

\* An event with properties has the ID that they stand for ...
Proper ==
    \A c \in Calendars, id \in EventIDs :
      Has(c, id) /\ calendar[c][id].properties # NoProperties =>
        id = ManagedEventID(calendar[c][id].properties.source, calendar[c][id].properties.sync)

\* ... as every update has it.
ProperTasks(r) ==
    \A t \in job[r].todo : t.op = "update" => t.event.id = ManagedEventID(t.event.source, t.event.sync)

\* A listed event, and the row it stands for.
LEMMA RowOf ==
  ASSUME NEW c, NEW days, NEW k \in ListEvents(c, days)
  PROVE  /\ k.id \in EventIDs /\ Has(c, k.id) /\ calendar[c][k.id].day \in days
         /\ k.text = calendar[c][k.id].text /\ k.day = calendar[c][k.id].day
         /\ k.managed <=> calendar[c][k.id].properties # NoProperties
         /\ k.managed => k.sync = calendar[c][k.id].properties.sync
                         /\ k.source = calendar[c][k.id].properties.source
         /\ ~k.managed => k.sync = k.id /\ k.source = c
  <1>1. PICK id \in EventIDs : Has(c, id) /\ calendar[c][id].day \in days /\ k = calendarEventToEvent(c, id)
    BY DEF ListEvents
  <1>2. k.id = id
    BY <1>1 DEF calendarEventToEvent
  <1>3. CASE calendar[c][id].properties = NoProperties
    BY <1>1, <1>2, <1>3 DEF calendarEventToEvent
  <1>4. CASE calendar[c][id].properties # NoProperties
    BY <1>1, <1>2, <1>4 DEF calendarEventToEvent
  <1> QED BY <1>3, <1>4

\* Every row of the days is listed.
LEMMA ListedRow ==
  ASSUME NEW c, NEW days, NEW id \in EventIDs, Has(c, id), calendar[c][id].day \in days
  PROVE  /\ calendarEventToEvent(c, id) \in ListEvents(c, days)
         /\ calendarEventToEvent(c, id).id = id
  BY DEF ListEvents, calendarEventToEvent

\* An own copy in a listing has its properties, and its ID.
LEMMA OwnRowOf ==
  ASSUME RowsOK, Proper, Apart, NEW f \in Configs, NEW days, NEW k \in ListEvents(f.target, days),
         k.source = f.source
  PROVE  /\ k.managed /\ k.id = ManagedEventID(f.source, k.sync) /\ k.sync \in EventIDs
         /\ calendar[f.target][k.id].properties = [sync |-> k.sync, source |-> f.source]
  <1>1. f.target \in Calendars /\ f.source # f.target
    BY DEF Apart
  <1>2. k.managed
    BY <1>1, RowOf
  <1> DEFINE p == calendar[f.target][k.id].properties
  <1>3. Has(f.target, k.id) /\ k.id \in EventIDs /\ p # NoProperties /\ p.sync = k.sync /\ p.source = k.source
    BY <1>2, RowOf
  <1>4. p \in Properties
    BY <1>1, <1>3 DEF RowsOK, CalendarTypeOK, Has, Stored
  <1>5. k.id = ManagedEventID(p.source, p.sync)
    BY <1>1, <1>3 DEF Proper
  <1> HIDE DEF p
  <1>6. p = [sync |-> k.sync, source |-> f.source] /\ p.sync \in EventIDs
    BY <1>3, <1>4 DEF Properties
  <1> QED BY <1>2, <1>3, <1>5, <1>6 DEF p

\* A stored event with the properties it had, with none, or with proper ones.
LEMMA ProperStore ==
  ASSUME RowsOK, Proper, NEW c \in Calendars, NEW id \in EventIDs, NEW e, Store(c, id, e),
         \/ e = NoEvent \/ e.properties = NoProperties
         \/ Has(c, id) /\ e.properties = calendar[c][id].properties
         \/ id = ManagedEventID(e.properties.source, e.properties.sync)
  PROVE  Proper'
  <1>1. /\ calendar'[c][id] = e
        /\ \A d \in Calendars, i \in EventIDs : d # c \/ i # id => calendar'[d][i] = calendar[d][i]
    BY DEF RowsOK, CalendarTypeOK, Store
  <1> SUFFICES ASSUME NEW d \in Calendars, NEW i \in EventIDs, Has(d, i)',
                      calendar'[d][i].properties # NoProperties
               PROVE  i = ManagedEventID(calendar'[d][i].properties.source, calendar'[d][i].properties.sync)
    BY DEF Proper
  <1>2. CASE d = c /\ i = id
    BY <1>1, <1>2 DEF Proper, Has
  <1>3. CASE d # c \/ i # id
    BY <1>1, <1>3 DEF Proper, Has
  <1> QED BY <1>2, <1>3

LEMMA ProperPeople ==
  ASSUME IInv, Proper, NEW c \in Calendars, NEW id \in EventIDs,
         \/ \E text \in Texts, day \in 0 .. LastDay : PutEvent(c, id, text, day)
         \/ RemoveEvent(c, id) \/ LoseProperties(c, id)
  PROVE  Proper'
  <1>1. RowsOK
    BY DEF IInv
  <1> DEFINE e == calendar[c][id]
  <1>2. CASE \E text \in Texts, day \in 0 .. LastDay : PutEvent(c, id, text, day)
    <2>1. PICK text \in Texts, day \in 0 .. LastDay : PutEvent(c, id, text, day)
      BY <1>2
    <2> DEFINE old == IF Has(c, id) THEN e.properties ELSE NoProperties
               new == [text |-> text, day |-> day, properties |-> old]
    <2>2. Store(c, id, new)
      BY <2>1 DEF PutEvent
    <2>3. new.properties = old
      OBVIOUS
    <2> HIDE DEF new
    <2> QED BY <1>1, <2>2, <2>3, ProperStore
  <1>3. CASE RemoveEvent(c, id)
    BY <1>1, <1>3, ProperStore DEF RemoveEvent, DeleteEvent
  <1>4. CASE LoseProperties(c, id)
    <2> DEFINE new == [e EXCEPT !.properties = NoProperties]
    <2>1. Store(c, id, new) /\ e \in Stored
      BY <1>1, <1>4 DEF LoseProperties, Store, RowsOK, CalendarTypeOK, Has
    <2>2. new.properties = NoProperties
      BY <2>1 DEF Stored
    <2> HIDE DEF new
    <2> QED BY <1>1, <2>1, <2>2, ProperStore
  <1> QED BY <1>2, <1>3, <1>4

LEMMA ProperTask ==
  ASSUME IInv, Proper, NEW r \in Rules, ProperTasks(r), NEW t \in job[r].todo, Perform(Target(r), t)
  PROVE  Proper'
  <1>1. RowsOK /\ Target(r) \in Calendars /\ Touched(t) \in EventIDs
    BY TaskChange DEF IInv
  <1>2. t.op \in {"create", "update", "delete"}
    BY DEF IInv, Job, Task
  <1> DEFINE e == StoredEvent(t.event)
  <1>3. e.properties.source = t.event.source /\ e.properties.sync = t.event.sync
    BY DEF StoredEvent
  <1>4. CASE t.op = "create"
    <2>1. Store(Target(r), Touched(t), e) /\ Touched(t) = ManagedEventID(t.event.source, t.event.sync)
      BY <1>4 DEF Perform, CreateEvent, Touched, CreatedId
    <2> HIDE DEF e
    <2> QED BY <1>1, <1>3, <2>1, ProperStore
  <1>5. CASE t.op = "update"
    <2>1. Store(Target(r), Touched(t), e) /\ Touched(t) = ManagedEventID(t.event.source, t.event.sync)
      BY <1>5 DEF Perform, UpdateEvent, Touched, ProperTasks
    <2> HIDE DEF e
    <2> QED BY <1>1, <1>3, <2>1, ProperStore
  <1>6. CASE t.op = "delete"
    <2>1. Store(Target(r), Touched(t), NoEvent)
      BY <1>6 DEF Perform, DeleteEvent, Touched
    <2> QED BY <1>1, <2>1, ProperStore
  <1> QED BY <1>2, <1>4, <1>5, <1>6

LEMMA NextProper ==
  ASSUME IInv, Proper, \A r \in Rules : ProperTasks(r), [Next]_vars
  PROVE  Proper'
  <1>1. ASSUME UNCHANGED calendar PROVE Proper'
    BY <1>1 DEF Proper, Has
  <1>2. ASSUME NEW c \in Calendars, NEW id \in EventIDs,
               \/ \E text \in Texts, day \in 0 .. LastDay : PutEvent(c, id, text, day)
               \/ RemoveEvent(c, id) \/ LoseProperties(c, id)
        PROVE  Proper'
    BY <1>2, ProperPeople
  <1>3. ASSUME NEW r \in Rules, NEW f \in Configs, ChangeRule(r, f) PROVE Proper'
    BY <1>1, <1>3 DEF ChangeRule, calendars
  <1>4. CASE NextDay \/ UNCHANGED vars
    BY <1>1, <1>4 DEF NextDay, vars, calendars
  <1>5. ASSUME NEW r \in Rules, RunStep(r) PROVE Proper'
    <2>1. ASSUME NEW kind \in {"sync", "cleanup"}, StartRun(r, kind) PROVE Proper'
      BY <1>1, <2>1, Begins
    <2>2. CASE LoadSource(r) \/ LoadSink(r) \/ Finish(r) \/ GiveUp(r)
      BY <1>1, <2>2, ListsSource, MakesTasks, Ends
    <2>3. ASSUME NEW t \in job[r].todo, DoTask(r, t) \/ FailTask(r, t) PROVE Proper'
      <3>1. CASE Perform(Target(r), t)
        BY <3>1, ProperTask
      <3>2. CASE UNCHANGED calendars
        BY <1>1, <3>2 DEF calendars
      <3> QED BY <2>3, <3>1, <3>2 DEF DoTask, FailTask
    <2> QED BY <1>5, <2>1, <2>2, <2>3 DEF RunStep
  <1> QED BY <1>2, <1>3, <1>4, <1>5 DEF Next, UserStep

-----------------------------------------------------------------------------
(* The plan of a sync *)

\* The events a run wants to see in its target.
WantedBy(r) == Transformed(job[r].config, job[r].source)

\* The tasks of a sync: it creates and updates what it wants, it deletes what it
\* does not, and always under the ID of its copy of the event.
LEMMA SyncPlan ==
  ASSUME Apart, IInv, Proper, NEW r \in Rules, LoadSink(r), job[r].kind # "cleanup",
         NEW t \in job'[r].todo
  PROVE  /\ t.op \in {"create", "update", "delete"} /\ t.event.source = Source(r)
         /\ t.op = "delete" => \A w \in WantedBy(r) : w.sync # t.event.sync
         /\ t.op # "delete" => \E w \in WantedBy(r) :
              w.sync = t.event.sync /\ w.text = t.event.text /\ w.day = t.event.day
         /\ t.op # "create" =>
              /\ t.event.id = ManagedEventID(Source(r), t.event.sync)
              /\ calendar[Target(r)][t.event.id].properties = [sync |-> t.event.sync, source |-> Source(r)]
  <1> DEFINE f == job[r].config
             source == Transformed(f, job[r].source)
             listed == ListEvents(f.target, job[r].days)
  <1>1. /\ f \in Configs /\ RowsOK /\ Source(r) = f.source /\ Target(r) = f.target
        /\ job[r].source \in SUBSET Event /\ \A ev \in job[r].source : ListedOK(ev, f.source)
    BY DEF IInv, JobOK, Job, Source, Target
  <1>2. \A w \in source : w \in Event /\ w.source = f.source
    BY <1>1, TransformedOK
  <1>3. listed \subseteq Event
    BY <1>1, Listed
  <1>4. PICK tw \in Twice(listed), m \in Maps(listed) :
          job'[r].todo = IF f.dryRun THEN {} ELSE SyncTasks(f, source, job[r].twice, listed, tw, m)
    BY MakesTasks
  <1>5. CASE t \in Tasks("create", ToCreate(f, source, m), job[r].twice)
    <2>1. ToCreate(f, source, m) \subseteq source
      BY DEF ToCreate
    <2> HIDE DEF f, source, listed
    <2>2. t.op = "create" /\ t.event \in source
      BY <1>2, <1>5, <2>1, TasksOf
    <2> QED BY <1>1, <1>2, <2>2 DEF WantedBy, f, source
  <1>6. CASE t \in Tasks("update", ToUpdate(f, source, m), job[r].twice)
    <2>1. \A ev \in ToUpdate(f, source, m) : \E w \in source :
            /\ w.sync \in DOMAIN m /\ m[w.sync].source = f.source /\ ev = Overwrite(m[w.sync], w)
      BY DEF ToUpdate
    <2>2. \A s \in DOMAIN m : m[s] \in listed /\ m[s].sync = s
      BY DEF Maps
    <2>3. ASSUME NEW k \in listed, k.source = f.source
          PROVE  /\ k.id = ManagedEventID(f.source, k.sync)
                 /\ calendar[f.target][k.id].properties = [sync |-> k.sync, source |-> f.source]
      <3> HIDE DEF f
      <3> QED BY <1>1, <2>3, OwnRowOf
    <2> HIDE DEF f, source, listed
    <2>4. t.op = "update" /\ t.event \in ToUpdate(f, source, m)
      <3>1. \A w \in source, k \in listed : Overwrite(k, w) \in Event
        BY <1>2, <1>3 DEF Overwrite, Event
      <3>2. ToUpdate(f, source, m) \in SUBSET Event
        BY <2>1, <2>2, <3>1
      <3> QED BY <1>6, <3>2, TasksOf
    <2>5. PICK w \in source : w.sync \in DOMAIN m /\ m[w.sync].source = f.source /\ t.event = Overwrite(m[w.sync], w)
      BY <2>1, <2>4
    <2>6. t.event.id = m[w.sync].id /\ t.event.sync = w.sync /\ t.event.source = w.source
          /\ t.event.text = w.text /\ t.event.day = w.day
      BY <1>2, <2>5 DEF Overwrite, Event
    <2> QED BY <1>1, <1>2, <2>2, <2>3, <2>4, <2>5, <2>6, SMTT(30) DEF WantedBy, f, source
  <1>7. CASE t \in Tasks("delete", ToDelete(f, source, listed), tw)
    <2>1. \A k \in ToDelete(f, source, listed) :
            k \in listed /\ k.source = f.source /\ \A w \in source : w.sync # k.sync
      BY DEF ToDelete
    <2>2. ASSUME NEW k \in listed, k.source = f.source
          PROVE  /\ k.id = ManagedEventID(f.source, k.sync)
                 /\ calendar[f.target][k.id].properties = [sync |-> k.sync, source |-> f.source]
      <3> HIDE DEF f
      <3> QED BY <1>1, <2>2, OwnRowOf
    <2> HIDE DEF f, source, listed
    <2>3. t.op = "delete" /\ t.event \in ToDelete(f, source, listed)
      BY <1>3, <1>7, <2>1, TasksOf
    <2> QED BY <1>1, <2>1, <2>2, <2>3 DEF WantedBy, f, source
  <1> QED BY <1>4, <1>5, <1>6, <1>7 DEF SyncTasks

\* Updates stay proper.
LEMMA NextProperTasks ==
  ASSUME Apart, IInv, Proper, NEW r \in Rules, ProperTasks(r), [Next]_vars
  PROVE  ProperTasks(r)'
  <1>1. ASSUME job'[r].todo \subseteq job[r].todo PROVE ProperTasks(r)'
    BY <1>1 DEF ProperTasks
  <1>2. CASE Untouched(r)
    BY <1>1, <1>2 DEF Untouched
  <1>3. CASE job'[r] = [job[r] EXCEPT !.quiet = FALSE]
    <2>1. job[r] \in Job
      BY DEF IInv
    <2> QED BY <1>1, <1>3, <2>1 DEF Job
  <1>4. CASE RunStep(r)
    <2>1. ASSUME NEW kind \in {"sync", "cleanup"}, StartRun(r, kind) PROVE ProperTasks(r)'
      BY <2>1, Begins DEF ProperTasks
    <2>2. CASE LoadSource(r) \/ Finish(r) \/ GiveUp(r)
      <3>1. job'[r].phase \in {"sink", "idle"}
        BY <2>2, ListsSource, Ends
      <3>2. IInv'
        BY NextIInv
      <3>3. job'[r].todo = {}
        BY <3>1, <3>2 DEF IInv, JobOK
      <3> QED BY <1>1, <3>3
    <2>3. CASE LoadSink(r)
      <3>1. CASE job[r].kind = "cleanup"
        <4>1. \E f, source, listed, tw : job'[r].todo = CleanupTasks(f, source, listed, tw)
          BY <2>3, <3>1, MakesTasks
        <4>2. ASSUME NEW f, NEW source, NEW listed, NEW tw
              PROVE  \A t \in CleanupTasks(f, source, listed, tw) : t.op = "delete"
          BY DEF CleanupTasks, Tasks
        <4>3. \A t \in job'[r].todo : t.op = "delete"
          BY <4>1, <4>2
        <4> QED BY <4>3 DEF ProperTasks
      <3>2. CASE job[r].kind # "cleanup"
        BY <2>3, <3>2, SyncPlan DEF ProperTasks
      <3> QED BY <3>1, <3>2
    <2>4. ASSUME NEW t \in job[r].todo, DoTask(r, t) \/ FailTask(r, t) PROVE ProperTasks(r)'
      BY <1>1, <2>4, DoesTask
    <2> QED BY <1>4, <2>1, <2>2, <2>3, <2>4 DEF RunStep
  <1> QED BY <1>2, <1>3, <1>4, View

-----------------------------------------------------------------------------
(* A sync                                                                    *)

\* What a row stands for, as calendarEventToEvent has it.
SyncOf(id, e)  == IF e.properties # NoProperties THEN e.properties.sync ELSE id
OwnRow(s, e)   == e.properties # NoProperties /\ e.properties.source = s
LooksLike(e, ev)   == e.text = ev.text /\ e.day = ev.day

\* The row of the target with that ID, if it is in the window.
Row(r, id)     == calendar[Target(r)][id]
InWindow(r, id) == Has(Target(r), id) /\ Row(r, id).day \in job[r].days

\* Each task is about the run's own copy of the event, if it is there.
Planned(r) ==
    \A t \in job[r].todo :
      /\ t.event.source = Source(r)
      /\ t.op = "delete" => \A w \in WantedBy(r) : w.sync # t.event.sync
      /\ t.op # "delete" => \E w \in WantedBy(r) :
           w.sync = t.event.sync /\ w.text = t.event.text /\ w.day = t.event.day
      /\ t.op # "create" =>
           /\ t.event.id = ManagedEventID(Source(r), t.event.sync)
           /\ Has(Target(r), t.event.id) =>
                Row(r, t.event.id).properties = [sync |-> t.event.sync, source |-> Source(r)]

\* An event stands in the target: as somebody else's, as it should, or soon.
Stands(r, w, id) ==
    /\ InWindow(r, id) /\ SyncOf(id, Row(r, id)) = w.sync
    /\ \/ ~OwnRow(Source(r), Row(r, id))
       \/ LooksLike(Row(r, id), w)
       \/ \E t \in job[r].todo : t.op = "update" /\ t.event.id = id

\* What is wanted stands there, or will be created.
Awaited(r) ==
    \A w \in WantedBy(r) :
      \/ \E t \in job[r].todo : t.op = "create" /\ t.event.sync = w.sync
      \/ \E id \in EventIDs : Stands(r, w, id)

\* A copy that is there is wanted, or will be deleted.
OnlyWanted(r) ==
    \A id \in EventIDs : InWindow(r, id) /\ OwnRow(Source(r), Row(r, id)) =>
      \/ \E w \in WantedBy(r) : w.sync = Row(r, id).properties.sync
      \/ \E t \in job[r].todo : t.op = "delete" /\ t.event.id = id

\* The run has not heard of any trouble.
Untroubled(r) ==
    job[r].kind = "sync" /\ ~job[r].config.dryRun /\ job[r].quiet /\ ~job[r].failed

Synced(r) ==
    Untroubled(r) =>
      /\ job[r].phase \in {"sink", "tasks"} => job[r].source = ListEvents(Source(r), job[r].days)
      /\ job[r].phase = "tasks" => Planned(r) /\ Awaited(r) /\ OnlyWanted(r)

\* The facts a run has of its own.
LEMMA RunFacts ==
  ASSUME IInv, NEW r \in Rules
  PROVE  /\ RowsOK /\ job[r] \in Job /\ job[r].config \in Configs
         /\ Source(r) = job[r].config.source /\ Target(r) = job[r].config.target
         /\ Source(r) \in Calendars /\ Target(r) \in Calendars
         /\ \A t \in job[r].todo : t.op \in {"create", "update", "delete"} /\ t.event \in Event
  <1>1. RowsOK /\ job[r] \in Job /\ job[r].config \in Configs
    BY DEF IInv, Job
  <1>2. Source(r) \in Calendars /\ Target(r) \in Calendars
    BY <1>1 DEF Source, Target
  <1>3. \A t \in job[r].todo : t.op \in {"create", "update", "delete"} /\ t.event \in Event
    BY <1>1 DEF Job, Task
  <1> QED BY <1>1, <1>2, <1>3 DEF Source, Target

\* The source has one event of each SyncID, for a day of the window.
LEMMA WantedOnce ==
  ASSUME IInv, NEW r \in Rules, job[r].source = ListEvents(Source(r), job[r].days),
         NEW w \in WantedBy(r)
  PROVE  /\ w \in Event /\ w.source = Source(r) /\ w.day \in job[r].days
         /\ \E ev \in job[r].source : ev.sync = w.sync
         /\ \A v \in WantedBy(r) : v.sync = w.sync => v.text = w.text /\ v.day = w.day
  <1> DEFINE f == job[r].config
             days == job[r].days
  <1>1. /\ f \in Configs /\ Source(r) = f.source /\ Source(r) \in Calendars
        /\ job[r].source \in SUBSET Event /\ \A ev \in job[r].source : ListedOK(ev, f.source)
    BY RunFacts DEF IInv, JobOK, Job
  <1>2. ASSUME NEW v \in WantedBy(r)
        PROVE  \E id \in EventIDs :
                 LET ev == calendarEventToEvent(Source(r), id) IN
                   /\ Has(Source(r), id) /\ calendar[Source(r)][id].day \in days
                   /\ ev \in job[r].source /\ v.sync = id /\ ev.sync = id
                   /\ v.day = calendar[Source(r)][id].day
                   /\ v.text = Looks[payloadTransformations(f)][calendar[Source(r)][id].text]
    <2>1. PICK ev \in job[r].source : Keeps(f, ev) /\ v = TransformEvent(f, ev)
      BY DEF WantedBy, Transformed
    <2>2. PICK id \in EventIDs : /\ Has(Source(r), id) /\ calendar[Source(r)][id].day \in days
                                 /\ ev = calendarEventToEvent(Source(r), id)
      BY DEF ListEvents
    <2>3. ~ev.managed
      BY <2>1 DEF Keeps
    <2>4. ev.sync = id /\ ev.day = calendar[Source(r)][id].day /\ ev.text = calendar[Source(r)][id].text
      <3>1. calendar[Source(r)][id].properties = NoProperties
        BY <2>2, <2>3 DEF calendarEventToEvent
      <3> QED BY <2>2, <3>1 DEF calendarEventToEvent
    <2>5. v.sync = ev.sync /\ v.day = ev.day /\ v.text = Looks[payloadTransformations(f)][ev.text]
      <3>1. ev \in Event
        BY <1>1
      <3> HIDE DEF f
      <3> QED BY <2>1, <3>1 DEF TransformEvent, Event
    <2> QED BY <2>2, <2>4, <2>5
  <1>3. w \in Event /\ w.source = Source(r)
    BY <1>1, TransformedOK DEF WantedBy
  <1>4. w.day \in days /\ \E ev \in job[r].source : ev.sync = w.sync
    BY <1>2
  <1>5. ASSUME NEW v \in WantedBy(r), v.sync = w.sync PROVE v.text = w.text /\ v.day = w.day
    <2> HIDE DEF f
    <2> QED BY <1>2, <1>5
  <1> QED BY <1>3, <1>4, <1>5

-----------------------------------------------------------------------------
(* The listings make a plan *)

LEMMA SyncBegins ==
  ASSUME Apart, IInv, Proper, NEW r \in Rules, Synced(r), LoadSink(r)
  PROVE  Synced(r)'
  <1> SUFFICES ASSUME Untroubled(r)' PROVE Synced(r)'
    BY DEF Synced
  <1>1. /\ SameRun(r) /\ job'[r].phase = "tasks" /\ job'[r].source = job[r].source
        /\ job'[r].failed = job[r].failed /\ UNCHANGED calendar
    BY MakesTasks
  <1>2. /\ job[r].kind = "sync" /\ ~job[r].config.dryRun /\ Untroubled(r)
    BY <1>1 DEF Untroubled, SameRun
  <1>3. job[r].source = ListEvents(Source(r), job[r].days)
    BY <1>2 DEF Synced, LoadSink
  <1>4. Source(r)' = Source(r) /\ Target(r)' = Target(r) /\ WantedBy(r)' = WantedBy(r)
    BY <1>1 DEF SameRun, Source, Target, WantedBy
  <1>5. \A id \in EventIDs : /\ Row(r, id)' = Row(r, id)
                             /\ InWindow(r, id)' <=> InWindow(r, id)
    BY <1>1, <1>4 DEF SameRun, Row, InWindow, Has
  <1> DEFINE f == job[r].config
             source == Transformed(f, job[r].source)
             listed == ListEvents(f.target, job[r].days)
  <1>6. PICK tw \in Twice(listed), m \in Maps(listed) :
          job'[r].todo = SyncTasks(f, source, job[r].twice, listed, tw, m)
    BY <1>2, MakesTasks
  <1>7. Planned(r)'
    <2>1. \A t \in job'[r].todo : t.event.id \in EventIDs
      <3>1. IInv'
        BY NextIInv DEF Next, RunStep
      <3> QED BY <3>1 DEF IInv, Job, Task, Event
    <2> QED BY <1>2, <1>4, <1>5, <2>1, SyncPlan, SMTT(30) DEF Planned, Row
  <1>8. ASSUME NEW w \in WantedBy(r)
        PROVE  \/ \E t \in job'[r].todo : t.op = "create" /\ t.event.sync = w.sync
               \/ \E id \in EventIDs : Stands(r, w, id)'
    <2>1. w.source = Source(r) /\ w \in source /\ Source(r) # f.target /\ Source(r) = f.source
          /\ Target(r) = f.target
      BY <1>3, WantedOnce, RunFacts DEF WantedBy, Apart
    <2>2. CASE w.sync \notin DOMAIN m
      <3>1. w \in ToCreate(f, source, m)
        BY <2>1, <2>2 DEF ToCreate
      <3> DEFINE t == [op |-> "create", event |-> w, nth |-> 1]
      <3>2. t \in Tasks("create", ToCreate(f, source, m), job[r].twice)
        BY <3>1 DEF Tasks
      <3>3. t \in job'[r].todo /\ t.op = "create" /\ t.event = w
        BY <1>6, <3>2 DEF SyncTasks
      <3> QED BY <3>3
    <2>3. CASE w.sync \in DOMAIN m
      <3> DEFINE k == m[w.sync]
      <3>1. k \in listed /\ k.sync = w.sync
        BY <2>3 DEF Maps
      <3>2. /\ k.id \in EventIDs /\ InWindow(r, k.id) /\ SyncOf(k.id, Row(r, k.id)) = w.sync
            /\ k.text = Row(r, k.id).text /\ k.day = Row(r, k.id).day
            /\ OwnRow(Source(r), Row(r, k.id)) => k.source = f.source
        <4> HIDE DEF k
        <4>1. k \in ListEvents(Target(r), job[r].days)
          BY <2>1, <3>1
        <4> HIDE DEF f, listed, source
        <4>2. /\ k.id \in EventIDs /\ InWindow(r, k.id)
              /\ k.text = Row(r, k.id).text /\ k.day = Row(r, k.id).day
              /\ k.managed <=> Row(r, k.id).properties # NoProperties
              /\ k.managed => k.sync = Row(r, k.id).properties.sync
                              /\ k.source = Row(r, k.id).properties.source
              /\ ~k.managed => k.sync = k.id
          BY <4>1, RowOf DEF InWindow, Row
        <4> QED BY <2>1, <3>1, <4>2 DEF SyncOf, OwnRow
      <3>3. CASE k.source = f.source /\ ~IsSameEvent(w, k)
        <4> DEFINE ev == Overwrite(k, w)
                   t == [op |-> "update", event |-> ev, nth |-> 1]
        <4>1. ev \in ToUpdate(f, source, m)
          BY <2>1, <2>3, <3>3 DEF ToUpdate
        <4>2. t \in Tasks("update", ToUpdate(f, source, m), job[r].twice)
          BY <4>1 DEF Tasks
        <4>3. t \in job'[r].todo
          BY <1>6, <4>2 DEF SyncTasks
        <4>4. ev.id = k.id
          BY <1>3, WantedOnce DEF Overwrite, Event
        <4>5. t.op = "update" /\ t.event.id = k.id
          BY <4>4
        <4> HIDE DEF t, k, ev
        <4> QED BY <1>5, <3>2, <4>3, <4>5 DEF Stands
      <3>4. CASE k.source # f.source
        <4> HIDE DEF k
        <4> QED BY <1>4, <1>5, <2>1, <3>2, <3>4 DEF Stands
      <3>5. CASE IsSameEvent(w, k)
        <4> HIDE DEF k
        <4>1. LooksLike(Row(r, k.id), w)
          BY <3>2, <3>5 DEF LooksLike, IsSameEvent
        <4> QED BY <1>4, <1>5, <2>1, <3>2, <4>1 DEF Stands
      <3> QED BY <3>3, <3>4, <3>5
    <2> QED BY <2>2, <2>3
  <1>9. ASSUME NEW id \in EventIDs, InWindow(r, id), OwnRow(Source(r), Row(r, id))
        PROVE  \/ \E w \in WantedBy(r) : w.sync = Row(r, id).properties.sync
               \/ \E t \in job'[r].todo : t.op = "delete" /\ t.event.id = id
    <2> DEFINE k == calendarEventToEvent(f.target, id)
    <2>1. k \in listed /\ k.id = id
      BY <1>9, ListedRow, RunFacts DEF InWindow, Row
    <2>2. k.source = f.source /\ k.sync = Row(r, id).properties.sync
      BY <1>9, <2>1, RowOf, RunFacts DEF Row, OwnRow
    <2> HIDE DEF k
    <2>3. CASE \A w \in source : w.sync # k.sync
      <3> DEFINE t == [op |-> "delete", event |-> k, nth |-> 1]
      <3>1. k \in ToDelete(f, source, listed)
        BY <2>1, <2>2, <2>3 DEF ToDelete
      <3>2. t \in Tasks("delete", ToDelete(f, source, listed), tw)
        BY <3>1 DEF Tasks
      <3>3. t \in job'[r].todo /\ t.op = "delete" /\ t.event.id = id
        BY <1>6, <2>1, <3>2 DEF SyncTasks
      <3> QED BY <3>3
    <2> QED BY <2>2, <2>3 DEF WantedBy
  <1> HIDE DEF f, source, listed
  <1>10. Awaited(r)'
    BY <1>4, <1>8 DEF Awaited
  <1>11. OnlyWanted(r)'
    BY <1>4, <1>5, <1>9 DEF OnlyWanted
  <1>12. job'[r].source = ListEvents(Source(r), job[r].days)'
    BY <1>1, <1>3, <1>4 DEF SameRun, ListEvents, Has, calendarEventToEvent
  <1> QED BY <1>7, <1>10, <1>11, <1>12 DEF Synced

-----------------------------------------------------------------------------
(* The tasks carry it out *)

\* What a task leaves under the ID of its copy, and nowhere else.
LEMMA TaskResult ==
  ASSUME IInv, NEW r \in Rules, Planned(r), NEW t \in job[r].todo, Perform(Target(r), t)
  PROVE  LET own == ManagedEventID(Source(r), t.event.sync) IN
         /\ own \in EventIDs
         /\ \A id \in EventIDs : id # own => calendar'[Target(r)][id] = calendar[Target(r)][id]
         /\ t.op = "delete" => calendar'[Target(r)][own] = NoEvent
         /\ t.op # "delete" => calendar'[Target(r)][own] # NoEvent
                               /\ calendar'[Target(r)][own] = StoredEvent(t.event)
         /\ t.op = "create" => ~Has(Target(r), own)
         /\ Source(r) # Target(r) =>
              \A id \in EventIDs : calendar'[Source(r)][id] = calendar[Source(r)][id]
  <1> DEFINE own == ManagedEventID(Source(r), t.event.sync)
             c == Target(r)
  <1>1. RowsOK /\ c \in Calendars /\ Source(r) \in Calendars /\ t.op \in {"create", "update", "delete"}
        /\ t.event \in Event
    BY RunFacts
  <1>2. /\ t.event.source = Source(r)
        /\ t.op # "create" => t.event.id = own
    BY DEF Planned
  <1>3. Touched(t) = own
    BY <1>1, <1>2 DEF Touched, CreatedId
  <1>4. own \in EventIDs
        /\ \A d \in Calendars, i \in EventIDs : d # c \/ i # own => calendar'[d][i] = calendar[d][i]
    BY <1>3, TaskChange
  <1>5. calendar \in [Calendars -> [EventIDs -> Stored \cup {NoEvent}]]
    BY <1>1 DEF RowsOK, CalendarTypeOK
  <1> HIDE DEF own, c
  <1>6. t.op = "delete" => calendar'[c][own] = NoEvent
    BY <1>1, <1>2, <1>4, <1>5 DEF Perform, DeleteEvent, Store, c
  <1>7. t.op = "create" => Store(c, own, StoredEvent(t.event)) /\ ~Has(c, own)
    BY <1>3 DEF Perform, CreateEvent, CanCreate, Touched, c
  <1>8. t.op = "update" => Store(c, own, StoredEvent(t.event))
    BY <1>3 DEF Perform, UpdateEvent, Touched, c
  <1>9. StoredEvent(t.event) # NoEvent
    <2>1. StoredEvent(t.event) \in Stored
      <3> DEFINE p == [sync |-> t.event.sync, source |-> t.event.source]
      <3>1. p \in Properties /\ t.event.text \in Texts /\ t.event.day \in 0 .. LastDay
        BY <1>1 DEF Event, Properties
      <3> HIDE DEF p
      <3>2. [text |-> t.event.text, day |-> t.event.day, properties |-> p] \in Stored
        BY <3>1 DEF Stored
      <3> QED BY <3>2 DEF StoredEvent, p
    <2> QED BY <2>1
  <1>10. t.op # "delete" => calendar'[c][own] = StoredEvent(t.event)
    BY <1>1, <1>4, <1>5, <1>7, <1>8 DEF Store
  <1> QED BY <1>1, <1>4, <1>6, <1>7, <1>9, <1>10 DEF own, c

LEMMA SyncGoesOn ==
  ASSUME Apart, IInv, NEW r \in Rules, Synced(r), NEW t \in job[r].todo, DoTask(r, t) \/ FailTask(r, t)
  PROVE  Synced(r)'
  <1> SUFFICES ASSUME Untroubled(r)' PROVE Synced(r)'
    BY DEF Synced
  <1>1. /\ SameRun(r) /\ job'[r].phase = job[r].phase /\ job'[r].source = job[r].source
        /\ job'[r].todo = job[r].todo \ {t}
        /\ job'[r].failed = TRUE \/ (job'[r].failed = job[r].failed /\ Perform(Target(r), t))
    BY DoesTask
  <1>2. Untroubled(r) /\ Perform(Target(r), t)
    BY <1>1 DEF Untroubled, SameRun
  <1>3. job[r].phase = "tasks"
    BY DEF IInv, JobOK
  <1>4. /\ job[r].source = ListEvents(Source(r), job[r].days)
        /\ Planned(r) /\ Awaited(r) /\ OnlyWanted(r)
    BY <1>2, <1>3 DEF Synced
  <1>5. Source(r)' = Source(r) /\ Target(r)' = Target(r) /\ WantedBy(r)' = WantedBy(r)
        /\ job'[r].days = job[r].days
    BY <1>1 DEF SameRun, Source, Target, WantedBy
  <1>6. Source(r) # Target(r)
    BY RunFacts DEF Apart
  <1>9. t.op \in {"create", "update", "delete"} /\ t.event \in Event
    BY RunFacts
  <1>0. ManagedEventID(Source(r), t.event.sync) \in EventIDs
    BY <1>2, <1>4, TaskResult
  <1> PICK g \in EventIDs : g = t.event.sync
    BY <1>9 DEF Event
  <1> PICK own \in EventIDs : own = ManagedEventID(Source(r), g)
    BY <1>0
  <1>7. /\ own \in EventIDs
        /\ \A id \in EventIDs : id # own => calendar'[Target(r)][id] = calendar[Target(r)][id]
        /\ t.op = "delete" => calendar'[Target(r)][own] = NoEvent
        /\ t.op # "delete" => calendar'[Target(r)][own] # NoEvent
                              /\ calendar'[Target(r)][own] = StoredEvent(t.event)
        /\ t.op = "create" => ~Has(Target(r), own)
        /\ \A id \in EventIDs : calendar'[Source(r)][id] = calendar[Source(r)][id]
    BY <1>2, <1>4, <1>6, TaskResult
  <1>8. ListEvents(Source(r), job[r].days)' = ListEvents(Source(r), job[r].days)
    BY <1>5, <1>7 DEF ListEvents, Has, calendarEventToEvent
  <1>10. /\ t.event.source = Source(r)
         /\ t.op # "create" => /\ t.event.id = own
                               /\ Has(Target(r), own) =>
                                    Row(r, own).properties = [sync |-> g, source |-> Source(r)]
         /\ t.op = "delete" => \A w \in WantedBy(r) : w.sync # g
    BY <1>4 DEF Planned
  <1>11. ASSUME t.op # "delete"
         PROVE  /\ Row(r, own)'.properties = [sync |-> g, source |-> Source(r)]
                /\ Row(r, own)'.text = t.event.text /\ Row(r, own)'.day = t.event.day
                /\ \E w \in WantedBy(r) : w.sync = g
                /\ \A w \in WantedBy(r) : w.sync = g =>
                     LooksLike(Row(r, own)', w) /\ Row(r, own)'.day \in job[r].days
    <2>1. /\ Row(r, own)'.properties = [sync |-> g, source |-> Source(r)]
          /\ Row(r, own)'.text = t.event.text /\ Row(r, own)'.day = t.event.day
      BY <1>5, <1>7, <1>10, <1>11 DEF Row, StoredEvent
    <2>2. PICK v \in WantedBy(r) : v.sync = g /\ v.text = t.event.text /\ v.day = t.event.day
      BY <1>4, <1>11 DEF Planned
    <2>3. \A w \in WantedBy(r) : w.sync = g => w.text = t.event.text /\ w.day = t.event.day /\ w.day \in job[r].days
      BY <1>4, <2>2, WantedOnce
    <2> QED BY <2>1, <2>2, <2>3 DEF LooksLike
  <1>12. [sync |-> g, source |-> Source(r)].sync = g /\ [sync |-> g, source |-> Source(r)].source = Source(r)
         /\ [sync |-> g, source |-> Source(r)] # NoProperties
    BY <1>9, RunFacts DEF Event, Properties
  <1>13. \A id \in EventIDs : id # own =>
           Row(r, id)' = Row(r, id) /\ (InWindow(r, id)' <=> InWindow(r, id)) /\ (Has(Target(r), id)' <=> Has(Target(r), id))
    BY <1>5, <1>7 DEF Row, InWindow, Has
  <1>14. Planned(r)'
    <2> SUFFICES ASSUME NEW u \in job[r].todo, u.op # "create", Has(Target(r), u.event.id)'
                 PROVE  Row(r, u.event.id)'.properties = [sync |-> u.event.sync, source |-> Source(r)]
      BY <1>1, <1>4, <1>5 DEF Planned
    <2>1. u.event.id = ManagedEventID(Source(r), u.event.sync) /\ u.event.id \in EventIDs
      BY <1>4, RunFacts DEF Planned, Event
    <2>2. CASE u.event.id = own
      <3>1. u.event.sync = g
        BY <2>1, <2>2 DEF ManagedEventID
      <3>2. t.op # "delete"
        BY <1>5, <1>7, <2>2 DEF Has
      <3> QED BY <1>11, <2>2, <3>1, <3>2
    <2>3. CASE u.event.id # own
      BY <1>4, <1>13, <2>1, <2>3 DEF Planned
    <2> QED BY <2>2, <2>3
  <1>15. ASSUME NEW w \in WantedBy(r)
         PROVE  \/ \E u \in job'[r].todo : u.op = "create" /\ u.event.sync = w.sync
                \/ \E id \in EventIDs : Stands(r, w, id)'
    <2>1. CASE t.op # "delete" /\ w.sync = g
      <3>1. InWindow(r, own)' /\ SyncOf(own, Row(r, own)') = w.sync /\ LooksLike(Row(r, own)', w)
        BY <1>5, <1>7, <1>11, <1>12, <2>1 DEF InWindow, Has, SyncOf
      <3>2. Stands(r, w, own)'
        BY <3>1 DEF Stands
      <3> QED BY <1>7, <3>2
    <2>2. CASE w.sync # g
      <3>1. CASE \E u \in job[r].todo : u.op = "create" /\ u.event.sync = w.sync
        BY <1>1, <2>2, <3>1
      <3>2. ASSUME NEW id \in EventIDs, Stands(r, w, id) PROVE Stands(r, w, id)'
        <4>1. id # own
          <5> SUFFICES ASSUME id = own PROVE FALSE
            OBVIOUS
          <5>1. Has(Target(r), own) /\ SyncOf(own, Row(r, own)) = w.sync
            BY <3>2 DEF Stands, InWindow
          <5>2. Row(r, own).properties = [sync |-> g, source |-> Source(r)]
            BY <1>7, <1>10, <5>1
          <5> QED BY <1>12, <2>2, <5>1, <5>2 DEF SyncOf
        <4>2. Row(r, id)' = Row(r, id) /\ InWindow(r, id)' /\ SyncOf(id, Row(r, id)) = w.sync
          BY <1>13, <3>2, <4>1 DEF Stands
        <4>3. (\E u \in job[r].todo : u.op = "update" /\ u.event.id = id) =>
                \E u \in job'[r].todo : u.op = "update" /\ u.event.id = id
          BY <1>1, <1>10, <4>1
        <4> QED BY <1>5, <3>2, <4>2, <4>3 DEF Stands
      <3> QED BY <1>4, <3>1, <3>2 DEF Awaited
    <2> QED BY <1>10, <2>1, <2>2
  <1>16. ASSUME NEW id \in EventIDs, InWindow(r, id)', OwnRow(Source(r), Row(r, id)')
         PROVE  \/ \E w \in WantedBy(r) : w.sync = Row(r, id)'.properties.sync
                \/ \E u \in job'[r].todo : u.op = "delete" /\ u.event.id = id
    <2>1. CASE id = own
      <3>1. t.op # "delete"
        BY <1>5, <1>7, <1>16, <2>1 DEF InWindow, Has
      <3> QED BY <1>11, <1>12, <2>1, <3>1
    <2>2. CASE id # own
      <3>1. Row(r, id)' = Row(r, id) /\ InWindow(r, id) /\ OwnRow(Source(r), Row(r, id))
        BY <1>13, <1>16, <2>2
      <3>2. (\E u \in job[r].todo : u.op = "delete" /\ u.event.id = id) =>
              \E u \in job'[r].todo : u.op = "delete" /\ u.event.id = id
        BY <1>1, <1>10, <2>2
      <3> QED BY <1>4, <3>1, <3>2 DEF OnlyWanted
    <2> QED BY <2>1, <2>2
  <1>17. Awaited(r)'
    BY <1>5, <1>15 DEF Awaited
  <1>18. OnlyWanted(r)'
    BY <1>5, <1>16 DEF OnlyWanted
  <1> QED BY <1>1, <1>4, <1>8, <1>14, <1>17, <1>18 DEF Synced

-----------------------------------------------------------------------------
(* What others do is not about this run, or it notices *)

LEMMA SyncUntouched ==
  ASSUME Apart, IInv, IInv', Proper, Proper', NEW r \in Rules, Synced(r), Untouched(r)
  PROVE  Synced(r)'
  <1>1. job'[r] = job[r] /\ Source(r)' = Source(r) /\ Target(r)' = Target(r) /\ WantedBy(r)' = WantedBy(r)
    BY DEF Untouched, Source, Target, WantedBy
  <1> SUFFICES ASSUME Untroubled(r) PROVE Synced(r)'
    BY <1>1 DEF Synced, Untroubled
  <1>2. /\ Source(r) \in Calendars /\ Target(r) \in Calendars /\ RowsOK
        /\ \A t \in job[r].todo : t.event \in Event
    BY RunFacts
  <1>3. ListEvents(Source(r), job[r].days)' = ListEvents(Source(r), job[r].days)
    <2>1. \A id \in EventIDs : calendar'[Source(r)][id] = calendar[Source(r)][id]
      BY <1>2 DEF Untouched, Concerns
    <2> QED BY <1>1, <2>1 DEF ListEvents, Has, calendarEventToEvent
  <1>4. ASSUME NEW id \in EventIDs, Concerns(r, Target(r), id)
        PROVE  /\ Row(r, id)' = Row(r, id) /\ (InWindow(r, id)' <=> InWindow(r, id))
               /\ Has(Target(r), id)' <=> Has(Target(r), id)
    BY <1>1, <1>2, <1>4 DEF Untouched, Row, InWindow, Has
  <1>5. ASSUME NEW i \in EventIDs, NEW id \in EventIDs, id = ManagedEventID(Source(r), i)
        PROVE  Concerns(r, Target(r), id)
    BY <1>5 DEF Concerns, IsManagedEventIDForSource
  <1> SUFFICES ASSUME job[r].phase = "tasks" PROVE (Planned(r) /\ Awaited(r) /\ OnlyWanted(r))'
    BY <1>1, <1>3 DEF Synced
  <1>6. job[r].source = ListEvents(Source(r), job[r].days) /\ Planned(r) /\ Awaited(r) /\ OnlyWanted(r)
    BY DEF Synced
  <1>7. Planned(r)'
    <2>1. ASSUME NEW t \in job[r].todo, t.op # "create"
          PROVE  /\ Row(r, t.event.id)' = Row(r, t.event.id)
                 /\ Has(Target(r), t.event.id)' <=> Has(Target(r), t.event.id)
      <3>1. t.event.id \in EventIDs /\ t.event.sync \in EventIDs
        BY <1>2 DEF Event
      <3>2. t.event.id = ManagedEventID(Source(r), t.event.sync)
        BY <1>6, <2>1 DEF Planned
      <3> QED BY <1>4, <1>5, <3>1, <3>2
    <2> QED BY <1>1, <1>6, <2>1 DEF Planned
  <1>8. ASSUME NEW w \in WantedBy(r), NEW id \in EventIDs, Stands(r, w, id) PROVE Stands(r, w, id)'
    <2> DEFINE e == Row(r, id)
    <2>1. PICK ev \in job[r].source : ev.sync = w.sync
      BY <1>6, WantedOnce
    <2>2. Has(Target(r), id) /\ SyncOf(id, e) = w.sync
      BY <1>8 DEF Stands, InWindow
    <2>3. CASE e.properties = NoProperties
      BY <1>1, <1>4, <1>8, <2>1, <2>2, <2>3 DEF Concerns, SyncOf, Stands
    <2>4. CASE e.properties # NoProperties
      <3>1. id = ManagedEventID(e.properties.source, w.sync)
        BY <1>2, <2>2, <2>4 DEF Proper, SyncOf, Row
      <3>2. e.properties.source \in Calendars
        BY <1>2, <2>2, <2>4 DEF RowsOK, CalendarTypeOK, Has, Stored, Properties, Row
      <3>3. Concerns(r, Target(r), id)
        BY <2>1, <3>1, <3>2 DEF Concerns
      <3> QED BY <1>1, <1>4, <1>8, <3>3 DEF Stands
    <2> QED BY <2>3, <2>4
  <1>9. Awaited(r)'
    BY <1>1, <1>6, <1>8 DEF Awaited
  <1>10. ASSUME NEW id \in EventIDs, InWindow(r, id)', OwnRow(Source(r), Row(r, id)')
         PROVE  Row(r, id)' = Row(r, id) /\ InWindow(r, id)
    <2> DEFINE p == Row(r, id)'.properties
    <2>1. /\ calendar'[Target(r)][id] # NoEvent /\ p # NoProperties /\ p.source = Source(r)
          /\ p = calendar'[Target(r)][id].properties
      BY <1>1, <1>10 DEF InWindow, Has, OwnRow, Row
    <2>2. p.sync \in EventIDs
      <3>1. calendar'[Target(r)][id] \in Stored
        BY <1>2, <2>1 DEF IInv, RowsOK, CalendarTypeOK
      <3> QED BY <2>1, <3>1 DEF Stored, Properties
    <2>3. id = ManagedEventID(Source(r), p.sync)
      BY <1>2, <2>1 DEF Proper, Has
    <2> HIDE DEF p
    <2> QED BY <1>4, <1>5, <1>10, <2>2, <2>3
  <1>11. OnlyWanted(r)'
    BY <1>1, <1>6, <1>10 DEF OnlyWanted
  <1> QED BY <1>7, <1>9, <1>11

LEMMA NextSynced ==
  ASSUME Apart, IInv, IInv', Proper, Proper', NEW r \in Rules, Synced(r), [Next]_vars
  PROVE  Synced(r)'
  <1>1. CASE Untouched(r)
    BY <1>1, SyncUntouched
  <1>2. CASE job'[r] = [job[r] EXCEPT !.quiet = FALSE]
    <2>1. job'[r].quiet = FALSE
      BY <1>2, RunFacts DEF Job
    <2> QED BY <2>1 DEF Synced, Untroubled
  <1>3. CASE RunStep(r)
    <2>1. ASSUME NEW kind \in {"sync", "cleanup"}, StartRun(r, kind) PROVE Synced(r)'
      BY <2>1, Begins DEF Synced
    <2>2. CASE LoadSource(r)
      <3>1. /\ SameRun(r) /\ job'[r].phase = "sink" /\ UNCHANGED calendar
            /\ job'[r].source = ListEvents(Source(r), job[r].days)
        BY <2>2, ListsSource
      <3>2. Source(r)' = Source(r) /\ job'[r].days = job[r].days
        BY <3>1 DEF SameRun, Source
      <3>3. ASSUME NEW c, NEW days PROVE ListEvents(c, days)' = ListEvents(c, days)
        BY <3>1 DEF ListEvents, Has, calendarEventToEvent
      <3>4. job'[r].source = ListEvents(Source(r), job[r].days)'
        BY <3>1, <3>2, <3>3
      <3> QED BY <3>1, <3>4 DEF Synced
    <2>3. CASE LoadSink(r)
      BY <2>3, SyncBegins
    <2>4. ASSUME NEW t \in job[r].todo, DoTask(r, t) \/ FailTask(r, t) PROVE Synced(r)'
      BY <2>4, SyncGoesOn
    <2>5. CASE Finish(r) \/ GiveUp(r)
      BY <2>5, Ends DEF Synced
    <2> QED BY <1>3, <2>1, <2>2, <2>3, <2>4, <2>5 DEF RunStep
  <1> QED BY <1>1, <1>2, <1>3, View

\* With no task left, what is awaited is there and what is there is wanted.
LEMMA SyncDone ==
  ASSUME Apart, IInv, NEW r \in Rules, Synced(r), Succeeds(r, "sync"), ~job[r].config.dryRun
  PROVE  Mirrored(job[r].config, job[r].days)
  <1> DEFINE f == job[r].config
             days == job[r].days
             sink == ListEvents(f.target, days)
             own(k) == k.managed /\ k.source = f.source
  <1>1. /\ job[r].phase = "tasks" /\ job[r].todo = {} /\ job[r].kind = "sync" /\ job[r].quiet
        /\ result' = [result EXCEPT ![r] = IF job[r].failed THEN "failed" ELSE "success"]
        /\ result'[r] = "success"
    BY DEF Succeeds, Finish
  <1>2. ~job[r].failed
    BY <1>1 DEF IInv
  <1>3. job[r].source = ListEvents(Source(r), days) /\ Awaited(r) /\ OnlyWanted(r)
    BY <1>1, <1>2 DEF Synced, Untroubled
  <1>4. Source(r) = f.source /\ Target(r) = f.target
    BY DEF Source, Target
  <1>5. WantedBy(r) = Transformed(f, ListEvents(f.source, days))
    BY <1>3, <1>4 DEF WantedBy
  <1>6. ASSUME NEW w \in WantedBy(r)
        PROVE  \E k \in sink : k.sync = w.sync /\ (own(k) => IsSameEvent(k, w))
    <2>1. PICK id \in EventIDs : Stands(r, w, id)
      BY <1>1, <1>3 DEF Awaited
    <2> DEFINE k == calendarEventToEvent(f.target, id)
    <2>2. k \in sink /\ k.id = id
      BY <1>4, <2>1, ListedRow DEF Stands, InWindow, Row
    <2> HIDE DEF k
    <2>3. /\ k.text = Row(r, id).text /\ k.day = Row(r, id).day
          /\ k.managed <=> Row(r, id).properties # NoProperties
          /\ k.managed => k.sync = Row(r, id).properties.sync
                          /\ k.source = Row(r, id).properties.source
          /\ ~k.managed => k.sync = id
      BY <1>4, <2>2, RowOf, SMTT(30) DEF Row
    <2>4. k.sync = w.sync
      BY <2>1, <2>3 DEF Stands, SyncOf
    <2>5. own(k) => IsSameEvent(k, w)
      BY <1>1, <1>4, <2>1, <2>3 DEF Stands, OwnRow, LooksLike, IsSameEvent
    <2> QED BY <2>2, <2>4, <2>5
  <1>7. ASSUME NEW k \in sink, own(k) PROVE \E w \in WantedBy(r) : w.sync = k.sync
    <2>1. k.id \in EventIDs /\ InWindow(r, k.id) /\ OwnRow(Source(r), Row(r, k.id))
          /\ k.sync = Row(r, k.id).properties.sync
      BY <1>4, <1>7, RowOf, SMTT(30) DEF InWindow, Row, OwnRow
    <2> QED BY <1>1, <1>3, <2>1 DEF OnlyWanted
  <1> QED BY <1>5, <1>6, <1>7 DEF Mirrored, Wanted, Copied, NoneLeftOver, Own

\* A sync that succeeds, and that nobody disturbed, has made its target what the
\* source and the rule say, within its window, although it compares two listings
\* of different moments and executes its tasks later, in any order; for any
\* events, rules, calendars and lengths of pages, as long as no rule leads
\* from a calendar to itself (SynchroniseTimeframe, diffEvents).
THEOREM SyncsAreExact == ASSUME Apart PROVE Spec => SyncIsExact
  <1> DEFINE Inv == Proper /\ \A r \in Rules : ProperTasks(r) /\ Synced(r)
             Exact == \A r \in Rules : Succeeds(r, "sync") /\ ~job[r].config.dryRun
                          => Mirrored(job[r].config, job[r].days)
  <1>1. Init => Inv
    <2> SUFFICES ASSUME Init PROVE Inv
      OBVIOUS
    <2>1. Proper
      BY InitOriginals DEF Proper
    <2>2. NoJob.phase = "idle" /\ NoJob.todo = {}
      BY DEF NoJob
    <2>3. ASSUME NEW r \in Rules PROVE ProperTasks(r) /\ Synced(r)
      BY <2>2 DEF Init, ProperTasks, Synced
    <2> QED BY <2>1, <2>3
  <1>2. IInv /\ Inv /\ [Next]_vars => Inv'
    BY NextIInv, NextProper, NextProperTasks, NextSynced
  <1>3. IInv /\ Inv => Exact
    BY SyncDone
  <1> HIDE DEF Inv, Exact
  <1>4. IInv /\ Inv => [Exact]_vars
    BY <1>3
  <1>5. Spec => [][Exact]_vars
    BY <1>1, <1>2, <1>4, SpecIInv, PTL DEF Spec
  <1> QED BY <1>5 DEF SyncIsExact, Exact
=============================================================================
