# CalendarSync Cloud in TLA+

CalendarSync Cloud copies the events of one Google calendar to another, as the
rules of its users say. This directory models the parts of it whose
correctness depends on the order in which things happen: the queue of runs and
the locks in its database, the worker and its goroutines, the task pool, the
difference of two calendars, the contents of a copy, the shared objects that a rule
configures, the arithmetic of sync windows, the accounts of users with the Google
accounts they link, and the tokens on their way from a consent to a run. TLC checks the models on small instances
(`*.cfg`); TLAPS proves some of the results for every value of the constants
(`*_proofs.tla`).

    tlc -config queue_exclusive.cfg MCRunQueue      # PROJECT.json lists all runs
    tlapm RunQueue_proofs.tla

## 1. Inventory

| part | state | operations | what is hard | model |
|---|---|---|---|---|
| Run queue, rule locks (`internal/platform/store/postgres.go`) | `sync_rules`, `sync_runs`, `rule_locks` | create, claim, finish, fail stale runs; acquire, renew, release | several workers, leases, unconditional updates, cascades | `RunStore` |
| Worker (`cmd/calendarsync-worker`, `internal/platform/worker/runner.go`) | stack of `executeRun`, two contexts, heartbeat goroutine | one request drains the queue | lost leases, cancellation, deferred calls, panics, crashes | `RunWorker` |
| API (`internal/platform/api`) | a dispatch under way | manual run, cleanup, change, delete, scheduler dispatch | check and insert are two statements; the API waits ten seconds for the worker | `RunQueue` |
| Task pool (`internal/sync/workers.go`) | two channels, goroutines, wait groups | `parallel` | cancellation racing a hand-out, error channel | `TaskPool`, `Parallel` |
| Synchronisation (`internal/sync/controller.go`, `internal/models`) | none of its own; the calendars | `SynchroniseTimeframe`, `CleanUp` | two listings of different moments, other rules, users | `CalendarSync` |
| Google adapter (`internal/adapter/google`) | the calendars | list, create, update, delete | IDs that follow from the source, pages, deleted events | `GoogleCalendar` |
| Configuration of filters, transformers (`internal/sync/{filter,transformer,util}.go`) | one shared object per name | factories, `autoConfigure` | what is left from other rules; panics; `log.Fatalf` | `RuleConfig` |
| Time window (`timeFromConfig`) | the clock | six identifiers | ends of months, leap years | `SyncWindow` |
| Tokens (`token_codec.go`, `crypto`, `worker/token_storage.go`, `cmd/calendarsync-admin`, `adapter.go`, `auth/handler.go`) | encrypted tokens, the codec of each service | callback, read and re-encrypt, change of keys, `SetupOauth2`, `Listen` | lost updates, a key that is taken away, a wait without a limit | `TokenStore` |
| Users, connections, OAuth state (`postgres.go`, `api/connections.go`, `api/state.go`, migration 0002) | users, connections, tokens, calendars, rules | sign-in with its merge, start, callback, deletion, rules | row locks in two orders, three commits of a callback, users that disappear | `Accounts` |
| Contents of events (`internal/filter`, `internal/transformation`, `models/event.go`, adapter conversions) | the copy, as Google stores it | filter, transform, compare, store | order of transformers, ignored errors, comparisons that see too much or too little | `EventContent` |
| Command line program, Outlook and ZEP adapters | YAML token file | the upstream program | not part of the hosted product | not modelled |
| Web interface, deployment | — | — | clients and settings: inputs and constants here | not modelled |

How they interact: the web interface calls the API; the API inserts runs and
posts a request to the worker; scheduler jobs post a dispatch to the API and a
request to the worker every ten minutes. The worker claims runs out of the
database, holds the lock of the rule while it works, and calls the controller,
which lists both calendars through the adapter and hands its tasks to the pool.

What makes each part correct:

- queue: a run is executed once; it ends; a success is one; a failure stays one;
  scheduled runs do not pile up.
- locks: one run at a time works on the calendars of a rule; a lock is only taken
  from somebody who has lost it.
- pool: every task at most once; nothing silently missing; it returns.
- synchronisation: after a success the target is what the rule says; only own
  copies are touched; copies are not copied; repeated syncs repair
  everything but copies whose ID is taken.
- cleanup: it removes all copies and nothing else, and it lasts.
- configuration: a rule is executed with its own.
- window: it never moves back.
- contents: a copy shows what the rule keeps of its event, and nothing else; a second
  run of a rule has nothing to do.
- accounts: a rule keeps the two Google accounts it copies between, whosever they are (the
  API does not ask); a merge fails for no accounts and loses nothing; a token is one of the
  Google account it is stored for.
- tokens: each stored one can be opened; after the change of keys none is replaced by an
  older one; a run ends, or waits for a consent for a reason.

`PROJECT.json` lists the hazards at their lines, with the properties that cover
them.

## 2. Modules

**`RunStore`** — the rows, and each SQL statement or transaction as one operator:
`ClaimNextPendingRun`, `FailStaleRuns`, `AcquireRuleLock` and so on, under the
names of the code. Rows hold ages instead of timestamps, capped where no statement
can tell a difference any more. A rule that is deleted takes its runs and its lock
along (`ON DELETE CASCADE`).

**`RunWorker`** — one worker is one request in progress. `pc` walks through `RunOnce`
and `executeRun` statement by statement, the deferred calls included, in their order:
release the lock, stop the ticker, wait for the heartbeat, and only then cancel
`runCtx`. `closed` is the request's context; `beat` is the heartbeat goroutine with its
ticker, whose channel holds one tick. Any statement may fail (`Outcomes`), always on a
context that is done. `Plan` stands for everything from the tokens to the lists of
events; it may fail, or panic (`autoConfigure`), and a panic leaves the run without
a result. Or it listens for a consent, at no end: its heartbeat goes on with the lock until the
client leaves, and after that nothing is left that touches anything (`Abandon`). `copies` is what the runs of a rule have put into its target. `OnTime` names
the deadlines of a worker.

**`RunQueue`** — composes both with the API's requests and the dispatch, and states the
properties. `Tick` is time.

**`TaskPool`, `Parallel`** — what the pool promises, and the goroutines and channels that
keep it. `Parallel` implements `TaskPool` (checked and proved); `JoinTasks`, `DoTask` and
`FailTask` of `RunWorker` are that promise.

**`GoogleCalendar`, `CalendarSync`** — the calendars and the requests of the adapter;
several rules, each with the steps of a run: read the rule, list the source, list the
target and make the tasks, execute them in any order, end. Between them users create,
edit and remove events (copies too), the private properties of a copy may get lost, rules
are changed, days pass. The contents of an event are one text, which a set of transformers, by their names,
turns into another (`Looks`), its time one day; a `SyncID` is the ID it stands for; `Copies` are the IDs the adapter computes. A
history variable, `quiet`, says whether somebody else changed what a run is about. When a
listing has two events with one `SyncID`, `Maps` allows each that may be the last one.

**`RuleConfig`** — the objects in `filterConfigMapping` and `transformerConfigMapping`, which
live as long as the process, and the steps of the factories that write into them.

**`SyncWindow`** — `timeFromConfig` over a clock that steps through years; dates are
counted out as `time.Date` does.

**`EventContent`** — one event, its copy and its rule, field by field: every filter, every
transformer with the event that comes with its error (`Nothing`), the fixed order of
`TransformerFactory`, `IsSameEvent`, and the request that a run makes of it. `GetRule`,
`loadFilters` and `loadTransformations` are three steps between which the rule is saved.
`Wanted` says, apart from the code, what a copy is to show. Times are minutes
since a Monday began, words are the texts; that the sanitizer changes a description, and that an address
is invalid, are marks on them. `CalendarSync` has many events, and takes all of this as
one text and one day.

**`Accounts`** — the tables of users, connections, tokens, calendars and rules, one committed
row for each ID. Every API request begins with `UpsertUser`: `SignIn` reads by email,
`LockRow` takes the row locks one after the other, and `mergeUsers` moves what the duplicates
have to the oldest user in one transaction, whose reads and writes are three
steps: the rules of the duplicates and what is copied (`BeginMerge`), the rules over their
connections, whosever they are (`MoveRules`), and the rest with the commit (`UpdateUser`). Callbacks
and other requests come in between, but for the rows it has locked. `Deadlock` is what
PostgreSQL does with requests that wait for each other's users or rules. Signed in, a request starts or
ends the linking of a Google account (`GoogleStart`, `Callback`, `StoreEncryptedToken`,
`ReplaceConnectionCalendars`: three commits), deletes a connection, or saves a rule,
over any two connections that exist: only the form offers nothing but those of its user.
`Migrate` is migration 0002, over any accounts that the older schema allowed; it and a
sign-in share `mergeUsers`.

**`TokenStore`** — the stored token of each connection, as the number of its consent and the
key it is encrypted with. The two services are deployed with one key, with both, with the
new one (`Deploy`); meanwhile callbacks store new tokens, runs re-encrypt what they read, and
so does the admin program, which read its rows when it began. `run` goes from the two tokens
of `executeRun` to the probe of `Initialize`; a revoked one leads to `Listen`, which looks at
no context. `Synchronise` stands for what `RunWorker` and `CalendarSync` model; `RunWorker` in
turn has this wait as one of the outcomes of `Plan`.

`MCRunQueue`, `MCCalendarSync`, `MCRuleConfig`, `MCAccounts` and `MCEventContent` hold the
instances.

## 3. Runs

Runs that pass:

| run | question | bounds |
|---|---|---|
| `queue_exclusive` | is a run executed once, a rule by one worker, and a result true, with two workers, crashes, failing statements, deleted rules? | 1 rule, 2 runs, 2 workers, lease of 1 tick |
| `queue_live` | does every run end, and every request but one that listens, whatever is late or dies? is there at most one scheduled run, with one dispatch at a time? | 1 worker, 2 runs, cleanups, 1 dispatch |
| `parallel` | the pool and its promise | 4 tasks, 3 goroutines |
| `sync_one` | does a success, of a sync or a cleanup, mean what it says? do repeated syncs repair what users, cleanups, failed runs and the passing of days have left? | 1 rule, 4 settings, 2 texts, 2 days, 2 changes; deleted events keep their IDs |
| `sync_two` | and with two rules in a chain, or on one target, at the same time? | 3 calendars, pages of 1 event, syncs and cleanups that fail half-way |
| `accounts` | what do merges, callbacks, deletions and rules over anybody's connections do to each other? | 2 users, 2 connections, 1 rule, 2 requests at a time, 1 OAuth state, 1 Google account |
| `legacy` | and to accounts from before migration 0002, with three users of one person and two Google accounts? | 3 users, 2 connections, 1 rule, 1 request, 1 OAuth state |
| `tokens` | can every token be opened, and is none lost, during the change of keys? | 1 connection, 1 run, 3 consents |
| `content` | does a copy show what the rule keeps, and does a second run send nothing? what do the filters by hour keep? | 1 event, every set of transformers, every filter, quarters of an hour around the frame, 2 edits |
| `window` | does a window ever move back? what does the default cover? | 2023 and 2024, every half day, offsets -1 to 1 |

Runs that show a disagreement between the code and what it, its tests or its
documents say:

| run | what TLC shows |
|---|---|
| `drain_hangs` | a request never gets past its first run while its client waits: `stopHeartbeat` waits for a goroutine that only `cancelRun`, deferred behind it, ends |
| `config_leaks` | a field left empty has the value another rule wrote |

Every property of a passing run is checked against a mutant: a plausible bug in the
definition it depends on (`Mutant:` in the modules), which TLC must find.

### Bounds

Two workers suffice to break exclusion, since every statement names one run and one
rule. One rule: rules share no rows but the queue. Two runs are one in hand and one to be
claimed. A lease of
one tick is the smallest in which a lock can be fresh, at its limit and over; longer ones
differ in how often the heartbeat comes, and the shortest gives it the least room.
In `CalendarSync` the runs of one rule meet users (`sync_one`), and those of two rules each
other (`sync_two`); two days make an event move into and out of a window, and
time pass it; one original in
each calendar suffices since tasks name one event each, and `PageSize` = 1 makes two
events more than a page (in `sync_one` no listing is longer than one). `Copies` stop at copies of copies: runs copy no managed event, so
longer ones need properties to be lost twice. `MaxChanges` bounds what users do, never what
runs do.

In `Accounts` two users of one person are a merge, and a third makes a merge of more than one
duplicate; two requests are a merge and what comes into its way, and what two merges do to
each other; two connections are a rule. One OAuth state at a time is
enough, since callbacks of different users meet in nothing but a merge (`MaxStates`). `accounts` and
`legacy` split the properties, since an instance with all of that is too large: `accounts` begins
with every pair of users and lets two people sign in who have taken over each other's email, so
that merges meet callbacks, rules and each other; in `legacy` a user may sign in, begin to link an
account and be merged away before the callback. Each begins with every population of its tables,
in which the last callback may have failed and left a connection without its token (`Init`). In `TokenStore` one connection is enough because
the two sides of a run may share it and rows do not depend on each other; three consents are
one that was re-encrypted, one that is being stored, and one in between. It leaves merges out,
which copy a token under the key it has, and it has one callback of a connection at a time.
In `EventContent` one event is enough, for a copy depends on its event and its rule alone;
two changes are an edit of the event and one of the rule or the copy. The event is a quarter of an hour to a day long and begins on, before
and after the first and the last hour of the frame, at `HourEnd`, and before midnight. The hours
of a frame are those of a configuration from YAML, since a number out of JSON panics (`util.go:26`).

### Fairness

- Statements of a worker and its heartbeat: weak fairness; goroutines are scheduled.
- The two statements a request begins with: strong fairness of their success; the
  instance and the database fail, but not for ever.
- Requests begin again and again: the scheduler job posts every ten minutes.
- Clients give up: the API after ten seconds, the scheduler at its attempt deadline. This is
  an assumption of `FairSpec` only. Without it (`PatientSpec`) `drain_hangs` finds the
  deadlock; with it `queue_live` shows that the deadlock costs time and no more. A run that
  listens is ended by nothing (`RequestEndsOrListens`), but the run in the database is, since
  the heartbeat stops with the client.
- `TokenStore`: weak fairness of the steps of `executeRun`, as goroutines are scheduled and
  requests to Google and PostgreSQL return; neither failures nor crashes are fair, so
  `RunEndsOrListens` does not rest on them.
- `CalendarSync`: every rule is synced again and again (weak fairness of `SyncStep`), and
  `Reflects` is about behaviours in which, from some point on, nothing else happens.

### Assumptions that matter

`RuleExclusive`, `LockHeldWhileExecuting`, `WatchdogSparesLive` and `FailedStaysFailed` need
workers that meet their deadlines (`Punctual`) and a lease that is no shorter than the
shortest heartbeat (`MinBeat <= Lease`): with a lease below five seconds (`runner.go:249`)
the lock expires between two beats. `ClaimedOnce`, `SuccessIsWhole` and `LocksAreNotStolen`
need neither. `OneScheduledRun` needs one dispatch
at a time, as deployed. Convergence (`Reflects`) is of all events but those whose ID is taken
by a copy that was deleted, moved out of the window or stripped of its properties (`Lost`); the
calendar keeps the IDs of deleted events in all instances (`KeepsIds`). `OnlyOwnCopies` needs
rules that do not lead from a calendar to itself. `MergeLosesNothing` leaves out a rule over a
connection of somebody else that is saved after a merge has moved the rules (`postgres.go:183`). `NoOlderGrant` is about the time after the
change of keys; while it lasts, a re-encrypting writer may take a connection back to the token
it read.

### Known, and not the subject of a run

- `parallel` may start tasks after a cancellation: its select takes either of two ready cases
  (`workers.go:47`; `TestParallelCanceledContext` hopes for the other one).
- A listing of more than a page has its first page twice (`client.go:71`), so that a sync
  fails on the second request of each pair: `Twice` in `CalendarSync` does the same.
- The cleanup of a rule that marks its copies (busy-only, or with `PrefixTitle`, `ReplaceTitle` or
  `AddOriginalLink`) may delete an event of the user that looks like a copy (`controller.go:231`;
  `TestCleanUpDeletesOrphanedPrefixedEvents`; the exception in `OnlyOwnCopies`).
- The API takes any connection for a rule (`api/rules.go:46`), and a merge that deletes one takes
  along a rule of somebody else that was saved over it a moment before (`MergeLosesNothing`).
- A cleanup looks only into the target the rule has now; a copy that lost its properties is
  copied back by a rule in the other direction; a rule from a calendar to itself overwrites
  its originals. `Configs` of the instances leave these out.
- The error of a run whose client has gone is not written: `MarkRunError` gets the cancelled
  context (`runner.go:54`). The run stays running until the watchdog fails it, with its own
  text. `FailRun` of `RunWorker` does the same.
- A dispatch that read a rule before a cleanup disabled it (`runs.go:62`) has it synced after
  the cleanup. `RunQueue` has these steps.
- The ID of a copy follows from its event, and a calendar keeps the IDs of deleted events. After a
  cleanup, which the product recommends for a changed rule (`web/app/page.tsx:73`), each create
  is therefore refused at every run (`client.go:115`; `CanCreate`), and the target stays without
  these copies; so it does for a copy that a user deleted, moved out of the window or stripped of
  its properties. `Reflects` exempts just these (`Lost`).
- `Listen` waits for a consent whatever becomes of its context, although its comment
  (`auth/handler.go:96`) says "just cancel the context and the http server will shut down".
- The hour that begins at `HourEnd` belongs to the frame for both filters (`timeFrame.go:26`,
  `timeFilter.go:26`): with 8 to 17 an event from 17:00 to 17:45 is kept by the one and dropped
  by the other. The preview of the form has `eventHour >= end` outside
  (`create-rule-form.tsx:416`), and `timeFrame_test.go:83` says "Events outside 8 am and 5 pm will
  be filtered." `TimeFiltersKeepHours` leaves this hour open.
- The default window ends before the end of the next month, which `example.sync.yaml:8` gives as
  its end, in every month that is shorter than the next: on 28 March in February, on 30 May in
  April. `DefaultReaches` says exactly where it ends.
- `TimeFilter` and `TimeFrame` compare the hours of the two ends whatever their days are: an
  event of several days may be dropped for the hours of its ends, one that is longer than
  the frame and encloses it as well (the conditions in `TimeFiltersKeepHours`).
- An update leaves out a reminder's zero minutes, which a create sends for a reason
  (`client.go:109`); Google refuses it and the run fails (`Accepted`).
- One reminder on a copy counts as the default of its calendar, so one that somebody adds, or
  that a rule no longer keeps, stays (the exception in `SyncShowsWanted`).
- A panic in `autoConfigure` for a number out of JSON (`util.go:26`) and `log.Fatalf` for a
  regular expression (`regexTitle.go:29`) are in `RuleConfig` and, as ends of a worker, in
  `RunWorker`.

## 4. Proofs

For every number of workers, rules, runs, events, calendars, tasks, goroutines, users,
connections and requests, every lease, every dispatch interval, every
offset of a window, every text, time, filter and set of transformers:

| module | theorem | says | inductive invariant |
|---|---|---|---|
| `RunQueue_proofs` | `TypeCorrect` | `TypeOK` | `IInv` |
| | `ExecutedOnce` | `ClaimedOnce` | `IInv` |
| | `SuccessMeansAllTasks` | `SuccessIsWhole` | `TaskInv` |
| `RuleLock_proofs` | `NoLockStolen` | `LocksAreNotStolen` | `StoreInv` |
| | `ScheduledOnce` | `OneScheduledRun` | `StoreInv`, `DispInv` |
| | `OneWorkerPerRule` | `RuleExclusive` | `LockInv` |
| | `LockHeld` | `LockHeldWhileExecuting` | `LockInv` |
| | `LiveSpared` | `WatchdogSparesLive` | `LockInv` |
| | `FailedForGood` | `FailedStaysFailed` | `LockInv` |
| `Parallel_proofs` | `TypeCorrect` | `TypeOK` | `IInv` |
| | `Exclusive` | `OneWorkerPerTask` | `IInv` |
| | `Complete` | `ResultComplete` | `IInv` |
| | `Implements` | `PoolSpec` | `IInv` |
| `CalendarSync_proofs` | `TypeCorrect` | `TypeOK` | `IInv` |
| | `OwnCopies` | `OnlyOwnCopies` | `IInv` |
| | `DirectCopies` | `CopiesAreDirect` | `IInv`, `Direct` |
| | `CleanupsAreComplete` | `CleanupIsComplete` | `IInv`, `Swept` |
| | `SyncsAreExact` | `SyncIsExact` | `IInv`, `Proper`, `ProperTasks`, `Synced` |
| `Accounts_proofs` | `TypeCorrect` | `TypeOK` | `IInv` |
| | `RulesFollowAccounts` | `RulesKeepAccounts` | `IInv` |
| | `TokensOfAccount` | `TokensFit` | `IInv` |
| | `TokensForCalendars` | `CalendarsHaveToken` | `IInv` |
| | `MergesSucceed` | `MergeCannotFail` | `IInv`, `Merges` |
| | `MergesLoseNothing` | `MergeLosesNothing` | `IInv`, `Merges` |
| `TokenStore_proofs` | `TypeCorrect` | `TypeOK` | `IInv` |
| | `StoredOpen` | `StoredTokensOpen` | `IInv`, `KeysOK` |
| | `NoOlder` | `NoOlderGrant` | `IInv`, `KeysOK` |
| `SyncWindow_proofs` | `WindowNeverMovesBack` | `WindowAdvances` | `IInv` |
| | `DefaultWindowReaches` | `DefaultReaches` | `IInv` |
| `EventContent_proofs` | `RunsShowWanted` | `SyncShowsWanted` | `IInv` |
| | `SettledStaysQuiet` | `SettledNeedsNothing` | `IInv` |
| | `HoursAreKept` | `TimeFiltersKeepHours` | `IInv` |

**Assumptions.** Run ids are numbers in the order of `created_at`; the lease and `MinBeat` are not
zero. The theorems about `LockInv` also assume `Punctual` and `MinBeat <= Lease`; the
others hold however late a worker is. `ScheduledOnce` assumes one dispatch at a time, and
`OwnCopies` and `SyncsAreExact` that no rule leads from a calendar to itself (`Apart`). Workers may crash, statements may fail, rules may be
deleted and clients may leave at every moment.

**`IInv`** of the queue. `ClaimedOnce` says that a run in hand is not pending, and that no other
request has it. A step needs to know that a request which is past its claim has a run at all
(`RunInHand`), or `Finish` would be applied to no row, and that no statement puts a row back
into the queue (`StoreStep`, one lemma for each statement).

**`TaskInv`** adds `Accounted`: from the plan on, a task that was missed without an error to show
for it means that `runCtx` is done. The pool loses errors only then, and `MarkRunDone` fails
only then, which is why the loss never shows as a success.

**`StoreInv`** adds `RowsFit`: a lock is for a claimed run of its rule, a deleted rule has no runs
left, a pending run has no age. That is all `LocksAreNotStolen` needs: the watchdog takes locks
of runs that it fails or whose lease is over, `AcquireRuleLock` expired ones.

**`LockInv`** adds, for every worker, `Keeping`: between claim and lock its run is `Young`, so that
the watchdog leaves it; while it executes the run is `Safe` (running, its lock there and
fresh), and its heartbeat is `Beating`. The argument has three parts. (1) Every statement
`Spares` the runs of the others: what it does to a safe run of somebody else is nothing, unless
it deletes the rule (`SparesBut`, one lemma for each statement). (2) `Acquire` fails where
another worker executes, since that one's lock is held and fresh and its run is not the same
(`ClaimedOnce`). (3) A tick cannot make a lock stale: a worker on time has answered
the last tick of its heartbeat, so the lock is not older than the ticker's phase, and a phase is
shorter than `Interval`, which the lease is not; a worker whose context is done leaves before
its lock is a lease old. Deleted rules are no exception to exclusion, as no lock can be
acquired for them. TLC checked each of these invariants on the small instances first.

**`Parallel`**: its `IInv` says where a task can be (not handed out, with one goroutine, or
done), that tasks are handed out in their order, and that only a context that is done loses one;
`Implements` maps each of
the pool's steps to a step of `TaskPool` or to none.

**`DispInv`** adds that the rule a dispatch has picked, between its check and its insert, has no
scheduled run that is pending or running. The only statement that makes one is the insert
of a dispatch, so with one of them nobody can come in between; each other statement makes
at most less of them (`NoneNew`, one lemma for each).

**`CalendarSync`**: its `IInv` ties what is stored to the ID it is stored under (`RowsOK`): an
event without private properties is an original or a copy of one, and the source that an
event's properties name is the one its ID was computed from. `JobOK` carries this over to
what a run has listed and to its tasks: one that creates or updates is about a copy of the
source, one that deletes as well, or about an event that the orphan match takes for one.
Nothing has to be known of what happens between a listing and a task, and that is why the
tasks may be executed late: IDs, not contents, say whose an event is. Without `Apart` the
metadata of an original and of a copy could not be told apart, which is where a rule from a
calendar to itself goes wrong. `Direct` adds that a run works with its rule as stored, while
nobody changes rules.

What a run finds at its end depends on everything that happened since it began. `View`
settles this for all the rest: each step is one of the run's own, or leaves the run and every
event it is about as they were (`Untouched`), or the run is not `quiet` any more and nothing
is said of it. So two invariants about one run suffice. `Swept`: every copy of the source
that is still in the target has a task to delete it. `Synced`: what was listed of the source
is still what the source has; each event that the run wants to see stands in the target,
or a task will create or update it (`Awaited`); and each own copy in the window is of a
wanted event, or a task will delete it (`OnlyWanted`). When no task is left and
none has failed, these are `CleanupIsComplete` and `SyncIsExact`. That the tasks may be
executed in any order needs `Proper` and `ProperTasks`: an event with properties has the ID that
they stand for, so that no two tasks of a run are about one event, and what an
event lost with its properties (`LoseProperties`) is still found by its ID. Which of two
events with one `SyncID` a map keeps does not matter: the proof allows each.

**`Accounts`**: its `IInv` says of the tables that rows refer to rows that are there, and what
requests hold between two steps (`RequestsOK`): the token of a callback whose connection is
stored (`Fits`), the one that it has stored (`HasToken`), and the tokens that a merge copied
before it deletes the rows it took them from (`CopiedOK`). A connection that was deleted or
merged meanwhile is no exception, as IDs are never used again. A rule follows its
connections through a merge because both are moved by the same map, `Target`, which leads from
a connection to one of the same Google account, and of the same user afterwards.

`Merges` adds what a merge relies on: rows are unique as the constraints of the tables have it
(`UniqueUsers`, `UniqueConnections`), the users that a sign-in has locked still match it and
nobody else has them (`LocksMatch`, `LocksDisjoint`), and a token that goes with its connection
was copied to where its rules go (`TokensCopied`). After the migration one user at most matches
by email and one by external ID. Of two or more duplicates one is the user that stays, so a
single one is merged into it, and its connections are to different Google accounts:
`MergeCannotFail`. Before the migration three users may match (`legacy` has them); and where
`legacy` has one request and `accounts` two, the theorem has any number.
Between the steps of a merge nobody else touches a connection of a locked user but to
delete it, as the foreign key of a new one waits for the lock; so what was copied is what the
deletion takes along (`CopiesStay`), and nothing is lost: `MergeLosesNothing`.

**`TokenStore`**: `Types`, `Issued` and `RunsOK` say that nobody holds a token that was not
issued for that connection. `KeysOK` adds who may still write under the static key: once a
run of the admin program began with no such writer and ended with success, no row, no
callback and no run has a token under it, so that the key may go, and no re-encryption of an
old token is left.

**`SyncWindow`**: its `IInv` is that the clock shows a date that exists. Both properties rest
on one fact of the calendar, `MonthLength`: the first day of the next month is `DaysIn` days
after that of this one, for every year, and also where `time.Date` carries a
month out of range into the year (`FirstOfMonth`); leap years are the differences of three
quotients (`LeapYear`). Within a month all ends move with the days (`WithinMonth`). At its
end the day of the month falls back to 1, and `MonthEnd`, which keeps the length of the old
month, to another one, but the first of the month has moved by as much or more
(`AcrossMonths`).

**`EventContent`**: its `IInv` says that a run during which nobody saved the rule has read it
as it is, and that a settled copy `Shows` what is `Wanted`. The rest is about one run. The loop
of `TransformEvent` is a function over the places of `transformerOrder`; `Unrolled`
shows that it is nine transformers, each applied if it is configured. One that fails loses
the metadata for good (`MetadataLost`); without a failure each transformer sets one
field and leaves the others (`Transformers`), so that each field of the copy is what its
own transformers make of it (`CopyFields`), which is what `Wanted` says (`WantedIs`,
`MakesWanted`). Reminders become points in time and minutes before the start again
(`Points`), so that a copy which is listed compares equal exactly if it shows what is wanted
(`SameAsWanted`): then a run leaves it, and otherwise it stores one that does
(`LeftShows`). The theorems assume what the types of events and rules say: an event does not
end before it starts, its reminders are finitely many, and the texts that
CalendarSync writes are texts. For `TimeFiltersKeepHours` it matters that the
hours of a frame are hours of a day (`FrameAssumption`), though not that the
first is the earlier one: with an hour over 24 the `TimeFrame` filter drops events that
have minutes in the frame (`EndsInFrame` is where it is needed). A time is a day and a minute of
it (`TimeOf`, `MinutesOfDay`), and an hour lies in the frame exactly if its minutes lie between
the frame's first and the end of the hour that begins at its last (`HourBetween`), which is where
the open hour of the property comes from. What `Keeps` says of the other
filters plays no role, as the run and `Wanted` ask the same.

Out of the prover's reach, and only checked by TLC: liveness (`ClaimedRunEnds`,
`PendingRunClaimed`, `RequestEndsOrListens`, `Returns`, `Reflects`, `RunEndsOrListens`). All invariants and
action properties of the passing runs are proved.
`RequestDrains` (`drain_hangs`) and `OwnConfiguration` (`config_leaks`) do not hold.

## 5. Not modelled

- Statements under READ COMMITTED that see rows of different moments: statements are
  atomic here, except where `Accounts` waits for row locks and `EventContent` reads a rule in
  three. The watchdog's update (`postgres.go:846`), which may overwrite a success that
  commits while it runs, is the place where this matters.
- Two rules with the same source and target and different filters: each undoes what the
  other does.
- Recurring events, wording of messages, rate limits and the retries inside one request.
- Cryptography, the HMAC of the OAuth state and KMS: they decrypt and verify what they have
  made, and nothing else.
- The refresh of a list of calendars on request, presets, validation of names, and requests
  that only read.
- The command line program of the upstream project, which the product does not run: one
  process of one user, with a YAML file of tokens that is cached, truncated and
  rewritten (`auth/yaml_storage.go`). What it shares with the worker is modelled there.
- Its adapters for Outlook and ZEP, which the hosted product does not offer. The former
  returns no events and no error for an answer other than 200, which a sync would take
  for an empty calendar.
- The web interface, whose requests are actions here and whose empty fields are inputs of
  `RuleConfig`, and the deployment, whose settings are constants and fairness.
