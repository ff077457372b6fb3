------------------------------ MODULE RunQueue ------------------------------
(***************************************************************************)
(* The run queue of the hosted platform: the API (internal/platform/api)   *)
(* inserts runs, by hand, by schedule and for a cleanup; the workers claim *)
(* and execute them; the scheduler job calls both.                         *)
(***************************************************************************)
EXTENDS RunWorker

CONSTANTS
    Dispatchers,  \* requests of the scheduler job the API handles at a time
    NoRule,       \* "no rule"
    Users,        \* which requests of a user the instance makes
    Punctual      \* whether workers always meet their deadlines

ASSUME NoRule \notin Rules
ASSUME Users \subseteq {"manual", "cleanup", "enable", "disable", "delete"}
ASSUME Punctual \in BOOLEAN

VARIABLE disp   \* handleSchedulerDispatch: rules still to look at, rule to insert for

vars == <<store, workers, disp>>

NoDispatch == [left |-> {}, picked |-> NoRule]

TypeOK ==
    /\ StoreTypeOK
    /\ WorkerTypeOK
    /\ disp \in [Dispatchers -> [left : SUBSET Rules, picked : Rules \cup {NoRule}]]

Init ==
    /\ StoreInit
    /\ WorkerInit
    /\ disp = [d \in Dispatchers |-> NoDispatch]

-----------------------------------------------------------------------------
(* Requests of a user (rules.go) *)

ManualRun(k) ==
    /\ "manual" \in Users
    /\ CreateRun(k, "manual")
    /\ UNCHANGED <<workers, disp>>

Cleanup(k) ==
    /\ "cleanup" \in Users
    /\ CreateCleanupRun(k)
    /\ UNCHANGED <<workers, disp>>

PatchRule(k) ==
    /\ \/ "enable" \in Users /\ UpdateRule(k, "enabled")
       \/ "disable" \in Users /\ UpdateRule(k, "disabled")
    /\ UNCHANGED <<workers, disp>>

RemoveRule(k) ==
    /\ "delete" \in Users
    /\ DeleteRule(k)
    /\ UNCHANGED <<workers, disp>>

-----------------------------------------------------------------------------
(* handleSchedulerDispatch: the enabled rules, and for each rule three       *)
(* statements, the first two of which (HasActiveRun, LastRunCreatedAt) are   *)
(* one step here and the third (CreateRun) another.                          *)

DispatchQuery(d) ==
    /\ disp[d] = NoDispatch
    /\ disp' = [disp EXCEPT ![d].left = {k \in Rules : rules[k] = "enabled"}]
    /\ UNCHANGED <<store, workers>>

DispatchCheck(d) ==
    /\ disp[d].picked = NoRule
    /\ \E k \in disp[d].left :
         disp' = [disp EXCEPT ![d].left = @ \ {k},
                              ![d].picked = IF HasActiveRun(k) \/ CreatedRecently(k)
                                            THEN NoRule ELSE k]
    /\ UNCHANGED <<store, workers>>

\* An error of the insert is skipped.
DispatchCreate(d) ==
    /\ disp[d].picked # NoRule
    /\ CreateRun(disp[d].picked, "schedule") \/ UNCHANGED store
    /\ disp' = [disp EXCEPT ![d].picked = NoRule]
    /\ UNCHANGED workers

-----------------------------------------------------------------------------

Tick ==
    /\ Punctual => \A w \in Workers : OnTime(w)
    /\ ClockTicks
    /\ TickersTick
    /\ UNCHANGED <<pc, closed, job, copies, disp>>

Next ==
    \/ \E w \in Workers : WorkerStep(w) /\ UNCHANGED disp
    \/ \E k \in Rules : ManualRun(k) \/ Cleanup(k) \/ PatchRule(k) \/ RemoveRule(k)
    \/ \E d \in Dispatchers : DispatchQuery(d) \/ DispatchCheck(d) \/ DispatchCreate(d)
    \/ Tick

Spec == Init /\ [][Next]_vars

\* What the code does by itself, as long as its process lives.
Progress(w) ==
    \/ Watchdog(w) \/ Claim(w) \/ LoadRule(w) \/ Acquire(w) \/ Plan(w) \/ Abandon(w)
    \/ \E e \in Events : DoTask(w, e) \/ FailTask(w, e)
    \/ JoinTasks(w) \/ CheckLockLost(w) \/ SucceedRun(w) \/ AwaitAnswer(w)
    \/ Release(w) \/ StopTicker(w) \/ HeartbeatStopped(w) \/ FailRun(w)

WorkerFairness(w) ==
    /\ WF_vars(Progress(w) /\ UNCHANGED disp)
    /\ WF_vars((HeartbeatExits(w) \/ Heartbeat(w)) /\ UNCHANGED disp)

\* The instance and the database fail, but not forever: the two statements a
\* request begins with succeed sooner or later.
DatabaseFairness(w) ==
    /\ SF_vars(Watchdog(w) /\ pc'[w] = "claim" /\ UNCHANGED disp)
    /\ SF_vars(Claim(w) /\ pc'[w] = "load" /\ UNCHANGED disp)

\* The scheduler job posts requests forever; time passes.
JobFairness == /\ \A w \in Workers : WF_vars(StartRequest(w) /\ UNCHANGED disp)
               /\ WF_vars(Tick)

\* Clients do not wait forever.
ClientFairness == \A w \in Workers : WF_vars(CloseRequest(w) /\ UNCHANGED disp)

PatientSpec == /\ Spec
               /\ \A w \in Workers : WorkerFairness(w) /\ DatabaseFairness(w)
               /\ JobFairness

FairSpec == PatientSpec /\ ClientFairness

-----------------------------------------------------------------------------
(* Properties *)

\* A run is executed once: no two requests ever have the same run in hand, and
\* a run in hand never goes back to the queue, whatever crashes or is
\* recovered (ClaimNextPendingRun, FailStaleRuns).
ClaimedOnce ==
    \A v, w \in Workers :
      /\ job[w].run # NoRun => runs[job[w].run].status \notin {"none", "pending"}
      /\ v # w /\ job[w].run # NoRun => job[v].run # job[w].run

\* As long as workers are on time and the heartbeat interval fits the lease, no
\* two requests work on the calendars of one rule (AcquireRuleLock,
\* startLockHeartbeat).
RuleExclusive ==
    \A v, w \in Workers :
      Executing(v) /\ Executing(w) /\ RuleOf(v) = RuleOf(w) => v = w

\* The argument for RuleExclusive: a run at work is running and has a fresh
\* lock on its rule, unless the rule was deleted.
LockHeldWhileExecuting ==
    \A w \in Workers : Executing(w) /\ rules[RuleOf(w)] # "deleted" =>
      /\ HoldsLock(RuleOf(w), job[w].run)
      /\ ~Stale(locks[RuleOf(w)].age)
      /\ runs[job[w].run].status = "running"

\* A run is recorded as a success only by the worker that executed it, and only
\* if every task of its pool was executed and succeeded: tasks that the pool
\* drops, and errors it loses, when runCtx is done never hide in a success.
SuccessIsWhole ==
    [][\A r \in Runs : runs[r].status # "success" /\ runs'[r].status = "success" =>
         \E w \in Workers : /\ job[w].run = r
                            /\ job[w].todo = {} /\ ~job[w].missed
                            /\ job[w].err = "none" /\ ~job[w].cancelled]_vars

\* The watchdog never fails a run that a worker on time is executing, nor does
\* it take its lock from it.
WatchdogSparesLive ==
    [][\A w \in Workers : FailStaleRuns /\ Executing(w) /\ rules[RuleOf(w)] # "deleted" =>
         /\ runs'[job[w].run].status = "running"
         /\ locks'[RuleOf(w)] = locks[RuleOf(w)]]_vars

\* A failed run stays failed: MarkRunDone, which does not look at the status,
\* never turns a run that was given up into a success.
FailedStaysFailed ==
    [][\A r \in Runs : runs[r].status = "failed" => runs'[r].status \in {"failed", "deleted"}]_vars

\* A lock changes hands only if its lease is over, its run is finished, or its
\* rule is deleted; otherwise only its own run gives it up.
LocksAreNotStolen ==
    [][\A k \in Rules :
         locks[k].run # NoRun /\ locks'[k].run # locks[k].run =>
           \/ Stale(locks[k].age)
           \/ runs'[locks[k].run].status # "running"
           \/ \E w \in Workers : job[w].run = locks[k].run /\ pc[w] = "release"]_vars

\* With one scheduler request at a time a rule has at most one scheduled run
\* pending or running: HasActiveRun and CreateRun are two statements, but nothing
\* else inserts scheduled runs.
OneScheduledRun ==
    \A r, q \in Runs :
      /\ runs[r].rule = runs[q].rule
      /\ \A s \in {r, q} : /\ runs[s].trigger = "schedule"
                           /\ runs[s].status \in {"pending", "running"}
      => r = q

\* Every run that was claimed ends, also when its worker dies, loses its
\* database, waits for its own heartbeat or listens for a consent: its own worker
\* or the watchdog finishes it.
ClaimedRunEnds ==
    \A r \in Runs : runs[r].status = "running" ~> runs[r].status # "running"

\* Every pending run is claimed, unless its rule is deleted.
PendingRunClaimed ==
    \A r \in Runs : runs[r].status = "pending" ~> runs[r].status # "pending"

\* A request is answered, or its run listens for a consent, which may last for
\* ever; nothing else holds it for ever, not even its own heartbeat, for which
\* executeRun waits before it cancels it, if the client does not.
RequestEndsOrListens ==
    \A w \in Workers : pc[w] # "idle" ~> pc[w] \in {"idle", "listen"}

-----------------------------------------------------------------------------
(* What the documents, tests and user interface say, and the code does not do *)

\* A request that has claimed a run gets to the next RunOnce whatever the run
\* returns, so that it drains the queue (cmd/calendarsync-worker/main_test.go,
\* TestHandleRunContinuesOnErrors); a run that does not return because it listens
\* is another matter.
RequestDrains ==
    \A w \in Workers : pc[w] = "load" ~> pc[w] \in {"watchdog", "idle", "listen"}
=============================================================================
