------------------------------ MODULE RunStore ------------------------------
(***************************************************************************)
(* The rows of the platform database that the run queue lives in, and the  *)
(* SQL statements of internal/platform/store that change them.  Every      *)
(* statement, or transaction, is one atomic change of the rows.            *)
(*                                                                         *)
(* Time: the statements only compare NOW() with a stored timestamp, so a   *)
(* row keeps the age of its timestamp instead, which ClockTicks increases, *)
(* which stops at the first value no comparison tells apart, and which is  *)
(* 0 where nothing compares it: started_at of a run that is not running.   *)
(***************************************************************************)
EXTENDS Naturals

CONSTANTS
    Rules,        \* ids of sync_rules
    Runs,         \* ids of sync_runs, in the order of their created_at
    NoRun,        \* "no run": no row, or a NULL
    Lease,        \* the lease of a rule lock, in ticks (RUN_LOCK_LEASE_SECONDS)
    MinInterval   \* DISPATCH_MIN_INTERVAL_SECONDS, in ticks

ASSUME RunsAssumption == Runs \subseteq Nat /\ NoRun \notin Runs
ASSUME LeaseAssumption == Lease \in Nat \ {0} /\ MinInterval \in Nat

VARIABLES
    rules,   \* sync_rules: enabled, disabled, or deleted
    runs,    \* sync_runs
    locks    \* rule_locks: the run that holds the lock of a rule, if any

store == <<rules, runs, locks>>

RuleStatus == {"enabled", "disabled", "deleted"}
Triggers   == {"schedule", "manual", "cleanup"}
\* "none" is a row not inserted yet, "deleted" a row deleted with its rule.
RunStatus  == {"none", "pending", "running", "success", "failed", "deleted"}
\* What sync_runs.error says, and what executeRun returns: the rule is gone,
\* "rule is already running", the work failed, "run lock lease lost", a
\* statement failed, a panic (never written), the text of the watchdog.
Errors     == {"none", "gone", "busy", "sync", "lost", "db", "panic", "stale"}

RunRow  == [status : RunStatus, rule : Rules, trigger : Triggers,
            error : Errors, started : 0 .. Lease + 1, created : 0 .. MinInterval]
LockRow == [run : Runs \cup {NoRun}, age : 0 .. Lease + 1]

NoLock == [run |-> NoRun, age |-> 0]

\* Mutant: a status no other statement knows.
QueuedRun(k, t) == [status |-> "queued", rule |-> k, trigger |-> t,
                    error |-> "none", started |-> 0, created |-> 0]

\* What CreateRun inserts.
NewRun(k, t) == [status |-> "pending", rule |-> k, trigger |-> t,
                 error |-> "none", started |-> 0, created |-> 0]

StoreTypeOK ==
    /\ rules \in [Rules -> RuleStatus]
    /\ runs \in [Runs -> RunRow]
    /\ locks \in [Rules -> LockRow]

StoreInit ==
    /\ rules \in [Rules -> {"enabled", "disabled"}]
    /\ \E k \in Rules : runs = [r \in Runs |-> [NewRun(k, "manual") EXCEPT !.status = "none"]]
    /\ locks = [k \in Rules |-> NoLock]

-----------------------------------------------------------------------------
(* Inserting runs *)

\* The next id: created_at orders the runs as they are inserted.
IsNextId(r) == /\ runs[r].status = "none"
              /\ \A q \in Runs : q < r => runs[q].status # "none"

InsertRun(r, k, t) == runs' = [runs EXCEPT ![r] = NewRun(k, t)]

\* INSERT; the foreign key refuses it when the rule is gone.
CreateRun(k, t) ==
    /\ rules[k] # "deleted"
    /\ \E r \in Runs : IsNextId(r) /\ InsertRun(r, k, t)
    /\ UNCHANGED <<rules, locks>>

\* One transaction: disable the rule and queue its cleanup.
CreateCleanupRun(k) ==
    /\ rules[k] # "deleted"
    /\ rules' = [rules EXCEPT ![k] = "disabled"]
    /\ \E r \in Runs : IsNextId(r) /\ InsertRun(r, k, "cleanup")
    /\ UNCHANGED locks

\* Mutant: a running run does not count.
HasPendingRun(k) ==
    \E r \in Runs : runs[r].rule = k /\ runs[r].status = "pending"

HasActiveRun(k) ==
    \E r \in Runs : runs[r].rule = k /\ runs[r].status \in {"pending", "running"}

\* The newest run of the rule is younger than the dispatch interval.
CreatedRecently(k) ==
    \E r \in Runs : /\ runs[r].rule = k
                    /\ runs[r].status \notin {"none", "deleted"}
                    /\ runs[r].created < MinInterval

\* The ON DELETE CASCADE of rules to runs and locks.
DeleteRule(k) ==
    /\ rules[k] # "deleted"
    /\ rules' = [rules EXCEPT ![k] = "deleted"]
    /\ runs' = [r \in Runs |->
                  IF runs[r].rule = k /\ runs[r].status # "none"
                  THEN [runs[r] EXCEPT !.status = "deleted", !.started = 0] ELSE runs[r]]
    /\ locks' = [locks EXCEPT ![k] = NoLock]

UpdateRule(k, status) ==
    /\ rules[k] # "deleted"
    /\ rules' = [rules EXCEPT ![k] = status]
    /\ UNCHANGED <<runs, locks>>

-----------------------------------------------------------------------------
(* Claiming and finishing runs *)

Pending == {r \in Runs : runs[r].status = "pending"}

\* UPDATE ... FOR UPDATE SKIP LOCKED: the oldest pending run.
ClaimNextPendingRun(r) ==
    /\ r \in Pending
    /\ \A q \in Pending : r <= q
    /\ runs' = [runs EXCEPT ![r].status = "running"]
    /\ UNCHANGED <<rules, locks>>

\* Mutant: off by one.
StaleTooSoon(age) == age >= Lease

Stale(age) == age > Lease

\* Mutant: the lock of the run is not looked at.
LongRuns ==
    {r \in Runs : runs[r].status = "running" /\ Stale(runs[r].started)}

\* Mutant: an inner join, so a run without a lock is never recovered.
StaleRunsWithLock ==
    {r \in Runs : /\ runs[r].status = "running"
                  /\ Stale(runs[r].started)
                  /\ locks[runs[r].rule].run = r
                  /\ Stale(locks[runs[r].rule].age)}

\* Running longer than the lease, and no fresh lock says it is still at work.
StaleRuns ==
    {r \in Runs : /\ runs[r].status = "running"
                  /\ Stale(runs[r].started)
                  /\ \/ locks[runs[r].rule].run # r
                     \/ Stale(locks[runs[r].rule].age)}

\* Mutant: a stale run is queued again.
Requeued(r) == IF r \in StaleRuns
               THEN [runs[r] EXCEPT !.status = "pending", !.started = 0]
               ELSE runs[r]

Recovered(r) == IF r \in StaleRuns
                THEN [runs[r] EXCEPT !.status = "failed", !.error = "stale", !.started = 0]
                ELSE runs[r]

\* A lock row the watchdog deletes: its run is not running any more, or the
\* lease is over.
DeadLock(lock) == /\ lock.run \in Runs
                  /\ \/ Recovered(lock.run).status # "running"
                     \/ Stale(lock.age)

FailStaleRuns ==
    /\ runs' = [r \in Runs |-> Recovered(r)]
    /\ locks' = [k \in Rules |-> IF DeadLock(locks[k]) THEN NoLock ELSE locks[k]]
    /\ UNCHANGED rules

\* UPDATE ... WHERE id = $1, whatever the status is; no row, no effect.
Finish(r, status, error) ==
    /\ runs' = IF runs[r].status = "deleted" THEN runs
               ELSE [runs EXCEPT ![r].status = status, ![r].started = 0,
                                 ![r].error = IF status = "failed" THEN error ELSE @]
    /\ UNCHANGED <<rules, locks>>

MarkRunDone(r) == Finish(r, "success", "none")
MarkRunError(r, error) == Finish(r, "failed", error)

-----------------------------------------------------------------------------
(* Rule locks *)

CanAcquire(k, r) == \/ locks[k].run = NoRun
                    \/ locks[k].run = r
                    \/ Stale(locks[k].age)

\* INSERT ... ON CONFLICT DO UPDATE.
AcquireRuleLock(k, r) ==
    /\ CanAcquire(k, r)
    /\ locks' = [locks EXCEPT ![k] = [run |-> r, age |-> 0]]
    /\ UNCHANGED <<rules, runs>>

HoldsLock(k, r) == locks[k].run = r

\* Mutant: locked_at is not set.
ConfirmRuleLock(k, r) == HoldsLock(k, r) /\ UNCHANGED store

RenewRuleLock(k, r) ==
    /\ HoldsLock(k, r)
    /\ locks' = [locks EXCEPT ![k].age = 0]
    /\ UNCHANGED <<rules, runs>>

\* Mutant: DELETE ... WHERE rule_id = $1.
DeleteRuleLock(k, r) ==
    /\ locks' = [locks EXCEPT ![k] = NoLock]
    /\ UNCHANGED <<rules, runs>>

ReleaseRuleLock(k, r) ==
    /\ locks' = IF HoldsLock(k, r) THEN [locks EXCEPT ![k] = NoLock] ELSE locks
    /\ UNCHANGED <<rules, runs>>

-----------------------------------------------------------------------------
(* NOW() advances by one tick: every timestamp a statement may still compare *)
(* gets older.                                                               *)

Older(age, cap) == IF age < cap THEN age + 1 ELSE age

ClockTicks ==
    /\ runs' = [r \in Runs |->
                  [runs[r] EXCEPT
                     !.started = IF runs[r].status = "running" THEN Older(@, Lease + 1) ELSE @,
                     !.created = IF runs[r].status \in {"none", "deleted"} THEN @
                                 ELSE Older(@, MinInterval)]]
    /\ locks' = [k \in Rules |-> [locks[k] EXCEPT
                     !.age = IF locks[k].run = NoRun THEN @ ELSE Older(@, Lease + 1)]]
    /\ UNCHANGED rules
=============================================================================
