----------------------------- MODULE RunWorker -----------------------------
(***************************************************************************)
(* The worker service (cmd/calendarsync-worker, internal/platform/worker): *)
(* a request to /internal/worker/run drains the queue, one RunOnce after   *)
(* the other.  RunOnce recovers stale runs, claims a run, and executes it  *)
(* under the lock of its rule, which a heartbeat goroutine keeps fresh.    *)
(*                                                                         *)
(* Every worker of the model is one request being handled, with the two    *)
(* goroutines and the two contexts of the code: the request's context,     *)
(* done once the client has gone, and runCtx, derived from it, which       *)
(* cancelRun cancels.  What a run does to the calendars is the sets of     *)
(* copies its rule has in the target calendar; the difference between the  *)
(* two calendars and the task pool are modelled in detail elsewhere.       *)
(***************************************************************************)
EXTENDS RunStore

CONSTANTS
    Workers,   \* requests the worker service handles at a time
    Events,    \* events of a source calendar
    DbFails,   \* whether the database may fail a statement
    MinBeat    \* the shortest heartbeat interval (5 seconds), in ticks

ASSUME WorkerAssumption == MinBeat \in Nat \ {0} /\ DbFails \in BOOLEAN

VARIABLES
    pc,       \* where the goroutine of the request is
    closed,   \* the request's context is done
    job,      \* the local variables of RunOnce and executeRun
    beat,     \* the heartbeat goroutine of executeRun and its ticker
    copies    \* the managed events of a rule in its target calendar

workers == <<pc, closed, job, beat, copies>>

\* One third of the lease, but at least MinBeat (3 * MinBeat > Lease says the
\* same as Lease / 3 < MinBeat of the durations of the code).
Interval == IF 3 * MinBeat > Lease THEN MinBeat ELSE Lease \div 3

\* The statements of RunOnce and executeRun, in order; "idle" is no request,
\* "listen" a Plan that waits for a consent.
PCs == {"idle", "watchdog", "claim", "load", "acquire", "plan", "listen", "tasks",
        "check", "done", "answer", "release", "stop", "wait", "error"}

Job == [run : Runs \cup {NoRun},   \* the claimed run
        err : Errors,              \* what executeRun is going to return
        todo : SUBSET Events,      \* tasks of the pool not executed yet
        missed : BOOLEAN,          \* a task failed or was dropped
        lockLost : BOOLEAN,        \* the flag the heartbeat sets
        cancelled : BOOLEAN]       \* cancelRun was called

NoJob == [run |-> NoRun, err |-> "none", todo |-> {}, missed |-> FALSE,
          lockLost |-> FALSE, cancelled |-> FALSE]

\* phase: ticks since the last instant of the ticker; due: a tick waits in
\* its channel (which holds one).
Beat == [live : BOOLEAN, ticking : BOOLEAN, phase : 0 .. Interval, due : BOOLEAN]

NoBeat == [live |-> FALSE, ticking |-> FALSE, phase |-> 0, due |-> FALSE]

WorkerTypeOK ==
    /\ pc \in [Workers -> PCs]
    /\ closed \in [Workers -> BOOLEAN]
    /\ job \in [Workers -> Job]
    /\ beat \in [Workers -> Beat]
    /\ copies \in [Rules -> SUBSET Events]

WorkerInit ==
    /\ pc = [w \in Workers |-> "idle"]
    /\ closed = [w \in Workers |-> FALSE]
    /\ job = [w \in Workers |-> NoJob]
    /\ beat = [w \in Workers |-> NoBeat]
    /\ copies = [k \in Rules |-> {}]

-----------------------------------------------------------------------------
(* Helpers *)

RunCtxDone(w) == closed[w] \/ job[w].cancelled

\* Whether a statement succeeds: never on a context that is done, and else
\* unless the database fails.
Outcomes(ctxDone) == IF ctxDone THEN {FALSE} ELSE IF DbFails THEN BOOLEAN ELSE {TRUE}

RuleOf(w) == runs[job[w].run].rule
IsCleanup(w) == runs[job[w].run].trigger = "cleanup"

Goto(w, label) == pc' = [pc EXCEPT ![w] = label]

\* executeRun returns err from the given statement on.
Fail(w, err, label) == /\ job' = [job EXCEPT ![w].err = err]
                       /\ Goto(w, label)

\* drainRuns returns and the request is answered.
Answered(w) == /\ Goto(w, "idle")
               /\ closed' = [closed EXCEPT ![w] = FALSE]

\* RunOnce returns worked = true, and drainRuns calls it again.
NextRound(w) == /\ Goto(w, "watchdog")
                /\ job' = [job EXCEPT ![w] = NoJob]

-----------------------------------------------------------------------------
(* Requests: the scheduler job or the API posts one, its client may give up  *)
(* (the API after ten seconds), and the instance may die.                    *)

StartRequest(w) ==
    /\ pc[w] = "idle"
    /\ Goto(w, "watchdog")
    /\ UNCHANGED <<closed, job, beat, copies, store>>

CloseRequest(w) ==
    /\ pc[w] # "idle"
    /\ ~closed[w]
    /\ closed' = [closed EXCEPT ![w] = TRUE]
    /\ UNCHANGED <<pc, job, beat, copies, store>>

Crash(w) ==
    /\ pc[w] # "idle"
    /\ Answered(w)
    /\ job' = [job EXCEPT ![w] = NoJob]
    /\ beat' = [beat EXCEPT ![w] = NoBeat]
    /\ UNCHANGED <<copies, store>>

-----------------------------------------------------------------------------
(* RunOnce: recover, claim *)

Watchdog(w) ==
    /\ pc[w] = "watchdog"
    /\ \E ok \in Outcomes(closed[w]) :
         IF ok THEN FailStaleRuns /\ Goto(w, "claim") /\ UNCHANGED closed
               ELSE Answered(w) /\ UNCHANGED store
    /\ UNCHANGED <<job, beat, copies>>

Claim(w) ==
    /\ pc[w] = "claim"
    /\ \E ok \in Outcomes(closed[w]) :
         \/ /\ ok
            /\ \E r \in Runs : /\ ClaimNextPendingRun(r)
                              /\ job' = [job EXCEPT ![w].run = r]
            /\ Goto(w, "load")
            /\ UNCHANGED closed
         \/ /\ ok => Pending = {}
            /\ Answered(w)
            /\ UNCHANGED <<job, store>>
    /\ UNCHANGED <<beat, copies>>

-----------------------------------------------------------------------------
(* executeRun *)

LoadRule(w) ==
    /\ pc[w] = "load"
    /\ \E ok \in Outcomes(closed[w]) :
         \/ ~ok /\ Fail(w, "db", "error")
         \/ ok /\ rules[RuleOf(w)] = "deleted" /\ Fail(w, "gone", "error")
         \/ ok /\ rules[RuleOf(w)] # "deleted" /\ Goto(w, "acquire") /\ UNCHANGED job
    /\ UNCHANGED <<closed, beat, copies, store>>

\* The lock, runCtx and the heartbeat.  A lock row cannot refer to a deleted run.
Acquire(w) ==
    /\ pc[w] = "acquire"
    /\ \E ok \in Outcomes(closed[w] \/ rules[RuleOf(w)] = "deleted") :
         \/ /\ ok
            /\ AcquireRuleLock(RuleOf(w), job[w].run)
            /\ beat' = [beat EXCEPT ![w] = [NoBeat EXCEPT !.live = TRUE, !.ticking = TRUE]]
            /\ Goto(w, "plan")
            /\ UNCHANGED job
         \/ /\ ok => ~CanAcquire(RuleOf(w), job[w].run)
            /\ Fail(w, IF ok THEN "busy" ELSE "db", "error")
            /\ UNCHANGED <<beat, store>>
    /\ UNCHANGED <<closed, copies>>

\* Tokens, adapters, the two event lists and their difference: each may fail, and
\* autoConfigure panics on a filter it cannot configure.  An adapter whose token is
\* revoked listens for a redirect to localhost, which nobody is there to follow, and
\* looks at no context while it does.  Whether the rule is enabled is not looked at.
Plan(w) ==
    /\ pc[w] = "plan"
    /\ \/ /\ ~RunCtxDone(w)
          /\ job' = [job EXCEPT ![w].todo =
                       IF IsCleanup(w) THEN copies[RuleOf(w)] ELSE Events \ copies[RuleOf(w)]]
          /\ Goto(w, "tasks")
       \/ ~RunCtxDone(w) /\ Goto(w, "listen") /\ UNCHANGED job
       \/ \E err \in {"sync", "panic"} : Fail(w, err, "release")
    /\ UNCHANGED <<closed, beat, copies, store>>

\* Nobody waits for a request that listens, and its heartbeat has ended: what is
\* left of it listens on, but touches nothing any more.  The model forgets it, as
\* the server, which takes any number of requests, goes on without it.
Abandon(w) ==
    /\ pc[w] = "listen"
    /\ closed[w] /\ ~beat[w].live
    /\ Answered(w)
    /\ job' = [job EXCEPT ![w] = NoJob]
    /\ beat' = [beat EXCEPT ![w] = NoBeat]
    /\ UNCHANGED <<copies, store>>

Effect(w, e) == copies' = [copies EXCEPT ![RuleOf(w)] =
                             IF IsCleanup(w) THEN @ \ {e} ELSE @ \cup {e}]

DoTask(w, e) ==
    /\ pc[w] = "tasks"
    /\ e \in job[w].todo
    /\ ~RunCtxDone(w)
    /\ IsCleanup(w) \/ e \notin copies[RuleOf(w)]
    /\ Effect(w, e)
    /\ job' = [job EXCEPT ![w].todo = @ \ {e}]
    /\ UNCHANGED <<pc, closed, beat, store>>

\* The request to the calendar fails, or only its answer does.  Once runCtx is
\* done the pool may lose the error.
FailTask(w, e) ==
    /\ pc[w] = "tasks"
    /\ e \in job[w].todo
    /\ Effect(w, e) \/ UNCHANGED copies
    /\ \E err \in {"sync"} \cup (IF RunCtxDone(w) THEN {job[w].err} ELSE {}) :
         job' = [job EXCEPT ![w].todo = @ \ {e}, ![w].missed = TRUE, ![w].err = err]
    /\ UNCHANGED <<pc, closed, beat, store>>

\* The pool returns once it has executed its tasks, or dropped those it had
\* left when runCtx was done.
JoinTasks(w) ==
    /\ pc[w] = "tasks"
    /\ job[w].todo = {} \/ RunCtxDone(w)
    /\ job' = [job EXCEPT ![w].todo = {}, ![w].missed = @ \/ job[w].todo # {}]
    /\ Goto(w, IF job[w].err = "none" THEN "check" ELSE "release")
    /\ UNCHANGED <<closed, beat, copies, store>>

CheckLockLost(w) ==
    /\ pc[w] = "check"
    /\ IF job[w].lockLost THEN Fail(w, "lost", "release") ELSE Goto(w, "done") /\ UNCHANGED job
    /\ UNCHANGED <<closed, beat, copies, store>>

\* Mutant: MarkRunDone on a context of its own.
SucceedRunAnyway(w) ==
    /\ pc[w] = "done"
    /\ MarkRunDone(job[w].run)
    /\ Goto(w, "answer")
    /\ UNCHANGED <<job, closed, beat, copies>>

SucceedRun(w) ==
    /\ pc[w] = "done"
    /\ \E ok \in Outcomes(RunCtxDone(w)) :
         IF ok THEN MarkRunDone(job[w].run) /\ Goto(w, "answer") /\ UNCHANGED job
               ELSE Fail(w, "db", "release") /\ UNCHANGED store
    /\ UNCHANGED <<closed, beat, copies>>

\* The answer of that statement is an error if runCtx is done by then.
AwaitAnswer(w) ==
    /\ pc[w] = "answer"
    /\ \/ Goto(w, "release") /\ UNCHANGED job
       \/ RunCtxDone(w) /\ Fail(w, "db", "release")
    /\ UNCHANGED <<closed, beat, copies, store>>

-----------------------------------------------------------------------------
(* The deferred calls of executeRun, last deferred first, and MarkRunError *)

\* On a context of its own; a failure is only logged.
Release(w) ==
    /\ pc[w] = "release"
    /\ \E ok \in Outcomes(FALSE) :
         IF ok THEN ReleaseRuleLock(RuleOf(w), job[w].run) ELSE UNCHANGED store
    /\ Goto(w, "stop")
    /\ UNCHANGED <<closed, job, beat, copies>>

\* stopHeartbeat stops the ticker: no tick is delivered from here on ...
StopTicker(w) ==
    /\ pc[w] = "stop"
    /\ beat' = [beat EXCEPT ![w].ticking = FALSE, ![w].due = FALSE, ![w].phase = 0]
    /\ Goto(w, "wait")
    /\ UNCHANGED <<closed, job, copies, store>>

\* ... and waits for the goroutine.  Only then is cancelRun called.  A panic,
\* which unwinds through these calls too, ends the request.
HeartbeatStopped(w) ==
    /\ pc[w] = "wait"
    /\ ~beat[w].live
    /\ \/ job[w].err = "none" /\ NextRound(w) /\ UNCHANGED closed
       \/ job[w].err \notin {"none", "panic"} /\ Goto(w, "error") /\ UNCHANGED <<job, closed>>
       \/ job[w].err = "panic" /\ Answered(w) /\ job' = [job EXCEPT ![w] = NoJob]
    /\ UNCHANGED <<beat, copies, store>>

\* On the request's context; a failure is ignored.
FailRun(w) ==
    /\ pc[w] = "error"
    /\ \E ok \in Outcomes(closed[w]) :
         IF ok THEN MarkRunError(job[w].run, job[w].err) ELSE UNCHANGED store
    /\ NextRound(w)
    /\ UNCHANGED <<closed, beat, copies>>

-----------------------------------------------------------------------------
(* The heartbeat goroutine *)

\* Mutant: the goroutine does not watch the request's context.
HeartbeatExitsOnCancel(w) ==
    /\ beat[w].live
    /\ job[w].cancelled
    /\ beat' = [beat EXCEPT ![w].live = FALSE]
    /\ UNCHANGED <<pc, closed, job, copies, store>>

HeartbeatExits(w) ==
    /\ beat[w].live
    /\ RunCtxDone(w)
    /\ beat' = [beat EXCEPT ![w].live = FALSE]
    /\ UNCHANGED <<pc, closed, job, copies, store>>

\* A tick: renew the lock; when that fails, or the lock is another run's,
\* give up the run.
Heartbeat(w) ==
    /\ beat[w].live
    /\ beat[w].due
    /\ \E ok \in Outcomes(RunCtxDone(w)) :
         \/ /\ ok
            /\ RenewRuleLock(RuleOf(w), job[w].run)
            /\ beat' = [beat EXCEPT ![w].due = FALSE]
            /\ UNCHANGED job
         \/ /\ ok => ~HoldsLock(RuleOf(w), job[w].run)
            /\ job' = [job EXCEPT ![w].lockLost = TRUE, ![w].cancelled = TRUE]
            /\ beat' = [beat EXCEPT ![w].due = FALSE, ![w].live = FALSE]
            /\ UNCHANGED store
    /\ UNCHANGED <<pc, closed, copies>>

-----------------------------------------------------------------------------

\* One tick for every ticker; a tick nobody received yet is not added to.
TickersTick ==
    beat' = [w \in Workers |->
       IF ~beat[w].ticking THEN beat[w]
       ELSE IF beat[w].phase + 1 < Interval THEN [beat[w] EXCEPT !.phase = @ + 1]
       ELSE [beat[w] EXCEPT !.phase = 0, !.due = TRUE]]

\* A worker that has the lock of the rule and not recorded its result yet.
Executing(w) == pc[w] \in {"plan", "tasks", "check", "done"}

\* No time passes while a worker is late: a heartbeat it owes, a lock it has
\* not asked for within a lease of its claim, a cancelled run it has not left
\* before its last renewal is a lease old.
OnTime(w) ==
    /\ ~(beat[w].live /\ beat[w].due)
    /\ pc[w] \in {"load", "acquire"} => runs[job[w].run].started < Lease
    /\ Executing(w) /\ RunCtxDone(w) => locks[RuleOf(w)].age < Lease

WorkerStep(w) ==
    \/ StartRequest(w) \/ CloseRequest(w) \/ Crash(w)
    \/ Watchdog(w) \/ Claim(w)
    \/ LoadRule(w) \/ Acquire(w) \/ Plan(w) \/ Abandon(w)
    \/ \E e \in Events : DoTask(w, e) \/ FailTask(w, e)
    \/ JoinTasks(w) \/ CheckLockLost(w) \/ SucceedRun(w) \/ AwaitAnswer(w)
    \/ Release(w) \/ StopTicker(w) \/ HeartbeatStopped(w) \/ FailRun(w)
    \/ HeartbeatExits(w) \/ Heartbeat(w)
=============================================================================
