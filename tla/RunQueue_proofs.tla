-------------------------- MODULE RunQueue_proofs --------------------------
(* Theorems about the run queue, for every value of its constants. *)
EXTENDS RunQueue, TLAPS

\* From the claim on a request has a run in hand.
InHand(w) == pc[w] \notin {"idle", "watchdog", "claim"}

RunInHand == \A w \in Workers : InHand(w) => job[w].run \in Runs

\* ClaimedOnce alone is inductive only together with the types and with the
\* fact that a request past its claim has a run.
IInv == TypeOK /\ RunInHand /\ ClaimedOnce

USE RunsAssumption, LeaseAssumption, WorkerAssumption

LEMMA IntervalType == Interval \in Nat
  BY SMT DEF Interval

\* At the start nothing is in hand.
THEOREM InitIInv == Init => IInv
  <1> SUFFICES ASSUME Init PROVE IInv
    OBVIOUS
  <1> USE DEF Init, StoreInit, WorkerInit
  <1>1. StoreTypeOK
    BY DEF StoreTypeOK, RuleStatus, RunRow, LockRow, NoLock, NewRun, RunStatus, Triggers, Errors
  <1>2. WorkerTypeOK
    BY IntervalType DEF WorkerTypeOK, PCs, Job, NoJob, Beat, NoBeat, Errors
  <1>3. TypeOK
    BY <1>1, <1>2 DEF TypeOK, NoDispatch
  <1>4. RunInHand
    BY DEF RunInHand, InHand
  <1>5. ClaimedOnce
    BY DEF ClaimedOnce, NoJob
  <1> QED BY <1>3, <1>4, <1>5 DEF IInv

-----------------------------------------------------------------------------
(* The statements keep the types of the rows, and no row goes back to the    *)
(* queue.                                                                    *)

Taken(r) == runs[r].status \notin {"none", "pending"}

StoreStep == StoreTypeOK' /\ \A r \in Runs : Taken(r) => Taken(r)'

LEMMA InsertStep ==
  ASSUME StoreTypeOK, NEW k \in Rules, NEW t \in Triggers, NEW r \in Runs,
         IsNextId(r), InsertRun(r, k, t),
         rules' \in [Rules -> RuleStatus], UNCHANGED locks
  PROVE  StoreStep
  <1>1. NewRun(k, t) \in RunRow
    BY DEF NewRun, RunRow, RunStatus, Errors
  <1>2. runs' \in [Runs -> RunRow]
    BY <1>1 DEF InsertRun, StoreTypeOK
  <1>3. \A q \in Runs : Taken(q) => Taken(q)'
    BY DEF IsNextId, InsertRun, StoreTypeOK, Taken
  <1> QED BY <1>2, <1>3 DEF StoreStep, StoreTypeOK

LEMMA WatchdogStep ==
  ASSUME StoreTypeOK, FailStaleRuns PROVE StoreStep
  <1>1. ASSUME NEW r \in Runs PROVE Recovered(r) \in RunRow
    <2>1. runs[r] \in RunRow
      BY DEF StoreTypeOK
    <2>2. "failed" \in RunStatus /\ "stale" \in Errors /\ 0 \in 0 .. Lease + 1
      BY DEF RunStatus, Errors
    <2> QED BY <2>1, <2>2 DEF Recovered, RunRow
  <1>2. runs' \in [Runs -> RunRow]
    BY <1>1 DEF FailStaleRuns
  <1>3. \A q \in Runs : Taken(q) => Taken(q)'
    BY DEF FailStaleRuns, Recovered, StoreTypeOK, Taken, RunRow
  <1>4. NoLock \in LockRow
    BY DEF NoLock, LockRow
  <1>5. locks' \in [Rules -> LockRow]
    BY <1>4 DEF FailStaleRuns, StoreTypeOK
  <1> QED BY <1>2, <1>3, <1>5 DEF StoreStep, StoreTypeOK, FailStaleRuns

LEMMA ClaimStep ==
  ASSUME StoreTypeOK, NEW r \in Runs, ClaimNextPendingRun(r)
  PROVE  StoreStep /\ ~Taken(r) /\ Taken(r)'
  BY DEF ClaimNextPendingRun, Pending, StoreStep, StoreTypeOK, Taken, RunRow, RunStatus

LEMMA FinishStep ==
  ASSUME StoreTypeOK, NEW r \in Runs, NEW status \in {"success", "failed"},
         NEW error \in Errors, Finish(r, status, error)
  PROVE  StoreStep
  <1>1. CASE runs[r].status = "deleted"
    BY <1>1 DEF Finish, StoreStep, StoreTypeOK, Taken
  <1>2. CASE runs[r].status # "deleted"
    <2> DEFINE e == IF status = "failed" THEN error ELSE runs[r].error
               row == [runs[r] EXCEPT !.status = status, !.started = 0, !.error = e]
    <2>1. runs[r] \in RunRow
      BY DEF StoreTypeOK
    <2>2. e \in Errors /\ status \in RunStatus /\ 0 \in 0 .. Lease + 1
      BY <2>1 DEF RunRow, RunStatus
    <2>3. row \in RunRow /\ row.status = status
      BY <2>1, <2>2 DEF RunRow
    <2>4. runs' = [runs EXCEPT ![r] = row]
      BY <1>2 DEF Finish
    <2> HIDE DEF row, e
    <2> QED BY <2>3, <2>4 DEF Finish, StoreStep, StoreTypeOK, Taken
  <1> QED BY <1>1, <1>2

LEMMA LockSteps ==
  ASSUME StoreTypeOK, NEW k \in Rules, NEW r \in Runs,
         AcquireRuleLock(k, r) \/ RenewRuleLock(k, r) \/ ReleaseRuleLock(k, r)
  PROVE  StoreStep
  <1>1. NoLock \in LockRow /\ [run |-> r, age |-> 0] \in LockRow
    BY DEF NoLock, LockRow
  <1>2. locks' \in [Rules -> LockRow]
    BY <1>1 DEF StoreTypeOK, AcquireRuleLock, RenewRuleLock, ReleaseRuleLock, LockRow
  <1> QED BY <1>2 DEF StoreStep, StoreTypeOK, Taken, AcquireRuleLock, RenewRuleLock, ReleaseRuleLock

LEMMA DeleteStep ==
  ASSUME StoreTypeOK, NEW k \in Rules, DeleteRule(k) PROVE StoreStep
  <1>1. NoLock \in LockRow
    BY DEF NoLock, LockRow
  <1>2. locks' \in [Rules -> LockRow] /\ rules' \in [Rules -> RuleStatus]
    BY <1>1 DEF DeleteRule, StoreTypeOK, RuleStatus
  <1>3. runs' \in [Runs -> RunRow]
    <2>1. ASSUME NEW r \in Runs
          PROVE [runs[r] EXCEPT !.status = "deleted", !.started = 0] \in RunRow
      <3>1. runs[r] \in RunRow
        BY DEF StoreTypeOK
      <3>2. "deleted" \in RunStatus /\ 0 \in 0 .. Lease + 1
        BY DEF RunStatus
      <3> QED BY <3>1, <3>2 DEF RunRow
    <2> QED BY <2>1 DEF DeleteRule, StoreTypeOK
  <1>4. \A q \in Runs : Taken(q) => Taken(q)'
    BY DEF DeleteRule, StoreTypeOK, RunRow, Taken
  <1> QED BY <1>2, <1>3, <1>4 DEF StoreStep, StoreTypeOK

LEMMA ClockStep ==
  ASSUME StoreTypeOK, ClockTicks PROVE StoreStep
  <1>1. ASSUME NEW cap \in Nat, NEW age \in 0 .. cap PROVE Older(age, cap) \in 0 .. cap
    BY SMT DEF Older
  <1>a. ASSUME NEW age \in 0 .. Lease + 1 PROVE Older(age, Lease + 1) \in 0 .. Lease + 1
    <2>1. Lease + 1 \in Nat
      OBVIOUS
    <2> QED BY <1>1, <2>1
  <1>b. ASSUME NEW age \in 0 .. MinInterval PROVE Older(age, MinInterval) \in 0 .. MinInterval
    BY <1>1
  <1>2. ASSUME NEW r \in Runs PROVE runs'[r] \in RunRow
    <2> DEFINE s == IF runs[r].status = "running" THEN Older(runs[r].started, Lease + 1)
                    ELSE runs[r].started
               c == IF runs[r].status \in {"none", "deleted"} THEN runs[r].created
                    ELSE Older(runs[r].created, MinInterval)
    <2>1. runs[r] \in RunRow
      BY DEF StoreTypeOK
    <2>2. s \in 0 .. Lease + 1
      BY <2>1, <1>a DEF RunRow
    <2>3. c \in 0 .. MinInterval
      BY <2>1, <1>b DEF RunRow
    <2>4. runs'[r] = [runs[r] EXCEPT !.started = s, !.created = c]
      BY DEF ClockTicks
    <2> QED BY <2>1, <2>2, <2>3, <2>4 DEF RunRow
  <1>3. ASSUME NEW k \in Rules PROVE locks'[k] \in LockRow
    <2> DEFINE a == IF locks[k].run = NoRun THEN locks[k].age ELSE Older(locks[k].age, Lease + 1)
    <2>1. locks[k] \in LockRow
      BY DEF StoreTypeOK
    <2>2. a \in 0 .. Lease + 1
      BY <2>1, <1>a DEF LockRow
    <2>3. locks'[k] = [locks[k] EXCEPT !.age = a]
      BY DEF ClockTicks
    <2> QED BY <2>1, <2>2, <2>3 DEF LockRow
  <1>4. \A q \in Runs : Taken(q) => Taken(q)'
    BY DEF ClockTicks, StoreTypeOK, RunRow, Taken
  <1>5. runs' \in [Runs -> RunRow] /\ locks' \in [Rules -> LockRow]
    BY <1>2, <1>3 DEF ClockTicks
  <1> QED BY <1>4, <1>5 DEF StoreStep, StoreTypeOK, ClockTicks

-----------------------------------------------------------------------------
(* The steps of a worker *)

LEMMA SameStore ==
  ASSUME StoreTypeOK, UNCHANGED store PROVE StoreStep
  BY DEF StoreStep, StoreTypeOK, Taken, store

\* A step that leaves every request its run, or takes the run out of its hand.
LEMMA KeepRuns ==
  ASSUME IInv, StoreStep, WorkerTypeOK',
         disp' \in [Dispatchers -> [left : SUBSET Rules, picked : Rules \cup {NoRule}]],
         \A v \in Workers : \/ /\ job'[v].run = job[v].run
                               /\ InHand(v)' => InHand(v)
                            \/ job'[v].run = NoRun /\ ~InHand(v)'
  PROVE  IInv'
  <1>1. TypeOK'
    BY DEF StoreStep, TypeOK
  <1>2. RunInHand'
    BY DEF IInv, RunInHand
  <1>3. ASSUME NEW v \in Workers, NEW w \in Workers
        PROVE  /\ job'[w].run # NoRun => runs'[job'[w].run].status \notin {"none", "pending"}
               /\ v # w /\ job'[w].run # NoRun => job'[v].run # job'[w].run
    <2>1. job[w] \in Job /\ job[v] \in Job
      BY DEF IInv, TypeOK, WorkerTypeOK
    <2>2. job[w].run \in Runs \cup {NoRun}
      BY <2>1 DEF Job
    <2> QED BY <2>2 DEF IInv, ClaimedOnce, StoreStep, Taken
  <1>4. ClaimedOnce'
    BY <1>3 DEF ClaimedOnce
  <1> QED BY <1>1, <1>2, <1>4 DEF IInv

\* The fields of a job can be assigned one by one.
LEMMA JobFields ==
  ASSUME NEW j \in Job
  PROVE  /\ \A r \in Runs : [j EXCEPT !.run = r] \in Job
         /\ \A e \in Errors : [j EXCEPT !.err = e] \in Job /\ [j EXCEPT !.err = e].run = j.run
         /\ \A t \in SUBSET Events : [j EXCEPT !.todo = t] \in Job /\ [j EXCEPT !.todo = t].run = j.run
         /\ \A m \in BOOLEAN : [j EXCEPT !.missed = m] \in Job /\ [j EXCEPT !.missed = m].run = j.run
  BY DEF Job

LEMMA FailStep ==
  ASSUME WorkerTypeOK, NEW w \in Workers, NEW err \in Errors, NEW label \in PCs,
         Fail(w, err, label)
  PROVE  /\ job' \in [Workers -> Job] /\ pc' \in [Workers -> PCs]
         /\ \A v \in Workers : job'[v].run = job[v].run
         /\ \A v \in Workers : pc'[v] = IF v = w THEN label ELSE pc[v]
  <1>1. \A v \in Workers : job[v] \in Job
    BY DEF WorkerTypeOK
  <1>2. [job[w] EXCEPT !.err = err] \in Job /\ [job[w] EXCEPT !.err = err].run = job[w].run
    BY <1>1, JobFields
  <1> QED BY <1>1, <1>2 DEF Fail, Goto, WorkerTypeOK

\* A request that is left to listen ends like one whose instance dies.
LEMMA AbandonEnds == ASSUME NEW w \in Workers, Abandon(w) PROVE Crash(w)
  BY DEF Abandon, Crash

LEMMA Requests ==
  ASSUME IInv, NEW w \in Workers, UNCHANGED disp,
         StartRequest(w) \/ CloseRequest(w) \/ Crash(w)
  PROVE  IInv'
  <1>1. NoJob \in Job /\ NoBeat \in Beat /\ NoJob.run = NoRun
    BY IntervalType DEF NoJob, Job, NoBeat, Beat, Errors
  <1>2. StoreStep
    BY SameStore DEF IInv, TypeOK, StartRequest, CloseRequest, Crash
  <1>3. WorkerTypeOK'
    <2> USE DEF IInv, TypeOK, WorkerTypeOK
    <2>1. CASE StartRequest(w)
      BY <2>1 DEF StartRequest, Goto, PCs
    <2>2. CASE CloseRequest(w)
      BY <2>2 DEF CloseRequest
    <2>3. CASE Crash(w)
      BY <1>1, <2>3 DEF Crash, Answered, Goto, PCs
    <2> QED BY <2>1, <2>2, <2>3
  <1>4. \A v \in Workers : \/ job'[v].run = job[v].run /\ (InHand(v)' => InHand(v))
                           \/ job'[v].run = NoRun /\ ~InHand(v)'
    BY <1>1 DEF IInv, TypeOK, WorkerTypeOK, InHand, StartRequest, CloseRequest, Crash, Answered, Goto
  <1> QED BY <1>2, <1>3, <1>4, KeepRuns DEF IInv, TypeOK

LEMMA WatchdogInv ==
  ASSUME IInv, NEW w \in Workers, UNCHANGED disp, Watchdog(w)
  PROVE  IInv'
  <1>1. StoreStep
    BY SameStore, WatchdogStep DEF IInv, TypeOK, Watchdog
  <1>2. WorkerTypeOK' /\ \A v \in Workers : InHand(v)' => InHand(v)
    BY DEF IInv, TypeOK, WorkerTypeOK, InHand, Watchdog, Answered, Goto, PCs
  <1> QED BY <1>1, <1>2, KeepRuns DEF IInv, TypeOK, Watchdog

LEMMA ClaimInv ==
  ASSUME IInv, NEW w \in Workers, UNCHANGED disp, Claim(w)
  PROVE  IInv'
  <1> USE DEF IInv, TypeOK, WorkerTypeOK
  <1>1. CASE Answered(w) /\ UNCHANGED <<job, store>>
    <2>1. StoreStep
      BY <1>1, SameStore
    <2>2. WorkerTypeOK' /\ \A v \in Workers : InHand(v)' => InHand(v)
      BY <1>1 DEF InHand, Claim, Answered, Goto, PCs
    <2> QED BY <1>1, <2>1, <2>2, KeepRuns
  <1>2. ASSUME NEW r \in Runs, ClaimNextPendingRun(r), job' = [job EXCEPT ![w].run = r],
               Goto(w, "load"), UNCHANGED <<closed, beat, copies>>
        PROVE  IInv'
    <2>1. StoreStep /\ ~Taken(r) /\ Taken(r)'
      BY <1>2, ClaimStep
    <2>2. job[w] \in Job
      OBVIOUS
    <2>3. [job[w] EXCEPT !.run = r] \in Job /\ [job[w] EXCEPT !.run = r].run = r
      BY <2>2 DEF Job
    <2>4. /\ job' \in [Workers -> Job] /\ job'[w].run = r
          /\ \A v \in Workers : v # w => job'[v] = job[v]
      BY <1>2, <2>3
    <2>5. pc' \in [Workers -> PCs] /\ \A v \in Workers : v # w => pc'[v] = pc[v]
      BY <1>2 DEF Goto, PCs
    <2>6. TypeOK'
      BY <1>2, <2>1, <2>4, <2>5 DEF StoreStep
    <2>7. RunInHand'
      BY <2>4, <2>5 DEF RunInHand, InHand
    <2>8. \A v \in Workers : job[v].run \in Runs \cup {NoRun}
      BY DEF Job
    <2>9. \A v \in Workers : job[v].run # NoRun => Taken(job[v].run)
      BY DEF ClaimedOnce, Taken
    <2>10. ClaimedOnce'
      BY <2>1, <2>4, <2>8, <2>9 DEF ClaimedOnce, StoreStep, Taken
    <2> QED BY <2>6, <2>7, <2>10
  <1> QED BY <1>1, <1>2 DEF Claim

\* Every step of a worker but the three above leaves the requests and, unless it
\* is the last of a round, their runs alone.
LEMMA ExecuteInv ==
  ASSUME IInv, NEW w \in Workers, UNCHANGED disp,
         \/ LoadRule(w) \/ Acquire(w) \/ Plan(w)
         \/ \E e \in Events : DoTask(w, e) \/ FailTask(w, e)
         \/ JoinTasks(w) \/ CheckLockLost(w) \/ SucceedRun(w) \/ AwaitAnswer(w)
  PROVE  IInv'
  <1> USE DEF IInv, TypeOK, WorkerTypeOK
  <1>1. \A v \in Workers : job[v] \in Job /\ pc[v] \in PCs
    OBVIOUS
  <1>2. InHand(w) /\ job[w].run \in Runs /\ RuleOf(w) \in Rules
    <2>1. InHand(w)
      BY DEF InHand, LoadRule, Acquire, Plan, DoTask, FailTask, JoinTasks, CheckLockLost,
             SucceedRun, AwaitAnswer
    <2> QED BY <2>1 DEF RunInHand, RuleOf, StoreTypeOK, RunRow
  <1>e. \A e \in Errors : \A label \in PCs : Fail(w, e, label) =>
           /\ job' \in [Workers -> Job] /\ pc' \in [Workers -> PCs]
           /\ \A v \in Workers : job'[v].run = job[v].run
           /\ \A v \in Workers : v # w => pc'[v] = pc[v]
    BY FailStep
  <1>g. \A label \in PCs : Goto(w, label) /\ UNCHANGED job =>
           /\ job' \in [Workers -> Job] /\ pc' \in [Workers -> PCs]
           /\ \A v \in Workers : job'[v].run = job[v].run
           /\ \A v \in Workers : v # w => pc'[v] = pc[v]
    BY DEF Goto
  <1>k. ASSUME StoreStep, UNCHANGED closed, beat' \in [Workers -> Beat],
               copies' \in [Rules -> SUBSET Events],
               job' \in [Workers -> Job], pc' \in [Workers -> PCs],
               \A v \in Workers : job'[v].run = job[v].run,
               \A v \in Workers : v # w => pc'[v] = pc[v]
        PROVE  IInv'
    <2>1. \A v \in Workers : job'[v].run = job[v].run /\ (InHand(v)' => InHand(v))
      BY <1>2, <1>k DEF InHand
    <2> QED BY <1>k, <2>1, KeepRuns
  <1>3. CASE LoadRule(w)
    <2>1. StoreStep
      BY <1>3, SameStore DEF LoadRule
    <2> QED BY <1>3, <2>1, <1>e, <1>g, <1>k DEF LoadRule, PCs, Errors
  <1>4. CASE Acquire(w)
    <2>1. StoreStep
      BY <1>2, <1>4, SameStore, LockSteps DEF Acquire
    <2>0. NoBeat \in Beat
      BY IntervalType DEF NoBeat, Beat
    <2>2. [NoBeat EXCEPT !.live = TRUE, !.ticking = TRUE] \in Beat
      BY <2>0 DEF Beat
    <2>3. beat' \in [Workers -> Beat]
      BY <1>4, <2>2 DEF Acquire
    <2> QED BY <1>4, <2>1, <2>3, <1>e, <1>g, <1>k DEF Acquire, PCs, Errors
  <1>5. CASE Plan(w)
    <2>1. StoreStep
      BY <1>5, SameStore DEF Plan
    <2>2. CASE \E err \in {"sync", "panic"} : Fail(w, err, "release")
      BY <1>5, <2>1, <2>2, <1>e, <1>k DEF Plan, PCs, Errors
    <2>3. CASE Goto(w, "listen") /\ job' = job
      BY <1>5, <2>1, <2>3, <1>g, <1>k DEF Plan, PCs
    <2>4. CASE /\ job' = [job EXCEPT ![w].todo = IF IsCleanup(w) THEN copies[RuleOf(w)]
                                                          ELSE Events \ copies[RuleOf(w)]]
               /\ Goto(w, "tasks")
      <3> DEFINE t == IF IsCleanup(w) THEN copies[RuleOf(w)] ELSE Events \ copies[RuleOf(w)]
      <3>1. t \in SUBSET Events
        BY <1>2
      <3>2. job' = [job EXCEPT ![w].todo = t] /\ Goto(w, "tasks")
        BY <2>4
      <3> HIDE DEF t
      <3>3. [job[w] EXCEPT !.todo = t] \in Job /\ [job[w] EXCEPT !.todo = t].run = job[w].run
        BY <1>1, <3>1, JobFields
      <3>4. /\ job' \in [Workers -> Job] /\ pc' \in [Workers -> PCs]
            /\ \A v \in Workers : job'[v].run = job[v].run
            /\ \A v \in Workers : v # w => pc'[v] = pc[v]
        BY <3>2, <3>3 DEF Goto, PCs
      <3> QED BY <1>5, <2>1, <3>4, <1>k DEF Plan
    <2> QED BY <1>5, <2>2, <2>4, <2>3 DEF Plan
  <1>6. ASSUME NEW e \in Events, DoTask(w, e) \/ FailTask(w, e)
        PROVE  IInv'
    <2>1. StoreStep
      BY <1>6, SameStore DEF DoTask, FailTask
    <2>2. copies' \in [Rules -> SUBSET Events]
      <3>1. Effect(w, e) => copies' \in [Rules -> SUBSET Events]
        BY <1>2 DEF Effect
      <3> QED BY <1>6, <3>1 DEF DoTask, FailTask
    <2>3. /\ job' \in [Workers -> Job] /\ pc' \in [Workers -> PCs]
          /\ \A v \in Workers : job'[v].run = job[v].run
          /\ \A v \in Workers : v # w => pc'[v] = pc[v]
      <3>1. job[w].todo \ {e} \in SUBSET Events /\ job[w].err \in Errors /\ "sync" \in Errors
        BY <1>1 DEF Job, Errors
      <3>2. CASE DoTask(w, e)
        <4>1. job' = [job EXCEPT ![w] = [job[w] EXCEPT !.todo = job[w].todo \ {e}]]
          BY <3>2 DEF DoTask
        <4>2. /\ [job[w] EXCEPT !.todo = job[w].todo \ {e}] \in Job
              /\ [job[w] EXCEPT !.todo = job[w].todo \ {e}].run = job[w].run
          BY <1>1, <3>1, JobFields
        <4>3. pc' = pc
          BY <3>2 DEF DoTask
        <4> QED BY <4>1, <4>2, <4>3
      <3>3. CASE FailTask(w, e)
        <4>1. PICK err \in Errors :
                job' = [job EXCEPT ![w].todo = @ \ {e}, ![w].missed = TRUE, ![w].err = err]
          BY <3>1, <3>3 DEF FailTask
        <4> DEFINE row == [job[w] EXCEPT !.todo = job[w].todo \ {e}, !.missed = TRUE, !.err = err]
        <4>2. job' = [job EXCEPT ![w] = row]
          BY <4>1
        <4>3. row \in Job /\ row.run = job[w].run
          BY <1>1, <3>1 DEF Job
        <4> HIDE DEF row
        <4>4. pc' = pc
          BY <3>3 DEF FailTask
        <4> QED BY <4>2, <4>3, <4>4
      <3> QED BY <1>6, <3>2, <3>3
    <2> QED BY <1>6, <2>1, <2>2, <2>3, <1>k DEF DoTask, FailTask
  <1>7. CASE JoinTasks(w)
    <2>1. StoreStep
      BY <1>7, SameStore DEF JoinTasks
    <2> DEFINE m == job[w].missed \/ job[w].todo # {}
    <2>2. job' = [job EXCEPT ![w] = [job[w] EXCEPT !.todo = {}, !.missed = m]]
      BY <1>7 DEF JoinTasks
    <2>3. m \in BOOLEAN
      OBVIOUS
    <2> HIDE DEF m
    <2>4. [job[w] EXCEPT !.todo = {}, !.missed = m] \in Job
      BY <1>1, <2>3 DEF Job
    <2>5. job' \in [Workers -> Job] /\ \A v \in Workers : job'[v].run = job[v].run
      BY <1>1, <2>2, <2>4
    <2>6. pc' \in [Workers -> PCs] /\ \A v \in Workers : v # w => pc'[v] = pc[v]
      BY <1>7 DEF JoinTasks, Goto, PCs
    <2> QED BY <1>7, <2>1, <2>5, <2>6, <1>k DEF JoinTasks
  <1>8. CASE CheckLockLost(w)
    <2>1. StoreStep
      BY <1>8, SameStore DEF CheckLockLost
    <2> QED BY <1>8, <2>1, <1>e, <1>g, <1>k DEF CheckLockLost, PCs, Errors
  <1>9. CASE SucceedRun(w)
    <2>1. StoreStep
      BY <1>2, <1>9, SameStore, FinishStep DEF SucceedRun, MarkRunDone, Errors
    <2> QED BY <1>9, <2>1, <1>e, <1>g, <1>k DEF SucceedRun, PCs, Errors
  <1>10. CASE AwaitAnswer(w)
    <2>1. StoreStep
      BY <1>10, SameStore DEF AwaitAnswer
    <2> QED BY <1>10, <2>1, <1>e, <1>g, <1>k DEF AwaitAnswer, PCs, Errors
  <1> QED BY <1>3, <1>4, <1>5, <1>6, <1>7, <1>8, <1>9, <1>10

LEMMA DeferredInv ==
  ASSUME IInv, NEW w \in Workers, UNCHANGED disp,
         Release(w) \/ StopTicker(w) \/ HeartbeatStopped(w) \/ FailRun(w)
  PROVE  IInv'
  <1> USE DEF IInv, TypeOK, WorkerTypeOK
  <1>1. \A v \in Workers : job[v] \in Job /\ pc[v] \in PCs /\ beat[v] \in Beat
    OBVIOUS
  <1>2. InHand(w) /\ job[w].run \in Runs /\ RuleOf(w) \in Rules
    <2>1. InHand(w)
      BY DEF InHand, Release, StopTicker, HeartbeatStopped, FailRun
    <2> QED BY <2>1 DEF RunInHand, RuleOf, StoreTypeOK, RunRow
  <1>3. NoJob \in Job /\ NoJob.run = NoRun
    BY DEF NoJob, Job, Errors
  <1>4. ASSUME NextRound(w)
        PROVE  /\ job' \in [Workers -> Job] /\ pc' \in [Workers -> PCs]
               /\ \A v \in Workers : \/ job'[v].run = job[v].run /\ (InHand(v)' => InHand(v))
                                     \/ job'[v].run = NoRun /\ ~InHand(v)'
    BY <1>3, <1>4 DEF NextRound, Goto, PCs, InHand
  <1>5. ASSUME NEW label \in PCs, Goto(w, label)
        PROVE  /\ pc' \in [Workers -> PCs]
               /\ \A v \in Workers : InHand(v)' => InHand(v)
    BY <1>2, <1>5 DEF Goto, InHand
  <1>6. CASE Release(w)
    <2>1. StoreStep
      BY <1>2, <1>6, SameStore, LockSteps DEF Release
    <2> QED BY <1>5, <1>6, <2>1, KeepRuns DEF Release, PCs
  <1>7. CASE StopTicker(w)
    <2>1. StoreStep
      BY <1>7, SameStore DEF StopTicker
    <2> DEFINE b == [beat[w] EXCEPT !.ticking = FALSE, !.due = FALSE, !.phase = 0]
    <2>1a. beat[w] \in Beat /\ 0 \in 0 .. Interval
      BY <1>1, IntervalType
    <2>2. b \in Beat
      BY <2>1a DEF Beat
    <2>3. beat' = [beat EXCEPT ![w] = b]
      BY <1>7 DEF StopTicker
    <2> HIDE DEF b
    <2>4. beat' \in [Workers -> Beat]
      BY <2>2, <2>3
    <2> QED BY <1>5, <1>7, <2>1, <2>4, KeepRuns DEF StopTicker, PCs
  <1>8. CASE HeartbeatStopped(w)
    <2>1. StoreStep
      BY <1>8, SameStore DEF HeartbeatStopped
    <2>2. CASE NextRound(w) /\ UNCHANGED closed
      BY <1>4, <1>8, <2>1, <2>2, KeepRuns DEF HeartbeatStopped
    <2>3. CASE Goto(w, "error") /\ UNCHANGED <<job, closed>>
      BY <1>5, <1>8, <2>1, <2>3, KeepRuns DEF HeartbeatStopped, PCs
    <2>4. CASE Answered(w) /\ job' = [job EXCEPT ![w] = NoJob]
      <3>1. WorkerTypeOK'
        BY <1>3, <1>8, <2>4 DEF HeartbeatStopped, Answered, Goto, PCs
      <3>2. \A v \in Workers : \/ job'[v].run = job[v].run /\ (InHand(v)' => InHand(v))
                               \/ job'[v].run = NoRun /\ ~InHand(v)'
        BY <1>3, <2>4 DEF Answered, Goto, InHand
      <3> QED BY <1>8, <2>1, <3>1, <3>2, KeepRuns DEF HeartbeatStopped
    <2> QED BY <1>8, <2>2, <2>3, <2>4 DEF HeartbeatStopped
  <1>9. CASE FailRun(w)
    <2>1. job[w].err \in Errors
      BY <1>1 DEF Job
    <2>2. StoreStep
      BY <1>2, <1>9, <2>1, SameStore, FinishStep DEF FailRun, MarkRunError
    <2> QED BY <1>4, <1>9, <2>2, KeepRuns DEF FailRun
  <1> QED BY <1>6, <1>7, <1>8, <1>9

LEMMA HeartbeatInv ==
  ASSUME IInv, NEW w \in Workers, UNCHANGED disp, HeartbeatExits(w) \/ Heartbeat(w)
  PROVE  IInv'
  <1> USE DEF IInv, TypeOK, WorkerTypeOK
  <1>1. job[w] \in Job /\ beat[w] \in Beat
    OBVIOUS
  <1>2. /\ [beat[w] EXCEPT !.live = FALSE] \in Beat
        /\ [beat[w] EXCEPT !.due = FALSE] \in Beat
        /\ [beat[w] EXCEPT !.due = FALSE, !.live = FALSE] \in Beat
    BY <1>1 DEF Beat
  <1>3. /\ [job[w] EXCEPT !.lockLost = TRUE, !.cancelled = TRUE] \in Job
        /\ [job[w] EXCEPT !.lockLost = TRUE, !.cancelled = TRUE].run = job[w].run
    BY <1>1 DEF Job
  <1>4. beat' \in [Workers -> Beat]
    BY <1>2 DEF HeartbeatExits, Heartbeat
  <1>5. job' \in [Workers -> Job] /\ \A v \in Workers : job'[v].run = job[v].run
    <2>1. CASE UNCHANGED job
      BY <2>1
    <2>2. CASE ~UNCHANGED job
      <3> DEFINE row == [job[w] EXCEPT !.lockLost = TRUE, !.cancelled = TRUE]
      <3>1. job' = [job EXCEPT ![w] = row]
        BY <2>2 DEF HeartbeatExits, Heartbeat
      <3>2. row \in Job /\ row.run = job[w].run
        BY <1>3
      <3> HIDE DEF row
      <3> QED BY <3>1, <3>2
    <2> QED BY <2>1, <2>2
  <1>6. StoreStep
    <2>1. CASE RenewRuleLock(RuleOf(w), job[w].run)
      <3>1. locks' = [locks EXCEPT ![RuleOf(w)] = [locks[RuleOf(w)] EXCEPT !.age = 0]]
        BY <2>1 DEF RenewRuleLock
      <3>2. \A k \in Rules : [locks[k] EXCEPT !.age = 0] \in LockRow
        BY DEF StoreTypeOK, LockRow
      <3>3. locks' \in [Rules -> LockRow]
        BY <3>1, <3>2 DEF StoreTypeOK
      <3> QED BY <2>1, <3>3 DEF RenewRuleLock, StoreStep, StoreTypeOK, Taken
    <2> QED BY <2>1, SameStore DEF HeartbeatExits, Heartbeat
  <1>7. pc' = pc /\ UNCHANGED <<closed, copies>>
    BY DEF HeartbeatExits, Heartbeat
  <1> QED BY <1>4, <1>5, <1>6, <1>7, KeepRuns DEF InHand

-----------------------------------------------------------------------------
(* The API and time *)

LEMMA ApiInv ==
  ASSUME IInv,
         \/ \E k \in Rules : ManualRun(k) \/ Cleanup(k) \/ PatchRule(k) \/ RemoveRule(k)
         \/ \E d \in Dispatchers : DispatchQuery(d) \/ DispatchCheck(d) \/ DispatchCreate(d)
  PROVE  IInv'
  <1> USE DEF IInv, TypeOK
  <1>1. ASSUME StoreStep, UNCHANGED workers,
               disp' \in [Dispatchers -> [left : SUBSET Rules, picked : Rules \cup {NoRule}]]
        PROVE  IInv'
    <2>1. WorkerTypeOK' /\ \A v \in Workers : InHand(v)' <=> InHand(v)
      BY <1>1 DEF workers, WorkerTypeOK, InHand
    <2> QED BY <1>1, <2>1, KeepRuns DEF workers
  <1>2. ASSUME NEW k \in Rules, NEW t \in Triggers, CreateRun(k, t) PROVE StoreStep
    BY <1>2, InsertStep DEF CreateRun, StoreTypeOK
  <1>3. ASSUME NEW k \in Rules, ManualRun(k) PROVE IInv'
    BY <1>1, <1>2, <1>3 DEF ManualRun, Triggers
  <1>4. ASSUME NEW k \in Rules, Cleanup(k) PROVE IInv'
    <2>1. rules' \in [Rules -> RuleStatus]
      BY <1>4 DEF Cleanup, CreateCleanupRun, StoreTypeOK, RuleStatus
    <2>2. StoreStep
      BY <1>4, <2>1, InsertStep DEF Cleanup, CreateCleanupRun, Triggers
    <2> QED BY <1>1, <1>4, <2>2 DEF Cleanup
  <1>5. ASSUME NEW k \in Rules, PatchRule(k) PROVE IInv'
    <2>1. StoreStep
      BY <1>5 DEF PatchRule, UpdateRule, StoreStep, StoreTypeOK, RuleStatus, Taken
    <2> QED BY <1>1, <1>5, <2>1 DEF PatchRule
  <1>6. ASSUME NEW k \in Rules, RemoveRule(k) PROVE IInv'
    BY <1>1, <1>6, DeleteStep DEF RemoveRule
  <1>7. ASSUME NEW d \in Dispatchers, DispatchQuery(d) \/ DispatchCheck(d) PROVE IInv'
    <2>1. disp[d] \in [left : SUBSET Rules, picked : Rules \cup {NoRule}]
      OBVIOUS
    <2>2. \A l \in SUBSET Rules : \A p \in Rules \cup {NoRule} :
            /\ [disp[d] EXCEPT !.left = l] \in [left : SUBSET Rules, picked : Rules \cup {NoRule}]
            /\ [disp[d] EXCEPT !.left = l, !.picked = p]
                 \in [left : SUBSET Rules, picked : Rules \cup {NoRule}]
      BY <2>1
    <2>3. CASE DispatchQuery(d)
      <3>1. disp' \in [Dispatchers -> [left : SUBSET Rules, picked : Rules \cup {NoRule}]]
        BY <2>2, <2>3 DEF DispatchQuery
      <3> QED BY <1>1, <2>3, <3>1, SameStore DEF DispatchQuery
    <2>4. CASE DispatchCheck(d)
      <3>1. PICK k \in disp[d].left :
              disp' = [disp EXCEPT ![d].left = @ \ {k},
                                   ![d].picked = IF HasActiveRun(k) \/ CreatedRecently(k)
                                                 THEN NoRule ELSE k]
        BY <2>4 DEF DispatchCheck
      <3> DEFINE p == IF HasActiveRun(k) \/ CreatedRecently(k) THEN NoRule ELSE k
                 row == [disp[d] EXCEPT !.left = disp[d].left \ {k}, !.picked = p]
      <3>2. disp' = [disp EXCEPT ![d] = row]
        BY <3>1
      <3>3. p \in Rules \cup {NoRule} /\ disp[d].left \ {k} \in SUBSET Rules
        BY <2>1
      <3> HIDE DEF p
      <3>4. row \in [left : SUBSET Rules, picked : Rules \cup {NoRule}]
        BY <2>2, <3>3
      <3> HIDE DEF row
      <3>5. disp' \in [Dispatchers -> [left : SUBSET Rules, picked : Rules \cup {NoRule}]]
        BY <3>2, <3>4
      <3> QED BY <1>1, <2>4, <3>5, SameStore DEF DispatchCheck
    <2> QED BY <1>7, <2>3, <2>4
  <1>8. ASSUME NEW d \in Dispatchers, DispatchCreate(d) PROVE IInv'
    <2>1. disp[d] \in [left : SUBSET Rules, picked : Rules \cup {NoRule}]
      OBVIOUS
    <2>2. [disp[d] EXCEPT !.picked = NoRule] \in [left : SUBSET Rules, picked : Rules \cup {NoRule}]
      BY <2>1
    <2>3. disp' \in [Dispatchers -> [left : SUBSET Rules, picked : Rules \cup {NoRule}]]
      BY <1>8, <2>2 DEF DispatchCreate
    <2>4. disp[d].picked \in Rules
      BY <1>8, <2>1 DEF DispatchCreate
    <2>5. StoreStep
      BY <1>2, <1>8, <2>4, SameStore DEF DispatchCreate, Triggers
    <2> QED BY <1>1, <1>8, <2>3, <2>5 DEF DispatchCreate
  <1> QED BY <1>3, <1>4, <1>5, <1>6, <1>7, <1>8

LEMMA TickInv ==
  ASSUME IInv, Tick PROVE IInv'
  <1> USE DEF IInv, TypeOK
  <1>1. StoreStep
    BY ClockStep DEF Tick
  <1>2. ASSUME NEW w \in Workers PROVE beat'[w] \in Beat
    <2>1. beat[w] \in Beat
      BY DEF WorkerTypeOK
    <2>2. beat[w].phase + 1 < Interval => beat[w].phase + 1 \in 0 .. Interval
      BY <2>1, IntervalType, SMT DEF Beat
    <2>3. 0 \in 0 .. Interval
      BY IntervalType
    <2>4. beat[w].phase + 1 < Interval => [beat[w] EXCEPT !.phase = beat[w].phase + 1] \in Beat
      BY <2>1, <2>2 DEF Beat
    <2>5. [beat[w] EXCEPT !.phase = 0, !.due = TRUE] \in Beat
      BY <2>1, <2>3 DEF Beat
    <2> QED BY <2>1, <2>4, <2>5 DEF Tick, TickersTick
  <1>3. beat' \in [Workers -> Beat]
    BY <1>2 DEF Tick, TickersTick
  <1>4. WorkerTypeOK'
    BY <1>3 DEF WorkerTypeOK, Tick
  <1> QED BY <1>1, <1>4, KeepRuns DEF Tick, InHand

-----------------------------------------------------------------------------

\* Every step keeps the types and the runs in their hands.
THEOREM NextIInv == IInv /\ [Next]_vars => IInv'
  <1> SUFFICES ASSUME IInv, [Next]_vars PROVE IInv'
    OBVIOUS
  <1>1. ASSUME NEW w \in Workers, WorkerStep(w), UNCHANGED disp PROVE IInv'
    BY <1>1, Requests, AbandonEnds, WatchdogInv, ClaimInv, ExecuteInv, DeferredInv, HeartbeatInv DEF WorkerStep
  <1>2. CASE UNCHANGED vars
    BY <1>2 DEF vars, store, workers, IInv, TypeOK, StoreTypeOK, WorkerTypeOK, RunInHand, InHand,
                ClaimedOnce
  <1> QED BY <1>1, <1>2, ApiInv, TickInv DEF Next

\* Every variable of the run queue keeps its type.
THEOREM TypeCorrect == Spec => []TypeOK
  <1>1. Init => IInv
    BY InitIInv
  <1>2. IInv /\ [Next]_vars => IInv'
    BY NextIInv
  <1>3. IInv => TypeOK
    BY DEF IInv
  <1> QED BY <1>1, <1>2, <1>3, PTL DEF Spec

\* No run is ever in the hands of two requests, and none that is in a hand goes
\* back to the queue: a run is executed at most once.
THEOREM ExecutedOnce == Spec => []ClaimedOnce
  <1>1. Init => IInv
    BY InitIInv
  <1>2. IInv /\ [Next]_vars => IInv'
    BY NextIInv
  <1>3. IInv => ClaimedOnce
    BY DEF IInv
  <1> QED BY <1>1, <1>2, <1>3, PTL DEF Spec

-----------------------------------------------------------------------------
(* Theorems about what a success of a run stands for. *)

\* What a worker knows of its tasks.  Once a task is missed without an error the
\* run's context is done, which no statement that could record a success survives.
Accounted(w) ==
    /\ pc[w] \in {"idle", "watchdog", "claim", "load", "acquire", "plan"} =>
         job[w].err = "none" /\ ~job[w].missed
    /\ pc[w] = "tasks" /\ job[w].err = "none" /\ job[w].missed => RunCtxDone(w)
    /\ pc[w] \in {"check", "done"} =>
         /\ job[w].todo = {} /\ job[w].err = "none"
         /\ job[w].missed => RunCtxDone(w)

TaskInv == IInv /\ \A w \in Workers : Accounted(w)

LEMMA InitTaskInv == Init => TaskInv
  BY InitIInv DEF TaskInv, Accounted, Init, WorkerInit, NoJob

\* The fields of a job after executeRun has set its error.
LEMMA FailRow ==
  ASSUME WorkerTypeOK, NEW w \in Workers, NEW err, NEW label, Fail(w, err, label)
  PROVE  /\ pc'[w] = label /\ job'[w].err = err /\ job'[w].todo = job[w].todo
         /\ job'[w].missed = job[w].missed /\ job'[w].cancelled = job[w].cancelled
         /\ \A v \in Workers : v # w => pc'[v] = pc[v] /\ job'[v] = job[v]
  <1>1. job[w] \in Job
    BY DEF WorkerTypeOK
  <1>2. /\ [job[w] EXCEPT !.err = err].err = err
        /\ [job[w] EXCEPT !.err = err].todo = job[w].todo
        /\ [job[w] EXCEPT !.err = err].missed = job[w].missed
        /\ [job[w] EXCEPT !.err = err].cancelled = job[w].cancelled
    BY <1>1 DEF Job
  <1>3. job'[w] = [job[w] EXCEPT !.err = err] /\ \A v \in Workers : v # w => job'[v] = job[v]
    BY DEF Fail, WorkerTypeOK
  <1> QED BY <1>2, <1>3 DEF Fail, Goto, WorkerTypeOK

\* A step of one worker leaves the others alone.
LEMMA OthersAccounted ==
  ASSUME NEW w \in Workers, \A v \in Workers : Accounted(v),
         \A v \in Workers : v # w => /\ pc'[v] = pc[v] /\ job'[v] = job[v]
                                     /\ closed'[v] = closed[v],
         Accounted(w)'
  PROVE  \A v \in Workers : Accounted(v)'
  BY DEF Accounted, RunCtxDone

LEMMA TasksAccounted ==
  ASSUME TypeOK, \A v \in Workers : Accounted(v), NEW w \in Workers,
         Plan(w) \/ JoinTasks(w) \/ \E e \in Events : DoTask(w, e) \/ FailTask(w, e)
  PROVE  \A v \in Workers : Accounted(v)'
  <1> USE DEF TypeOK
  <1>1. job[w] \in Job /\ Accounted(w)
    BY DEF WorkerTypeOK
  <1>2. ASSUME NEW row, job' = [job EXCEPT ![w] = row]
        PROVE  job'[w] = row /\ \A v \in Workers : v # w => job'[v] = job[v]
    BY <1>2 DEF WorkerTypeOK
  <1>3. CASE Plan(w)
    <2>1. CASE \E err \in {"sync", "panic"} : Fail(w, err, "release")
      BY <1>3, <2>1, FailRow, OthersAccounted DEF Plan, Accounted
    <2>2. CASE Goto(w, "listen") /\ job' = job
      <3>1. pc'[w] = "listen" /\ \A v \in Workers : v # w => pc'[v] = pc[v]
        BY <2>2 DEF Goto, WorkerTypeOK
      <3> QED BY <1>3, <2>2, <3>1, OthersAccounted DEF Plan, Accounted
    <2>3. CASE /\ job' = [job EXCEPT ![w].todo = IF IsCleanup(w) THEN copies[RuleOf(w)]
                                                          ELSE Events \ copies[RuleOf(w)]]
               /\ Goto(w, "tasks")
      <3> DEFINE t == IF IsCleanup(w) THEN copies[RuleOf(w)] ELSE Events \ copies[RuleOf(w)]
                 row == [job[w] EXCEPT !.todo = t]
      <3>1. job' = [job EXCEPT ![w] = row]
        BY <2>3
      <3>2. row.missed = job[w].missed
        BY <1>1 DEF Job
      <3> HIDE DEF row
      <3>3. job'[w] = row /\ \A v \in Workers : v # w => job'[v] = job[v]
        BY <1>2, <3>1
      <3>4. pc'[w] = "tasks" /\ \A v \in Workers : v # w => pc'[v] = pc[v]
        BY <2>3 DEF Goto, WorkerTypeOK
      <3>5. Accounted(w)'
        BY <1>1, <1>3, <3>2, <3>3, <3>4 DEF Accounted, Plan
      <3> QED BY <1>3, <3>3, <3>4, <3>5, OthersAccounted DEF Plan
    <2> QED BY <1>3, <2>1, <2>3, <2>2 DEF Plan
  <1>4. CASE JoinTasks(w)
    <2> DEFINE m == job[w].missed \/ job[w].todo # {}
               row == [job[w] EXCEPT !.todo = {}, !.missed = m]
    <2>1. job' = [job EXCEPT ![w] = row]
      BY <1>4 DEF JoinTasks
    <2>2. /\ row.todo = {} /\ row.missed = m /\ row.err = job[w].err
          /\ row.cancelled = job[w].cancelled
      BY <1>1 DEF Job
    <2> HIDE DEF row
    <2>3. job'[w] = row /\ \A v \in Workers : v # w => job'[v] = job[v]
      BY <1>2, <2>1
    <2>4. /\ pc'[w] = IF job[w].err = "none" THEN "check" ELSE "release"
          /\ \A v \in Workers : v # w => pc'[v] = pc[v]
      BY <1>4 DEF JoinTasks, Goto, WorkerTypeOK
    <2>5. Accounted(w)'
      BY <1>1, <1>4, <2>2, <2>3, <2>4 DEF Accounted, JoinTasks, RunCtxDone
    <2> QED BY <1>4, <2>3, <2>4, <2>5, OthersAccounted DEF JoinTasks
  <1>5. ASSUME NEW e \in Events, DoTask(w, e) PROVE \A v \in Workers : Accounted(v)'
    <2> DEFINE row == [job[w] EXCEPT !.todo = job[w].todo \ {e}]
    <2>1. job' = [job EXCEPT ![w] = row]
      BY <1>5 DEF DoTask
    <2>2. /\ row.missed = job[w].missed /\ row.err = job[w].err
          /\ row.cancelled = job[w].cancelled
      BY <1>1 DEF Job
    <2> HIDE DEF row
    <2>3. job'[w] = row /\ \A v \in Workers : v # w => job'[v] = job[v]
      BY <1>2, <2>1
    <2>4. Accounted(w)'
      BY <1>1, <1>5, <2>2, <2>3 DEF Accounted, DoTask, RunCtxDone
    <2> QED BY <1>5, <2>3, <2>4, OthersAccounted DEF DoTask
  <1>6. ASSUME NEW e \in Events, FailTask(w, e) PROVE \A v \in Workers : Accounted(v)'
    <2>1. PICK err \in {"sync"} \cup (IF RunCtxDone(w) THEN {job[w].err} ELSE {}) :
            job' = [job EXCEPT ![w].todo = @ \ {e}, ![w].missed = TRUE, ![w].err = err]
      BY <1>6 DEF FailTask
    <2> DEFINE row == [job[w] EXCEPT !.todo = job[w].todo \ {e}, !.missed = TRUE, !.err = err]
    <2>2. job' = [job EXCEPT ![w] = row]
      BY <2>1
    <2>3. row.err = err /\ row.cancelled = job[w].cancelled
      BY <1>1 DEF Job
    <2> HIDE DEF row
    <2>4. job'[w] = row /\ \A v \in Workers : v # w => job'[v] = job[v]
      BY <1>2, <2>2
    <2>5. err = "none" => RunCtxDone(w)
      BY <2>1
    <2>6. RunCtxDone(w)' <=> RunCtxDone(w)
      BY <1>6, <2>3, <2>4 DEF RunCtxDone, FailTask
    <2>7. Accounted(w)'
      BY <1>6, <2>3, <2>4, <2>5, <2>6 DEF Accounted, FailTask
    <2> QED BY <1>6, <2>4, <2>7, OthersAccounted DEF FailTask
  <1> QED BY <1>3, <1>4, <1>5, <1>6

LEMMA StepAccounted ==
  ASSUME TypeOK, \A v \in Workers : Accounted(v), NEW w \in Workers, WorkerStep(w)
  PROVE  \A v \in Workers : Accounted(v)'
  <1> USE DEF TypeOK
  <1>1. job[w] \in Job /\ Accounted(w)
    BY DEF WorkerTypeOK
  <1>2. ASSUME NEW label, Goto(w, label)
        PROVE  pc'[w] = label /\ \A v \in Workers : v # w => pc'[v] = pc[v]
    BY <1>2 DEF Goto, WorkerTypeOK
  <1>3. ASSUME Answered(w)
        PROVE  /\ pc'[w] = "idle" /\ \A v \in Workers : v # w => pc'[v] = pc[v]
               /\ \A v \in Workers : v # w => closed'[v] = closed[v]
    BY <1>3 DEF Answered, Goto, WorkerTypeOK
  <1>4. ASSUME job' = [job EXCEPT ![w] = NoJob]
        PROVE  /\ job'[w] = NoJob /\ \A v \in Workers : v # w => job'[v] = job[v]
               /\ NoJob.err = "none" /\ ~NoJob.missed
    BY <1>4 DEF WorkerTypeOK, NoJob
  <1>5. CASE StartRequest(w) \/ Crash(w) \/ CloseRequest(w)
    <2>1. CASE StartRequest(w)
      BY <1>1, <1>2, <2>1, OthersAccounted DEF StartRequest, Accounted
    <2>2. CASE Crash(w)
      BY <1>3, <1>4, <2>2, OthersAccounted DEF Crash, Accounted
    <2>3. CASE CloseRequest(w)
      <3>1. closed'[w] /\ \A v \in Workers : v # w => closed'[v] = closed[v]
        BY <2>3 DEF CloseRequest, WorkerTypeOK
      <3> QED BY <1>1, <2>3, <3>1, OthersAccounted DEF CloseRequest, Accounted, RunCtxDone
    <2> QED BY <1>5, <2>1, <2>2, <2>3
  <1>6. CASE Watchdog(w)
    <2>1. CASE Goto(w, "claim") /\ UNCHANGED closed
      BY <1>1, <1>2, <1>6, <2>1, OthersAccounted DEF Watchdog, Accounted
    <2>2. CASE Answered(w)
      BY <1>1, <1>3, <1>6, <2>2, OthersAccounted DEF Watchdog, Accounted
    <2> QED BY <1>6, <2>1, <2>2 DEF Watchdog
  <1>7. CASE Claim(w)
    <2>1. ASSUME NEW r \in Runs, job' = [job EXCEPT ![w].run = r], Goto(w, "load"),
                 UNCHANGED closed
          PROVE  \A v \in Workers : Accounted(v)'
      <3>1. [job[w] EXCEPT !.run = r].err = job[w].err /\ [job[w] EXCEPT !.run = r].missed = job[w].missed
        BY <1>1 DEF Job
      <3>2. job'[w] = [job[w] EXCEPT !.run = r] /\ \A v \in Workers : v # w => job'[v] = job[v]
        BY <2>1 DEF WorkerTypeOK
      <3> QED BY <1>1, <1>2, <1>7, <2>1, <3>1, <3>2, OthersAccounted DEF Claim, Accounted
    <2>2. CASE Answered(w) /\ UNCHANGED job
      BY <1>1, <1>3, <1>7, <2>2, OthersAccounted DEF Claim, Accounted
    <2> QED BY <1>7, <2>1, <2>2 DEF Claim
  <1>8. CASE LoadRule(w) \/ Acquire(w) \/ CheckLockLost(w) \/ SucceedRun(w) \/ AwaitAnswer(w)
    <2>1. ASSUME NEW err, NEW label \in {"error", "release"}, Fail(w, err, label), UNCHANGED closed
          PROVE  \A v \in Workers : Accounted(v)'
      BY <2>1, FailRow, OthersAccounted DEF Accounted
    <2>2. ASSUME NEW label \in {"acquire", "plan", "done", "answer", "release"},
                 label \in {"acquire", "plan"} => pc[w] \in {"load", "acquire"},
                 label = "done" => pc[w] = "check",
                 Goto(w, label), UNCHANGED <<job, closed>>
          PROVE  \A v \in Workers : Accounted(v)'
      BY <1>1, <1>2, <2>2, OthersAccounted DEF Accounted, RunCtxDone
    <2>3. CASE LoadRule(w)
      BY <2>1, <2>2, <2>3 DEF LoadRule
    <2>4. CASE Acquire(w)
      BY <2>1, <2>2, <2>4 DEF Acquire
    <2>5. CASE CheckLockLost(w)
      BY <2>1, <2>2, <2>5 DEF CheckLockLost
    <2>6. CASE SucceedRun(w)
      BY <2>1, <2>2, <2>6 DEF SucceedRun
    <2>7. CASE AwaitAnswer(w)
      BY <2>1, <2>2, <2>7 DEF AwaitAnswer
    <2> QED BY <1>8, <2>3, <2>4, <2>5, <2>6, <2>7
  <1>9. CASE Release(w) \/ StopTicker(w) \/ HeartbeatStopped(w) \/ FailRun(w)
    <2>1. ASSUME NextRound(w), UNCHANGED closed
          PROVE  \A v \in Workers : Accounted(v)'
      BY <1>2, <1>4, <2>1, OthersAccounted DEF NextRound, Accounted
    <2>2. ASSUME NEW label \in {"stop", "wait", "error"}, Goto(w, label), UNCHANGED <<job, closed>>
          PROVE  \A v \in Workers : Accounted(v)'
      BY <1>1, <1>2, <2>2, OthersAccounted DEF Accounted
    <2>3. ASSUME Answered(w), job' = [job EXCEPT ![w] = NoJob]
          PROVE  \A v \in Workers : Accounted(v)'
      BY <1>3, <1>4, <2>3, OthersAccounted DEF Accounted
    <2> QED BY <1>9, <2>1, <2>2, <2>3 DEF Release, StopTicker, HeartbeatStopped, FailRun
  <1>10. CASE HeartbeatExits(w) \/ Heartbeat(w)
    <2>1. CASE UNCHANGED job
      BY <1>1, <1>10, <2>1, OthersAccounted DEF HeartbeatExits, Heartbeat, Accounted, RunCtxDone
    <2>2. CASE ~UNCHANGED job
      <3> DEFINE row == [job[w] EXCEPT !.lockLost = TRUE, !.cancelled = TRUE]
      <3>1. job' = [job EXCEPT ![w] = row]
        BY <1>10, <2>2 DEF HeartbeatExits, Heartbeat
      <3>2. /\ row.err = job[w].err /\ row.todo = job[w].todo /\ row.missed = job[w].missed
            /\ row.cancelled
        BY <1>1 DEF Job
      <3> HIDE DEF row
      <3>3. job'[w] = row /\ \A v \in Workers : v # w => job'[v] = job[v]
        BY <3>1 DEF WorkerTypeOK
      <3> QED BY <1>1, <1>10, <3>2, <3>3, OthersAccounted
              DEF HeartbeatExits, Heartbeat, Accounted, RunCtxDone
    <2> QED BY <2>1, <2>2
  <1> QED BY <1>5, <1>6, <1>7, <1>8, <1>9, <1>10, TasksAccounted, AbandonEnds DEF WorkerStep

\* Every step keeps what the workers know of their tasks.
THEOREM NextTaskInv == TaskInv /\ [Next]_vars => TaskInv'
  <1> SUFFICES ASSUME TaskInv, [Next]_vars PROVE \A v \in Workers : Accounted(v)'
    BY NextIInv DEF TaskInv
  <1>1. ASSUME NEW w \in Workers, WorkerStep(w) PROVE \A v \in Workers : Accounted(v)'
    BY <1>1, StepAccounted DEF TaskInv, IInv
  <1>2. ASSUME UNCHANGED <<pc, job, closed>> PROVE \A v \in Workers : Accounted(v)'
    BY <1>2 DEF TaskInv, Accounted, RunCtxDone
  <1>3. UNCHANGED <<pc, job, closed>> \/ \E w \in Workers : WorkerStep(w)
    BY DEF Next, vars, workers, ManualRun, Cleanup, PatchRule, RemoveRule, DispatchQuery,
           DispatchCheck, DispatchCreate, Tick
  <1> QED BY <1>1, <1>2, <1>3

-----------------------------------------------------------------------------

\* A statement other than MarkRunDone records no success.
LEMMA OnlyDoneSucceeds ==
  ASSUME TypeOK, [Next]_vars, NEW r \in Runs,
         runs[r].status # "success", runs'[r].status = "success"
  PROVE  \E w \in Workers : SucceedRun(w) /\ MarkRunDone(job[w].run) /\ job[w].run = r
                            /\ ~RunCtxDone(w)
  <1> USE DEF TypeOK, StoreTypeOK
  <1>1. runs[r] \in RunRow
    OBVIOUS
  <1>2. ASSUME NEW q \in Runs, NEW k, NEW t, InsertRun(q, k, t) PROVE FALSE
    BY <1>2 DEF InsertRun, NewRun
  <1>3. ASSUME UNCHANGED store PROVE FALSE
    BY <1>3 DEF store
  <1>4. ASSUME NEW q, NEW error, MarkRunError(q, error) PROVE FALSE
    <2>1. CASE UNCHANGED runs
      BY <2>1
    <2>2. CASE ~UNCHANGED runs
      <3> DEFINE row == [runs[q] EXCEPT !.status = "failed", !.started = 0, !.error = error]
      <3>1. runs' = [runs EXCEPT ![q] = row]
        BY <1>4, <2>2 DEF MarkRunError, Finish
      <3>2. q = r => row.status = "failed"
        BY <1>1 DEF RunRow
      <3> HIDE DEF row
      <3> QED BY <3>1, <3>2
    <2> QED BY <2>1, <2>2
  <1>5. ASSUME NEW w \in Workers, WorkerStep(w)
        PROVE  SucceedRun(w) /\ MarkRunDone(job[w].run) /\ job[w].run = r /\ ~RunCtxDone(w)
    <2>1. CASE Watchdog(w)
      <3>1. FailStaleRuns => FALSE
        <4>1. [runs[r] EXCEPT !.status = "failed", !.error = "stale", !.started = 0].status = "failed"
          BY <1>1 DEF RunRow
        <4> QED BY <4>1 DEF FailStaleRuns, Recovered
      <3> QED BY <1>3, <2>1, <3>1 DEF Watchdog
    <2>2. CASE Claim(w)
      <3>1. ASSUME NEW q \in Runs, ClaimNextPendingRun(q) PROVE FALSE
        BY <1>1, <3>1 DEF ClaimNextPendingRun, RunRow
      <3> QED BY <1>3, <2>2, <3>1 DEF Claim
    <2>3. CASE FailRun(w)
      BY <1>3, <1>4, <2>3 DEF FailRun
    <2>4. CASE SucceedRun(w)
      <3>1. MarkRunDone(job[w].run) /\ ~RunCtxDone(w)
        BY <1>3, <2>4 DEF SucceedRun, Outcomes
      <3>2. job[w].run = r
        BY <3>1 DEF MarkRunDone, Finish
      <3> QED BY <2>4, <3>1, <3>2
    <2>5. CASE Acquire(w) \/ Release(w) \/ Heartbeat(w)
      BY <1>3, <2>5 DEF Acquire, Release, Heartbeat, AcquireRuleLock, ReleaseRuleLock, RenewRuleLock
    <2>6. CASE ~(\/ Watchdog(w) \/ Claim(w) \/ FailRun(w) \/ SucceedRun(w)
                 \/ Acquire(w) \/ Release(w) \/ Heartbeat(w))
      BY <1>3, <1>5, <2>6 DEF WorkerStep, StartRequest, CloseRequest, Crash, Abandon, LoadRule, Plan, DoTask,
         FailTask, JoinTasks, CheckLockLost, AwaitAnswer, StopTicker, HeartbeatStopped, HeartbeatExits
    <2> QED BY <2>1, <2>2, <2>3, <2>4, <2>5, <2>6
  <1>6. ASSUME NEW k \in Rules, ManualRun(k) \/ Cleanup(k) \/ PatchRule(k) PROVE FALSE
    BY <1>2, <1>6 DEF ManualRun, Cleanup, PatchRule, CreateRun, CreateCleanupRun, UpdateRule
  <1>7. ASSUME NEW k \in Rules, RemoveRule(k) PROVE FALSE
    BY <1>1, <1>7 DEF RemoveRule, DeleteRule, RunRow
  <1>8. ASSUME NEW d \in Dispatchers, DispatchQuery(d) \/ DispatchCheck(d) \/ DispatchCreate(d)
        PROVE  FALSE
    BY <1>2, <1>3, <1>8 DEF DispatchQuery, DispatchCheck, DispatchCreate, CreateRun
  <1>9. ASSUME Tick PROVE FALSE
    BY <1>1, <1>9 DEF Tick, ClockTicks, RunRow
  <1> QED BY <1>3, <1>5, <1>6, <1>7, <1>8, <1>9 DEF Next, vars

\* A success is recorded only by the worker that executed the run, and only if
\* every task of its pool was executed and succeeded: neither the tasks the pool
\* drops nor the errors it loses once runCtx is done hide in a success.
THEOREM SuccessMeansAllTasks == Spec => SuccessIsWhole
  <1> DEFINE Whole == \A r \in Runs : runs[r].status # "success" /\ runs'[r].status = "success" =>
                        \E w \in Workers : /\ job[w].run = r
                                           /\ job[w].todo = {} /\ ~job[w].missed
                                           /\ job[w].err = "none" /\ ~job[w].cancelled
  <1>1. Init => TaskInv
    BY InitTaskInv
  <1>2. TaskInv /\ [Next]_vars => TaskInv'
    BY NextTaskInv
  <1>3. TaskInv /\ [Next]_vars => Whole
    <2> SUFFICES ASSUME TaskInv, [Next]_vars, NEW r \in Runs,
                        runs[r].status # "success", runs'[r].status = "success"
                 PROVE  \E w \in Workers : /\ job[w].run = r
                                           /\ job[w].todo = {} /\ ~job[w].missed
                                           /\ job[w].err = "none" /\ ~job[w].cancelled
      OBVIOUS
    <2>1. PICK w \in Workers : SucceedRun(w) /\ job[w].run = r /\ ~RunCtxDone(w)
      BY OnlyDoneSucceeds DEF TaskInv, IInv
    <2>2. Accounted(w) /\ pc[w] = "done"
      BY <2>1 DEF TaskInv, SucceedRun
    <2> QED BY <2>1, <2>2 DEF Accounted, RunCtxDone
  <1>4. TaskInv /\ [Next]_vars => [Whole]_vars
    BY <1>3
  <1> HIDE DEF Whole
  <1>5. Spec => [][Whole]_vars
    BY <1>1, <1>2, <1>4, PTL DEF Spec
  <1> QED BY <1>5 DEF SuccessIsWhole, Whole
=============================================================================
