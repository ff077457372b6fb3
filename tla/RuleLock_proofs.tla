-------------------------- MODULE RuleLock_proofs --------------------------
(* Theorems about the rows of the queue, for every value of the constants: that *)
(* locks are not stolen and scheduled runs do not pile up, however late workers *)
(* are.                                                                         *)
EXTENDS RunQueue_proofs

\* The rows fit together: only a claimed run has an age that counts, a rule
\* takes its runs along, and a lock is for a run of its rule.
RowsFit ==
    /\ \A r \in Runs : runs[r].status = "pending" => runs[r].started = 0
    /\ \A r \in Runs : rules[runs[r].rule] = "deleted" => runs[r].status \in {"none", "deleted"}
    /\ \A k \in Rules : locks[k].run \in Runs => Taken(locks[k].run) /\ runs[locks[k].run].rule = k

\* A run that was claimed less than a lease ago.
Young(r) == rules[runs[r].rule] # "deleted" =>
              runs[r].status = "running" /\ runs[r].started <= Lease

\* A run with a fresh lock on its rule.
Safe(r) == rules[runs[r].rule] # "deleted" =>
             /\ runs[r].status = "running"
             /\ locks[runs[r].rule].run = r
             /\ locks[runs[r].rule].age <= Lease

\* What a statement does to a run of somebody else: nothing, but that the rule
\* may be deleted.
Spares(r) ==
    /\ runs'[r].rule = runs[r].rule
    /\ rules[runs[r].rule] = "deleted" => rules'[runs[r].rule] = "deleted"
    /\ Young(r) => Young(r)'
    /\ Safe(r) => /\ Safe(r)'
                  /\ rules'[runs[r].rule] # "deleted" => locks'[runs[r].rule] = locks[runs[r].rule]

SparesBut(q) == RowsFit' /\ \A r \in Runs : Taken(r) /\ r # q => Spares(r)

LEMMA InsertSpares ==
  ASSUME StoreTypeOK, RowsFit, NEW k \in Rules, NEW t \in Triggers, NEW q \in Runs,
         IsNextId(q), InsertRun(q, k, t), UNCHANGED locks,
         rules[k] # "deleted",
         rules' = rules \/ rules' = [rules EXCEPT ![k] = "disabled"]
  PROVE  SparesBut(NoRun)
  <1>1. runs'[q] = NewRun(k, t) /\ \A r \in Runs : r # q => runs'[r] = runs[r]
    BY DEF InsertRun, StoreTypeOK
  <1>2. ~Taken(q)
    BY DEF IsNextId, Taken
  <1>3. \A j \in Rules : rules'[j] = "deleted" <=> rules[j] = "deleted"
    BY DEF StoreTypeOK
  <1>4. \A r \in Runs : runs[r].rule \in Rules
    BY DEF StoreTypeOK, RunRow
  <1>5. RowsFit'
    BY <1>1, <1>2, <1>3, <1>4 DEF RowsFit, Taken, NewRun
  <1>6. \A r \in Runs : Taken(r) => Spares(r)
    BY <1>1, <1>2, <1>3, <1>4 DEF Spares, Young, Safe
  <1> QED BY <1>5, <1>6 DEF SparesBut

LEMMA WatchdogSpares ==
  ASSUME StoreTypeOK, RowsFit, FailStaleRuns
  PROVE  SparesBut(NoRun)
  <1>1. ASSUME NEW r \in Runs
        PROVE  /\ runs'[r].rule = runs[r].rule
               /\ r \notin StaleRuns => runs'[r] = runs[r]
               /\ r \in StaleRuns => runs'[r].status = "failed" /\ runs[r].status = "running"
    <2>1. /\ [runs[r] EXCEPT !.status = "failed", !.error = "stale", !.started = 0].status = "failed"
          /\ [runs[r] EXCEPT !.status = "failed", !.error = "stale", !.started = 0].rule = runs[r].rule
      BY DEF StoreTypeOK, RunRow
    <2> QED BY <2>1 DEF FailStaleRuns, Recovered, StaleRuns
  <1>2. \A k \in Rules : locks'[k] = IF DeadLock(locks[k]) THEN NoLock ELSE locks[k]
    BY DEF FailStaleRuns
  <1>3. \A r \in Runs : runs[r].rule \in Rules
    BY DEF StoreTypeOK, RunRow
  <1>4. RowsFit'
    <2>1. rules' = rules
      BY DEF FailStaleRuns
    <2>2. \A r \in Runs : runs'[r].status = "pending" => runs'[r].started = 0
      BY <1>1 DEF RowsFit
    <2>3. \A r \in Runs : rules[runs'[r].rule] = "deleted" => runs'[r].status \in {"none", "deleted"}
      BY <1>1 DEF RowsFit
    <2>4. \A r \in Runs : Taken(r) => Taken(r)' /\ runs'[r].rule = runs[r].rule
      BY <1>1 DEF Taken
    <2>5. \A k \in Rules : locks'[k].run \in Runs => locks'[k] = locks[k]
      BY <1>2, RunsAssumption DEF NoLock
    <2> QED BY <2>1, <2>2, <2>3, <2>4, <2>5 DEF RowsFit
  <1>5. ASSUME NEW r \in Runs, Young(r) PROVE Young(r)'
    <2>1. rules[runs[r].rule] # "deleted" => ~Stale(runs[r].started)
      BY <1>5, LeaseAssumption, SMT DEF Young, Stale, StoreTypeOK, RunRow
    <2> QED BY <1>1, <1>5, <2>1 DEF Young, StaleRuns, FailStaleRuns
  <1>6. ASSUME NEW r \in Runs, Safe(r), rules[runs[r].rule] # "deleted"
        PROVE  locks'[runs[r].rule] = locks[runs[r].rule] /\ runs'[r] = runs[r]
    <2>1. locks[runs[r].rule].run = r /\ runs[r].status = "running"
      BY <1>6 DEF Safe
    <2>2. ~Stale(locks[runs[r].rule].age)
      BY <1>3, <1>6, LeaseAssumption, SMT DEF Safe, Stale, StoreTypeOK, LockRow
    <2>3. r \notin StaleRuns
      BY <2>1, <2>2 DEF StaleRuns
    <2>4. ~DeadLock(locks[runs[r].rule])
      BY <2>1, <2>2, <2>3 DEF DeadLock, Recovered
    <2> QED BY <1>1, <1>2, <1>3, <2>3, <2>4
  <1>7. \A r \in Runs : Spares(r)
    BY <1>1, <1>5, <1>6 DEF Spares, Safe, FailStaleRuns
  <1> QED BY <1>4, <1>7 DEF SparesBut

LEMMA ClaimSpares ==
  ASSUME StoreTypeOK, RowsFit, NEW q \in Runs, ClaimNextPendingRun(q)
  PROVE  SparesBut(q) /\ Young(q)'
  <1>1. runs[q] \in RunRow /\ runs[q].status = "pending"
    BY DEF StoreTypeOK, ClaimNextPendingRun, Pending
  <1>2. /\ [runs[q] EXCEPT !.status = "running"].status = "running"
        /\ [runs[q] EXCEPT !.status = "running"].rule = runs[q].rule
        /\ [runs[q] EXCEPT !.status = "running"].started = runs[q].started
    BY <1>1 DEF RunRow
  <1>3. /\ runs'[q].status = "running" /\ runs'[q].rule = runs[q].rule
        /\ runs'[q].started = runs[q].started
        /\ \A r \in Runs : r # q => runs'[r] = runs[r]
    BY <1>2 DEF ClaimNextPendingRun, StoreTypeOK
  <1>4. RowsFit'
    BY <1>1, <1>3 DEF RowsFit, ClaimNextPendingRun, Taken
  <1>5. \A r \in Runs : r # q => Spares(r)
    BY <1>3 DEF Spares, Young, Safe, ClaimNextPendingRun
  <1>6. Young(q)'
    BY <1>1, <1>3, LeaseAssumption, SMT DEF Young, RowsFit, ClaimNextPendingRun
  <1> QED BY <1>4, <1>5, <1>6 DEF SparesBut

LEMMA FinishSpares ==
  ASSUME StoreTypeOK, RowsFit, NEW q \in Runs, Taken(q), NEW status \in {"success", "failed"},
         NEW error, Finish(q, status, error)
  PROVE  SparesBut(q)
  <1> DEFINE e == IF status = "failed" THEN error ELSE runs[q].error
             row == [runs[q] EXCEPT !.status = status, !.started = 0, !.error = e]
  <1>1. runs[q].status # "deleted" => runs' = [runs EXCEPT ![q] = row]
    BY DEF Finish
  <1>2. row.status = status /\ row.rule = runs[q].rule
    BY DEF StoreTypeOK, RunRow
  <1> HIDE DEF row
  <1>3. /\ \A r \in Runs : r # q => runs'[r] = runs[r]
        /\ runs[q].status = "deleted" => runs'[q] = runs[q]
        /\ runs[q].status # "deleted" => runs'[q].status = status
        /\ runs'[q].rule = runs[q].rule
    <2>1. CASE runs[q].status = "deleted"
      BY <2>1 DEF Finish
    <2>2. CASE runs[q].status # "deleted"
      BY <1>1, <1>2, <2>2 DEF StoreTypeOK
    <2> QED BY <2>1, <2>2
  <1>4. RowsFit'
    <2>1. UNCHANGED <<rules, locks>>
      BY DEF Finish
    <2>2. \A r \in Runs : runs'[r].status = "pending" => runs'[r].started = 0
      BY <1>3 DEF RowsFit
    <2>3. \A r \in Runs : rules[runs'[r].rule] = "deleted" => runs'[r].status \in {"none", "deleted"}
      BY <1>3 DEF RowsFit, Taken
    <2>4. \A r \in Runs : Taken(r) => Taken(r)' /\ runs'[r].rule = runs[r].rule
      BY <1>3 DEF Taken
    <2> QED BY <2>1, <2>2, <2>3, <2>4 DEF RowsFit
  <1>5. \A r \in Runs : r # q => Spares(r)
    BY <1>3 DEF Spares, Young, Safe, Finish
  <1> QED BY <1>4, <1>5 DEF SparesBut

LEMMA LockSpares ==
  ASSUME StoreTypeOK, RowsFit, NEW k, NEW q,
         \/ AcquireRuleLock(k, q) /\ k \in Rules /\ q \in Runs /\ Taken(q) /\ runs[q].rule = k
         \/ RenewRuleLock(k, q) \/ ReleaseRuleLock(k, q)
  PROVE  SparesBut(q)
  <1> USE DEF AcquireRuleLock, RenewRuleLock, ReleaseRuleLock, HoldsLock
  <1>1. \A j \in Rules : j # k => locks'[j] = locks[j]
    BY DEF StoreTypeOK
  <1>2. k \in Rules => \/ locks'[k].run = locks[k].run
                       \/ locks'[k].run = NoRun
                       \/ locks'[k].run = q /\ q \in Runs /\ Taken(q) /\ runs[q].rule = k
    BY DEF StoreTypeOK, LockRow, NoLock
  <1>3. RowsFit'
    BY <1>1, <1>2, RunsAssumption DEF RowsFit, Taken
  <1>4. ASSUME NEW r \in Runs, r # q, Safe(r), rules[runs[r].rule] # "deleted"
        PROVE  locks'[runs[r].rule] = locks[runs[r].rule]
    <2>1. runs[r].rule \in Rules /\ locks[runs[r].rule].run = r
      BY <1>4 DEF Safe, StoreTypeOK, RunRow
    <2>2. ~Stale(locks[runs[r].rule].age)
      BY <1>4, <2>1, LeaseAssumption, SMT DEF Safe, Stale, StoreTypeOK, LockRow
    <2>3. runs[r].rule = k => UNCHANGED locks
      BY <1>4, <2>1, <2>2, RunsAssumption DEF CanAcquire
    <2> QED BY <1>1, <2>1, <2>3
  <1>5. \A r \in Runs : r # q => Spares(r)
    BY <1>4 DEF Spares, Young, Safe
  <1> QED BY <1>3, <1>5 DEF SparesBut

LEMMA DeleteSpares ==
  ASSUME StoreTypeOK, RowsFit, NEW k \in Rules, DeleteRule(k)
  PROVE  SparesBut(NoRun)
  <1>1. ASSUME NEW r \in Runs
        PROVE  /\ runs'[r].rule = runs[r].rule
               /\ runs[r].rule # k => runs'[r] = runs[r]
               /\ runs[r].rule = k => runs'[r].status \in {"none", "deleted"}
               /\ runs[r].status = "none" => runs'[r].status = "none"
    <2>1. /\ [runs[r] EXCEPT !.status = "deleted", !.started = 0].status = "deleted"
          /\ [runs[r] EXCEPT !.status = "deleted", !.started = 0].rule = runs[r].rule
      BY DEF StoreTypeOK, RunRow
    <2> QED BY <2>1 DEF DeleteRule
  <1>2. /\ rules'[k] = "deleted" /\ locks'[k] = NoLock
        /\ \A j \in Rules : j # k => rules'[j] = rules[j] /\ locks'[j] = locks[j]
    BY DEF DeleteRule, StoreTypeOK
  <1>3. \A r \in Runs : runs[r].rule \in Rules
    BY DEF StoreTypeOK, RunRow
  <1>4. RowsFit'
    <2>1. \A r \in Runs : runs'[r].status = "pending" => runs'[r].started = 0
      BY <1>1 DEF RowsFit
    <2>2. \A r \in Runs : rules'[runs'[r].rule] = "deleted" => runs'[r].status \in {"none", "deleted"}
      BY <1>1, <1>2, <1>3 DEF RowsFit
    <2>3. \A r \in Runs : Taken(r) => Taken(r)' /\ runs'[r].rule = runs[r].rule
      BY DeleteStep, <1>1 DEF StoreStep
    <2>4. \A j \in Rules : locks'[j].run \in Runs => locks'[j] = locks[j]
      BY <1>2, RunsAssumption DEF NoLock
    <2> QED BY <2>1, <2>2, <2>3, <2>4 DEF RowsFit
  <1>5. \A r \in Runs : Spares(r)
    BY <1>1, <1>2, <1>3 DEF Spares, Young, Safe
  <1> QED BY <1>4, <1>5 DEF SparesBut

LEMMA UpdateSpares ==
  ASSUME StoreTypeOK, RowsFit, NEW k \in Rules, NEW status \in {"enabled", "disabled"},
         UpdateRule(k, status)
  PROVE  SparesBut(NoRun)
  <1>1. \A j \in Rules : rules'[j] = "deleted" <=> rules[j] = "deleted"
    BY DEF UpdateRule, StoreTypeOK
  <1>2. \A r \in Runs : runs[r].rule \in Rules
    BY DEF StoreTypeOK, RunRow
  <1> QED BY <1>1, <1>2 DEF UpdateRule, SparesBut, RowsFit, Taken, Spares, Young, Safe

LEMMA SameStoreSpares ==
  ASSUME RowsFit, UNCHANGED store
  PROVE  SparesBut(NoRun)
  BY DEF store, SparesBut, RowsFit, Taken, Spares, Young, Safe

\* A tick of the clock ages a row by one tick at most.
LEMMA ClockAges ==
  ASSUME StoreTypeOK, ClockTicks
  PROVE  /\ \A r \in Runs : /\ runs'[r].status = runs[r].status /\ runs'[r].rule = runs[r].rule
                            /\ runs[r].status # "running" => runs'[r].started = runs[r].started
                            /\ runs'[r].started <= runs[r].started + 1
         /\ \A k \in Rules : /\ locks'[k].run = locks[k].run
                             /\ locks'[k].age <= locks[k].age + 1
  <1>1. ASSUME NEW cap \in Nat, NEW age \in Nat PROVE Older(age, cap) <= age + 1
    BY SMT DEF Older
  <1>2. ASSUME NEW r \in Runs
        PROVE  /\ runs'[r].status = runs[r].status /\ runs'[r].rule = runs[r].rule
               /\ runs[r].status # "running" => runs'[r].started = runs[r].started
               /\ runs'[r].started <= runs[r].started + 1
    <2> DEFINE s == IF runs[r].status = "running" THEN Older(runs[r].started, Lease + 1)
                    ELSE runs[r].started
               c == IF runs[r].status \in {"none", "deleted"} THEN runs[r].created
                    ELSE Older(runs[r].created, MinInterval)
    <2>1. runs[r] \in RunRow /\ Lease + 1 \in Nat /\ runs[r].started \in Nat
      BY LeaseAssumption, SMT DEF StoreTypeOK, RunRow
    <2>2. s <= runs[r].started + 1
      BY <1>1, <2>1, SMT
    <2>3. runs[r].status # "running" => s = runs[r].started
      OBVIOUS
    <2>4. runs'[r] = [runs[r] EXCEPT !.started = s, !.created = c]
      BY DEF ClockTicks
    <2> HIDE DEF s, c
    <2>5. runs'[r].status = runs[r].status /\ runs'[r].rule = runs[r].rule /\ runs'[r].started = s
      BY <2>1, <2>4 DEF RunRow
    <2> QED BY <2>2, <2>3, <2>5
  <1>3. ASSUME NEW k \in Rules
        PROVE  locks'[k].run = locks[k].run /\ locks'[k].age <= locks[k].age + 1
    <2> DEFINE a == IF locks[k].run = NoRun THEN locks[k].age ELSE Older(locks[k].age, Lease + 1)
    <2>1. locks[k] \in LockRow /\ Lease + 1 \in Nat /\ locks[k].age \in Nat
      BY LeaseAssumption, SMT DEF StoreTypeOK, LockRow
    <2>2. a <= locks[k].age + 1
      BY <1>1, <2>1, SMT
    <2>3. locks'[k] = [locks[k] EXCEPT !.age = a]
      BY DEF ClockTicks
    <2> HIDE DEF a
    <2>4. locks'[k].run = locks[k].run /\ locks'[k].age = a
      BY <2>1, <2>3 DEF LockRow
    <2> QED BY <2>2, <2>4
  <1> QED BY <1>2, <1>3

-----------------------------------------------------------------------------
(* The locks alone *)

StoreInv == IInv /\ RowsFit

LEMMA InitStoreInv == Init => StoreInv
  <1> SUFFICES ASSUME Init PROVE RowsFit
    BY InitIInv DEF StoreInv
  <1>1. \A r \in Runs : runs[r].status = "none"
    BY DEF Init, StoreInit, NewRun
  <1>2. \A k \in Rules : locks[k].run \notin Runs
    BY RunsAssumption DEF Init, StoreInit, NoLock
  <1> QED BY <1>1, <1>2 DEF RowsFit

\* What the step of a worker is to the runs of the others.
LEMMA WorkerSpares ==
  ASSUME StoreInv, NEW w \in Workers, WorkerStep(w)
  PROVE  \/ SparesBut(NoRun)
         \/ SparesBut(job[w].run)
         \/ Claim(w) /\ \E q \in Runs : /\ ClaimNextPendingRun(q) /\ SparesBut(q)
                                        /\ job' = [job EXCEPT ![w].run = q] /\ pc'[w] = "load"
  <1> USE DEF StoreInv, IInv, TypeOK
  <1>1. InHand(w) => /\ job[w].run \in Runs /\ Taken(job[w].run) /\ RuleOf(w) \in Rules
                     /\ runs[job[w].run].rule = RuleOf(w)
    BY RunsAssumption DEF RunInHand, ClaimedOnce, Taken, RuleOf, StoreTypeOK, RunRow
  <1>2. CASE Watchdog(w)
    BY <1>2, WatchdogSpares, SameStoreSpares DEF Watchdog
  <1>3. CASE Claim(w)
    <2>1. CASE \E q \in Runs : ClaimNextPendingRun(q) /\ job' = [job EXCEPT ![w].run = q]
                               /\ Goto(w, "load")
      <3>1. PICK q \in Runs : ClaimNextPendingRun(q) /\ job' = [job EXCEPT ![w].run = q]
                              /\ Goto(w, "load")
        BY <2>1
      <3>2. SparesBut(q) /\ pc'[w] = "load"
        BY <3>1, ClaimSpares DEF Goto, WorkerTypeOK
      <3> QED BY <1>3, <3>1, <3>2
    <2>2. CASE UNCHANGED store
      BY <2>2, SameStoreSpares
    <2> QED BY <1>3, <2>1, <2>2 DEF Claim
  <1>4. CASE Acquire(w)
    BY <1>1, <1>4, LockSpares, SameStoreSpares DEF Acquire, InHand
  <1>5. CASE Release(w)
    BY <1>1, <1>5, LockSpares, SameStoreSpares DEF Release, InHand
  <1>6. CASE Heartbeat(w)
    BY <1>6, LockSpares, SameStoreSpares DEF Heartbeat
  <1>7. CASE SucceedRun(w)
    BY <1>1, <1>7, FinishSpares, SameStoreSpares DEF SucceedRun, MarkRunDone, InHand
  <1>8. CASE FailRun(w)
    BY <1>1, <1>8, FinishSpares, SameStoreSpares DEF FailRun, MarkRunError, InHand
  <1>9. CASE ~(\/ Watchdog(w) \/ Claim(w) \/ FailRun(w) \/ SucceedRun(w)
               \/ Acquire(w) \/ Release(w) \/ Heartbeat(w))
    BY <1>9, SameStoreSpares DEF WorkerStep, StartRequest, CloseRequest, Crash, Abandon, LoadRule, Plan,
       DoTask, FailTask, JoinTasks, CheckLockLost, AwaitAnswer, StopTicker, HeartbeatStopped,
       HeartbeatExits
  <1> QED BY <1>2, <1>3, <1>4, <1>5, <1>6, <1>7, <1>8, <1>9

\* The requests of users and of the scheduler job spare every run.
ApiStep == \/ \E k \in Rules : ManualRun(k) \/ Cleanup(k) \/ PatchRule(k) \/ RemoveRule(k)
           \/ \E d \in Dispatchers : DispatchQuery(d) \/ DispatchCheck(d) \/ DispatchCreate(d)

LEMMA ApiSpares ==
  ASSUME StoreInv, ApiStep
  PROVE  SparesBut(NoRun) /\ UNCHANGED workers
  <1> USE DEF StoreInv, IInv, TypeOK
  <1>1. ASSUME NEW k \in Rules, NEW t \in Triggers, CreateRun(k, t) PROVE SparesBut(NoRun)
    BY <1>1, InsertSpares DEF CreateRun
  <1>2. ASSUME NEW k \in Rules, ManualRun(k) \/ Cleanup(k) \/ PatchRule(k) \/ RemoveRule(k)
        PROVE  SparesBut(NoRun) /\ UNCHANGED workers
    <2>1. CASE ManualRun(k)
      BY <1>1, <2>1 DEF ManualRun, Triggers
    <2>2. CASE Cleanup(k)
      BY <2>2, InsertSpares DEF Cleanup, CreateCleanupRun, Triggers
    <2>3. CASE PatchRule(k)
      BY <2>3, UpdateSpares DEF PatchRule
    <2>4. CASE RemoveRule(k)
      BY <2>4, DeleteSpares DEF RemoveRule
    <2> QED BY <1>2, <2>1, <2>2, <2>3, <2>4
  <1>3. ASSUME NEW d \in Dispatchers, DispatchQuery(d) \/ DispatchCheck(d) \/ DispatchCreate(d)
        PROVE  SparesBut(NoRun) /\ UNCHANGED workers
    <2>1. CASE DispatchCreate(d)
      <3>1. disp[d].picked \in Rules
        BY <2>1 DEF DispatchCreate
      <3> QED BY <1>1, <2>1, <3>1, SameStoreSpares DEF DispatchCreate, Triggers
    <2> QED BY <1>3, <2>1, SameStoreSpares DEF DispatchQuery, DispatchCheck
  <1> QED BY <1>2, <1>3 DEF ApiStep

LEMMA TickFits ==
  ASSUME StoreInv, Tick PROVE RowsFit'
  <1>1. StoreTypeOK /\ ClockTicks
    BY DEF StoreInv, IInv, TypeOK, Tick
  <1>2. /\ \A r \in Runs : /\ runs'[r].status = runs[r].status /\ runs'[r].rule = runs[r].rule
                           /\ runs[r].status # "running" => runs'[r].started = runs[r].started
        /\ \A k \in Rules : locks'[k].run = locks[k].run
    BY <1>1, ClockAges
  <1>3. rules' = rules /\ RowsFit
    BY <1>1 DEF ClockTicks, StoreInv
  <1>4. \A r \in Runs : runs'[r].status = "pending" => runs'[r].started = 0
    BY <1>2, <1>3 DEF RowsFit
  <1>5. \A r \in Runs : rules'[runs'[r].rule] = "deleted" => runs'[r].status \in {"none", "deleted"}
    BY <1>2, <1>3 DEF RowsFit
  <1>6. \A k \in Rules : locks'[k].run \in Runs =>
           /\ runs'[locks'[k].run].status \notin {"none", "pending"}
           /\ runs'[locks'[k].run].rule = k
    BY <1>2, <1>3 DEF RowsFit, Taken
  <1> QED BY <1>4, <1>5, <1>6 DEF RowsFit, Taken

LEMMA NextCases ==
  ASSUME [Next]_vars
  PROVE  \/ \E w \in Workers : WorkerStep(w) /\ UNCHANGED disp
         \/ ApiStep \/ Tick \/ UNCHANGED vars
  BY DEF Next, ApiStep

\* Every step keeps the rows together.
THEOREM NextStoreInv == StoreInv /\ [Next]_vars => StoreInv'
  <1> SUFFICES ASSUME StoreInv, [Next]_vars PROVE RowsFit'
    BY NextIInv DEF StoreInv
  <1>1. ASSUME NEW w \in Workers, WorkerStep(w) PROVE RowsFit'
    BY <1>1, WorkerSpares DEF SparesBut
  <1>2. ASSUME UNCHANGED vars PROVE RowsFit'
    BY <1>2, SameStoreSpares DEF vars, SparesBut, StoreInv
  <1> QED BY <1>1, <1>2, NextCases, ApiSpares, TickFits DEF SparesBut

\* A lock that a run has and the run that has it after a step.
LEMMA LockChanges ==
  ASSUME StoreInv, [Next]_vars, NEW k \in Rules,
         locks[k].run # NoRun, locks'[k].run # locks[k].run
  PROVE  \/ Stale(locks[k].age)
         \/ runs'[locks[k].run].status # "running"
         \/ \E w \in Workers : job[w].run = locks[k].run /\ pc[w] = "release"
  <1> USE DEF StoreInv, IInv, TypeOK
  <1>1. locks[k] \in LockRow /\ locks[k].run \in Runs /\ runs[locks[k].run].rule = k
    BY DEF RowsFit, StoreTypeOK, LockRow
  <1>2. locks' # locks
    OBVIOUS
  <1>3. ASSUME NEW w \in Workers, WorkerStep(w)
        PROVE  \/ Stale(locks[k].age)
               \/ runs'[locks[k].run].status # "running"
               \/ job[w].run = locks[k].run /\ pc[w] = "release"
    <2>1. CASE Watchdog(w)
      <3>1. FailStaleRuns
        BY <1>2, <2>1 DEF Watchdog, store
      <3>2. DeadLock(locks[k]) /\ runs'[locks[k].run] = Recovered(locks[k].run)
        BY <1>1, <3>1 DEF FailStaleRuns
      <3> QED BY <3>2 DEF DeadLock
    <2>2. CASE Acquire(w)
      <3>1. AcquireRuleLock(RuleOf(w), job[w].run)
        BY <1>2, <2>2 DEF Acquire, store
      <3>2. RuleOf(w) = k /\ locks'[k].run = job[w].run
        BY <3>1 DEF AcquireRuleLock, StoreTypeOK
      <3> QED BY <3>1, <3>2 DEF AcquireRuleLock, CanAcquire
    <2>3. CASE Release(w)
      <3>1. HoldsLock(RuleOf(w), job[w].run) /\ locks' = [locks EXCEPT ![RuleOf(w)] = NoLock]
        BY <1>2, <2>3 DEF Release, ReleaseRuleLock, store
      <3>2. RuleOf(w) = k
        BY <3>1 DEF StoreTypeOK
      <3> QED BY <2>3, <3>1, <3>2 DEF Release, HoldsLock
    <2>4. CASE Heartbeat(w)
      <3>1. locks' = [locks EXCEPT ![RuleOf(w)].age = 0]
        BY <1>2, <2>4 DEF Heartbeat, RenewRuleLock, store
      <3>2. [locks[k] EXCEPT !.age = 0].run = locks[k].run
        BY <1>1 DEF LockRow
      <3> QED BY <3>1, <3>2 DEF StoreTypeOK
    <2>5. CASE Claim(w) \/ SucceedRun(w) \/ FailRun(w)
      BY <1>2, <2>5 DEF Claim, SucceedRun, FailRun, ClaimNextPendingRun, MarkRunDone, MarkRunError,
         Finish, store
    <2>6. CASE ~(\/ Watchdog(w) \/ Claim(w) \/ FailRun(w) \/ SucceedRun(w)
                 \/ Acquire(w) \/ Release(w) \/ Heartbeat(w))
      BY <1>2, <1>3, <2>6 DEF WorkerStep, StartRequest, CloseRequest, Crash, Abandon, LoadRule, Plan, DoTask,
         FailTask, JoinTasks, CheckLockLost, AwaitAnswer, StopTicker, HeartbeatStopped,
         HeartbeatExits, store
    <2> QED BY <2>1, <2>2, <2>3, <2>4, <2>5, <2>6
  <1>4. ASSUME ApiStep PROVE runs'[locks[k].run].status # "running"
    <2>1. PICK j \in Rules : DeleteRule(j)
      BY <1>2, <1>4 DEF ApiStep, ManualRun, Cleanup, PatchRule, RemoveRule, DispatchQuery,
         DispatchCheck, DispatchCreate, CreateRun, CreateCleanupRun, UpdateRule, store
    <2>2. j = k
      BY <2>1 DEF DeleteRule, StoreTypeOK
    <2>3. Taken(locks[k].run)
      BY <1>1 DEF RowsFit
    <2>4. [runs[locks[k].run] EXCEPT !.status = "deleted", !.started = 0].status = "deleted"
      BY <1>1 DEF StoreTypeOK, RunRow
    <2> QED BY <1>1, <2>1, <2>2, <2>3, <2>4 DEF DeleteRule, Taken
  <1>5. ~Tick
    BY ClockAges DEF Tick
  <1>6. vars' # vars
    BY <1>2 DEF vars, store
  <1> QED BY <1>3, <1>4, <1>5, <1>6, NextCases

\* Nobody takes the lock of a rule from a running run within its lease: only its
\* own worker gives it up, whoever else claims, recovers, or deletes.
THEOREM NoLockStolen == Spec => LocksAreNotStolen
  <1> DEFINE Kept == \A k \in Rules :
               locks[k].run # NoRun /\ locks'[k].run # locks[k].run =>
                 \/ Stale(locks[k].age)
                 \/ runs'[locks[k].run].status # "running"
                 \/ \E w \in Workers : job[w].run = locks[k].run /\ pc[w] = "release"
  <1>1. Init => StoreInv
    BY InitStoreInv
  <1>2. StoreInv /\ [Next]_vars => StoreInv'
    BY NextStoreInv
  <1>3. StoreInv /\ [Next]_vars => [Kept]_vars
    BY LockChanges
  <1> HIDE DEF Kept
  <1>4. Spec => [][Kept]_vars
    BY <1>1, <1>2, <1>3, PTL DEF Spec
  <1> QED BY <1>4 DEF LocksAreNotStolen, Kept

-----------------------------------------------------------------------------
(* The scheduler job: its check and its insert are two statements *)

Scheduled(r) == runs[r].trigger = "schedule" /\ runs[r].status \in {"pending", "running"}

NoneOf(k) == \A r \in Runs : runs[r].rule = k => ~Scheduled(r)

\* Between its check and its insert a dispatch relies on what the check found.
DispInv ==
    /\ OneScheduledRun
    /\ \A d \in Dispatchers : disp[d].picked # NoRule => NoneOf(disp[d].picked)

\* No statement but the insert of a dispatch makes a scheduled run.
NoneNew == \A r \in Runs : Scheduled(r)' => Scheduled(r) /\ runs'[r].rule = runs[r].rule

\* Such a statement keeps what the dispatch relies on.
LEMMA NoneNewKeeps ==
  ASSUME DispInv, NoneNew,
         \A d \in Dispatchers : disp'[d].picked \in {NoRule, disp[d].picked}
  PROVE  DispInv'
  <1>1. OneScheduledRun'
    BY DEF DispInv, NoneNew, OneScheduledRun, Scheduled
  <1>2. ASSUME NEW d \in Dispatchers, disp'[d].picked # NoRule PROVE NoneOf(disp[d].picked)'
    BY <1>2 DEF DispInv, NoneNew, NoneOf
  <1> QED BY <1>1, <1>2 DEF DispInv, NoneOf, Scheduled

\* At the start there are no runs.
LEMMA InitDispInv == Init => DispInv
  <1> SUFFICES ASSUME Init PROVE DispInv
    OBVIOUS
  <1>1. \A r \in Runs : ~Scheduled(r)
    BY DEF Init, StoreInit, NewRun, Scheduled
  <1> QED BY <1>1 DEF DispInv, OneScheduledRun, Scheduled, Init, NoDispatch

\* Without a change of the runs there is no new one.
LEMMA SameRuns ==
  ASSUME UNCHANGED runs PROVE NoneNew
  BY DEF NoneNew, Scheduled

\* The statements of workers, time, and users make no scheduled run.
LEMMA WatchdogNoneNew ==
  ASSUME StoreTypeOK, FailStaleRuns PROVE NoneNew
  <1> SUFFICES ASSUME NEW r \in Runs, Scheduled(r)'
               PROVE  Scheduled(r) /\ runs'[r].rule = runs[r].rule
    BY DEF NoneNew
  <1>1. [runs[r] EXCEPT !.status = "failed", !.error = "stale", !.started = 0].status = "failed"
    BY DEF StoreTypeOK, RunRow
  <1>2. runs'[r] = runs[r]
    BY <1>1 DEF FailStaleRuns, Recovered, Scheduled
  <1> QED BY <1>2 DEF Scheduled

LEMMA ClaimNoneNew ==
  ASSUME StoreTypeOK, NEW q \in Runs, ClaimNextPendingRun(q) PROVE NoneNew
  <1>1. runs[q] \in RunRow /\ runs[q].status = "pending"
    BY DEF StoreTypeOK, ClaimNextPendingRun, Pending
  <1>2. /\ [runs[q] EXCEPT !.status = "running"].trigger = runs[q].trigger
        /\ [runs[q] EXCEPT !.status = "running"].rule = runs[q].rule
    BY <1>1 DEF RunRow
  <1>3. \A r \in Runs : runs'[r].trigger = runs[r].trigger /\ runs'[r].rule = runs[r].rule
                        /\ (r # q => runs'[r] = runs[r])
    BY <1>2 DEF ClaimNextPendingRun, StoreTypeOK
  <1> QED BY <1>1, <1>3 DEF NoneNew, Scheduled

LEMMA FinishNoneNew ==
  ASSUME StoreTypeOK, NEW q \in Runs, NEW status \in {"success", "failed"}, NEW error,
         Finish(q, status, error)
  PROVE  NoneNew
  <1> DEFINE e == IF status = "failed" THEN error ELSE runs[q].error
             row == [runs[q] EXCEPT !.status = status, !.started = 0, !.error = e]
  <1>1. runs' = runs \/ runs' = [runs EXCEPT ![q] = row]
    BY DEF Finish
  <1>2. row.status = status
    BY DEF StoreTypeOK, RunRow
  <1> HIDE DEF row
  <1>3. \A r \in Runs : runs'[r] = runs[r] \/ runs'[r].status = status
    BY <1>1, <1>2 DEF StoreTypeOK
  <1> QED BY <1>3 DEF NoneNew, Scheduled

LEMMA WorkerNoneNew ==
  ASSUME StoreInv, NEW w \in Workers, WorkerStep(w) PROVE NoneNew
  <1> USE DEF StoreInv, IInv, TypeOK
  <1>1. InHand(w) => job[w].run \in Runs
    BY DEF RunInHand
  <1>2. CASE Watchdog(w)
    BY <1>2, WatchdogNoneNew, SameRuns DEF Watchdog, store
  <1>3. CASE Claim(w)
    BY <1>3, ClaimNoneNew, SameRuns DEF Claim, store
  <1>4. CASE SucceedRun(w)
    BY <1>1, <1>4, FinishNoneNew, SameRuns DEF SucceedRun, MarkRunDone, InHand, store
  <1>5. CASE FailRun(w)
    BY <1>1, <1>5, FinishNoneNew, SameRuns DEF FailRun, MarkRunError, InHand, store
  <1>6. CASE ~(Watchdog(w) \/ Claim(w) \/ SucceedRun(w) \/ FailRun(w))
    BY <1>6, SameRuns DEF WorkerStep, StartRequest, CloseRequest, Crash, Abandon, LoadRule, Plan, Acquire,
       Release, Heartbeat, AcquireRuleLock, ReleaseRuleLock, RenewRuleLock, DoTask, FailTask,
       JoinTasks, CheckLockLost, AwaitAnswer, StopTicker, HeartbeatStopped, HeartbeatExits, store
  <1> QED BY <1>2, <1>3, <1>4, <1>5, <1>6

LEMMA TickNoneNew ==
  ASSUME StoreTypeOK, ClockTicks PROVE NoneNew
  <1> SUFFICES ASSUME NEW r \in Runs
               PROVE  runs'[r].trigger = runs[r].trigger
    BY ClockAges DEF NoneNew, Scheduled
  <1> DEFINE s == IF runs[r].status = "running" THEN Older(runs[r].started, Lease + 1)
                  ELSE runs[r].started
             c == IF runs[r].status \in {"none", "deleted"} THEN runs[r].created
                  ELSE Older(runs[r].created, MinInterval)
  <1>1. runs'[r] = [runs[r] EXCEPT !.started = s, !.created = c]
    BY DEF ClockTicks
  <1> HIDE DEF s, c
  <1> QED BY <1>1 DEF StoreTypeOK, RunRow

\* An inserted row is the only one that is new, and of the trigger given.
LEMMA Inserted ==
  ASSUME StoreTypeOK, NEW k \in Rules, NEW t \in Triggers, NEW q \in Runs,
         IsNextId(q), InsertRun(q, k, t)
  PROVE  /\ runs'[q].trigger = t /\ runs'[q].rule = k
         /\ \A r \in Runs : r # q => runs'[r] = runs[r]
  BY DEF InsertRun, NewRun, StoreTypeOK

LEMMA UserNoneNew ==
  ASSUME StoreInv, NEW k \in Rules,
         ManualRun(k) \/ Cleanup(k) \/ PatchRule(k) \/ RemoveRule(k)
  PROVE  NoneNew
  <1> USE DEF StoreInv, IInv, TypeOK
  <1>1. ASSUME NEW q \in Runs, NEW t \in {"manual", "cleanup"}, IsNextId(q), InsertRun(q, k, t)
        PROVE  NoneNew
    <2>1. t \in Triggers /\ t # "schedule"
      BY DEF Triggers
    <2> QED BY <1>1, <2>1, Inserted DEF NoneNew, Scheduled
  <1>2. CASE ManualRun(k)
    BY <1>1, <1>2 DEF ManualRun, CreateRun
  <1>3. CASE Cleanup(k)
    BY <1>1, <1>3 DEF Cleanup, CreateCleanupRun
  <1>4. CASE PatchRule(k)
    BY <1>4, SameRuns DEF PatchRule, UpdateRule
  <1>5. CASE RemoveRule(k)
    <2> SUFFICES ASSUME NEW r \in Runs, Scheduled(r)'
                 PROVE  runs'[r] = runs[r]
      BY DEF NoneNew, Scheduled
    <2>1. [runs[r] EXCEPT !.status = "deleted", !.started = 0].status = "deleted"
      BY DEF StoreTypeOK, RunRow
    <2> QED BY <1>5, <2>1 DEF RemoveRule, DeleteRule, Scheduled
  <1> QED BY <1>2, <1>3, <1>4, <1>5

\* The steps of the one dispatch.
LEMMA DispatchKeeps ==
  ASSUME StoreInv, DispInv, NEW d \in Dispatchers, \A c \in Dispatchers : c = d,
         DispatchQuery(d) \/ DispatchCheck(d) \/ DispatchCreate(d)
  PROVE  DispInv'
  <1> USE DEF StoreInv, IInv, TypeOK
  <1>1. CASE DispatchQuery(d)
    <2>1. disp'[d].picked = disp[d].picked
      BY <1>1 DEF DispatchQuery
    <2> QED BY <1>1, <2>1, SameRuns, NoneNewKeeps DEF DispatchQuery, store
  <1>2. CASE DispatchCheck(d)
    <2>1. PICK k \in disp[d].left :
            disp' = [disp EXCEPT ![d].left = @ \ {k},
                                 ![d].picked = IF HasActiveRun(k) \/ CreatedRecently(k) THEN NoRule ELSE k]
      BY <1>2 DEF DispatchCheck
    <2>2. disp'[d].picked = IF HasActiveRun(k) \/ CreatedRecently(k) THEN NoRule ELSE k
      BY <2>1
    <2>3. runs' = runs
      BY <1>2 DEF DispatchCheck, store
    <2>4. ~HasActiveRun(k) => NoneOf(k)
      BY DEF HasActiveRun, NoneOf, Scheduled
    <2>5. NoneOf(k) => NoneOf(k)'
      BY <2>3 DEF NoneOf, Scheduled
    <2>6. disp'[d].picked # NoRule => NoneOf(disp[d].picked)'
      BY <2>2, <2>3, <2>4, <2>5 DEF NoneOf, Scheduled
    <2>7. OneScheduledRun'
      BY <2>3 DEF DispInv, OneScheduledRun
    <2> QED BY <2>6, <2>7 DEF DispInv, NoneOf, Scheduled
  <1>3. CASE DispatchCreate(d)
    <2>1. disp[d].picked \in Rules /\ disp[d].picked # NoRule /\ disp'[d].picked = NoRule
      BY <1>3 DEF DispatchCreate
    <2>2. CASE UNCHANGED store
      BY <2>1, <2>2, SameRuns, NoneNewKeeps DEF store
    <2>3. CASE CreateRun(disp[d].picked, "schedule")
      <3> DEFINE k == disp[d].picked
      <3>1. PICK q \in Runs : IsNextId(q) /\ InsertRun(q, k, "schedule")
        BY <2>3 DEF CreateRun
      <3>2. runs'[q].rule = k /\ \A r \in Runs : r # q => runs'[r] = runs[r]
        BY <2>1, <3>1, Inserted DEF Triggers
      <3>3. NoneOf(k)
        BY <2>1 DEF DispInv
      <3>4. OneScheduledRun'
        BY <3>2, <3>3 DEF DispInv, OneScheduledRun, NoneOf, Scheduled
      <3> QED BY <2>1, <3>4 DEF DispInv
    <2> QED BY <1>3, <2>2, <2>3 DEF DispatchCreate
  <1> QED BY <1>1, <1>2, <1>3

\* With one dispatch at a time a rule has one scheduled run pending or running
\* at most: the check and the insert are two statements, but whatever workers,
\* users and the watchdog do between them makes no scheduled run.
THEOREM ScheduledOnce ==
  ASSUME \A c, d \in Dispatchers : c = d
  PROVE  Spec => []OneScheduledRun
  <1>1. Init => StoreInv /\ DispInv
    BY InitStoreInv, InitDispInv
  <1>2. StoreInv /\ DispInv /\ [Next]_vars => (StoreInv /\ DispInv)'
    <2> SUFFICES ASSUME StoreInv, DispInv, [Next]_vars PROVE DispInv'
      BY NextStoreInv
    <2>1. ASSUME NoneNew, UNCHANGED disp PROVE DispInv'
      BY <2>1, NoneNewKeeps
    <2>2. ASSUME NEW w \in Workers, WorkerStep(w), UNCHANGED disp PROVE DispInv'
      BY <2>1, <2>2, WorkerNoneNew
    <2>3. CASE Tick
      BY <2>1, <2>3, TickNoneNew DEF Tick, StoreInv, IInv, TypeOK
    <2>4. CASE ApiStep
      <3>1. ASSUME NEW k \in Rules, ManualRun(k) \/ Cleanup(k) \/ PatchRule(k) \/ RemoveRule(k)
            PROVE  UNCHANGED disp
        BY <3>1 DEF ManualRun, Cleanup, PatchRule, RemoveRule
      <3> QED BY <2>1, <2>4, <3>1, UserNoneNew, DispatchKeeps DEF ApiStep
    <2>5. CASE UNCHANGED vars
      BY <2>1, <2>5, SameRuns DEF vars, store
    <2> QED BY <2>2, <2>3, <2>4, <2>5, NextCases
  <1>3. DispInv => OneScheduledRun
    BY DEF DispInv
  <1> QED BY <1>1, <1>2, <1>3, PTL DEF Spec

-----------------------------------------------------------------------------
(* Theorems about the rule locks when workers are on time (Punctual) and the   *)
(* lease is no shorter than the shortest heartbeat.                            *)

\* The heartbeat has renewed the lock at its last tick, or is about to, or its
\* context is done.
Beating(w) ==
    /\ beat[w].ticking /\ beat[w].phase < Interval
    /\ beat[w].live \/ RunCtxDone(w)
    /\ beat[w].live /\ beat[w].due => beat[w].phase = 0
    /\ beat[w].live /\ ~beat[w].due /\ rules[RuleOf(w)] # "deleted" =>
         locks[RuleOf(w)].age <= beat[w].phase

\* A worker keeps its claim fresh, and then its lock.
Keeping(w) ==
    /\ pc[w] \in {"load", "acquire"} => Young(job[w].run)
    /\ Executing(w) => Safe(job[w].run) /\ Beating(w)

LockInv == StoreInv /\ RuleExclusive /\ \A w \in Workers : Keeping(w)

LEMMA IntervalFits ==
  /\ Interval \in Nat \ {0}
  /\ MinBeat <= Lease => Interval <= Lease
  BY LeaseAssumption, WorkerAssumption, SMT DEF Interval

LEMMA InitLockInv == Init => LockInv
  BY InitStoreInv DEF LockInv, Init, WorkerInit, RuleExclusive, Keeping, Executing

LEMMA Held ==
  ASSUME StoreInv, NEW w \in Workers, InHand(w)
  PROVE  /\ job[w].run \in Runs /\ Taken(job[w].run)
         /\ RuleOf(w) = runs[job[w].run].rule /\ RuleOf(w) \in Rules
         /\ \A v \in Workers : v # w => job[v].run # job[w].run
  BY RunsAssumption DEF StoreInv, IInv, TypeOK, RunInHand, ClaimedOnce, Taken, RuleOf, StoreTypeOK, RunRow

\* A worker that does not move keeps what it has when its run is spared.
LEMMA StillKeeping ==
  ASSUME StoreInv, NEW v \in Workers, Keeping(v),
         pc'[v] = pc[v], job'[v].run = job[v].run, job'[v].cancelled = job[v].cancelled,
         beat'[v] = beat[v], closed[v] => closed'[v],
         \A r \in Runs : InHand(v) /\ job[v].run = r => Spares(r)
  PROVE  Keeping(v)'
  <1>1. CASE ~InHand(v)
    BY <1>1 DEF Keeping, InHand, Executing
  <1>2. CASE InHand(v)
    <2>0. PICK r \in Runs : r = job[v].run
      BY <1>2, Held
    <2>1. Spares(r) /\ RuleOf(v) = runs[r].rule /\ RuleOf(v)' = runs[r].rule
      BY <1>2, <2>0 DEF RuleOf, Spares
    <2>2. pc'[v] \in {"load", "acquire"} => Young(r)'
      BY <2>0, <2>1 DEF Keeping, Spares
    <2>3. ASSUME Executing(v)' PROVE Safe(r)' /\ Beating(v)'
      <3>1. Safe(r) /\ Beating(v)
        BY <2>0, <2>3 DEF Executing, Keeping
      <3>2. Safe(r)' /\ (rules'[runs[r].rule] # "deleted" =>
               rules[runs[r].rule] # "deleted" /\ locks'[runs[r].rule] = locks[runs[r].rule])
        BY <2>1, <3>1 DEF Spares
      <3>3. RunCtxDone(v) => RunCtxDone(v)'
        BY DEF RunCtxDone
      <3> QED BY <2>1, <3>1, <3>2, <3>3 DEF Beating
    <2> QED BY <2>0, <2>2, <2>3 DEF Keeping, Young, Safe
  <1> QED BY <1>1, <1>2

\* No rule gets a second worker as long as no other worker starts executing.
LEMMA StillExclusive ==
  ASSUME StoreInv, RuleExclusive,
         \A v \in Workers : Executing(v)' => /\ Executing(v) /\ RuleOf(v)' = RuleOf(v)
  PROVE  RuleExclusive'
  BY DEF RuleExclusive

\* The other workers, when one makes a step that spares their runs.
LEMMA OthersKeep ==
  ASSUME LockInv, NEW w \in Workers, NEW q,
         SparesBut(q), \A v \in Workers : v # w /\ InHand(v) => job[v].run # q,
         \A v \in Workers : v # w => /\ pc'[v] = pc[v] /\ job'[v] = job[v]
                                     /\ beat'[v] = beat[v] /\ closed'[v] = closed[v]
  PROVE  \A v \in Workers : v # w => Keeping(v)' /\ (Executing(v)' <=> Executing(v))
                                     /\ (InHand(v) => RuleOf(v)' = RuleOf(v))
  <1> SUFFICES ASSUME NEW v \in Workers, v # w
               PROVE  Keeping(v)' /\ (Executing(v)' <=> Executing(v))
                      /\ (InHand(v) => RuleOf(v)' = RuleOf(v))
    OBVIOUS
  <1>1. \A r \in Runs : InHand(v) /\ job[v].run = r => Spares(r)
    BY Held DEF LockInv, SparesBut
  <1>2. Keeping(v)'
    BY <1>1, StillKeeping DEF LockInv
  <1>3. InHand(v) => RuleOf(v)' = RuleOf(v)
    BY <1>1, Held DEF LockInv, RuleOf, Spares
  <1> QED BY <1>2, <1>3 DEF Executing

LEMMA LeavesOthers ==
  ASSUME TypeOK, NEW w \in Workers, WorkerStep(w)
  PROVE  \A v \in Workers : v # w => /\ pc'[v] = pc[v] /\ job'[v] = job[v]
                                     /\ beat'[v] = beat[v] /\ closed'[v] = closed[v]
  <1> USE DEF TypeOK, WorkerTypeOK, Goto, Fail, Answered, NextRound
  <1>1. CASE StartRequest(w) \/ CloseRequest(w) \/ Crash(w) \/ Watchdog(w) \/ Claim(w)
    BY <1>1 DEF StartRequest, CloseRequest, Crash, Watchdog, Claim
  <1>2. CASE LoadRule(w) \/ Acquire(w) \/ Plan(w) \/ Abandon(w)
    BY <1>2 DEF LoadRule, Acquire, Plan, Abandon
  <1>3. CASE \E e \in Events : DoTask(w, e) \/ FailTask(w, e)
    BY <1>3 DEF DoTask, FailTask
  <1>4. CASE JoinTasks(w) \/ CheckLockLost(w) \/ SucceedRun(w) \/ AwaitAnswer(w)
    BY <1>4 DEF JoinTasks, CheckLockLost, SucceedRun, AwaitAnswer
  <1>5. CASE Release(w) \/ StopTicker(w) \/ HeartbeatStopped(w) \/ FailRun(w)
    BY <1>5 DEF Release, StopTicker, HeartbeatStopped, FailRun
  <1>6. CASE HeartbeatExits(w) \/ Heartbeat(w)
    BY <1>6 DEF HeartbeatExits, Heartbeat
  <1> QED BY <1>1, <1>2, <1>3, <1>4, <1>5, <1>6 DEF WorkerStep

\* What is left to show of a worker's step: that it keeps what it has itself, and
\* starts executing only where nobody else is.
LEMMA StepKeeps ==
  ASSUME LockInv, NEW w \in Workers, WorkerStep(w), Keeping(w)',
         Executing(w)' => \/ Executing(w) /\ RuleOf(w)' = RuleOf(w)
                          \/ \A v \in Workers : v # w /\ Executing(v) => RuleOf(v) # RuleOf(w)'
  PROVE  RuleExclusive' /\ \A v \in Workers : Keeping(v)'
  <1>1. PICK q : SparesBut(q) /\ \A v \in Workers : v # w /\ InHand(v) => job[v].run # q
    <2>1. ASSUME NEW v \in Workers, InHand(v)
          PROVE  job[v].run # NoRun /\ Taken(job[v].run) /\ (v # w => job[w].run # job[v].run)
      BY <2>1, Held, RunsAssumption DEF LockInv
    <2>2. ASSUME NEW q \in Runs, ClaimNextPendingRun(q) PROVE ~Taken(q)
      BY <2>2 DEF ClaimNextPendingRun, Pending, Taken
    <2> QED BY <2>1, <2>2, WorkerSpares DEF LockInv
  <1>2. \A v \in Workers : v # w => /\ pc'[v] = pc[v] /\ job'[v] = job[v]
                                    /\ beat'[v] = beat[v] /\ closed'[v] = closed[v]
    BY LeavesOthers DEF LockInv, StoreInv, IInv
  <1>3. \A v \in Workers : v # w => Keeping(v)' /\ (Executing(v)' <=> Executing(v))
                                    /\ (InHand(v) => RuleOf(v)' = RuleOf(v))
    BY <1>1, <1>2, OthersKeep
  <1>4. \A v \in Workers : Executing(v) => InHand(v)
    BY DEF Executing, InHand
  <1>5. RuleExclusive'
    <2> SUFFICES ASSUME NEW u \in Workers, NEW v \in Workers,
                        Executing(u)', Executing(v)', RuleOf(u)' = RuleOf(v)'
                 PROVE  u = v
      BY DEF RuleExclusive
    <2>1. CASE u # w /\ v # w
      BY <1>3, <1>4, <2>1 DEF LockInv, RuleExclusive
    <2>2. CASE u = w
      BY <1>3, <1>4, <2>2 DEF LockInv, RuleExclusive
    <2>3. CASE v = w
      BY <1>3, <1>4, <2>3 DEF LockInv, RuleExclusive
    <2> QED BY <2>1, <2>2, <2>3
  <1> QED BY <1>3, <1>5

\* Work that leaves the rows alone.
LEMMA OwnWork ==
  ASSUME LockInv, NEW w \in Workers, WorkerStep(w), UNCHANGED store,
         Executing(w)' => Executing(w),
         pc'[w] \in {"load", "acquire"} => pc[w] \in {"load", "acquire"},
         job'[w].run = job[w].run,
         RunCtxDone(w) => RunCtxDone(w)',
         \/ beat'[w] = beat[w]
         \/ /\ RunCtxDone(w)' /\ ~beat'[w].live
            /\ beat'[w].ticking = beat[w].ticking /\ beat'[w].phase = beat[w].phase
  PROVE  RuleExclusive' /\ \A v \in Workers : Keeping(v)'
  <1>1. RuleOf(w)' = RuleOf(w) /\ \A r : Young(r)' = Young(r) /\ Safe(r)' = Safe(r)
    BY DEF RuleOf, Young, Safe, store
  <1>2. Keeping(w)
    BY DEF LockInv
  <1>3. Executing(w)' => Beating(w)'
    BY <1>1, <1>2 DEF Keeping, Beating, store
  <1>4. Keeping(w)'
    BY <1>1, <1>2, <1>3 DEF Keeping, Young, Safe, store
  <1> QED BY <1>1, <1>4, StepKeeps

\* Steps after which the worker has no rule to look after.
LEMMA LeavesWork ==
  ASSUME LockInv, NEW w \in Workers, WorkerStep(w),
         pc'[w] \notin {"load", "acquire", "plan", "tasks", "check", "done"}
  PROVE  RuleExclusive' /\ \A v \in Workers : Keeping(v)'
  BY StepKeeps DEF Keeping, Executing

LEMMA ClaimKeeps ==
  ASSUME LockInv, NEW w \in Workers, Claim(w)
  PROVE  RuleExclusive' /\ \A v \in Workers : Keeping(v)'
  <1> USE DEF LockInv, StoreInv, IInv, TypeOK, WorkerTypeOK
  <1>1. CASE Answered(w)
    BY <1>1, LeavesWork DEF WorkerStep, Answered, Goto
  <1>2. ASSUME NEW q \in Runs, ClaimNextPendingRun(q), job' = [job EXCEPT ![w].run = q], Goto(w, "load")
        PROVE  RuleExclusive' /\ \A v \in Workers : Keeping(v)'
    <2>1. Young(q)'
      BY <1>2, ClaimSpares
    <2>2. job'[w].run = q /\ pc'[w] = "load"
      BY <1>2 DEF Goto, Job
    <2>3. Keeping(w)' /\ ~Executing(w)'
      BY <2>1, <2>2 DEF Keeping, Executing, Young
    <2> QED BY <2>3, StepKeeps DEF WorkerStep
  <1> QED BY <1>1, <1>2 DEF Claim

LEMMA AcquireKeeps ==
  ASSUME LockInv, NEW w \in Workers, Acquire(w)
  PROVE  RuleExclusive' /\ \A v \in Workers : Keeping(v)'
  <1> USE DEF LockInv, StoreInv, IInv, TypeOK, WorkerTypeOK
  <1> DEFINE r == job[w].run
             k == RuleOf(w)
  <1>1. /\ InHand(w) /\ r \in Runs /\ k = runs[r].rule /\ k \in Rules
        /\ \A v \in Workers : v # w => job[v].run # r
    BY Held DEF Acquire, InHand
  <1>2. CASE \E err : Fail(w, err, "error")
    BY <1>2, LeavesWork DEF WorkerStep, Fail, Goto
  <1>3. CASE ~\E err : Fail(w, err, "error")
    <2>1. /\ rules[k] # "deleted" /\ AcquireRuleLock(k, r) /\ Goto(w, "plan") /\ UNCHANGED <<job, closed>>
          /\ beat' = [beat EXCEPT ![w] = [NoBeat EXCEPT !.live = TRUE, !.ticking = TRUE]]
      BY <1>3 DEF Acquire, Outcomes
    <2>2. pc'[w] = "plan" /\ RuleOf(w)' = k /\ job'[w].run = r
      BY <2>1 DEF Goto, RuleOf, AcquireRuleLock
    <2>3. /\ UNCHANGED <<rules, runs>> /\ locks'[k].run = r /\ locks'[k].age = 0
      BY <1>1, <2>1 DEF AcquireRuleLock, StoreTypeOK
    <2>4. runs[r].status = "running"
      BY <1>1, <2>1 DEF Keeping, Young, Acquire
    <2>5. Safe(r)'
      BY <1>1, <2>2, <2>3, <2>4, LeaseAssumption, SMT DEF Safe
    <2>6. beat'[w].live /\ beat'[w].ticking /\ beat'[w].phase = 0 /\ ~beat'[w].due
      BY <2>1 DEF NoBeat
    <2>7. 0 < Interval /\ 0 <= 0
      BY IntervalFits, SMT
    <2>8. Beating(w)'
      BY <2>2, <2>3, <2>6, <2>7 DEF Beating
    <2>9. Keeping(w)'
      BY <2>2, <2>5, <2>8 DEF Keeping, Safe
    <2>10. ASSUME NEW v \in Workers, v # w, Executing(v), RuleOf(v) = k PROVE FALSE
      <3>1. InHand(v) /\ Safe(job[v].run)
        BY <2>10 DEF Executing, InHand, Keeping
      <3>2. locks[k].run = job[v].run /\ locks[k].age <= Lease
        BY <2>1, <2>10, <3>1, Held DEF Safe
      <3>3. ~Stale(locks[k].age)
        BY <1>1, <3>2, LeaseAssumption, SMT DEF Stale, StoreTypeOK, LockRow
      <3>4. job[v].run # NoRun /\ job[v].run # r
        BY <1>1, <2>10, <3>1, Held, RunsAssumption
      <3> QED BY <2>1, <3>2, <3>3, <3>4 DEF AcquireRuleLock, CanAcquire
    <2> QED BY <2>2, <2>9, <2>10, StepKeeps DEF WorkerStep
  <1> QED BY <1>2, <1>3

LEMMA HeartbeatKeeps ==
  ASSUME LockInv, NEW w \in Workers, Heartbeat(w)
  PROVE  RuleExclusive' /\ \A v \in Workers : Keeping(v)'
  <1> USE DEF LockInv, StoreInv, IInv, TypeOK, WorkerTypeOK
  <1> DEFINE r == job[w].run
             k == RuleOf(w)
  <1>1. job[w] \in Job /\ beat[w] \in Beat
    OBVIOUS
  <1>2. CASE RenewRuleLock(k, r) /\ beat' = [beat EXCEPT ![w].due = FALSE] /\ UNCHANGED job
    <2>1. /\ beat'[w].live = beat[w].live /\ beat'[w].ticking = beat[w].ticking
          /\ beat'[w].phase = beat[w].phase /\ beat[w].phase \in Nat
      <3>1. /\ [beat[w] EXCEPT !.due = FALSE].live = beat[w].live
            /\ [beat[w] EXCEPT !.due = FALSE].ticking = beat[w].ticking
            /\ [beat[w] EXCEPT !.due = FALSE].phase = beat[w].phase
        BY <1>1 DEF Beat
      <3>2. beat[w].phase \in 0 .. Interval
        BY <1>1 DEF Beat
      <3> QED BY <1>2, <3>1, <3>2, IntervalFits
    <2>2. /\ UNCHANGED <<pc, closed, rules, runs>> /\ RuleOf(w)' = k
      BY <1>2 DEF Heartbeat, RenewRuleLock, RuleOf
    <2>3. (Executing(w)' <=> Executing(w)) /\ (RunCtxDone(w)' <=> RunCtxDone(w))
      BY <1>2, <2>2 DEF Executing, RunCtxDone
    <2>4. k \in Rules => locks'[k].run = locks[k].run /\ locks'[k].age = 0
      <3>1. k \in Rules => /\ [locks[k] EXCEPT !.age = 0].run = locks[k].run
                           /\ [locks[k] EXCEPT !.age = 0].age = 0
        BY DEF StoreTypeOK, LockRow
      <3> QED BY <1>2, <3>1 DEF RenewRuleLock, StoreTypeOK
    <2>5. ASSUME Executing(w) PROVE Safe(r)' /\ Beating(w)'
      <3>1. r \in Runs /\ k = runs[r].rule /\ k \in Rules /\ Safe(r) /\ Beating(w)
        BY <2>5, Held DEF Executing, InHand, Keeping
      <3>2. 0 <= Lease /\ 0 <= beat[w].phase
        BY <2>1, LeaseAssumption, SMT
      <3>3. Safe(r)'
        BY <1>2, <2>2, <2>4, <3>1, <3>2 DEF Safe
      <3>4. Beating(w)'
        <4>1. beat'[w].due = FALSE
          BY <1>1, <1>2 DEF Beat
        <4> QED BY <2>1, <2>2, <2>3, <2>4, <3>1, <3>2, <4>1 DEF Beating
      <3> QED BY <3>3, <3>4
    <2>6. pc[w] \in {"load", "acquire"} => Young(r)'
      BY <1>2, <2>2 DEF Keeping, Young
    <2>7. Keeping(w)'
      BY <1>2, <2>2, <2>3, <2>5, <2>6 DEF Keeping, Safe, Young
    <2> QED BY <2>2, <2>3, <2>7, StepKeeps DEF WorkerStep
  <1>3. CASE /\ job' = [job EXCEPT ![w].lockLost = TRUE, ![w].cancelled = TRUE]
             /\ beat' = [beat EXCEPT ![w].due = FALSE, ![w].live = FALSE]
             /\ UNCHANGED store
    <2> DEFINE j == [job[w] EXCEPT !.lockLost = TRUE, !.cancelled = TRUE]
               b == [beat[w] EXCEPT !.due = FALSE, !.live = FALSE]
    <2>1. job'[w] = j /\ beat'[w] = b
      BY <1>3
    <2>2. j.cancelled /\ j.run = r
      BY <1>1 DEF Job
    <2>3. ~b.live /\ b.ticking = beat[w].ticking /\ b.phase = beat[w].phase
      BY <1>1 DEF Beat
    <2> HIDE DEF j, b
    <2>4. RunCtxDone(w)' /\ pc' = pc
      BY <2>1, <2>2 DEF RunCtxDone, Heartbeat
    <2> QED BY <1>3, <2>1, <2>2, <2>3, <2>4, OwnWork DEF WorkerStep, Executing
  <1> QED BY <1>2, <1>3 DEF Heartbeat

LEMMA WorkKeeps ==
  ASSUME LockInv, NEW w \in Workers,
         \/ CloseRequest(w) \/ LoadRule(w) \/ Plan(w)
         \/ \E e \in Events : DoTask(w, e) \/ FailTask(w, e)
         \/ JoinTasks(w) \/ CheckLockLost(w) \/ HeartbeatExits(w)
  PROVE  RuleExclusive' /\ \A v \in Workers : Keeping(v)'
  <1> USE DEF LockInv, StoreInv, IInv, TypeOK, WorkerTypeOK
  <1>1. job[w] \in Job /\ beat[w] \in Beat /\ UNCHANGED store /\ WorkerStep(w)
    BY DEF WorkerStep, CloseRequest, LoadRule, Plan, DoTask, FailTask, JoinTasks, CheckLockLost,
       HeartbeatExits
  <1>2. job'[w].run = job[w].run /\ (RunCtxDone(w) => RunCtxDone(w)')
    <2>1. \A c : /\ [job[w] EXCEPT !.err = c].run = job[w].run
                 /\ [job[w] EXCEPT !.err = c].cancelled = job[w].cancelled
                 /\ [job[w] EXCEPT !.todo = c].run = job[w].run
                 /\ [job[w] EXCEPT !.todo = c].cancelled = job[w].cancelled
      BY <1>1 DEF Job
    <2>2. \A c, m : /\ [job[w] EXCEPT !.todo = c, !.missed = m].run = job[w].run
                    /\ [job[w] EXCEPT !.todo = c, !.missed = m].cancelled = job[w].cancelled
      BY <1>1 DEF Job
    <2>3. \A c, m, x : /\ [job[w] EXCEPT !.todo = c, !.missed = m, !.err = x].run = job[w].run
                       /\ [job[w] EXCEPT !.todo = c, !.missed = m, !.err = x].cancelled
                            = job[w].cancelled
      BY <1>1 DEF Job
    <2>a. ASSUME NEW row, job' = [job EXCEPT ![w] = row], UNCHANGED closed,
                 row.run = job[w].run, row.cancelled = job[w].cancelled
          PROVE  job'[w].run = job[w].run /\ (RunCtxDone(w) => RunCtxDone(w)')
      BY <2>a DEF RunCtxDone
    <2>4. CASE CloseRequest(w) \/ HeartbeatExits(w)
      BY <2>4 DEF CloseRequest, HeartbeatExits, RunCtxDone
    <2>b. ASSUME NEW c, NEW label, Fail(w, c, label), UNCHANGED closed
          PROVE  job'[w].run = job[w].run /\ (RunCtxDone(w) => RunCtxDone(w)')
      BY <2>1, <2>a, <2>b DEF Fail
    <2>5. CASE LoadRule(w) \/ CheckLockLost(w)
      BY <2>5, <2>b DEF LoadRule, CheckLockLost, RunCtxDone
    <2>6. CASE Plan(w)
      <3>1. \/ \E c : job' = [job EXCEPT ![w] = [job[w] EXCEPT !.todo = c]]
            \/ \E c : Fail(w, c, "release")
            \/ UNCHANGED job
        BY <2>6 DEF Plan
      <3> QED BY <2>1, <2>6, <2>a, <2>b, <3>1 DEF Plan, RunCtxDone
    <2>7. ASSUME NEW e \in Events, DoTask(w, e)
          PROVE  job'[w].run = job[w].run /\ (RunCtxDone(w) => RunCtxDone(w)')
      <3>1. job' = [job EXCEPT ![w] = [job[w] EXCEPT !.todo = job[w].todo \ {e}]]
        BY <2>7 DEF DoTask
      <3> QED BY <2>1, <2>7, <2>a, <3>1 DEF DoTask
    <2>c. ASSUME NEW e \in Events, FailTask(w, e)
          PROVE  job'[w].run = job[w].run /\ (RunCtxDone(w) => RunCtxDone(w)')
      <3>1. PICK err : job' = [job EXCEPT ![w].todo = @ \ {e}, ![w].missed = TRUE, ![w].err = err]
        BY <2>c DEF FailTask
      <3> DEFINE row == [job[w] EXCEPT !.todo = job[w].todo \ {e}, !.missed = TRUE, !.err = err]
      <3>2. job' = [job EXCEPT ![w] = row]
        BY <3>1
      <3>3. row.run = job[w].run /\ row.cancelled = job[w].cancelled
        BY <2>3
      <3>4. UNCHANGED closed
        BY <2>c DEF FailTask
      <3> HIDE DEF row
      <3> QED BY <2>a, <3>2, <3>3, <3>4
    <2>8. CASE JoinTasks(w)
      BY <2>2, <2>8 DEF JoinTasks, RunCtxDone
    <2> QED BY <2>4, <2>5, <2>6, <2>7, <2>c, <2>8
  <1>3. \/ pc'[w] = pc[w]
        \/ pc'[w] \in {"release", "error", "listen"}
        \/ pc[w] = "load" /\ pc'[w] = "acquire"
        \/ Executing(w)
    BY DEF CloseRequest, LoadRule, Plan, DoTask, FailTask, JoinTasks, CheckLockLost,
       HeartbeatExits, Goto, Fail, Executing
  <1>4. pc'[w] \in {"load", "acquire"} => pc[w] \in {"load", "acquire"}
    BY DEF CloseRequest, LoadRule, Plan, DoTask, FailTask, JoinTasks, CheckLockLost,
       HeartbeatExits, Goto, Fail
  <1>5. \/ beat'[w] = beat[w]
        \/ /\ RunCtxDone(w)' /\ ~beat'[w].live
           /\ beat'[w].ticking = beat[w].ticking /\ beat'[w].phase = beat[w].phase
    <2>1. CASE HeartbeatExits(w)
      <3>1. /\ ~[beat[w] EXCEPT !.live = FALSE].live
            /\ [beat[w] EXCEPT !.live = FALSE].ticking = beat[w].ticking
            /\ [beat[w] EXCEPT !.live = FALSE].phase = beat[w].phase
        BY <1>1 DEF Beat
      <3> QED BY <1>2, <2>1, <3>1 DEF HeartbeatExits
    <2>2. CASE ~HeartbeatExits(w)
      BY <2>2 DEF CloseRequest, LoadRule, Plan, DoTask, FailTask, JoinTasks, CheckLockLost
    <2> QED BY <2>1, <2>2
  <1>6. Executing(w)' => Executing(w)
    BY <1>3 DEF Executing
  <1> QED BY <1>1, <1>2, <1>4, <1>5, <1>6, OwnWork

LEMMA WorkerKeeps ==
  ASSUME LockInv, NEW w \in Workers, WorkerStep(w)
  PROVE  RuleExclusive' /\ \A v \in Workers : Keeping(v)'
  <1>1. CASE \/ StartRequest(w) \/ Crash(w) \/ Abandon(w)
             \/ Watchdog(w) \/ SucceedRun(w) \/ AwaitAnswer(w) \/ Release(w) \/ StopTicker(w) \/ HeartbeatStopped(w) \/ FailRun(w)
    <2>1. pc'[w] \notin {"load", "acquire", "plan", "tasks", "check", "done"}
      BY <1>1 DEF LockInv, StoreInv, IInv, TypeOK, WorkerTypeOK, StartRequest, Crash, Abandon,
         Watchdog, SucceedRun, AwaitAnswer, Release, StopTicker, HeartbeatStopped, FailRun, Goto, Fail,
         Answered, NextRound
    <2> QED BY <2>1, LeavesWork
  <1> QED BY <1>1, ClaimKeeps, AcquireKeeps, HeartbeatKeeps, WorkKeeps DEF WorkerStep

LEMMA ApiKeeps ==
  ASSUME LockInv, SparesBut(NoRun), UNCHANGED workers
  PROVE  RuleExclusive' /\ \A v \in Workers : Keeping(v)'
  <1>1. ASSUME NEW v \in Workers, InHand(v)
        PROVE  (\A r \in Runs : job[v].run = r => Spares(r)) /\ RuleOf(v)' = RuleOf(v)
    <2>1. job[v].run \in Runs /\ Taken(job[v].run) /\ job[v].run # NoRun
      BY <1>1, Held, RunsAssumption DEF LockInv
    <2>2. \A r \in Runs : job[v].run = r => Spares(r)
      BY <2>1 DEF SparesBut
    <2> QED BY <2>1, <2>2 DEF Spares, RuleOf, workers
  <1>2. \A v \in Workers : Keeping(v)'
    BY <1>1, StillKeeping DEF LockInv, workers
  <1>3. \A v \in Workers : (Executing(v)' => Executing(v)) /\ (Executing(v) => InHand(v))
    BY DEF Executing, InHand, workers
  <1> QED BY <1>1, <1>2, <1>3, StillExclusive DEF LockInv

\* The clock: what a heartbeat owes is paid before the next tick, so a lock is
\* never older than the ticker's phase, and that is shorter than the lease.
LEMMA TickKeeps ==
  ASSUME LockInv, Punctual, MinBeat <= Lease, Tick
  PROVE  RuleExclusive' /\ \A v \in Workers : Keeping(v)'
  <1> USE DEF LockInv, StoreInv, IInv, TypeOK
  <1>1. UNCHANGED <<pc, closed, job, rules>>
    BY DEF Tick, ClockTicks
  <1>2. /\ \A r \in Runs : /\ runs'[r].status = runs[r].status /\ runs'[r].rule = runs[r].rule
                           /\ runs'[r].started <= runs[r].started + 1
        /\ \A k \in Rules : locks'[k].run = locks[k].run /\ locks'[k].age <= locks[k].age + 1
    BY ClockAges DEF Tick
  <1>3. StoreTypeOK'
    BY ClockStep DEF Tick, StoreStep
  <1>4. ASSUME NEW v \in Workers, InHand(v)
        PROVE  /\ job[v].run \in Runs /\ RuleOf(v) \in Rules /\ RuleOf(v) = runs[job[v].run].rule
               /\ RuleOf(v)' = RuleOf(v)
    BY <1>1, <1>2, <1>4, Held DEF RuleOf
  <1>5. ASSUME NEW v \in Workers, pc'[v] \in {"load", "acquire"} PROVE Young(job[v].run)'
    <2> DEFINE r == job[v].run
    <2>1. InHand(v) /\ Young(r) /\ r \in Runs
      BY <1>1, <1>4, <1>5 DEF InHand, Keeping
    <2>2. runs[r].started < Lease
      BY <1>1, <1>5 DEF Tick, OnTime
    <2>3. runs'[r].started <= Lease
      BY <1>2, <1>3, <2>1, <2>2, LeaseAssumption, SMT DEF StoreTypeOK, RunRow
    <2> QED BY <1>1, <1>2, <2>1, <2>3 DEF Young
  <1>6. ASSUME NEW v \in Workers, Executing(v)' PROVE Safe(job[v].run)' /\ Beating(v)'
    <2> DEFINE r == job[v].run
               k == RuleOf(v)
               age == locks[k].age
               ph == beat[v].phase
    <2>1. /\ Executing(v) /\ Safe(r) /\ Beating(v) /\ r \in Runs /\ k \in Rules /\ k = runs[r].rule
          /\ RuleOf(v)' = k /\ (RunCtxDone(v)' <=> RunCtxDone(v))
      BY <1>1, <1>4, <1>6 DEF Executing, InHand, Keeping, RunCtxDone
    <2>2. /\ ~(beat[v].live /\ beat[v].due)
          /\ RunCtxDone(v) => age < Lease
      BY <2>1 DEF Tick, OnTime
    <2>3. age \in Nat /\ locks'[k].age \in Nat /\ locks'[k].age <= age + 1 /\ locks'[k].run = locks[k].run
      BY <1>2, <1>3, <2>1 DEF StoreTypeOK, LockRow
    <2>4. beat[v] \in Beat /\ ph \in Nat /\ ph < Interval
      BY <2>1, IntervalFits, SMT DEF WorkerTypeOK, Beat, Beating
    <2>5. rules[k] # "deleted" => locks'[k].age <= Lease
      <3>1. CASE RunCtxDone(v)
        BY <2>2, <2>3, <3>1, LeaseAssumption, SMT
      <3>2. CASE ~RunCtxDone(v) /\ rules[k] # "deleted"
        <4>1. age <= ph
          BY <2>1, <2>2, <3>2 DEF Beating
        <4> QED BY <2>3, <2>4, <4>1, IntervalFits, LeaseAssumption, SMT
      <3> QED BY <3>1, <3>2
    <2>6. Safe(r)'
      BY <1>1, <1>2, <2>1, <2>3, <2>5 DEF Safe
    <2>7. CASE ph + 1 < Interval
      <3>1. beat'[v] = [beat[v] EXCEPT !.phase = ph + 1]
        BY <2>1, <2>7 DEF Tick, TickersTick, Beating
      <3>2. /\ beat'[v].phase = ph + 1 /\ beat'[v].ticking /\ beat'[v].live = beat[v].live
            /\ beat'[v].due = beat[v].due
        BY <2>1, <2>4, <3>1 DEF Beat, Beating
      <3>3. age <= ph => locks'[k].age <= ph + 1
        BY <2>3, <2>4, SMT
      <3> QED BY <1>1, <2>1, <2>2, <2>6, <2>7, <3>2, <3>3 DEF Beating
    <2>8. CASE ~(ph + 1 < Interval)
      <3>1. beat'[v] = [beat[v] EXCEPT !.phase = 0, !.due = TRUE]
        BY <2>1, <2>8 DEF Tick, TickersTick, Beating
      <3>2. /\ beat'[v].phase = 0 /\ beat'[v].ticking /\ beat'[v].live = beat[v].live
            /\ beat'[v].due
        BY <2>1, <2>4, <3>1 DEF Beat, Beating
      <3>3. 0 < Interval
        BY IntervalFits, SMT
      <3> QED BY <1>1, <2>1, <2>6, <3>2, <3>3 DEF Beating
    <2> QED BY <2>7, <2>8
  <1>7. \A v \in Workers : Keeping(v)'
    BY <1>1, <1>5, <1>6 DEF Keeping, Young, Safe
  <1>8. \A v \in Workers : Executing(v)' => Executing(v) /\ RuleOf(v)' = RuleOf(v)
    BY <1>1, <1>4 DEF Executing, InHand
  <1> QED BY <1>7, <1>8, StillExclusive

\* Every step keeps the locks with the workers that execute, if all are on time.
THEOREM NextLockInv ==
  ASSUME Punctual, MinBeat <= Lease
  PROVE  LockInv /\ [Next]_vars => LockInv'
  <1> SUFFICES ASSUME LockInv, [Next]_vars
               PROVE  RuleExclusive' /\ \A v \in Workers : Keeping(v)'
    BY NextStoreInv DEF LockInv
  <1>1. ASSUME UNCHANGED vars PROVE RuleExclusive' /\ \A v \in Workers : Keeping(v)'
    BY <1>1, ApiKeeps, SameStoreSpares DEF vars, LockInv, StoreInv
  <1> QED BY <1>1, NextCases, WorkerKeeps, ApiSpares, ApiKeeps, TickKeeps DEF LockInv

-----------------------------------------------------------------------------

\* With workers on time no two requests ever work on the calendars of one rule.
THEOREM OneWorkerPerRule ==
  ASSUME Punctual, MinBeat <= Lease
  PROVE  Spec => []RuleExclusive
  <1>1. Init => LockInv
    BY InitLockInv
  <1>2. LockInv /\ [Next]_vars => LockInv'
    BY NextLockInv
  <1>3. LockInv => RuleExclusive
    BY DEF LockInv
  <1> QED BY <1>1, <1>2, <1>3, PTL DEF Spec

\* With workers on time a run at work is running and has a fresh lock on its
\* rule, unless the rule was deleted.
THEOREM LockHeld ==
  ASSUME Punctual, MinBeat <= Lease
  PROVE  Spec => []LockHeldWhileExecuting
  <1>1. Init => LockInv
    BY InitLockInv
  <1>2. LockInv /\ [Next]_vars => LockInv'
    BY NextLockInv
  <1>3. LockInv => LockHeldWhileExecuting
    <2> SUFFICES ASSUME LockInv, NEW w \in Workers, Executing(w), rules[RuleOf(w)] # "deleted"
                 PROVE  /\ HoldsLock(RuleOf(w), job[w].run)
                        /\ ~Stale(locks[RuleOf(w)].age)
                        /\ runs[job[w].run].status = "running"
      BY DEF LockHeldWhileExecuting
    <2>1. RuleOf(w) = runs[job[w].run].rule /\ RuleOf(w) \in Rules
      BY Held DEF Executing, InHand, LockInv
    <2>2. /\ runs[job[w].run].status = "running" /\ locks[RuleOf(w)].run = job[w].run
          /\ locks[RuleOf(w)].age <= Lease
      BY <2>1 DEF LockInv, Keeping, Safe
    <2>3. ~Stale(locks[RuleOf(w)].age)
      BY <2>1, <2>2, LeaseAssumption, SMT DEF LockInv, StoreInv, IInv, TypeOK, Stale, StoreTypeOK, LockRow
    <2> QED BY <2>2, <2>3 DEF HoldsLock
  <1> QED BY <1>1, <1>2, <1>3, PTL DEF Spec

\* With workers on time the watchdog neither fails a run that a worker executes
\* nor takes its lock.
THEOREM LiveSpared ==
  ASSUME Punctual, MinBeat <= Lease
  PROVE  Spec => WatchdogSparesLive
  <1> DEFINE Spared == \A w \in Workers :
               FailStaleRuns /\ Executing(w) /\ rules[RuleOf(w)] # "deleted" =>
                 /\ runs'[job[w].run].status = "running"
                 /\ locks'[RuleOf(w)] = locks[RuleOf(w)]
  <1>1. Init => LockInv
    BY InitLockInv
  <1>2. LockInv /\ [Next]_vars => LockInv'
    BY NextLockInv
  <1>3. LockInv /\ [Next]_vars => [Spared]_vars
    <2> SUFFICES ASSUME LockInv, NEW w \in Workers,
                        FailStaleRuns, Executing(w), rules[RuleOf(w)] # "deleted"
                 PROVE  /\ runs'[job[w].run].status = "running"
                        /\ locks'[RuleOf(w)] = locks[RuleOf(w)]
      OBVIOUS
    <2>1. PICK r \in Runs : /\ r = job[w].run /\ Taken(r) /\ r # NoRun
                            /\ RuleOf(w) = runs[r].rule
      BY Held, RunsAssumption DEF Executing, InHand, LockInv
    <2>2. Spares(r)
      BY <2>1, WatchdogSpares DEF LockInv, StoreInv, IInv, TypeOK, SparesBut
    <2>3. rules' = rules /\ Safe(r)
      BY <2>1 DEF FailStaleRuns, LockInv, Keeping
    <2>4. Safe(r)' /\ locks'[runs[r].rule] = locks[runs[r].rule] /\ runs'[r].rule = runs[r].rule
      BY <2>1, <2>2, <2>3 DEF Spares
    <2> QED BY <2>1, <2>3, <2>4 DEF Safe
  <1> HIDE DEF Spared
  <1>4. Spec => [][Spared]_vars
    BY <1>1, <1>2, <1>3, PTL DEF Spec
  <1> QED BY <1>4 DEF WatchdogSparesLive, Spared

\* Recording a result is a change of one row.
LEMMA FinishOthers ==
  ASSUME StoreTypeOK, NEW q, NEW status, NEW error, Finish(q, status, error),
         NEW r \in Runs, r # q
  PROVE  runs'[r] = runs[r]
  <1> DEFINE e == IF status = "failed" THEN error ELSE runs[q].error
             row == [runs[q] EXCEPT !.status = status, !.started = 0, !.error = e]
  <1>1. runs' = runs \/ runs' = [runs EXCEPT ![q] = row]
    BY DEF Finish
  <1> HIDE DEF row
  <1> QED BY <1>1 DEF StoreTypeOK

\* With workers on time a failed run stays failed: the only statement that would
\* overwrite the status comes from a worker whose run is still running.
THEOREM FailedForGood ==
  ASSUME Punctual, MinBeat <= Lease
  PROVE  Spec => FailedStaysFailed
  <1> DEFINE Stays == \A r \in Runs : runs[r].status = "failed" => runs'[r].status \in {"failed", "deleted"}
  <1>1. Init => LockInv
    BY InitLockInv
  <1>2. LockInv /\ [Next]_vars => LockInv'
    BY NextLockInv
  <1>3. LockInv /\ [Next]_vars => [Stays]_vars
    <2> SUFFICES ASSUME LockInv, [Next]_vars, NEW r \in Runs, runs[r].status = "failed"
                 PROVE  runs'[r].status \in {"failed", "deleted"}
      OBVIOUS
    <2> USE DEF LockInv, StoreInv, IInv, TypeOK
    <2>1. runs[r] \in RunRow /\ rules[runs[r].rule] # "deleted"
      BY DEF StoreTypeOK, RowsFit
    <2>2. ASSUME NEW q \in Runs, NEW k, NEW t, IsNextId(q), InsertRun(q, k, t)
          PROVE  runs'[r].status = "failed"
      BY <2>2 DEF IsNextId, InsertRun
    <2>3. ASSUME NEW w \in Workers, WorkerStep(w)
          PROVE  runs'[r].status = "failed"
      <3>1. CASE Watchdog(w)
        <4>1. FailStaleRuns => runs'[r] = runs[r]
          BY DEF FailStaleRuns, Recovered, StaleRuns
        <4> QED BY <3>1, <4>1 DEF Watchdog, store
      <3>2. CASE Claim(w)
        <4>1. ASSUME NEW q \in Runs, ClaimNextPendingRun(q) PROVE runs'[r] = runs[r]
          BY <4>1 DEF ClaimNextPendingRun, Pending
        <4> QED BY <3>2, <4>1 DEF Claim, store
      <3>3. CASE SucceedRun(w)
        <4>1. /\ job[w].run \in Runs /\ RuleOf(w) = runs[job[w].run].rule /\ Safe(job[w].run)
          BY <3>3, Held DEF SucceedRun, Executing, InHand, Keeping
        <4>2. job[w].run # r
          BY <2>1, <4>1 DEF Safe
        <4>3. MarkRunDone(job[w].run) \/ UNCHANGED store
          BY <3>3 DEF SucceedRun
        <4> QED BY <4>2, <4>3, FinishOthers DEF MarkRunDone, store
      <3>4. CASE FailRun(w)
        <4>1. ASSUME MarkRunError(job[w].run, job[w].err) PROVE runs'[r].status = "failed"
          <5> DEFINE row == [runs[r] EXCEPT !.status = "failed", !.started = 0, !.error = job[w].err]
          <5>1. row.status = "failed"
            BY <2>1 DEF RunRow
          <5>2. job[w].run = r => runs' = [runs EXCEPT ![r] = row]
            BY <4>1 DEF MarkRunError, Finish
          <5> HIDE DEF row
          <5>3. job[w].run = r => runs'[r] = row
            BY <5>2 DEF StoreTypeOK
          <5> QED BY <4>1, <5>1, <5>3, FinishOthers DEF MarkRunError
        <4> QED BY <3>4, <4>1 DEF FailRun, store
      <3>5. CASE Acquire(w) \/ Release(w) \/ Heartbeat(w)
        BY <3>5 DEF Acquire, Release, Heartbeat, AcquireRuleLock, ReleaseRuleLock, RenewRuleLock, store
      <3>6. CASE ~(\/ Watchdog(w) \/ Claim(w) \/ FailRun(w) \/ SucceedRun(w)
                   \/ Acquire(w) \/ Release(w) \/ Heartbeat(w))
        BY <2>3, <3>6 DEF WorkerStep, StartRequest, CloseRequest, Crash, Abandon, LoadRule, Plan, DoTask,
           FailTask, JoinTasks, CheckLockLost, AwaitAnswer, StopTicker, HeartbeatStopped,
           HeartbeatExits, store
      <3> QED BY <3>1, <3>2, <3>3, <3>4, <3>5, <3>6
    <2>4. ASSUME NEW k \in Rules, RemoveRule(k) PROVE runs'[r].status \in {"failed", "deleted"}
      <3>1. [runs[r] EXCEPT !.status = "deleted", !.started = 0].status = "deleted"
        BY <2>1 DEF RunRow
      <3> QED BY <2>4, <3>1 DEF RemoveRule, DeleteRule
    <2>5. ASSUME ApiStep, \A k \in Rules : ~RemoveRule(k) PROVE runs'[r].status = "failed"
      BY <2>2, <2>5 DEF ApiStep, ManualRun, Cleanup, PatchRule, DispatchQuery, DispatchCheck,
         DispatchCreate, CreateRun, CreateCleanupRun, UpdateRule, store
    <2>6. Tick => runs'[r].status = "failed"
      BY ClockAges DEF Tick
    <2>7. UNCHANGED vars => runs'[r].status = "failed"
      BY DEF vars, store
    <2> QED BY <2>3, <2>4, <2>5, <2>6, <2>7, NextCases
  <1> HIDE DEF Stays
  <1>4. Spec => [][Stays]_vars
    BY <1>1, <1>2, <1>3, PTL DEF Spec
  <1> QED BY <1>4 DEF FailedStaysFailed, Stays
=============================================================================
