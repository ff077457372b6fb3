--------------------------- MODULE Parallel_proofs ---------------------------
(* Theorems about the task pool, for every number of tasks and goroutines. *)
EXTENDS Parallel, TLAPS

USE NumTasksAssumption DEF Tasks

\* What a goroutine holds, and where it is.
Hands ==
    \A w \in Workers :
      /\ holds[w] = 0 <=> at[w] \in {"receive", "gone"}
      /\ at[w] = "run" => state[holds[w]] = "running"
      /\ at[w] = "report" => state[holds[w]] = "failed"

\* The tasks are handed out or dropped in their order.
InOrder ==
    /\ \A t \in Tasks : state[t] = "new" <=> t >= next
    /\ main # "dispatch" => next = NumTasks + 1

\* Only a context that is done loses anything.
LostOnlyIfDone == \A t \in Tasks : state[t] \in {"lost", "dropped"} => ctxDone

AllGone == main = "returned" => \A w \in Workers : at[w] = "gone"

IInv == TypeOK /\ OneWorkerPerTask /\ Hands /\ InOrder /\ LostOnlyIfDone /\ AllGone

\* At the start no task is handed out.
THEOREM InitIInv == Init => IInv
  <1> SUFFICES ASSUME Init PROVE IInv
    OBVIOUS
  <1> USE DEF Init
  <1>1. TypeOK
    BY DEF TypeOK, TaskStates
  <1>2. OneWorkerPerTask
    BY DEF OneWorkerPerTask
  <1>3. Hands /\ LostOnlyIfDone /\ AllGone
    BY DEF Hands, LostOnlyIfDone, AllGone
  <1>4. InOrder
    BY DEF InOrder
  <1> QED BY <1>1, <1>2, <1>3, <1>4 DEF IInv

LEMMA HandOutStep ==
  ASSUME IInv, NEW w \in Workers, HandOut(w) PROVE IInv'
  <1> USE DEF IInv, TypeOK, HandOut, TaskStates
  <1>1. TypeOK'
    OBVIOUS
  <1>2. OneWorkerPerTask' /\ Hands'
    BY DEF OneWorkerPerTask, Hands, InOrder
  <1>3. InOrder' /\ LostOnlyIfDone' /\ AllGone'
    BY DEF InOrder, LostOnlyIfDone, AllGone
  <1> QED BY <1>1, <1>2, <1>3

LEMMA CallerStep ==
  ASSUME IInv, DropTask \/ CloseTasks \/ Return \/ Cancel PROVE IInv'
  <1> USE DEF IInv, TypeOK, DropTask, CloseTasks, Return, Cancel, TaskStates
  <1>1. TypeOK'
    <2>1. CASE DropTask
      BY <2>1
    <2>2. CASE CloseTasks
      BY <2>2
    <2>3. CASE Return
      BY <2>3
    <2>4. CASE Cancel
      BY <2>4
    <2> QED BY <2>1, <2>2, <2>3, <2>4
  <1>2. OneWorkerPerTask' /\ Hands'
    BY DEF OneWorkerPerTask, Hands, InOrder
  <1>3. InOrder' /\ LostOnlyIfDone' /\ AllGone'
    BY DEF InOrder, LostOnlyIfDone, AllGone
  <1> QED BY <1>1, <1>2, <1>3

\* What a goroutine does with the task it holds: it goes on holding it or lets
\* it go, and the task's state changes accordingly.
LEMMA HolderStep ==
  ASSUME IInv, NEW w \in Workers, at[w] \in {"run", "report"},
         NEW s \in TaskStates \ {"new"}, NEW a \in {"receive", "report", "gone"},
         s = "failed" <=> a = "report", s # "running",
         s \in {"lost", "dropped"} => ctxDone,
         state' = [state EXCEPT ![holds[w]] = s],
         at' = [at EXCEPT ![w] = a],
         holds' = IF a = "report" THEN holds ELSE [holds EXCEPT ![w] = 0],
         UNCHANGED <<main, next, ctxDone>>
  PROVE  IInv'
  <1> USE DEF IInv, TypeOK
  <1>1. holds[w] \in Tasks /\ state[holds[w]] # "new"
    BY DEF Hands
  <1>2. TypeOK'
    BY <1>1 DEF TaskStates
  <1>3. \A v \in Workers : v # w => holds[v] # holds[w]
    BY <1>1 DEF OneWorkerPerTask
  <1>4. OneWorkerPerTask'
    BY <1>1, <1>3 DEF OneWorkerPerTask, TaskStates
  <1>5. Hands'
    BY <1>1, <1>3 DEF Hands
  <1>6. InOrder' /\ LostOnlyIfDone' /\ AllGone'
    BY <1>1 DEF InOrder, LostOnlyIfDone, AllGone
  <1> QED BY <1>2, <1>4, <1>5, <1>6

LEMMA RunStep ==
  ASSUME IInv, NEW w \in Workers, RunTask(w) PROVE IInv'
  <1>1. at[w] = "run" /\ UNCHANGED <<main, next, ctxDone>>
    BY DEF RunTask
  <1>2. CASE /\ state' = [state EXCEPT ![holds[w]] = "ok"]
             /\ at' = [at EXCEPT ![w] = "receive"]
             /\ holds' = [holds EXCEPT ![w] = 0]
    BY <1>1, <1>2, HolderStep DEF TaskStates
  <1>3. CASE /\ state' = [state EXCEPT ![holds[w]] = "failed"]
             /\ at' = [at EXCEPT ![w] = "report"]
             /\ UNCHANGED holds
    BY <1>1, <1>3, HolderStep DEF TaskStates
  <1> QED BY <1>2, <1>3 DEF RunTask

LEMMA ReportStep ==
  ASSUME IInv, NEW w \in Workers, SendError(w) \/ LoseError(w) PROVE IInv'
  <1>1. CASE SendError(w)
    BY <1>1, HolderStep DEF SendError, TaskStates
  <1>2. CASE LoseError(w)
    BY <1>2, HolderStep DEF LoseError, TaskStates
  <1> QED BY <1>1, <1>2

LEMMA LeaveStep ==
  ASSUME IInv, NEW w \in Workers, Leave(w) PROVE IInv'
  BY DEF IInv, TypeOK, Leave, OneWorkerPerTask, Hands, InOrder, LostOnlyIfDone, AllGone

\* Every step of the caller and of the goroutines keeps the invariant.
THEOREM NextIInv == IInv /\ [Next]_vars => IInv'
  <1> SUFFICES ASSUME IInv, [Next]_vars PROVE IInv'
    OBVIOUS
  <1>1. CASE UNCHANGED vars
    BY <1>1 DEF vars, IInv, TypeOK, OneWorkerPerTask, Hands, InOrder, LostOnlyIfDone, AllGone
  <1> QED BY <1>1, HandOutStep, CallerStep, RunStep, ReportStep, LeaveStep DEF Next, Code

LEMMA CompleteFromIInv == IInv => ResultComplete
  <1> SUFFICES ASSUME IInv, main = "returned", NEW t \in Tasks
               PROVE  state[t] \in {"ok", "collected"} \cup
                                   (IF ctxDone THEN {"lost", "dropped"} ELSE {})
    BY DEF ResultComplete
  <1>1. state[t] # "new"
    BY DEF IInv, InOrder
  <1>2. state[t] \notin {"running", "failed"}
    <2>1. \A w \in Workers : holds[w] = 0
      BY DEF IInv, AllGone, Hands
    <2> QED BY <2>1 DEF IInv, OneWorkerPerTask
  <1>3. state[t] \in TaskStates
    BY DEF IInv, TypeOK
  <1> QED BY <1>1, <1>2, <1>3 DEF TaskStates, IInv, LostOnlyIfDone

LEMMA Invariant == Spec => []IInv
  BY InitIInv, NextIInv, PTL DEF Spec

\* A goroutine never indexes a task there is not, and the channel is closed once.
THEOREM TypeCorrect == Spec => []TypeOK
  <1>1. IInv => TypeOK
    BY DEF IInv
  <1> QED BY <1>1, Invariant, PTL

\* No task is ever executed by two goroutines, and none is forgotten.
THEOREM Exclusive == Spec => []OneWorkerPerTask
  <1>1. IInv => OneWorkerPerTask
    BY DEF IInv
  <1> QED BY <1>1, Invariant, PTL

\* A pool that returns nil without its context being done executed every task.
THEOREM Complete == Spec => []ResultComplete
  BY Invariant, CompleteFromIInv, PTL

-----------------------------------------------------------------------------
(* The pool implements TaskPool. *)

Todo == {t \in Tasks : state[t] \in {"new", "running", "failed", "dropped"}}
Errs == {t \in Tasks : state[t] = "collected"}
Lost == {t \in Tasks : state[t] = "lost"}

LEMMA PoolInit == Init => Pool!Init
  BY DEF Init, Pool!Init

LEMMA PoolStep ==
  ASSUME IInv, [Next]_vars PROVE [Pool!Next]_(Pool!vars)
  <1> USE DEF IInv, TypeOK, TaskStates, Pool!vars
  <1>1. ASSUME NEW w \in Workers, HandOut(w) PROVE UNCHANGED Pool!vars
    BY <1>1 DEF HandOut, InOrder
  <1>2. CASE DropTask \/ CloseTasks
    BY <1>2 DEF DropTask, CloseTasks, InOrder
  <1>3. ASSUME NEW w \in Workers, Leave(w) PROVE UNCHANGED Pool!vars
    BY <1>3 DEF Leave
  <1>4. ASSUME NEW w \in Workers, RunTask(w) PROVE Pool!Next \/ UNCHANGED Pool!vars
    <2>1. holds[w] \in Tasks /\ state[holds[w]] = "running" /\ main # "returned"
      BY <1>4 DEF RunTask, Hands, AllGone
    <2>2. CASE state' = [state EXCEPT ![holds[w]] = "ok"]
      <3>1. \E t \in Tasks : Pool!Succeed(t)
        BY <1>4, <2>1, <2>2 DEF RunTask, Pool!Succeed
      <3> QED BY <3>1 DEF Pool!Next
    <2>3. CASE state' = [state EXCEPT ![holds[w]] = "failed"]
      BY <1>4, <2>1, <2>3 DEF RunTask
    <2> QED BY <1>4, <2>2, <2>3 DEF RunTask
  <1>5. ASSUME NEW w \in Workers, SendError(w) PROVE Pool!Next
    <2>1. holds[w] \in Tasks /\ state[holds[w]] = "failed" /\ main # "returned"
      BY <1>5 DEF SendError, Hands, AllGone
    <2>2. \E t \in Tasks : Pool!Fail(t)
      BY <1>5, <2>1 DEF SendError, Pool!Fail
    <2> QED BY <2>2 DEF Pool!Next
  <1>6. ASSUME NEW w \in Workers, LoseError(w) PROVE Pool!Next
    <2>1. holds[w] \in Tasks /\ state[holds[w]] = "failed" /\ main # "returned"
      BY <1>6 DEF LoseError, Hands, AllGone
    <2>2. \E t \in Tasks : Pool!Lose(t)
      BY <1>6, <2>1 DEF LoseError, Pool!Lose
    <2> QED BY <2>2 DEF Pool!Next
  <1>7. CASE Return
    <2>1. ResultComplete'
      <3>1. IInv'
        BY <1>7, CallerStep
      <3> QED BY <3>1, CompleteFromIInv, PTL
    <2>2. ~ctxDone => \A t \in Tasks : state[t] \in {"ok", "collected"}
      BY <1>7, <2>1 DEF Return, ResultComplete
    <2>3. Pool!End
      BY <1>7, <2>2 DEF Return, Pool!End
    <2> QED BY <2>3 DEF Pool!Next
  <1>8. CASE Cancel
    BY <1>8 DEF Cancel, Pool!Cancel, Pool!Next
  <1>9. CASE UNCHANGED vars
    BY <1>9 DEF vars
  <1> QED BY <1>1, <1>2, <1>3, <1>4, <1>5, <1>6, <1>7, <1>8, <1>9 DEF Next, Code

\* The pool of goroutines does what TaskPool says.
THEOREM Implements == Spec => PoolSpec
  BY PoolInit, PoolStep, Invariant, PTL DEF Spec, PoolSpec, Pool!Spec
=============================================================================
