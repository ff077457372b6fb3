------------------------------ MODULE Parallel ------------------------------
(***************************************************************************)
(* The pool of goroutines that executes the tasks of a run                 *)
(* (internal/sync/workers.go): the caller hands the tasks out over an      *)
(* unbuffered channel and closes it; workers execute them and send errors  *)
(* over another channel to a collector, which is always ready to receive.  *)
(* A select with two ready cases takes either of them.                     *)
(***************************************************************************)
EXTENDS Naturals

CONSTANTS
    NumTasks,   \* len(tasks)
    Workers     \* the goroutines; workerCount of them

ASSUME NumTasksAssumption == NumTasks \in Nat

Tasks == 1 .. NumTasks

VARIABLES
    main,      \* the caller: "dispatch", "join" (taskCh closed) or "returned"
    next,      \* the task to hand out next
    at,        \* a worker: "receive", "run" a task, "report" an error, or "gone"
    holds,     \* the task of a worker, or 0
    state,     \* what became of a task
    ctxDone    \* ctx.Done() is closed

vars == <<main, next, at, holds, state, ctxDone>>

\* failed: the error is not sent yet; collected: it is in errs; lost: nobody
\* received it; dropped: the task was never handed out.
TaskStates == {"new", "running", "ok", "failed", "collected", "lost", "dropped"}

TypeOK ==
    /\ main \in {"dispatch", "join", "returned"}
    /\ next \in 1 .. NumTasks + 1
    /\ at \in [Workers -> {"receive", "run", "report", "gone"}]
    /\ holds \in [Workers -> 0 .. NumTasks]
    /\ state \in [Tasks -> TaskStates]
    /\ ctxDone \in BOOLEAN

Init ==
    /\ main = "dispatch"
    /\ next = 1
    /\ at = [w \in Workers |-> "receive"]
    /\ holds = [w \in Workers |-> 0]
    /\ state = [t \in Tasks |-> "new"]
    /\ ctxDone \in BOOLEAN

-----------------------------------------------------------------------------

\* Mutant: the loop does not advance.
HandOutAgain(w) ==
    /\ main = "dispatch" /\ next \in Tasks
    /\ at[w] = "receive"
    /\ at' = [at EXCEPT ![w] = "run"]
    /\ holds' = [holds EXCEPT ![w] = next]
    /\ state' = [state EXCEPT ![next] = "running"]
    /\ UNCHANGED <<main, next, ctxDone>>

\* taskCh <- task meets a worker that ranges over taskCh ...
HandOut(w) ==
    /\ main = "dispatch" /\ next \in Tasks
    /\ at[w] = "receive"
    /\ at' = [at EXCEPT ![w] = "run"]
    /\ holds' = [holds EXCEPT ![w] = next]
    /\ state' = [state EXCEPT ![next] = "running"]
    /\ next' = next + 1
    /\ UNCHANGED <<main, ctxDone>>

\* Mutant: the loop does not end.
DropOn ==
    /\ main = "dispatch"
    /\ ctxDone
    /\ next' = next + 1
    /\ UNCHANGED <<main, at, holds, state, ctxDone>>

\* ... or <-ctx.Done() is taken, and the task is gone.
DropTask ==
    /\ main = "dispatch" /\ next \in Tasks
    /\ ctxDone
    /\ state' = [state EXCEPT ![next] = "dropped"]
    /\ next' = next + 1
    /\ UNCHANGED <<main, at, holds, ctxDone>>

\* Mutant: taskCh stays open after a cancellation.
CloseTasksIfLive ==
    /\ main = "dispatch" /\ next \notin Tasks
    /\ ~ctxDone
    /\ main' = "join"
    /\ UNCHANGED <<next, at, holds, state, ctxDone>>

CloseTasks ==
    /\ main = "dispatch" /\ next \notin Tasks
    /\ main' = "join"
    /\ UNCHANGED <<next, at, holds, state, ctxDone>>

RunTask(w) ==
    /\ at[w] = "run"
    /\ \/ /\ state' = [state EXCEPT ![holds[w]] = "ok"]
          /\ at' = [at EXCEPT ![w] = "receive"]
          /\ holds' = [holds EXCEPT ![w] = 0]
       \/ /\ state' = [state EXCEPT ![holds[w]] = "failed"]
          /\ at' = [at EXCEPT ![w] = "report"]
          /\ UNCHANGED holds
    /\ UNCHANGED <<main, next, ctxDone>>

\* errCh <- err ...
SendError(w) ==
    /\ at[w] = "report"
    /\ state' = [state EXCEPT ![holds[w]] = "collected"]
    /\ at' = [at EXCEPT ![w] = "receive"]
    /\ holds' = [holds EXCEPT ![w] = 0]
    /\ UNCHANGED <<main, next, ctxDone>>

\* Mutant: a select with a default, so the error is sent only to a collector
\* that waits for it at that moment.
LoseErrorAnyTime(w) ==
    /\ at[w] = "report"
    /\ state' = [state EXCEPT ![holds[w]] = "lost"]
    /\ at' = [at EXCEPT ![w] = "gone"]
    /\ holds' = [holds EXCEPT ![w] = 0]
    /\ UNCHANGED <<main, next, ctxDone>>

\* ... or <-ctx.Done(): the error is gone, and so is the worker.
LoseError(w) ==
    /\ at[w] = "report"
    /\ ctxDone
    /\ state' = [state EXCEPT ![holds[w]] = "lost"]
    /\ at' = [at EXCEPT ![w] = "gone"]
    /\ holds' = [holds EXCEPT ![w] = 0]
    /\ UNCHANGED <<main, next, ctxDone>>

\* The range over the closed taskCh ends.
Leave(w) ==
    /\ at[w] = "receive"
    /\ main = "join"
    /\ at' = [at EXCEPT ![w] = "gone"]
    /\ UNCHANGED <<main, next, holds, state, ctxDone>>

\* Mutant: workerWg.Wait() is missing.
ReturnAtOnce ==
    /\ main = "join"
    /\ main' = "returned"
    /\ UNCHANGED <<next, at, holds, state, ctxDone>>

\* workerWg.Wait(), close(errCh), errorWg.Wait(), errors.Join(errs...)
Return ==
    /\ main = "join"
    /\ \A w \in Workers : at[w] = "gone"
    /\ main' = "returned"
    /\ UNCHANGED <<next, at, holds, state, ctxDone>>

Cancel ==
    /\ ~ctxDone
    /\ ctxDone' = TRUE
    /\ UNCHANGED <<main, next, at, holds, state>>

Code ==
    \/ \E w \in Workers : HandOut(w) \/ RunTask(w) \/ SendError(w) \/ LoseError(w) \/ Leave(w)
    \/ DropTask \/ CloseTasks \/ Return

Next == Code \/ Cancel

Spec == Init /\ [][Next]_vars

\* Goroutines are scheduled, and tasks end.
FairSpec == Spec /\ WF_vars(Code)

-----------------------------------------------------------------------------

\* No task is in the hands of two goroutines, and exactly the tasks in a hand are
\* running or have an error that is still to be sent.
OneWorkerPerTask ==
    /\ \A v, w \in Workers : holds[v] # 0 /\ v # w => holds[v] # holds[w]
    /\ \A t \in Tasks : state[t] \in {"running", "failed"} <=> \E w \in Workers : holds[w] = t

\* When the pool returns nothing is under way any more, and unless the context is
\* done every task was executed and every error is in the result: a nil error
\* means that all of them succeeded.
ResultComplete ==
    main = "returned" =>
      \A t \in Tasks : state[t] \in {"ok", "collected"} \cup
                                    (IF ctxDone THEN {"lost", "dropped"} ELSE {})

\* The pool always returns: nobody waits forever for a receiver, a sender or a
\* worker, with a context that is done or one that never is.
Returns == <>(main = "returned")

\* What the worker relies on.  A task is executed once its outcome is settled.
Pool == INSTANCE TaskPool WITH
          todo  <- {t \in Tasks : state[t] \in {"new", "running", "failed", "dropped"}},
          errs  <- {t \in Tasks : state[t] = "collected"},
          lost  <- {t \in Tasks : state[t] = "lost"},
          done  <- ctxDone,
          ended <- main = "returned"

\* The pool does what TaskPool promises (internal/sync/workers.go).
PoolSpec == Pool!Spec
=============================================================================
