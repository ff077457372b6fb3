------------------------------ MODULE TaskPool ------------------------------
(***************************************************************************)
(* What executing the tasks of a run promises, whatever pool does it: each *)
(* task is executed at most once, in any order; a failure is reported, and *)
(* may be left out only once the context is done; and the pool ends with   *)
(* tasks it did not execute only if the context is done.  This is how the  *)
(* worker (module RunWorker) sees the pool.                                *)
(***************************************************************************)
EXTENDS Naturals

CONSTANT Tasks

VARIABLES
    todo,      \* tasks not executed
    errs,      \* tasks whose failure the result reports
    lost,      \* tasks whose failure it does not
    done,      \* the context is done
    ended      \* the pool has returned its result

vars == <<todo, errs, lost, done, ended>>

Init == /\ todo = Tasks
        /\ errs = {}
        /\ lost = {}
        /\ done \in BOOLEAN
        /\ ended = FALSE

Succeed(t) == /\ ~ended /\ t \in todo
              /\ todo' = todo \ {t}
              /\ UNCHANGED <<errs, lost, done, ended>>

Fail(t) == /\ ~ended /\ t \in todo
           /\ todo' = todo \ {t}
           /\ errs' = errs \cup {t}
           /\ UNCHANGED <<lost, done, ended>>

Lose(t) == /\ ~ended /\ t \in todo
           /\ done
           /\ todo' = todo \ {t}
           /\ lost' = lost \cup {t}
           /\ UNCHANGED <<errs, done, ended>>

End == /\ ~ended
       /\ todo = {} \/ done
       /\ ended' = TRUE
       /\ UNCHANGED <<todo, errs, lost, done>>

Cancel == /\ ~done
          /\ done' = TRUE
          /\ UNCHANGED <<todo, errs, lost, ended>>

Next == \/ \E t \in Tasks : Succeed(t) \/ Fail(t) \/ Lose(t)
        \/ End
        \/ Cancel

Spec == Init /\ [][Next]_vars
=============================================================================
