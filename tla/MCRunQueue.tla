----------------------------- MODULE MCRunQueue -----------------------------
(* RunQueue for TLC. *)
EXTENDS RunQueue, TLC

\* Workers differ in nothing but their name.
WorkerSymmetry == Permutations(Workers)
=============================================================================
