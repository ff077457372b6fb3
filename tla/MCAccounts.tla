----------------------------- MODULE MCAccounts -----------------------------
(* Instances of Accounts. *)
EXTENDS Accounts, TLC

CONSTANTS x1, x2, x3, e1, e2

\* Two people, and the first again with the email of the second.
MCChanged == {<<x1, e1>>, <<x2, e2>>, <<x1, e2>>}

\* Two people who have taken over each other's email.
MCSwapped == {<<x1, e2>>, <<x2, e1>>}

\* A third account of the first person as well.
MCLegacy == MCChanged \cup {<<x3, e1>>}

MCSymmetry == Permutations(Requests) \cup Permutations(Subs)
=============================================================================
