---------------------------- MODULE MCRuleConfig ----------------------------
(* RuleConfig for TLC: up to two components for a rule. *)
EXTENDS RuleConfig

UpToTwo == UNION {[1 .. n -> Part] : n \in 0 .. 2}

\* As the form of the web interface makes them: a name once.
Distinct == {parts \in UpToTwo : Len(parts) = 2 => parts[1].name # parts[2].name}
=============================================================================
