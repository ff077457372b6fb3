--------------------------- MODULE MCCalendarSync ---------------------------
(* CalendarSync for TLC. *)
EXTENDS CalendarSync

CONSTANTS A, B, C   \* calendars
CONSTANTS t1, t2    \* texts

\* Copies of a busy-only rule look like t1, those with a prefix like t2.
Known == {"KeepTitle", "PrefixTitle", "ReplaceTitle"}

Shown == [ts \in SUBSET Known |-> [text \in Texts |->
            IF "ReplaceTitle" \in ts THEN t1
            ELSE IF "PrefixTitle" \in ts /\ t2 \in Texts THEN t2 ELSE text]]

Rule(source, target, payload, transformers, accepts) ==
    [source |-> source, target |-> target, payload |-> payload,
     transformers |-> transformers, accepts |-> accepts, dryRun |-> FALSE]

Plain(source, target) == Rule(source, target, "full", {"KeepTitle"}, Texts)

\* One rule from A to B, whose user switches between its settings.
Settings == {Plain(A, B),
             Rule(A, B, "busy", {"KeepTitle"}, Texts \ {t1}),
             Rule(A, B, "full", {"KeepTitle", "PrefixTitle"}, {t1}),
             [Plain(A, B) EXCEPT !.dryRun = TRUE]}

\* From A to B and on to C, and from A to C.
Triangle == {Plain(A, B), Plain(B, C), Plain(A, C)}
=============================================================================
