--------------------------- MODULE MCEventContent ---------------------------
(* EventContent for TLC. *)
EXTENDS EventContent

CONSTANTS work, test, Desc, Room, Meet, ann, bad

MCWords == {work, test, Desc, Room, Meet, Markup, Plain, Placeholder, Busy, NewTitle, Prefix, Link}

Names == ToSet(transformerOrder)

Full(filters, names) == [payload |-> "full", filters |-> filters, transformations |-> names]

MCFrame == <<8, 17>>

\* A quarter of an hour on Monday morning.
Plainly == [title |-> <<work>>, description |-> <<>>, location |-> None, attendees |-> {},
            reminders |-> {}, link |-> None, accepted |-> TRUE, allDay |-> FALSE, busy |-> TRUE,
            start |-> 9 * 60, end |-> 9 * 60 + 15, metadata |-> TRUE]

Richly == [Plainly EXCEPT !.title = <<test>>, !.description = <<Markup>>, !.location = Room,
                          !.attendees = {ann}, !.reminders = {0, 10}, !.link = Meet]

\* Each field as it is in the one, or in the other; an address that is none; a
\* day off, and a whole day of each kind.
MCEdits ==
    LET both == {Plainly, Richly} IN
    UNION {{[e EXCEPT ![f] = o[f]] : f \in DOMAIN e} : e \in both, o \in both}
      \cup {[e EXCEPT !.attendees = {ann, bad}] : e \in both}
      \cup {[e EXCEPT !.accepted = FALSE] : e \in both}
      \cup {[Richly EXCEPT !.start = @ + 5 * Minutes, !.end = @ + 5 * Minutes]}
      \cup {[Plainly EXCEPT !.allDay = TRUE, !.start = 0, !.end = Minutes, !.busy = b] : b \in BOOLEAN}
      \cup {[Richly EXCEPT !.description = <<d>>, !.reminders = {10}, !.busy = FALSE] : d \in {Desc, Plain, Link}}

\* Lengths up to a day, from points around the frame, in quarters of an hour.
Times == {[Plainly EXCEPT !.start = 15 * s, !.end = 15 * (s + n)] :
            s \in {0, 29, 32, 66, 68, 70, 94}, n \in {1, 2, 4, 36, 37, 96}}

MCSaves == {Full({}, Names \ {"ReplaceTitle"}), Full({}, {"KeepTitle", "KeepReminders"}),
            Full({"TimeFilter", "Days", "FreeEvents"}, {"KeepDescription", "AddOriginalLink", "ReplaceTitle"}),
            [payload |-> "busy", filters |-> {"DeclinedEvents", "Other"}, transformations |-> Names]}

\* Every set of transformers, every filter, and every time.
MCCases ==
    ({Full({}, names) : names \in SUBSET Names} \X {Richly})
      \cup ({Full({f}, {"KeepTitle"}) : f \in filterConfigMapping} \X MCEdits)
      \cup ({Full({"TimeFrame", "TimeFilter"}, {})} \X Times)
=============================================================================
