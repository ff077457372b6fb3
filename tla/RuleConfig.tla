----------------------------- MODULE RuleConfig -----------------------------
(***************************************************************************)
(* How runs configure filters and transformers (internal/sync/filter.go,   *)
(* transformer.go, util.go).  The factories keep one object per name for   *)
(* the whole worker process, write the configuration of a rule into it,    *)
(* and hand the object itself to the controller.                           *)
(***************************************************************************)
EXTENDS Naturals, Sequences

CONSTANTS
    Requests,    \* worker requests that one process handles at a time
    Rules,
    Names,       \* filters and transformers
    Texts,       \* values for the field of a component
    Default,     \* the value an object is created with
    Empty,       \* a configuration without the field
    Number,      \* a JSON number, for a field of an integer type
    Invalid,     \* a regular expression that does not compile
    Lists        \* the lists of components that a rule may be saved with

Part == [name : Names, value : Texts \cup {Empty, Number, Invalid}]

VARIABLES
    object,     \* the shared objects
    settings,   \* the components of each rule, as stored
    run         \* what each request executes

vars == <<object, settings, run>>

NoRun == [running |-> FALSE, parts |-> <<>>, next |-> 1]

\* A new worker process, for any rules.
Init ==
    /\ object = [n \in Names |-> Default]
    /\ settings \in [Rules -> Lists]
    /\ run = [q \in Requests |-> NoRun]

Configuring(q) == run[q].running /\ run[q].next <= Len(run[q].parts)
Applying(q)    == run[q].running /\ run[q].next > Len(run[q].parts)

-----------------------------------------------------------------------------

SaveRule(r, parts) ==
    /\ settings[r] # parts
    /\ settings' = [settings EXCEPT ![r] = parts]
    /\ UNCHANGED <<object, run>>

StartRun(q, r) ==
    /\ ~run[q].running
    /\ run' = [run EXCEPT ![q] = [NoRun EXCEPT !.running = TRUE, !.parts = settings[r]]]
    /\ UNCHANGED <<object, settings>>

\* A field that is not configured keeps the value it has.
autoConfigure(part) == IF part.value = Empty THEN object
                       ELSE [object EXCEPT ![part.name] = part.value]

\* The factories go through the components; value.(int64) panics for a number
\* that comes out of JSON, and net/http ends the request.
Configure(q) ==
    /\ Configuring(q)
    /\ LET part == run[q].parts[run[q].next] IN
         \/ /\ part.value # Number
            /\ object' = autoConfigure(part)
            /\ run' = [run EXCEPT ![q].next = @ + 1]
         \/ /\ part.value = Number
            /\ run' = [run EXCEPT ![q] = NoRun]
            /\ UNCHANGED object
    /\ UNCHANGED settings

UsesInvalid(q) == \E i \in DOMAIN run[q].parts : object[run[q].parts[i].name] = Invalid

\* All events have been through the components.
Finish(q) ==
    /\ Applying(q)
    /\ run' = [run EXCEPT ![q] = NoRun]
    /\ UNCHANGED <<object, settings>>

Exit ==
    /\ object' = [n \in Names |-> Default]
    /\ run' = [q \in Requests |-> NoRun]
    /\ UNCHANGED settings

\* log.Fatalf ends the process, with all its requests, at the first event.
Fatal(q) == Applying(q) /\ UsesInvalid(q) /\ Exit

\* The process is stopped for another reason; the next one is new.
Restart == Exit

Next ==
    \/ \E r \in Rules, parts \in Lists : SaveRule(r, parts)
    \/ \E q \in Requests :
         \/ \E r \in Rules : StartRun(q, r)
         \/ Configure(q) \/ Finish(q) \/ Fatal(q)
    \/ Restart

Spec == Init /\ [][Next]_vars

-----------------------------------------------------------------------------
(* Property *)

\* What a component is to do: what its rule says, or what it does by default.
Wanted(part) == IF part.value = Empty THEN Default ELSE part.value

\* "load the default Transformer for the configured name and initialize it based
\* on the config": while a run applies its components to events, each behaves as
\* the default with the configuration of this rule; nothing is left of the rules
\* that the process has executed before, of a run whose configuration panicked
\* half-way, or of another component of the rule (FilterFactory,
\* TransformerFactory, autoConfigure).
OwnConfiguration ==
    \A q \in Requests : Applying(q) =>
      \A i \in DOMAIN run[q].parts : object[run[q].parts[i].name] = Wanted(run[q].parts[i])
=============================================================================
