------------------------------ MODULE Accounts ------------------------------
(***************************************************************************)
(* Users, their Google accounts and what hangs on them: the sign-in of     *)
(* every API request (UpsertUser), which merges accounts of one person,    *)
(* the linking of Google accounts with its OAuth state, and the rules that *)
(* refer to connections (internal/platform/store/postgres.go,              *)
(* api/connections.go, api/state.go, db/migrations/0002).  Tables hold one *)
(* committed row per ID; a transaction is two steps where its row locks    *)
(* let others in between, and one step where they do not.                  *)
(***************************************************************************)
EXTENDS Naturals, FiniteSets, FiniteSetsExt

CONSTANTS
    MaxUsers,     \* bound: users ever created
    MaxConnections,
    MaxStates,    \* bound: OAuth states at a time
    RuleIds,
    Requests,     \* API requests that are handled at a time
    Identities,   \* pairs of an external ID and an email, as sessions have them
    Subs,         \* Google accounts
    Absent        \* no row, no value

UserIds       == 1 .. MaxUsers          \* in the order of created_at
ConnectionIds == 1 .. MaxConnections
ExternalIds   == {i[1] : i \in Identities}
Emails        == {i[2] : i \in Identities}   \* normalised: lower(btrim(...))

User       == [external : ExternalIds, email : Emails]
Connection == [user : UserIds, sub : Subs]
Rule       == [user : UserIds, source : ConnectionIds, target : ConnectionIds]

ASSUME AccountsAssumption ==
    /\ MaxUsers \in Nat /\ MaxConnections \in Nat /\ MaxStates \in Nat
    /\ Absent \notin User \cup Connection \cup Rule \cup Subs

VARIABLES
    users, connections, rules,
    tokens,       \* the Google account whose token is stored, by connection
    listed,       \* connections whose calendars are stored, for the form
    migrated,     \* whether migration 0002 has run
    lastUser, lastConnection,   \* IDs are never used again
    states,       \* users in OAuth states that have not expired
    request

tables == <<users, connections, rules, tokens, listed, lastUser, lastConnection>>
vars   == <<tables, migrated, states, request>>

Idle == [at |-> "idle"]

Is(q, at) == request[q].at = at

Exists(u)       == users[u] # Absent
WithEmail(e)    == {u \in UserIds : Exists(u) /\ users[u].email = e}
WithExternal(x) == {u \in UserIds : Exists(u) /\ users[u].external = x}
Own(u)          == {c \in ConnectionIds : connections[c] # Absent /\ connections[c].user = u}

\* Accounts as they were before migration 0002: no two with one external ID.
\* Bound: of all callbacks only the last may have failed, and left a connection
\* without its token; and there is no rule for that one yet.
Init ==
    /\ users \in [UserIds -> User \cup {Absent}]
    /\ \A x \in ExternalIds : Cardinality(WithExternal(x)) <= 1
    /\ lastUser \in 0 .. MaxUsers
    /\ \A u \in UserIds : Exists(u) <=> u <= lastUser
    /\ connections \in [ConnectionIds -> Connection \cup {Absent}]
    /\ lastConnection \in 0 .. MaxConnections
    /\ \A c \in ConnectionIds : (connections[c] # Absent) <=> c <= lastConnection
    /\ \A c, d \in 1 .. lastConnection : /\ Exists(connections[c].user)
                                         /\ connections[c] = connections[d] => c = d
    /\ \E c \in {0, lastConnection} : listed = (1 .. lastConnection) \ {c}
    /\ tokens = [c \in ConnectionIds |-> IF c \in listed THEN connections[c].sub ELSE Absent]
    /\ rules \in [RuleIds -> {Absent} \cup {r \in Rule : /\ Exists(r.user)
                                                       /\ {r.source, r.target} \subseteq listed}]
    /\ migrated = FALSE
    /\ states = {}
    /\ request = [q \in Requests |-> Idle]

-----------------------------------------------------------------------------
(* Merging users: into[u] is the user that u is merged into, u itself for  *)
(* all but the duplicates.  The statements of mergeUsers, and the same in  *)
(* migration 0002.                                                         *)

Moves(into, c) == connections[c] # Absent /\ into[connections[c].user] # connections[c].user

\* Mutant: the joins ask for the user only.
ExistingOfUser(into, c) ==
    {e \in ConnectionIds : /\ connections[e] # Absent
                           /\ connections[e].user = into[connections[c].user]}

\* existing: the connection of the canonical user to the Google account of c.
Existing(into, c) ==
    {e \in ConnectionIds : /\ connections[e] # Absent
                           /\ connections[e].user = into[connections[c].user]
                           /\ connections[e].sub = connections[c].sub}

\* Where what hangs on c ends up: in the one that exists, or c is moved itself.
Target(into, c) ==
    IF Moves(into, c) /\ Existing(into, c) # {}
    THEN CHOOSE e \in Existing(into, c) : TRUE
    ELSE c

\* Two connections of duplicates to one Google account: moving both breaks
\* UNIQUE (user_id, google_sub), copying both tokens, or both lists of
\* calendars, updates a row twice.
MergeFails(into) ==
    \E c, d \in ConnectionIds :
        /\ c # d /\ Moves(into, c) /\ Moves(into, d)
        /\ into[connections[c].user] = into[connections[d].user]
        /\ connections[c].sub = connections[d].sub
        /\ \/ Existing(into, c) = {}
           \/ tokens[c] # Absent /\ tokens[d] # Absent
           \/ {c, d} \subseteq listed

\* A rule, of whichever user, that refers to a connection which the merge deletes.
Folded(into, r) ==
    rules[r] # Absent /\ \E c \in {rules[r].source, rules[r].target} : Target(into, c) # c

\* What the merge copies to the connections that exist, as it reads it.
Donors(into, e) == {c \in ConnectionIds : connections[c] # Absent /\ c # e /\ Target(into, c) = e}

\* Mutant: without the tokens, which the deletion of the connection takes along.
CopyCalendars(into) ==
    [tokens |-> [e \in ConnectionIds |-> Absent],
     listed |-> {e \in ConnectionIds : Donors(into, e) \cap listed # {}}]

Copy(into) ==
    [tokens |-> [e \in ConnectionIds |->
                   LET read == {tokens[c] : c \in Donors(into, e)} \ {Absent}
                   IN IF read = {} THEN Absent ELSE CHOOSE t \in read : TRUE],
     listed |-> {e \in ConnectionIds : Donors(into, e) \cap listed # {}}]

\* mergeUsers; moved are the rules that its updates of sync_rules have met, row
\* is what becomes of the users that stay.  ON CONFLICT the copied token wins;
\* what hangs on a deleted connection goes with it, other rules as well.
mergeUsers(into, copied, moved, row) ==
    LET Stays(c) == connections[c] # Absent /\ Target(into, c) = c IN
    /\ rules' = [r \in RuleIds |->
                   IF rules[r] = Absent \/ (Folded(into, r) /\ r \notin moved) THEN Absent
                   ELSE [user   |-> into[rules[r].user],
                         source |-> Target(into, rules[r].source),
                         target |-> Target(into, rules[r].target)]]
    /\ connections' = [c \in ConnectionIds |->
                         IF Stays(c) THEN [connections[c] EXCEPT !.user = into[@]] ELSE Absent]
    /\ tokens' = [c \in ConnectionIds |->
                    IF ~Stays(c) THEN Absent
                    ELSE IF copied.tokens[c] # Absent THEN copied.tokens[c] ELSE tokens[c]]
    /\ listed' = {c \in listed \cup copied.listed : Stays(c)}
    /\ users' = [u \in UserIds |-> IF into[u] = u THEN row[u] ELSE Absent]

\* The locks of SELECT ... FOR UPDATE; foreign keys to these users wait for them.
Locks(q)  == IF Is(q, "locking") \/ Is(q, "merging") THEN request[q].locked ELSE {}
Locked(u) == \E q \in Requests : u \in Locks(q)

\* Mutant: the migration groups by external ID, of which no two users have one.
OldestByExternal == [u \in UserIds |-> IF Exists(u) THEN Min(WithExternal(users[u].external)) ELSE u]

\* 0002_dedupe_users_by_email.sql: the oldest user of an email stays.
Oldest == [u \in UserIds |-> IF Exists(u) THEN Min(WithEmail(users[u].email)) ELSE u]

Migrate ==
    /\ ~migrated
    /\ \A u \in UserIds : ~Locked(u)
    /\ ~MergeFails(Oldest)
    /\ mergeUsers(Oldest, Copy(Oldest), RuleIds, users)
    /\ migrated' = TRUE
    /\ UNCHANGED <<lastUser, lastConnection, states, request>>

-----------------------------------------------------------------------------
(* UpsertUser, which every request of the web application begins with *)

Set(q, record) == request' = [request EXCEPT ![q] = record]
End(q)         == Set(q, Idle)

\* users[0]: by email before by external ID, then by age, as it was when the
\* statement began.
First(q, S) == IF S \cap request[q].byEmail # {} THEN Min(S \cap request[q].byEmail) ELSE Min(S)

\* The statement of lockUsersForIdentity begins: the rows it goes through.
SignIn(q, x, e) ==
    /\ Is(q, "idle")
    /\ Set(q, [at |-> "locking", external |-> x, email |-> e, byEmail |-> WithEmail(e),
               left |-> WithEmail(e) \cup WithExternal(x), locked |-> {}])
    /\ UNCHANGED <<tables, migrated, states>>

\* It locks the next row, or passes one that has gone or matches no more.
LockRow(q) ==
    /\ Is(q, "locking") /\ request[q].left # {}
    /\ LET u == First(q, request[q].left)
           matches == /\ Exists(u)
                      /\ users[u].email = request[q].email \/ users[u].external = request[q].external
       IN /\ ~Locked(u)
          /\ request' = [request EXCEPT ![q].left = @ \ {u},
                                        ![q].locked = IF matches THEN @ \cup {u} ELSE @]
    /\ UNCHANGED <<tables, migrated, states>>

Canonical(q)  == First(q, Locks(q))
Duplicates(q) == Locks(q) \ {Canonical(q)}
Into(q)       == [u \in UserIds |-> IF u \in Locks(q) THEN Canonical(q) ELSE u]

\* All rows are locked, and some were found.
Found(q) == Is(q, "locking") /\ request[q].left = {} /\ Locks(q) # {}

\* Rules that a merge has updated, and that others wait for.
RulesLocked(q) ==
    {r \in RuleIds : /\ Is(q, "merging") /\ rules[r] # Absent
                     /\ \/ rules[r].user \in Duplicates(q)
                        \/ request[q].moved # Absent /\ r \in request[q].moved}
MergeLocksRule(r) == \E q \in Requests : r \in RulesLocked(q)

\* The rules that its next statements update or delete.
RulesNeeded(q) ==
    {r \in RuleIds : /\ rules[r] # Absent
                     /\ \/ Found(q) /\ rules[r].user \in Duplicates(q)
                        \/ Is(q, "merging") /\ Folded(Into(q), r)}
Waits(q, p) == RulesNeeded(q) \cap RulesLocked(p) # {}

\* The first statements of mergeUsers: the rules of the duplicates are locked,
\* their calendars and tokens read.  Tokened is not in the code: the
\* connections that had a token then.
BeginMerge(q) ==
    /\ Found(q)
    /\ \A p \in Requests \ {q} : ~Waits(q, p)
    /\ Set(q, [at |-> "merging", external |-> request[q].external, email |-> request[q].email,
               byEmail |-> request[q].byEmail \cap Locks(q), locked |-> Locks(q), copied |-> Copy(Into(q)),
               moved |-> Absent,
               tokened |-> {c \in ConnectionIds : tokens[c] # Absent
                                                  /\ connections[c].user \in Locks(q)}])
    /\ UNCHANGED <<tables, migrated, states>>

\* The updates of source_connection_id and target_connection_id, which do not
\* ask whose the rules are.  Rules saved after them are deleted with what they
\* refer to.
MoveRules(q) ==
    /\ Is(q, "merging") /\ request[q].moved = Absent
    /\ \A p \in Requests \ {q} : ~Waits(q, p)
    /\ request' = [request EXCEPT ![q].moved = {r \in RuleIds : Folded(Into(q), r)}]
    /\ UNCHANGED <<tables, migrated, states>>

SignedIn(q, u) == Set(q, [at |-> "signed in", user |-> u])

\* What a unique constraint on users is in the way of, for the row of one of S.
Taken(q, S) ==
    \/ ~(WithExternal(request[q].external) \subseteq S)
    \/ migrated /\ ~(WithEmail(request[q].email) \subseteq S)

\* Nobody was found: INSERT ... ON CONFLICT (external_id) DO UPDATE SET email.
InsertUser(q) ==
    LET same == WithExternal(request[q].external)
    IN /\ Is(q, "locking") /\ request[q].left = {} /\ Locks(q) = {}
       /\ \A u \in same : ~Locked(u)
       /\ ~Taken(q, same)
       /\ \E u \in IF same # {} THEN same ELSE {lastUser + 1} :
            /\ u <= MaxUsers
            /\ users' = [users EXCEPT ![u] = [external |-> request[q].external,
                                              email    |-> request[q].email]]
            /\ lastUser' = Max({u, lastUser})
            /\ SignedIn(q, u)
       /\ UNCHANGED <<connections, rules, tokens, listed, lastConnection, migrated, states>>

\* The rest of the merge, UPDATE users, and the commit.
UpdateUser(q) ==
    /\ Is(q, "merging") /\ request[q].moved # Absent
    /\ \A p \in Requests \ {q} : ~Waits(q, p)
    /\ ~MergeFails(Into(q)) /\ ~Taken(q, Locks(q))
    /\ mergeUsers(Into(q), request[q].copied, request[q].moved,
                  [users EXCEPT ![Canonical(q)] = [external |-> request[q].external,
                                                   email    |-> request[q].email]])
    /\ SignedIn(q, Canonical(q))
    /\ UNCHANGED <<lastUser, lastConnection, migrated, states>>

\* A constraint fails and the transaction is rolled back: a 500.  Bound: the
\* last case, no user beyond MaxUsers.
SignInFails(q) ==
    LET same == WithExternal(request[q].external)
    IN /\ \/ Is(q, "merging") /\ (MergeFails(Into(q)) \/ Taken(q, Locks(q)))
          \/ /\ Is(q, "locking") /\ request[q].left = {} /\ Locks(q) = {}
             /\ Taken(q, same) \/ (same = {} /\ lastUser = MaxUsers)
       /\ End(q)
       /\ UNCHANGED <<tables, migrated, states>>

WaitsForUser(q, p) ==
    Is(q, "locking") /\ request[q].left # {} /\ First(q, request[q].left) \in Locks(p)

\* Two sign-ins wait for each other's rows; the database ends one of them.
Deadlock(q) ==
    /\ \E p \in Requests \ {q} : \/ WaitsForUser(q, p) /\ WaitsForUser(p, q)
                                 \/ Waits(q, p) /\ Waits(p, q)
    /\ End(q)
    /\ UNCHANGED <<tables, migrated, states>>

-----------------------------------------------------------------------------
(* Linking a Google account *)

signState(u)   == states' = states \cup {u}
verifyState(u) == u \in states

GoogleStart(q) ==
    /\ Is(q, "signed in") /\ Cardinality(states \cup {request[q].user}) <= MaxStates
    /\ signState(request[q].user)
    /\ End(q)
    /\ UNCHANGED <<tables, migrated>>

\* The 15 minutes are over.
ExpireState(u) ==
    /\ u \in states
    /\ states' = states \ {u}
    /\ UNCHANGED <<tables, migrated, request>>

\* CreateGoogleConnection: ON CONFLICT (user_id, google_sub) the one that exists.
LinkedTo(u, sub) ==
    LET linked == {o \in Own(u) : connections[o].sub = sub}
    IN IF linked # {} THEN linked ELSE {lastConnection + 1}

\* Mutant: the foreign key of google_connections is missing.
CallbackOfAnybody(q, u, sub) ==
    /\ Is(q, "idle") /\ verifyState(u)
    /\ \E c \in LinkedTo(u, sub) :
         /\ c > lastConnection => ~Locked(u) /\ c <= MaxConnections
         /\ connections' = [connections EXCEPT ![c] = [user |-> u, sub |-> sub]]
         /\ lastConnection' = Max({c, lastConnection})
         /\ Set(q, [at |-> "linked", connection |-> c, sub |-> sub])
    /\ UNCHANGED <<users, rules, tokens, listed, lastUser, migrated, states>>

\* handleGoogleCallback, which nobody signs in for.  A user that was merged
\* away after GoogleStart fails the foreign key.
Callback(q, u, sub) ==
    /\ Is(q, "idle") /\ verifyState(u) /\ Exists(u)
    /\ \E c \in LinkedTo(u, sub) :
         /\ c > lastConnection => ~Locked(u) /\ c <= MaxConnections
         /\ connections' = [connections EXCEPT ![c] = [user |-> u, sub |-> sub]]
         /\ lastConnection' = Max({c, lastConnection})
         /\ Set(q, [at |-> "linked", connection |-> c, sub |-> sub])
    /\ UNCHANGED <<users, rules, tokens, listed, lastUser, migrated, states>>

\* Rows that the transaction of a merge has locked in BeginMerge.
MergeLocks(c) ==
    \E q \in Requests : Is(q, "merging") /\ c \in request[q].copied.listed
                                          \cup {e \in ConnectionIds : request[q].copied.tokens[e] # Absent}

\* Mutant: the answer's calendars are stored although the token is not.
StoreOrPass(q) ==
    LET c == request[q].connection
    IN /\ Is(q, "linked") /\ connections[c] # Absent /\ ~MergeLocks(c)
       /\ tokens' \in {tokens, [tokens EXCEPT ![c] = request[q].sub]}
       /\ Set(q, [at |-> "stored", connection |-> c])
       /\ UNCHANGED <<users, connections, rules, listed, lastUser, lastConnection, migrated, states>>

\* EncryptToken and StoreEncryptedToken.
StoreEncryptedToken(q) ==
    LET c == request[q].connection
    IN /\ Is(q, "linked") /\ connections[c] # Absent /\ ~MergeLocks(c)
       /\ tokens' = [tokens EXCEPT ![c] = request[q].sub]
       /\ Set(q, [at |-> "stored", connection |-> c])
       /\ UNCHANGED <<users, connections, rules, listed, lastUser, lastConnection, migrated, states>>

ReplaceConnectionCalendars(c) ==
    /\ connections[c] # Absent /\ ~MergeLocks(c)
    /\ listed' = listed \cup {c}

\* The last part of the callback, and its answer.
syncCalendarsFromToken(q) ==
    /\ Is(q, "stored")
    /\ ReplaceConnectionCalendars(request[q].connection)
    /\ End(q)
    /\ UNCHANGED <<users, connections, rules, tokens, lastUser, lastConnection, migrated, states>>

\* The connection has gone, or Google, the key service or the database fails.
CallbackFails(q) ==
    /\ Is(q, "linked") \/ Is(q, "stored")
    /\ End(q)
    /\ UNCHANGED <<tables, migrated, states>>

-----------------------------------------------------------------------------
(* The requests of a user who has signed in *)

RefersTo(r, c) == rules[r] # Absent /\ c \in {rules[r].source, rules[r].target}

\* Some merge has moved a rule to c, whose foreign key keeps c.
MovedTo(c) ==
    \E q \in Requests : \E r \in RulesLocked(q), d \in ConnectionIds :
        request[q].moved # Absent /\ RefersTo(r, d) /\ Target(Into(q), d) = c

\* DELETE ... WHERE id = $1 AND user_id = $2; it cascades to the rules of all users.
DeleteGoogleConnection(q, c) ==
    /\ Is(q, "signed in") /\ c \in Own(request[q].user)
    /\ ~MergeLocks(c) /\ ~MovedTo(c)
    /\ \A r \in RuleIds : RefersTo(r, c) => ~MergeLocksRule(r)
    /\ connections' = [connections EXCEPT ![c] = Absent]
    /\ tokens' = [tokens EXCEPT ![c] = Absent]
    /\ listed' = listed \ {c}
    /\ rules' = [r \in RuleIds |-> IF RefersTo(r, c) THEN Absent ELSE rules[r]]
    /\ End(q)
    /\ UNCHANGED <<users, lastUser, lastConnection, migrated, states>>

\* The foreign keys ask for two connections, of whichever user; only the form
\* offers nothing but those of the user.
SaveRule(q, r, source, target) ==
    /\ connections[source] # Absent /\ connections[target] # Absent
    /\ rules' = [rules EXCEPT ![r] = [user |-> request[q].user, source |-> source, target |-> target]]
    /\ End(q)
    /\ UNCHANGED <<users, connections, tokens, listed, lastUser, lastConnection, migrated, states>>

\* The foreign key of a user that was merged away fails: see Answer.  An ID of
\* a rule that has been deleted stands for a new one.
CreateRule(q, r, source, target) ==
    LET u == request[q].user
    IN /\ Is(q, "signed in") /\ rules[r] = Absent
       /\ Exists(u) /\ ~Locked(u)
       /\ SaveRule(q, r, source, target)

UpdateRule(q, r, source, target) ==
    /\ Is(q, "signed in") /\ rules[r] # Absent
    /\ rules[r].user = request[q].user /\ ~MergeLocksRule(r)
    /\ SaveRule(q, r, source, target)

DeleteRule(q, r) ==
    /\ Is(q, "signed in") /\ rules[r] # Absent
    /\ rules[r].user = request[q].user /\ ~MergeLocksRule(r)
    /\ rules' = [rules EXCEPT ![r] = Absent]
    /\ End(q)
    /\ UNCHANGED <<users, connections, tokens, listed, lastUser, lastConnection, migrated, states>>

\* A request that reads, finds nothing, fails, or waits in a deadlock with a merge.
Answer(q) ==
    /\ Is(q, "signed in")
    /\ End(q)
    /\ UNCHANGED <<tables, migrated, states>>

Step(q) ==
    \/ LockRow(q) \/ InsertUser(q) \/ SignInFails(q) \/ Deadlock(q)
    \/ BeginMerge(q) \/ MoveRules(q) \/ UpdateUser(q)
    \/ StoreEncryptedToken(q) \/ syncCalendarsFromToken(q) \/ CallbackFails(q)
    \/ GoogleStart(q) \/ Answer(q) \/ \E c \in ConnectionIds : DeleteGoogleConnection(q, c)
    \/ \E r \in RuleIds : DeleteRule(q, r) \/ \E c, d \in ConnectionIds : CreateRule(q, r, c, d) \/ UpdateRule(q, r, c, d)

Next ==
    \/ Migrate
    \/ \E q \in Requests :
         \/ \E i \in Identities : SignIn(q, i[1], i[2])
         \/ \E u \in UserIds, sub \in Subs : Callback(q, u, sub)
         \/ Step(q)
    \/ \E u \in UserIds : ExpireState(u)

Spec == Init /\ [][Next]_vars

-----------------------------------------------------------------------------
(* Properties *)

RulesRefer ==
    \A r \in RuleIds : rules[r] # Absent =>
        /\ Exists(rules[r].user)
        /\ connections[rules[r].source] # Absent /\ connections[rules[r].target] # Absent

\* Every row is what its table may hold, and refers to rows that exist.
TypeOK ==
    /\ users \in [UserIds -> User \cup {Absent}]
    /\ connections \in [ConnectionIds -> Connection \cup {Absent}]
    /\ rules \in [RuleIds -> Rule \cup {Absent}]
    /\ tokens \in [ConnectionIds -> Subs \cup {Absent}]
    /\ listed \subseteq ConnectionIds
    /\ migrated \in BOOLEAN
    /\ lastUser \in 0 .. MaxUsers /\ lastConnection \in 0 .. MaxConnections
    /\ states \subseteq UserIds
    /\ \A u \in UserIds : Exists(u) => u <= lastUser
    /\ \A c \in ConnectionIds : connections[c] # Absent => c <= lastConnection /\ Exists(connections[c].user)
    /\ RulesRefer

\* A connection never holds the token of another Google account, whichever
\* connections a merge folds into it and whatever a callback stores meanwhile.
TokensFit ==
    \A c \in ConnectionIds : tokens[c] # Absent => connections[c] # Absent /\ tokens[c] = connections[c].sub

\* A connection whose calendars are offered in the form has a token to reach
\* them with, although a callback stores row, token and calendars one by one
\* and merges and deletions come in between.
CalendarsHaveToken == \A c \in listed : tokens[c] # Absent

\* One user per person: after migration 0002 a merge in a sign-in never meets
\* the constraints that would end every request of that person in a 500.
MergeCannotFail == \A q \in Requests : migrated /\ Is(q, "merging") => ~MergeFails(Into(q))

\* However users are merged and their connections folded into each other, moved
\* and deleted, a rule that nobody saves keeps the two Google accounts it copies
\* between, and a connection of its own user stays one: a merge moves rules,
\* both of their connections, and connections in separate statements
\* (mergeUsers, migration 0002).
Saved(r) == \E q \in Requests : Is(q, "signed in") /\ ~Is(q, "signed in")' /\ rules'[r] # rules[r]
KeepsAccount(r, side) ==
    LET old == connections[rules[r][side]]
        new == connections'[rules'[r][side]]
    IN /\ new # Absent /\ new.sub = old.sub
       /\ old.user = rules[r].user => new.user = rules'[r].user
RulesKeepAccounts ==
    [][\A r \in RuleIds : rules[r] # Absent /\ rules'[r] # Absent /\ ~Saved(r) =>
         KeepsAccount(r, "source") /\ KeepsAccount(r, "target")]_vars

\* A step that removes users keeps every rule, every linked Google account, and
\* the token of each account that had one when the merge read them.  Only a
\* rule over connections that are not all of its user, saved since the merge
\* has moved the rules, may go.
Removed == {u \in UserIds : users[u] # Absent /\ users'[u] = Absent}
MergeLosesNothing ==
    [][Removed # {} =>
        /\ \A r \in RuleIds : rules[r] # Absent =>
             \/ rules'[r] # Absent
             \/ /\ ~({rules[r].source, rules[r].target} \subseteq Own(rules[r].user))
                /\ \E q \in Requests : Is(q, "merging") /\ request[q].moved # Absent /\ r \notin request[q].moved
        /\ \A c \in ConnectionIds : connections[c] # Absent =>
             \E e \in ConnectionIds :
                /\ connections'[e] # Absent /\ connections'[e].sub = connections[c].sub
                /\ connections'[e].user = connections[c].user \/ connections[c].user \in Removed
                /\ \/ tokens'[e] # Absent
                   \/ tokens[c] = Absent
                   \/ \E q \in Requests : Is(q, "merging") /\ c \notin request[q].tokened]_vars
=============================================================================
