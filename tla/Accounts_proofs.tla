--------------------------- MODULE Accounts_proofs ---------------------------
(* Theorems about users, connections and rules, for any number of each and of *)
(* requests, and for any accounts the migration may find.                     *)
EXTENDS Accounts, FiniteSetTheorems, WellFoundedInduction, TLAPS

USE AccountsAssumption

\* What a request keeps between two of its steps.
Locking == [at : {"locking"}, external : ExternalIds, email : Emails, byEmail : SUBSET UserIds,
            left : SUBSET UserIds, locked : SUBSET UserIds]
Copied  == [tokens : [ConnectionIds -> Subs \cup {Absent}], listed : SUBSET ConnectionIds]
Merging == [at : {"merging"}, external : ExternalIds, email : Emails, byEmail : SUBSET UserIds,
            locked : SUBSET UserIds, copied : Copied, moved : {Absent} \cup SUBSET RuleIds,
            tokened : SUBSET ConnectionIds]
Signed  == [at : {"signed in"}, user : UserIds]
Linked  == [at : {"linked"}, connection : ConnectionIds, sub : Subs]
Stored  == [at : {"stored"}, connection : ConnectionIds]
Request == {Idle} \cup Locking \cup Merging \cup Signed \cup Linked \cup Stored

\* A token that a request is about to store for c still fits, if c is there.
Fits(token, c) == c <= lastConnection /\ (connections[c] # Absent => connections[c].sub = token)

\* The token that a callback has stored is there as long as its connection.
HasToken(c) == c <= lastConnection /\ (connections[c] # Absent => tokens[c] # Absent)

CopiedOK(copied) ==
    /\ copied \in Copied
    /\ \A c \in ConnectionIds : copied.tokens[c] # Absent => Fits(copied.tokens[c], c)
    /\ \A c \in copied.listed : copied.tokens[c] # Absent

RequestOK(r) ==
    /\ r.at \in {"locking", "merging"} => \A u \in r.locked : u <= lastUser
    /\ r.at = "merging" => r.locked # {} /\ CopiedOK(r.copied)
    /\ r.at = "linked" => Fits(r.sub, r.connection)
    /\ r.at = "stored" => HasToken(r.connection)

RequestsOK ==
    /\ request \in [Requests -> Request]
    /\ \A q \in Requests : RequestOK(request[q])

Tables == TypeOK /\ TokensFit /\ CalendarsHaveToken

IInv == Tables /\ RequestsOK

\* The accounts from before the migration satisfy the invariant.
THEOREM InitIInv == Init => IInv
  <1> SUFFICES ASSUME Init PROVE IInv
    OBVIOUS
  <1>1. users \in [UserIds -> User \cup {Absent}] /\ connections \in [ConnectionIds -> Connection \cup {Absent}]
    BY DEF Init
  <1>2. \A c \in ConnectionIds : connections[c] # Absent => /\ c <= lastConnection /\ c \in 1 .. lastConnection
                                                             /\ connections[c].sub \in Subs
    BY <1>1 DEF Init, ConnectionIds, Connection
  <1>3. tokens = [c \in ConnectionIds |-> IF c \in listed THEN connections[c].sub ELSE Absent]
    BY DEF Init
  <1>5. listed \subseteq ConnectionIds /\ listed \subseteq 1 .. lastConnection
    BY DEF Init, ConnectionIds
  <1>13. \A c \in listed : connections[c] # Absent /\ connections[c].sub \in Subs
    <2>1. \A c \in ConnectionIds : c <= lastConnection => connections[c] # Absent
      BY DEF Init
    <2>2. \A c \in listed : c \in ConnectionIds /\ c <= lastConnection
      BY <1>5 DEF Init
    <2> QED BY <1>2, <2>1, <2>2
  <1>4. tokens \in [ConnectionIds -> Subs \cup {Absent}]
    BY <1>3, <1>5, <1>13
  <1>6. /\ \A u \in UserIds : Exists(u) => u <= lastUser
        /\ \A c \in ConnectionIds : connections[c] # Absent => Exists(connections[c].user)
    BY <1>2 DEF Init
  <1>7. /\ rules \in [RuleIds -> {Absent} \cup {r \in Rule : /\ Exists(r.user)
                                                           /\ {r.source, r.target} \subseteq listed}]
        /\ migrated \in BOOLEAN /\ states \subseteq UserIds
        /\ lastUser \in 0 .. MaxUsers /\ lastConnection \in 0 .. MaxConnections
    BY DEF Init
  <1>9. RulesRefer
    <2> SUFFICES ASSUME NEW r \in RuleIds, rules[r] # Absent
                 PROVE  /\ Exists(rules[r].user)
                        /\ connections[rules[r].source] # Absent /\ connections[rules[r].target] # Absent
      BY DEF RulesRefer
    <2>1. rules[r] \in Rule /\ Exists(rules[r].user) /\ {rules[r].source, rules[r].target} \subseteq listed
      BY <1>7
    <2> QED BY <1>13, <2>1
  <1>8. TypeOK
    BY <1>1, <1>2, <1>4, <1>5, <1>6, <1>7, <1>9 DEF TypeOK
  <1>10. TokensFit
    BY <1>3, <1>13 DEF TokensFit
  <1>11. RequestsOK
    BY DEF Init, RequestsOK, RequestOK, Request, Idle
  <1>12. CalendarsHaveToken
    BY <1>3, <1>5, <1>13, AccountsAssumption DEF CalendarsHaveToken
  <1> QED BY <1>8, <1>10, <1>11, <1>12 DEF IInv, Tables

-----------------------------------------------------------------------------
(* Helpers *)

\* The oldest of a set of users is one of them.
LEMMA MinOf ==
  ASSUME NEW S, S \subseteq Nat, S # {}
  PROVE  Min(S) \in S
  <1> DEFINE R == OpToRel(<, Nat)
  <1>1. PICK x \in S : \A y \in S : <<y, x>> \notin R
    <2> HIDE DEF R
    <2>1. IsWellFoundedOn(R, Nat)
      BY NatLessThanWellFounded DEF R
    <2> QED BY <2>1, WFMin
  <1>2. \A y \in S : x <= y
    <2> SUFFICES ASSUME NEW y \in S, y < x PROVE FALSE
      OBVIOUS
    <2>1. <<y, x>> \in Nat \X Nat /\ <<y, x>>[1] < <<y, x>>[2]
      OBVIOUS
    <2>2. <<y, x>> \in R
      BY <2>1, Zenon DEF OpToRel
    <2> QED BY <1>1, <2>2
  <1> QED BY <1>1, <1>2 DEF Min

\* The larger of two numbers.
LEMMA MaxOfTwo ==
  ASSUME NEW a \in Nat, NEW b \in Nat
  PROVE  Max({a, b}) = IF a >= b THEN a ELSE b
  <1>1. \E x \in {a, b} : \A y \in {a, b} : x >= y
    OBVIOUS
  <1>2. Max({a, b}) \in {a, b} /\ \A y \in {a, b} : Max({a, b}) >= y
    BY <1>1 DEF Max
  <1> QED BY <1>2

\* users[0] is one of the users that were found.
LEMMA FirstOf ==
  ASSUME NEW q, NEW S \in SUBSET UserIds, S # {}
  PROVE  First(q, S) \in S
  <1>1. UserIds \subseteq Nat
    BY DEF UserIds
  <1>2. CASE S \cap request[q].byEmail # {}
    <2>1. Min(S \cap request[q].byEmail) \in S \cap request[q].byEmail
      BY <1>1, <1>2, MinOf
    <2> QED BY <1>2, <2>1 DEF First
  <1>3. CASE S \cap request[q].byEmail = {}
    BY <1>1, <1>3, MinOf DEF First
  <1> QED BY <1>2, <1>3

\* A request that has ended refers to nothing.
LEMMA IdleType == Idle \in Request /\ RequestOK(Idle)
  BY DEF Idle, Request, RequestOK

-----------------------------------------------------------------------------
(* Merging *)

\* A map of users to the users they are merged into.
IntoOK(into) == into \in [UserIds -> UserIds] /\ \A u \in UserIds : into[into[u]] = into[u]

\* Where a connection ends up stays, and is linked to the same Google account.
LEMMA TargetOf ==
  ASSUME Tables, NEW into, IntoOK(into), NEW c \in ConnectionIds, connections[c] # Absent
  PROVE  /\ Target(into, c) \in ConnectionIds
         /\ connections[Target(into, c)] # Absent
         /\ connections[Target(into, c)].sub = connections[c].sub
         /\ into[connections[Target(into, c)].user] = into[connections[c].user]
         /\ Target(into, Target(into, c)) = Target(into, c)
  <1>1. connections[c].user \in UserIds
    BY DEF Tables, TypeOK, Connection
  <1>2. CASE Moves(into, c) /\ Existing(into, c) # {}
    <2>1. Target(into, c) \in Existing(into, c)
      BY <1>2 DEF Target
    <2>2. connections[Target(into, c)].user = into[connections[c].user]
      BY <2>1 DEF Existing
    <2>3. ~Moves(into, Target(into, c))
      BY <1>1, <2>2 DEF Moves, IntoOK
    <2>4. Target(into, Target(into, c)) = Target(into, c)
      BY <2>3 DEF Target
    <2> QED BY <1>1, <2>1, <2>2, <2>4 DEF Existing, IntoOK
  <1>3. CASE ~(Moves(into, c) /\ Existing(into, c) # {})
    BY <1>3 DEF Target
  <1> QED BY <1>2, <1>3

\* What the merge reads fits the connection it will be copied to.
LEMMA CopyOf ==
  ASSUME Tables, NEW into, IntoOK(into)
  PROVE  CopiedOK(Copy(into))
  <1> DEFINE read(e) == {tokens[c] : c \in Donors(into, e)} \ {Absent}
             copy(e) == IF read(e) = {} THEN Absent ELSE CHOOSE t \in read(e) : TRUE
  <1>1. Copy(into).tokens = [e \in ConnectionIds |-> copy(e)]
    BY DEF Copy
  <1>2. Copy(into).listed \subseteq ConnectionIds /\ Copy(into) = [tokens |-> Copy(into).tokens, listed |-> Copy(into).listed]
    BY DEF Copy
  <1>3. ASSUME NEW e \in ConnectionIds, copy(e) # Absent
        PROVE  copy(e) \in Subs /\ Fits(copy(e), e)
    <2>1. copy(e) \in read(e)
      BY <1>3
    <2>2. PICK c \in Donors(into, e) : copy(e) = tokens[c] /\ tokens[c] # Absent
      BY <2>1
    <2>3. c \in ConnectionIds /\ connections[c] # Absent /\ Target(into, c) = e
      BY <2>2 DEF Donors
    <2>4. copy(e) \in Subs /\ copy(e) = connections[c].sub
      BY <2>2, <2>3 DEF Tables, TypeOK, TokensFit
    <2>5. connections[e] # Absent /\ connections[e].sub = connections[c].sub
      BY <2>3, TargetOf
    <2> QED BY <2>4, <2>5 DEF Fits, Tables, TypeOK
  <1>6. ASSUME NEW e \in Copy(into).listed PROVE e \in ConnectionIds /\ copy(e) # Absent
    <2>1. PICK c \in Donors(into, e) : c \in listed
      BY <1>6 DEF Copy
    <2>2. tokens[c] \in read(e)
      BY <2>1 DEF Tables, CalendarsHaveToken
    <2>3. copy(e) \in read(e)
      BY <2>2
    <2> QED BY <1>2, <1>6, <2>3
  <1> HIDE DEF copy
  <1>4. Copy(into).tokens \in [ConnectionIds -> Subs \cup {Absent}]
    BY <1>1, <1>3
  <1>5. Copy(into) \in Copied
    BY <1>2, <1>4 DEF Copied
  <1> QED BY <1>1, <1>3, <1>5, <1>6 DEF CopiedOK

\* A merge leaves connections of the same Google accounts, with tokens that
\* fit, and rules that refer to what stays.
LEMMA MergeTables ==
  ASSUME Tables, NEW into, IntoOK(into), NEW copied, CopiedOK(copied), NEW moved, NEW row \in [UserIds -> User \cup {Absent}],
         \A u \in UserIds : Exists(u) => row[into[u]] # Absent,
         \A u \in UserIds : into[u] = u /\ row[u] # Absent => u <= lastUser,
         mergeUsers(into, copied, moved, row),
         UNCHANGED <<lastUser, lastConnection>>, migrated' \in BOOLEAN, states' \subseteq UserIds
  PROVE  /\ Tables'
         /\ \A c \in ConnectionIds : connections'[c] # Absent =>
              /\ connections[c] # Absent /\ connections'[c].sub = connections[c].sub
              /\ tokens[c] # Absent => tokens'[c] # Absent
  <1> DEFINE Stays(c) == connections[c] # Absent /\ Target(into, c) = c
  <1>1. /\ connections' = [c \in ConnectionIds |->
                             IF Stays(c) THEN [connections[c] EXCEPT !.user = into[@]] ELSE Absent]
        /\ tokens' = [c \in ConnectionIds |->
                        IF ~Stays(c) THEN Absent
                        ELSE IF copied.tokens[c] # Absent THEN copied.tokens[c] ELSE tokens[c]]
        /\ listed' = {c \in listed \cup copied.listed : Stays(c)}
        /\ users' = [u \in UserIds |-> IF into[u] = u THEN row[u] ELSE Absent]
        /\ rules' = [r \in RuleIds |->
                   IF rules[r] = Absent \/ (Folded(into, r) /\ r \notin moved) THEN Absent
                   ELSE [user   |-> into[rules[r].user],
                         source |-> Target(into, rules[r].source),
                         target |-> Target(into, rules[r].target)]]
    BY DEF mergeUsers
  <1>2. ASSUME NEW c \in ConnectionIds, Stays(c)
        PROVE  /\ connections'[c] \in Connection /\ connections[c] \in Connection
               /\ connections'[c].user = into[connections[c].user]
               /\ connections'[c].sub = connections[c].sub
    BY <1>1, <1>2 DEF Tables, TypeOK, Connection, IntoOK
  <1>3. \A c \in ConnectionIds : ~Stays(c) => connections'[c] = Absent /\ tokens'[c] = Absent
    BY <1>1
  <1>4. ASSUME NEW c \in ConnectionIds, Stays(c)
        PROVE  tokens'[c] # Absent => tokens'[c] \in Subs /\ tokens'[c] = connections[c].sub
    <2>1. tokens'[c] = IF copied.tokens[c] # Absent THEN copied.tokens[c] ELSE tokens[c]
      BY <1>1, <1>4
    <2>2. copied.tokens[c] # Absent => copied.tokens[c] \in Subs /\ copied.tokens[c] = connections[c].sub
      BY <1>4 DEF CopiedOK, Fits, Copied
    <2>3. tokens[c] # Absent => tokens[c] \in Subs /\ tokens[c] = connections[c].sub
      BY DEF Tables, TypeOK, TokensFit
    <2> QED BY <2>1, <2>2, <2>3
  <1>5. ASSUME NEW r \in RuleIds, rules'[r] # Absent, NEW side \in {"source", "target"}
        PROVE  /\ rules'[r].user \in UserIds /\ users'[rules'[r].user] # Absent
               /\ rules'[r][side] \in ConnectionIds /\ connections'[rules'[r][side]] # Absent
    <2>1. rules[r] \in Rule /\ rules[r].user \in UserIds /\ rules[r][side] \in ConnectionIds
      BY <1>1, <1>5 DEF Tables, TypeOK, Rule
    <2>2. connections[rules[r][side]] # Absent /\ Exists(rules[r].user)
      BY <1>1, <1>5, <2>1 DEF Tables, TypeOK, RulesRefer
    <2>3. rules'[r].user = into[rules[r].user] /\ rules'[r][side] = Target(into, rules[r][side])
      BY <1>1, <1>5
    <2>4. Stays(rules'[r][side]) /\ rules'[r][side] \in ConnectionIds
      BY <2>1, <2>2, <2>3, TargetOf
    <2>5. into[rules[r].user] \in UserIds /\ users'[into[rules[r].user]] # Absent
      BY <1>1, <2>1, <2>2 DEF IntoOK
    <2> QED BY <1>2, <2>3, <2>4, <2>5
  <1> HIDE DEF Stays
  <1>6. RulesRefer'
    BY <1>5 DEF RulesRefer, Exists
  <1>7. TokensFit'
    BY <1>2, <1>3, <1>4 DEF TokensFit
  <1>8. TypeOK'
    <2>1. users' \in [UserIds -> User \cup {Absent}]
      BY <1>1
    <2>2. connections' \in [ConnectionIds -> Connection \cup {Absent}]
      BY <1>1, <1>2
    <2>3. rules' \in [RuleIds -> Rule \cup {Absent}]
      <3> SUFFICES ASSUME NEW r \in RuleIds, rules'[r] # Absent PROVE rules'[r] \in Rule
        BY <1>1
      <3>1. rules'[r] = [user |-> rules'[r].user, source |-> rules'[r].source, target |-> rules'[r].target]
        BY <1>1
      <3>2. rules'[r].user \in UserIds /\ rules'[r]["source"] \in ConnectionIds /\ rules'[r]["target"] \in ConnectionIds
        BY <1>5
      <3> QED BY <3>1, <3>2 DEF Rule
    <2>4. tokens' \in [ConnectionIds -> Subs \cup {Absent}]
      BY <1>1, <1>3, <1>4
    <2>5. listed' \subseteq ConnectionIds
      BY <1>1 DEF Tables, TypeOK, CopiedOK, Copied
    <2>6. \A u \in UserIds : users'[u] # Absent => u <= lastUser'
      BY <1>1
    <2>7. ASSUME NEW c \in ConnectionIds, connections'[c] # Absent
          PROVE  c <= lastConnection' /\ users'[connections'[c].user] # Absent
      <3>1. Stays(c) /\ connections[c] # Absent
        BY <1>3, <2>7 DEF Stays
      <3>2. connections[c].user \in UserIds /\ Exists(connections[c].user) /\ c <= lastConnection
        BY <1>2, <3>1 DEF Tables, TypeOK, Connection
      <3> QED BY <1>1, <1>2, <3>1, <3>2 DEF IntoOK
    <2> QED BY <1>6, <2>1, <2>2, <2>3, <2>4, <2>5, <2>6, <2>7 DEF TypeOK, Tables, Exists
  <1>9. CalendarsHaveToken'
    <2> SUFFICES ASSUME NEW c \in listed' PROVE tokens'[c] # Absent
      BY DEF CalendarsHaveToken
    <2>1. c \in listed \cup copied.listed /\ Stays(c) /\ c \in ConnectionIds
      BY <1>1 DEF Tables, TypeOK, CopiedOK, Copied
    <2>2. tokens'[c] = IF copied.tokens[c] # Absent THEN copied.tokens[c] ELSE tokens[c]
      BY <1>1, <2>1
    <2> QED BY <2>1, <2>2 DEF Tables, CalendarsHaveToken, CopiedOK
  <1>10. ASSUME NEW c \in ConnectionIds, Stays(c), tokens[c] # Absent PROVE tokens'[c] # Absent
    BY <1>1, <1>10
  <1> QED BY <1>2, <1>3, <1>6, <1>7, <1>8, <1>9, <1>10 DEF Tables, Stays

-----------------------------------------------------------------------------
(* Requests *)

\* IDs only grow, and a connection never gets another Google account.
Grow ==
    /\ lastUser <= lastUser' /\ lastConnection <= lastConnection'
    /\ \A c \in ConnectionIds : connections'[c] # Absent =>
         \/ c > lastConnection
         \/ /\ connections[c] # Absent /\ connections'[c].sub = connections[c].sub
            /\ tokens[c] # Absent => tokens'[c] # Absent

\* What a request keeps depends on where it is.
LEMMA AtKinds ==
  ASSUME NEW r \in Request
  PROVE  /\ r.at = "locking" => r \in Locking
         /\ r.at = "merging" => r \in Merging
         /\ r.at = "signed in" => r \in Signed
         /\ r.at = "linked" => r \in Linked
         /\ r.at = "stored" => r \in Stored
  <1>1. Idle.at = "idle"
    BY DEF Idle
  <1>2. r \in Locking => r.at = "locking"
    BY DEF Locking
  <1>3. r \in Merging => r.at = "merging"
    BY DEF Merging
  <1>4. r \in Signed => r.at = "signed in"
    BY DEF Signed
  <1>5. r \in Linked => r.at = "linked"
    BY DEF Linked
  <1>6. r \in Stored => r.at = "stored"
    BY DEF Stored
  <1> QED BY <1>1, <1>2, <1>3, <1>4, <1>5, <1>6 DEF Request

\* The last IDs are numbers within their bounds.
LEMMA NumberTypes ==
  ASSUME Tables
  PROVE  lastUser \in Nat /\ lastConnection \in Nat
  BY DEF Tables, TypeOK

\* Tables that stay as they are have grown by nothing.
LEMMA GrowSame ==
  ASSUME Tables, UNCHANGED <<connections, tokens, lastUser, lastConnection>>
  PROVE  Grow
  BY NumberTypes DEF Grow

\* What fits a connection, and that it has a token, outlasts other steps.
LEMMA FitsStays ==
  ASSUME IInv, Grow, lastConnection' \in Nat, NEW c \in ConnectionIds
  PROVE  /\ \A token : Fits(token, c) => Fits(token, c)'
         /\ HasToken(c) => HasToken(c)'
  <1> SUFFICES ASSUME c <= lastConnection
               PROVE  /\ \A token : Fits(token, c) => Fits(token, c)'
                      /\ HasToken(c) => HasToken(c)'
    BY DEF Fits, HasToken
  <1>1. c \in Nat /\ lastConnection \in Nat /\ c <= lastConnection
    BY NumberTypes DEF IInv, ConnectionIds
  <1>2. c <= lastConnection' /\ ~(c > lastConnection)
    BY <1>1 DEF Grow
  <1> QED BY <1>2 DEF Fits, HasToken, Grow

\* What a request keeps stays true whatever the others do.
LEMMA RequestStays ==
  ASSUME IInv, Grow, lastConnection' \in Nat, lastUser' \in Nat, NEW r \in Request, RequestOK(r)
  PROVE  RequestOK(r)'
  <1>1. ASSUME r.at \in {"locking", "merging"}, NEW u \in r.locked PROVE u <= lastUser'
    <2>1. r \in Locking \/ r \in Merging
      BY <1>1, AtKinds
    <2>2. u \in Nat
      BY <1>1, <2>1 DEF Locking, Merging, UserIds
    <2>3. u <= lastUser /\ lastUser \in Nat
      BY <1>1, NumberTypes DEF RequestOK, IInv
    <2> QED BY <2>2, <2>3 DEF Grow
  <1>2. ASSUME r.at = "merging" PROVE CopiedOK(r.copied)'
    BY <1>2, FitsStays DEF RequestOK, CopiedOK
  <1>3. ASSUME r.at = "linked" PROVE Fits(r.sub, r.connection)'
    <2>1. r.connection \in ConnectionIds
      BY <1>3, AtKinds DEF Linked
    <2> QED BY <1>3, <2>1, FitsStays DEF RequestOK
  <1>4. r.at = "merging" => r.locked # {}
    BY DEF RequestOK
  <1>5. ASSUME r.at = "stored" PROVE HasToken(r.connection)'
    <2>1. r.connection \in ConnectionIds
      BY <1>5, AtKinds DEF Stored
    <2> QED BY <1>5, <2>1, FitsStays DEF RequestOK
  <1> QED BY <1>1, <1>2, <1>3, <1>4, <1>5 DEF RequestOK

\* A step that lets tables grow and changes one request.
LEMMA RequestStep ==
  ASSUME IInv, Grow, lastConnection' \in Nat, lastUser' \in Nat,
         NEW q \in Requests, NEW r \in Request, RequestOK(r)', request' = [request EXCEPT ![q] = r]
  PROVE  RequestsOK'
  <1>1. request' \in [Requests -> Request]
    BY DEF IInv, RequestsOK
  <1>2. ASSUME NEW p \in Requests PROVE RequestOK(request[p])' 
    <2>1. PICK old : old = request[p]
      OBVIOUS
    <2>2. old \in Request /\ RequestOK(old)
      BY <2>1 DEF IInv, RequestsOK
    <2>3. RequestOK(old)'
      BY <2>2, RequestStays
    <2>4. request'[p] = IF p = q THEN r ELSE old
      BY <2>1 DEF IInv, RequestsOK
    <2> QED BY <2>3, <2>4 DEF RequestOK, CopiedOK, Fits, HasToken
  <1> QED BY <1>1, <1>2 DEF RequestsOK

\* A step that changes no table.
LEMMA RequestOnly ==
  ASSUME IInv, UNCHANGED tables, migrated' \in BOOLEAN, states' \subseteq UserIds,
         NEW q \in Requests, NEW r \in Request, RequestOK(r), request' = [request EXCEPT ![q] = r]
  PROVE  IInv'
  <1>1. Grow
    <2>1. lastUser \in Nat /\ lastConnection \in Nat
      BY NumberTypes DEF IInv
    <2> QED BY <2>1 DEF Grow, tables
  <1>2. Tables'
    BY DEF Tables, IInv, TypeOK, RulesRefer, TokensFit, CalendarsHaveToken, tables, Exists
  <1>3. RequestOK(r)'
    BY DEF RequestOK, CopiedOK, Fits, HasToken, tables
  <1>4. lastUser' \in Nat /\ lastConnection' \in Nat
    BY NumberTypes DEF IInv, tables
  <1> QED BY <1>1, <1>2, <1>3, <1>4, RequestStep DEF IInv

\* A step that ends the request.
LEMMA EndStep ==
  ASSUME IInv, NEW q \in Requests, End(q), Tables', Grow
  PROVE  IInv'
  <1>1. request' = [request EXCEPT ![q] = Idle] /\ RequestOK(Idle)'
    BY DEF End, Set, Idle, RequestOK
  <1>2. lastUser' \in Nat /\ lastConnection' \in Nat
    BY DEF Tables, TypeOK
  <1> QED BY <1>1, <1>2, IdleType, RequestStep DEF IInv

\* What a request keeps, by where it is.
LEMMA AtTypes ==
  ASSUME IInv, NEW q \in Requests
  PROVE  /\ Is(q, "locking") => request[q] \in Locking
         /\ Is(q, "merging") => request[q] \in Merging
         /\ Is(q, "signed in") => request[q] \in Signed
         /\ Is(q, "linked") => request[q] \in Linked
         /\ Is(q, "stored") => request[q] \in Stored
         /\ RequestOK(request[q])
  <1>1. request[q] \in Request /\ RequestOK(request[q])
    BY DEF IInv, RequestsOK
  <1> QED BY <1>1, AtKinds DEF Is

-----------------------------------------------------------------------------
(* Migration and sign-in *)

\* The migration merges users into users that stay.
LEMMA OldestOf == IntoOK(Oldest) /\ \A u \in UserIds : Exists(u) => Exists(Oldest[u])
  <1>1. ASSUME NEW u \in UserIds, Exists(u)
        PROVE  Oldest[u] \in UserIds /\ Exists(Oldest[u]) /\ users[Oldest[u]].email = users[u].email
    <2>1. u \in WithEmail(users[u].email) /\ WithEmail(users[u].email) \subseteq Nat
      BY <1>1 DEF WithEmail, UserIds
    <2>2. Oldest[u] \in WithEmail(users[u].email)
      BY <1>1, <2>1, MinOf DEF Oldest
    <2> QED BY <2>2 DEF WithEmail
  <1>2. ASSUME NEW u \in UserIds, ~Exists(u) PROVE Oldest[u] = u
    BY <1>2 DEF Oldest
  <1>3. Oldest \in [UserIds -> UserIds]
    BY <1>1, <1>2 DEF Oldest
  <1>4. ASSUME NEW u \in UserIds PROVE Oldest[Oldest[u]] = Oldest[u]
    <2>1. CASE Exists(u)
      BY <1>1, <2>1 DEF Oldest
    <2> QED BY <1>2, <2>1
  <1> QED BY <1>1, <1>3, <1>4 DEF IntoOK

\* Migration 0002 keeps the invariant.
LEMMA MigrateStep ==
  ASSUME IInv, Migrate
  PROVE  IInv'
  <1> USE DEF IInv
  <1>1. IntoOK(Oldest)
    BY OldestOf
  <1>2. \A u \in UserIds : Exists(u) => users[Oldest[u]] # Absent
    BY OldestOf DEF Exists
  <1>3. /\ users \in [UserIds -> User \cup {Absent}]
        /\ \A u \in UserIds : users[u] # Absent => u <= lastUser
        /\ states \subseteq UserIds
    BY DEF Tables, TypeOK, Exists
  <1>4. /\ mergeUsers(Oldest, Copy(Oldest), RuleIds, users) /\ migrated' = TRUE
        /\ UNCHANGED <<lastUser, lastConnection, states, request>>
    BY DEF Migrate
  <1>5. /\ Tables'
        /\ \A c \in ConnectionIds : connections'[c] # Absent =>
             /\ connections[c] # Absent /\ connections'[c].sub = connections[c].sub
             /\ tokens[c] # Absent => tokens'[c] # Absent
    <2> HIDE DEF IInv
    <2>1. CopiedOK(Copy(Oldest)) /\ Tables
      BY <1>1, CopyOf DEF IInv
    <2> QED BY <1>1, <1>2, <1>3, <1>4, <2>1, MergeTables
  <1>6. Grow
    BY <1>4, <1>5, NumberTypes DEF Grow
  <1>7. RequestsOK'
    <2> SUFFICES ASSUME NEW p \in Requests PROVE RequestOK(request[p])'
      BY <1>4 DEF RequestsOK
    <2>1. PICK old : old = request[p]
      OBVIOUS
    <2>2. RequestOK(old)'
      BY <1>4, <1>6, <2>1, NumberTypes, RequestStays DEF RequestsOK
    <2> QED BY <1>4, <2>1, <2>2 DEF RequestOK, CopiedOK, Fits, HasToken
  <1> QED BY <1>5, <1>7

\* The steps of a sign-in that write no user keep the invariant.
LEMMA SignInSteps ==
  ASSUME IInv, NEW q \in Requests,
         \/ \E i \in Identities : SignIn(q, i[1], i[2])
         \/ LockRow(q) \/ BeginMerge(q) \/ MoveRules(q) \/ SignInFails(q) \/ Deadlock(q)
  PROVE  IInv'
  <1> USE DEF IInv
  <1>0. migrated \in BOOLEAN /\ states \subseteq UserIds
    BY DEF Tables, TypeOK
  <1>1. CASE \E i \in Identities : SignIn(q, i[1], i[2])
    <2>1. PICK i \in Identities : SignIn(q, i[1], i[2])
      BY <1>1
    <2>2. PICK r : r = [at |-> "locking", external |-> i[1], email |-> i[2], byEmail |-> WithEmail(i[2]),
                        left |-> WithEmail(i[2]) \cup WithExternal(i[1]), locked |-> {}]
      OBVIOUS
    <2>3. r \in Locking
      BY <2>2 DEF Locking, ExternalIds, Emails, WithEmail, WithExternal
    <2>4. r \in Request /\ RequestOK(r)
      BY <2>2, <2>3 DEF Request, RequestOK
    <2>5. request' = [request EXCEPT ![q] = r] /\ UNCHANGED <<tables, migrated, states>>
      BY <2>1, <2>2 DEF SignIn, Set
    <2> QED BY <1>0, <2>4, <2>5, RequestOnly
  <1>2. CASE LockRow(q)
    <2> DEFINE u == First(q, request[q].left)
               matches == /\ Exists(u)
                          /\ users[u].email = request[q].email \/ users[u].external = request[q].external
    <2>1. request[q] \in Locking /\ request[q].left # {} /\ RequestOK(request[q])
      BY <1>2, AtTypes DEF LockRow
    <2>2. u \in UserIds
      BY <2>1, FirstOf DEF Locking
    <2>3. matches => u <= lastUser
      BY <2>2 DEF Tables, TypeOK
    <2>4. PICK r : r = [request[q] EXCEPT !.left = @ \ {u}, !.locked = IF matches THEN @ \cup {u} ELSE @]
      OBVIOUS
    <2>5. request' = [request EXCEPT ![q] = r]
      BY <1>2, <2>1, <2>4 DEF LockRow, RequestsOK, Locking
    <2> HIDE DEF matches, u
    <2>6. r \in Locking
      BY <2>1, <2>2, <2>4 DEF Locking
    <2>7. RequestOK(r)
      BY <2>1, <2>3, <2>4, <2>6 DEF RequestOK, Locking
    <2>8. r \in Request /\ UNCHANGED <<tables, migrated, states>>
      BY <1>2, <2>6 DEF Request, LockRow
    <2> QED BY <1>0, <2>5, <2>7, <2>8, RequestOnly
  <1>3. CASE BeginMerge(q)
    <2>1. /\ request[q] \in Locking /\ RequestOK(request[q]) /\ Locks(q) # {} /\ Locks(q) = request[q].locked
      BY <1>3, AtTypes DEF BeginMerge, Found, Locks, Is
    <2>2. IntoOK(Into(q))
      <3>1. Canonical(q) \in Locks(q) /\ Locks(q) \subseteq UserIds
        BY <2>1, FirstOf DEF Canonical, Locking
      <3> QED BY <3>1 DEF Into, IntoOK
    <2>3. PICK r : r = [at |-> "merging", external |-> request[q].external, email |-> request[q].email,
               byEmail |-> request[q].byEmail \cap Locks(q), locked |-> Locks(q), copied |-> Copy(Into(q)),
               moved |-> Absent,
               tokened |-> {c \in ConnectionIds : tokens[c] # Absent
                                                  /\ connections[c].user \in Locks(q)}]
      OBVIOUS
    <2>4. CopiedOK(Copy(Into(q)))
      BY <2>2, CopyOf
    <2>5. r \in Merging
      BY <2>1, <2>3, <2>4 DEF Merging, Locking, CopiedOK
    <2>6. RequestOK(r)
      <3>1. r.at = "merging" /\ r.locked = Locks(q) /\ r.copied = Copy(Into(q))
        BY <2>3
      <3>2. \A u \in Locks(q) : u <= lastUser
        BY <1>3, <2>1 DEF RequestOK, BeginMerge, Found, Is
      <3> QED BY <2>1, <2>4, <3>1, <3>2 DEF RequestOK
    <2>7. request' = [request EXCEPT ![q] = r] /\ UNCHANGED <<tables, migrated, states>>
      BY <1>3, <2>3 DEF BeginMerge, Set
    <2> QED BY <1>0, <2>5, <2>6, <2>7, RequestOnly DEF Request
  <1>4. CASE SignInFails(q) \/ Deadlock(q)
    <2>1. request' = [request EXCEPT ![q] = Idle] /\ UNCHANGED <<tables, migrated, states>>
      BY <1>4 DEF SignInFails, Deadlock, End, Set
    <2> QED BY <1>0, <2>1, IdleType, RequestOnly
  <1>5. CASE MoveRules(q)
    <2>1. request[q] \in Merging /\ RequestOK(request[q])
      BY <1>5, AtTypes DEF MoveRules
    <2>2. PICK r : r = [request[q] EXCEPT !.moved = {k \in RuleIds : Folded(Into(q), k)}]
      OBVIOUS
    <2>3. request' = [request EXCEPT ![q] = r] /\ UNCHANGED <<tables, migrated, states>>
      BY <1>5, <2>1, <2>2 DEF MoveRules
    <2>4. r \in Merging /\ r.at = request[q].at /\ r.locked = request[q].locked /\ r.copied = request[q].copied
      BY <2>1, <2>2 DEF Merging
    <2>5. RequestOK(r)
      BY <2>1, <2>4 DEF RequestOK, Merging
    <2> QED BY <1>0, <2>3, <2>4, <2>5, RequestOnly DEF Request
  <1> QED BY <1>1, <1>2, <1>3, <1>4, <1>5

\* The new row of the user that signs in.
LEMMA UpdateStep ==
  ASSUME IInv, NEW q \in Requests, UpdateUser(q)
  PROVE  IInv'
  <1> DEFINE new == [external |-> request[q].external, email |-> request[q].email]
             row == [users EXCEPT ![Canonical(q)] = new]
             into == Into(q)
  <1>1. /\ request[q] \in Merging /\ RequestOK(request[q]) /\ request[q].at = "merging"
        /\ Locks(q) = request[q].locked /\ Locks(q) \subseteq UserIds /\ Locks(q) # {}
    BY AtTypes DEF UpdateUser, Locks, Is, Merging, RequestOK
  <1>2. Canonical(q) \in Locks(q)
    BY <1>1, FirstOf DEF Canonical
  <1>3. IntoOK(into)
    BY <1>1, <1>2 DEF Into, IntoOK
  <1>4. new \in User
    BY <1>1 DEF Merging, User
  <1>5. row \in [UserIds -> User \cup {Absent}] /\ row[Canonical(q)] = new /\ new # Absent
    BY <1>1, <1>2, <1>4 DEF IInv, Tables, TypeOK
  <1>6. \A u \in UserIds : Exists(u) => row[into[u]] # Absent
    BY <1>1, <1>2, <1>5 DEF Into, Exists, IInv, Tables, TypeOK
  <1>7. \A u \in UserIds : into[u] = u /\ row[u] # Absent => u <= lastUser
    BY <1>1, <1>2 DEF RequestOK, Exists, IInv, Tables, TypeOK
  <1>8. /\ mergeUsers(into, request[q].copied, request[q].moved, row)
        /\ SignedIn(q, Canonical(q))
        /\ UNCHANGED <<lastUser, lastConnection, migrated, states>>
    BY DEF UpdateUser
  <1>9. CopiedOK(request[q].copied)
    BY <1>1 DEF RequestOK
  <1>10. migrated' \in BOOLEAN /\ states' \subseteq UserIds
    BY <1>8 DEF IInv, Tables, TypeOK
  <1> HIDE DEF row, into
  <1>11. /\ Tables'
         /\ \A c \in ConnectionIds : connections'[c] # Absent =>
              /\ connections[c] # Absent /\ connections'[c].sub = connections[c].sub
              /\ tokens[c] # Absent => tokens'[c] # Absent
    <2>1. Tables
      BY DEF IInv
    <2> QED BY <1>3, <1>5, <1>6, <1>7, <1>8, <1>9, <1>10, <2>1, MergeTables
  <1>12. Grow
    BY <1>8, <1>11, NumberTypes DEF Grow, IInv
  <1>13. PICK r : r = [at |-> "signed in", user |-> Canonical(q)]
    OBVIOUS
  <1>14. r \in Request /\ RequestOK(r)'
    <2>1. r \in Signed
      BY <1>1, <1>2, <1>13 DEF Signed
    <2> QED BY <1>13, <2>1 DEF Request, RequestOK
  <1>15. request' = [request EXCEPT ![q] = r]
    BY <1>8, <1>13 DEF SignedIn, Set
  <1>16. lastUser' \in Nat /\ lastConnection' \in Nat
    BY <1>11, NumberTypes DEF Tables, TypeOK
  <1>17. RequestsOK'
    BY <1>12, <1>14, <1>15, <1>16, RequestStep
  <1> QED BY <1>11, <1>17 DEF IInv

\* A new user keeps the invariant.
LEMMA InsertStep ==
  ASSUME IInv, NEW q \in Requests, InsertUser(q)
  PROVE  IInv'
  <1> DEFINE same == WithExternal(request[q].external)
  <1>1. request[q] \in Locking /\ RequestOK(request[q])
    BY AtTypes DEF InsertUser
  <1>2. PICK u \in IF same # {} THEN same ELSE {lastUser + 1} :
            /\ u <= MaxUsers
            /\ users' = [users EXCEPT ![u] = [external |-> request[q].external,
                                              email    |-> request[q].email]]
            /\ lastUser' = Max({u, lastUser})
            /\ SignedIn(q, u)
    BY DEF InsertUser
  <1>3. UNCHANGED <<connections, rules, tokens, listed, lastConnection, migrated, states>>
    BY DEF InsertUser
  <1>4. lastUser \in Nat /\ lastUser <= MaxUsers /\ lastConnection \in Nat
    BY DEF IInv, Tables, TypeOK
  <1>5. u \in UserIds /\ u \in Nat
    BY <1>2, <1>4 DEF UserIds, WithExternal
  <1>6. lastUser' \in 0 .. MaxUsers /\ lastUser <= lastUser' /\ u <= lastUser'
    BY <1>2, <1>4, <1>5, MaxOfTwo
  <1>7. [external |-> request[q].external, email |-> request[q].email] \in User
    BY <1>1 DEF Locking, User
  <1>8. users' \in [UserIds -> User \cup {Absent}] /\ \A v \in UserIds : v # u => users'[v] = users[v]
    BY <1>2, <1>5, <1>7 DEF IInv, Tables, TypeOK
  <1>9. users'[u] # Absent
    BY <1>2, <1>5, <1>7 DEF IInv, Tables, TypeOK
  <1>10. Tables'
    <2>1. \A v \in UserIds : users'[v] # Absent => v <= lastUser'
      <3> TAKE v \in UserIds
      <3>1. v \in Nat
        BY DEF UserIds
      <3> QED BY <1>4, <1>6, <1>8, <3>1 DEF IInv, Tables, TypeOK, Exists
    <2>2. \A c \in ConnectionIds : connections[c] # Absent =>
            c <= lastConnection /\ users'[connections[c].user] # Absent
      <3> TAKE c \in ConnectionIds
      <3> HAVE connections[c] # Absent
      <3>1. connections[c].user \in UserIds /\ users[connections[c].user] # Absent /\ c <= lastConnection
        BY DEF IInv, Tables, TypeOK, Connection, Exists
      <3> QED BY <1>8, <1>9, <3>1
    <2>4. RulesRefer'
      <3>1. \A r \in RuleIds : rules[r] # Absent => rules[r] \in Rule /\ rules[r].user \in UserIds
        BY DEF IInv, Tables, TypeOK, Rule
      <3>2. \A v \in UserIds : users[v] # Absent => users'[v] # Absent
        BY <1>8, <1>9
      <3> QED BY <1>3, <3>1, <3>2 DEF IInv, Tables, TypeOK, RulesRefer, Exists
    <2>3. TypeOK'
      BY <1>3, <1>6, <1>8, <2>1, <2>2, <2>4 DEF IInv, Tables, TypeOK, Exists
    <2> QED BY <1>3, <2>3 DEF IInv, Tables, TokensFit, CalendarsHaveToken
  <1>11. Grow
    BY <1>3, <1>4, <1>6 DEF Grow
  <1>12. PICK r : r = [at |-> "signed in", user |-> u]
    OBVIOUS
  <1>13. r \in Request /\ RequestOK(r)'
    <2>1. r \in Signed
      BY <1>5, <1>12 DEF Signed
    <2> QED BY <1>12, <2>1 DEF Request, RequestOK
  <1>14. request' = [request EXCEPT ![q] = r]
    BY <1>2, <1>12 DEF SignedIn, Set
  <1>15. RequestsOK'
    <2>1. lastUser' \in Nat /\ lastConnection' \in Nat
      BY <1>3, <1>4, <1>6
    <2> QED BY <1>11, <1>13, <1>14, <2>1, RequestStep
  <1> QED BY <1>10, <1>15 DEF IInv

-----------------------------------------------------------------------------
(* Linking *)

\* A callback that creates or finds a connection keeps the invariant.
LEMMA CallbackStep ==
  ASSUME IInv, NEW q \in Requests, NEW u \in UserIds, NEW sub \in Subs, Callback(q, u, sub)
  PROVE  IInv'
  <1>1. PICK c \in LinkedTo(u, sub) :
         /\ c > lastConnection => ~Locked(u) /\ c <= MaxConnections
         /\ connections' = [connections EXCEPT ![c] = [user |-> u, sub |-> sub]]
         /\ lastConnection' = Max({c, lastConnection})
         /\ Set(q, [at |-> "linked", connection |-> c, sub |-> sub])
    BY DEF Callback
  <1>2. /\ UNCHANGED <<users, rules, tokens, listed, lastUser, migrated, states>>
        /\ Exists(u)
    BY DEF Callback
  <1>3. lastConnection \in Nat /\ lastConnection <= MaxConnections /\ lastUser \in Nat
    BY DEF IInv, Tables, TypeOK
  <1>4. \/ c \in ConnectionIds /\ connections[c] # Absent /\ connections[c].user = u /\ connections[c].sub = sub
        \/ c = lastConnection + 1
    BY DEF LinkedTo, Own
  <1>5. c \in ConnectionIds /\ c \in Nat
    BY <1>1, <1>3, <1>4 DEF ConnectionIds
  <1>6. lastConnection' \in 0 .. MaxConnections /\ lastConnection <= lastConnection' /\ c <= lastConnection'
    BY <1>1, <1>3, <1>5, MaxOfTwo DEF ConnectionIds
  <1>7. /\ connections' \in [ConnectionIds -> Connection \cup {Absent}]
        /\ connections'[c] = [user |-> u, sub |-> sub] /\ connections'[c] \in Connection
        /\ \A d \in ConnectionIds : d # c => connections'[d] = connections[d]
    BY <1>1, <1>5 DEF IInv, Tables, TypeOK, Connection
  <1>8. connections[c] = Absent \/ (connections[c].user = u /\ connections[c].sub = sub)
    <2>1. c = lastConnection + 1 => connections[c] = Absent
      BY <1>3, <1>5 DEF IInv, Tables, TypeOK
    <2> QED BY <1>4, <2>1
  <1>9. Tables'
    <2>1. \A d \in ConnectionIds : connections'[d] # Absent =>
            d <= lastConnection' /\ users'[connections'[d].user] # Absent
      <3> TAKE d \in ConnectionIds
      <3>1. CASE d = c
        BY <1>2, <1>6, <1>7, <3>1 DEF Exists
      <3>2. CASE d # c
        <4>1. d \in Nat
          BY DEF ConnectionIds
        <4> QED BY <1>2, <1>3, <1>6, <1>7, <3>2, <4>1 DEF IInv, Tables, TypeOK, Exists
      <3> QED BY <3>1, <3>2
    <2>3. RulesRefer'
      <3>1. \A r \in RuleIds : rules[r] # Absent =>
              rules[r] \in Rule /\ rules[r].source \in ConnectionIds /\ rules[r].target \in ConnectionIds
        BY DEF IInv, Tables, TypeOK, Rule
      <3>2. \A d \in ConnectionIds : connections[d] # Absent => connections'[d] # Absent
        BY <1>7
      <3> QED BY <1>2, <3>1, <3>2 DEF IInv, Tables, TypeOK, RulesRefer, Exists
    <2>2. TypeOK'
      BY <1>2, <1>6, <1>7, <2>1, <2>3 DEF IInv, Tables, TypeOK, Exists
    <2>4. TokensFit'
      <3> SUFFICES ASSUME NEW d \in ConnectionIds, tokens[d] # Absent
                   PROVE  connections'[d] # Absent /\ tokens[d] = connections'[d].sub
        BY <1>2 DEF TokensFit
      <3>1. connections[d] # Absent /\ tokens[d] = connections[d].sub
        BY DEF IInv, Tables, TokensFit
      <3> QED BY <1>7, <1>8, <3>1
    <2>5. CalendarsHaveToken'
      BY <1>2 DEF IInv, Tables, CalendarsHaveToken
    <2> QED BY <2>2, <2>4, <2>5 DEF Tables
  <1>10. Grow
    <2> SUFFICES ASSUME NEW d \in ConnectionIds, connections'[d] # Absent
                 PROVE  \/ d > lastConnection
                        \/ (connections[d] # Absent /\ connections'[d].sub = connections[d].sub /\ tokens' = tokens)
      BY <1>2, <1>3, <1>6 DEF Grow
    <2>1. CASE d = c
      BY <1>2, <1>3, <1>4, <1>7, <2>1
    <2>2. CASE d # c
      BY <1>2, <1>7, <2>2
    <2> QED BY <2>1, <2>2
  <1>11. PICK r : r = [at |-> "linked", connection |-> c, sub |-> sub]
    OBVIOUS
  <1>12. r \in Request /\ RequestOK(r)'
    <2>1. r \in Linked
      BY <1>5, <1>11 DEF Linked
    <2> QED BY <1>6, <1>7, <1>11, <2>1 DEF Request, RequestOK, CopiedOK, Fits, HasToken
  <1>13. request' = [request EXCEPT ![q] = r]
    BY <1>1, <1>11 DEF Set
  <1>14. RequestsOK'
    <2>1. lastUser' \in Nat /\ lastConnection' \in Nat
      BY <1>2, <1>3, <1>6
    <2> QED BY <1>10, <1>12, <1>13, <2>1, RequestStep
  <1> QED BY <1>9, <1>14 DEF IInv

\* The other steps of linking an account keep the invariant.
LEMMA LinkSteps ==
  ASSUME IInv, NEW q \in Requests,
         StoreEncryptedToken(q) \/ syncCalendarsFromToken(q) \/ CallbackFails(q) \/ GoogleStart(q) \/ Answer(q)
  PROVE  IInv'
  <1>1. CASE StoreEncryptedToken(q)
    <2> DEFINE c == request[q].connection
    <2>1. /\ c \in ConnectionIds /\ request[q].sub \in Subs /\ connections[c] # Absent
          /\ connections[c].sub = request[q].sub
      BY <1>1, AtTypes DEF StoreEncryptedToken, Linked, RequestOK, Is, Fits
    <2>2. /\ tokens' = [tokens EXCEPT ![c] = request[q].sub]
          /\ Set(q, [at |-> "stored", connection |-> c])
          /\ UNCHANGED <<users, connections, rules, listed, lastUser, lastConnection, migrated, states>>
      BY <1>1 DEF StoreEncryptedToken
    <2>3. Tables'
      BY <2>1, <2>2 DEF IInv, Tables, TypeOK, RulesRefer, TokensFit, CalendarsHaveToken, Exists
    <2>4. Grow /\ lastUser' \in Nat /\ lastConnection' \in Nat
      BY <2>1, <2>2, NumberTypes DEF Grow, IInv, Tables, TypeOK
    <2>5. PICK r : r = [at |-> "stored", connection |-> c]
      OBVIOUS
    <2>6. r \in Request /\ RequestOK(r)'
      <3>1. r \in Stored
        BY <2>1, <2>5 DEF Stored
      <3>2. c <= lastConnection' /\ (connections'[c] # Absent => tokens'[c] # Absent)
        BY <2>1, <2>2 DEF IInv, Tables, TypeOK
      <3> QED BY <2>5, <3>1, <3>2 DEF Request, RequestOK, HasToken
    <2>7. RequestsOK'
      BY <2>2, <2>4, <2>5, <2>6, RequestStep DEF Set
    <2> QED BY <2>3, <2>7 DEF IInv
  <1>2. CASE syncCalendarsFromToken(q)
    <2>1. /\ listed' = listed \cup {request[q].connection} /\ End(q)
          /\ UNCHANGED <<users, connections, rules, tokens, lastUser, lastConnection, migrated, states>>
          /\ request[q].connection \in ConnectionIds
      BY <1>2, AtTypes DEF syncCalendarsFromToken, ReplaceConnectionCalendars, Stored
    <2>2. Tables'
      <3>1. tokens[request[q].connection] # Absent
        BY <1>2, AtTypes DEF syncCalendarsFromToken, ReplaceConnectionCalendars, Is, RequestOK, HasToken
      <3> QED BY <2>1, <3>1 DEF IInv, Tables, TypeOK, RulesRefer, TokensFit, CalendarsHaveToken, Exists
    <2>3. Grow
      BY <2>1, NumberTypes DEF Grow, IInv
    <2> QED BY <2>1, <2>2, <2>3, EndStep
  <1>3. CASE CallbackFails(q) \/ GoogleStart(q) \/ Answer(q)
    <2>1. /\ request' = [request EXCEPT ![q] = Idle] /\ UNCHANGED <<tables, migrated>>
          /\ states' \subseteq UserIds
      BY <1>3, AtTypes DEF CallbackFails, GoogleStart, Answer, End, Set, signState, IInv, Tables, TypeOK, Signed
    <2>2. migrated' \in BOOLEAN
      BY <2>1 DEF IInv, Tables, TypeOK
    <2> QED BY <2>1, <2>2, IdleType, RequestOnly
  <1> QED BY <1>1, <1>2, <1>3

-----------------------------------------------------------------------------
(* Requests of a user who has signed in *)

\* A rule that is saved between two connections keeps the invariant.
LEMMA SaveStep ==
  ASSUME IInv, NEW q \in Requests, Is(q, "signed in"), Exists(request[q].user), NEW r \in RuleIds,
         NEW c \in ConnectionIds, NEW d \in ConnectionIds, SaveRule(q, r, c, d)
  PROVE  IInv'
  <1>1. request[q].user \in UserIds
    BY AtTypes DEF Signed
  <1>2. /\ connections[c] # Absent /\ connections[d] # Absent
        /\ rules' = [rules EXCEPT ![r] = [user |-> request[q].user, source |-> c, target |-> d]]
        /\ End(q)
        /\ UNCHANGED <<users, connections, tokens, listed, lastUser, lastConnection, migrated, states>>
    BY DEF SaveRule
  <1>4. PICK new : new = [user |-> request[q].user, source |-> c, target |-> d]
    OBVIOUS
  <1>5. /\ new \in Rule /\ Exists(new.user)
        /\ connections[new.source] # Absent /\ connections[new.target] # Absent
    BY <1>1, <1>2, <1>4 DEF Rule
  <1>6. rules' \in [RuleIds -> Rule \cup {Absent}] /\ \A k \in RuleIds : rules'[k] = IF k = r THEN new ELSE rules[k]
    BY <1>2, <1>4, <1>5 DEF IInv, Tables, TypeOK
  <1>7. RulesRefer'
    BY <1>2, <1>5, <1>6 DEF IInv, Tables, TypeOK, RulesRefer, Exists
  <1>8. TypeOK'
    BY <1>2, <1>6, <1>7 DEF IInv, Tables, TypeOK, Exists
  <1>9. Tables'
    BY <1>2, <1>8 DEF IInv, Tables, TokensFit, CalendarsHaveToken
  <1>10. Grow
    BY <1>2, GrowSame DEF IInv
  <1> QED BY <1>2, <1>9, <1>10, EndStep

\* The requests about rules and connections keep the invariant.
LEMMA RuleSteps ==
  ASSUME IInv, NEW q \in Requests,
         \/ \E c \in ConnectionIds : DeleteGoogleConnection(q, c)
         \/ \E r \in RuleIds : DeleteRule(q, r) \/ \E c, d \in ConnectionIds : CreateRule(q, r, c, d) \/ UpdateRule(q, r, c, d)
  PROVE  IInv'
  <1>1. CASE \E c \in ConnectionIds : DeleteGoogleConnection(q, c)
    <2>1. PICK c \in ConnectionIds : DeleteGoogleConnection(q, c)
      BY <1>1
    <2>2. /\ connections' = [connections EXCEPT ![c] = Absent]
          /\ tokens' = [tokens EXCEPT ![c] = Absent]
          /\ listed' = listed \ {c}
          /\ rules' = [r \in RuleIds |-> IF RefersTo(r, c) THEN Absent ELSE rules[r]]
          /\ End(q)
          /\ UNCHANGED <<users, lastUser, lastConnection, migrated, states>>
      BY <2>1 DEF DeleteGoogleConnection
    <2>3. \A d \in ConnectionIds : connections'[d] = IF d = c THEN Absent ELSE connections[d]
      BY <2>2 DEF IInv, Tables, TypeOK
    <2>5. RulesRefer'
      <3> SUFFICES ASSUME NEW r \in RuleIds, rules'[r] # Absent
                   PROVE  /\ users'[rules'[r].user] # Absent
                          /\ connections'[rules'[r].source] # Absent /\ connections'[rules'[r].target] # Absent
        BY DEF RulesRefer, Exists
      <3>1. rules'[r] = rules[r] /\ c \notin {rules[r].source, rules[r].target} /\ rules[r] # Absent
        BY <2>2 DEF RefersTo
      <3>2. rules[r].source \in ConnectionIds /\ rules[r].target \in ConnectionIds
        BY <3>1 DEF IInv, Tables, TypeOK, Rule
      <3> QED BY <2>2, <2>3, <3>1, <3>2 DEF IInv, Tables, TypeOK, RulesRefer, Exists
    <2>4. TypeOK'
      BY <2>2, <2>3, <2>5 DEF IInv, Tables, TypeOK, Exists
    <2>6. TokensFit'
      BY <2>2, <2>3 DEF IInv, Tables, TypeOK, TokensFit
    <2>7. Grow
      BY <2>2, <2>3, NumberTypes DEF Grow, IInv, Tables, TypeOK
    <2>8. CalendarsHaveToken'
      BY <2>2 DEF IInv, Tables, TypeOK, CalendarsHaveToken
    <2> QED BY <2>2, <2>4, <2>6, <2>7, <2>8, EndStep DEF Tables
  <1>2. ASSUME NEW r \in RuleIds, DeleteRule(q, r) PROVE IInv'
    <2>1. /\ rules' = [rules EXCEPT ![r] = Absent] /\ End(q)
          /\ UNCHANGED <<users, connections, tokens, listed, lastUser, lastConnection, migrated, states>>
      BY <1>2 DEF DeleteRule
    <2>2. Tables'
      BY <2>1 DEF IInv, Tables, TypeOK, RulesRefer, TokensFit, CalendarsHaveToken, Exists
    <2>3. Grow
      BY <2>1, NumberTypes DEF Grow, IInv
    <2> QED BY <2>1, <2>2, <2>3, EndStep
  <1>3. ASSUME NEW r \in RuleIds, NEW c \in ConnectionIds, NEW d \in ConnectionIds,
               CreateRule(q, r, c, d) \/ UpdateRule(q, r, c, d)
        PROVE  IInv'
    <2>1. Is(q, "signed in") /\ SaveRule(q, r, c, d)
      BY <1>3 DEF CreateRule, UpdateRule
    <2>2. Exists(request[q].user)
      BY <1>3 DEF CreateRule, UpdateRule, IInv, Tables, TypeOK, RulesRefer
    <2> QED BY <2>1, <2>2, SaveStep
  <1> QED BY <1>1, <1>2, <1>3

-----------------------------------------------------------------------------

\* Every step keeps the invariant.
THEOREM NextIInv == IInv /\ [Next]_vars => IInv'
  <1> SUFFICES ASSUME IInv, [Next]_vars PROVE IInv'
    OBVIOUS
  <1>1. CASE Migrate
    BY <1>1, MigrateStep
  <1>2. ASSUME NEW q \in Requests, NEW u \in UserIds, NEW sub \in Subs, Callback(q, u, sub) PROVE IInv'
    BY <1>2, CallbackStep
  <1>3. ASSUME NEW q \in Requests, Step(q) \/ \E i \in Identities : SignIn(q, i[1], i[2]) PROVE IInv'
    BY <1>3, SignInSteps, UpdateStep, InsertStep, LinkSteps, RuleSteps DEF Step
  <1>4. ASSUME NEW u \in UserIds, ExpireState(u) PROVE IInv'
    <2>1. UNCHANGED <<tables, migrated, request>> /\ states' \subseteq UserIds
      BY <1>4 DEF ExpireState, IInv, Tables, TypeOK
    <2> QED BY <2>1 DEF IInv, Tables, TypeOK, RulesRefer, TokensFit, CalendarsHaveToken, Exists, tables,
                        RequestsOK, RequestOK, CopiedOK, Fits, HasToken
  <1>5. CASE UNCHANGED vars
    BY <1>5 DEF IInv, Tables, TypeOK, RulesRefer, TokensFit, CalendarsHaveToken, Exists, tables, vars,
                RequestsOK, RequestOK, CopiedOK, Fits, HasToken
  <1> QED BY <1>1, <1>2, <1>3, <1>4, <1>5 DEF Next

\* The invariant always holds.
LEMMA SpecIInv == Spec => []IInv
  BY InitIInv, NextIInv, PTL DEF Spec

\* Every row stays what its table may hold, and refers to users that exist,
\* also while sign-ins, the migration and callbacks move them.
THEOREM TypeCorrect == Spec => []TypeOK
  <1>1. IInv => TypeOK
    BY DEF IInv, Tables
  <1> QED BY <1>1, SpecIInv, PTL

\* No connection ever holds the token of another Google account, whatever the
\* merge of a sign-in has copied and a callback still holds.
THEOREM TokensOfAccount == Spec => []TokensFit
  <1>1. IInv => TokensFit
    BY DEF IInv, Tables
  <1> QED BY <1>1, SpecIInv, PTL

\* A connection that the form offers calendars of has a token, whatever merges,
\* deletions and callbacks that store row, token and calendars one by one do.
THEOREM TokensForCalendars == Spec => []CalendarsHaveToken
  <1>1. IInv => CalendarsHaveToken
    BY DEF IInv, Tables
  <1> QED BY <1>1, SpecIInv, PTL

-----------------------------------------------------------------------------
(* What a merge can rely on: rows that are unique, and locks *)

\* No two users have one external ID nor, after the migration, one email.
UniqueUsers ==
    \A u, v \in UserIds :
        /\ Exists(u) /\ Exists(v)
        /\ users[u].external = users[v].external \/ (migrated /\ users[u].email = users[v].email)
        => u = v

\* No user is linked to one Google account twice.
UniqueConnections ==
    \A c, d \in ConnectionIds : connections[c] # Absent /\ connections[c] = connections[d] => c = d

\* The users that a sign-in has locked are there and still match it.
Matches(q, u) ==
    /\ Exists(u)
    /\ users[u].email = request[q].email \/ users[u].external = request[q].external
LocksMatch == \A q \in Requests : \A u \in Locks(q) : Matches(q, u)

\* No user is locked twice.
LocksDisjoint == \A p, q \in Requests : Locks(p) \cap Locks(q) # {} => p = q

\* A token that is deleted with its connection was copied to where it goes.
Copies(q) ==
    \A c \in request[q].tokened :
        Moves(Into(q), c) /\ Existing(Into(q), c) # {}
            => request[q].copied.tokens[Target(Into(q), c)] # Absent
TokensCopied == \A q \in Requests : Is(q, "merging") => Copies(q)

\* Once a merge has moved the rules, it has left behind none that refers to a
\* connection of its own user which will go.
Settled(q) ==
    request[q].moved # Absent =>
        \A r \in RuleIds \ request[q].moved, c \in ConnectionIds :
            RefersTo(r, c) /\ connections[c].user = rules[r].user => Target(Into(q), c) = c
RulesMoved == \A q \in Requests : Is(q, "merging") => Settled(q)

Merges == UniqueUsers /\ UniqueConnections /\ LocksMatch /\ LocksDisjoint /\ TokensCopied /\ RulesMoved

\* The accounts from before the migration have the unique rows.
LEMMA InitMerges == Init => Merges
  <1> SUFFICES ASSUME Init PROVE Merges
    OBVIOUS
  <1>1. \A q \in Requests : request[q] = Idle
    BY DEF Init
  <1>2. \A q \in Requests : Locks(q) = {} /\ ~Is(q, "merging")
    BY <1>1 DEF Locks, Is, Idle
  <1>3. LocksMatch /\ LocksDisjoint /\ TokensCopied /\ RulesMoved
    BY <1>2 DEF LocksMatch, LocksDisjoint, TokensCopied, RulesMoved
  <1>4. UniqueConnections
    BY DEF Init, UniqueConnections, ConnectionIds
  <1>5. UniqueUsers
    <2> SUFFICES ASSUME NEW u \in UserIds, NEW v \in UserIds, Exists(u), Exists(v),
                        users[u].external = users[v].external
                 PROVE  u = v
      BY DEF UniqueUsers, Init
    <2> DEFINE x == users[u].external
    <2>1. x \in ExternalIds
      BY DEF Init, User, Exists
    <2>2. Cardinality(WithExternal(x)) <= 1
      BY <2>1 DEF Init
    <2>3. IsFiniteSet(WithExternal(x))
      <3>1. WithExternal(x) \subseteq 1 .. MaxUsers
        BY DEF WithExternal, UserIds
      <3>2. IsFiniteSet(1 .. MaxUsers)
        BY FS_Interval
      <3> QED BY <3>1, <3>2, FS_Subset
    <2>4. {u, v} \subseteq WithExternal(x)
      BY DEF WithExternal
    <2>5. Cardinality({u, v}) <= Cardinality(WithExternal(x)) /\ IsFiniteSet({u, v})
      BY <2>3, <2>4, FS_Subset
    <2>6. Cardinality({u, v}) \in Nat /\ Cardinality(WithExternal(x)) \in Nat
      BY <2>3, <2>5, FS_CardinalityType
    <2>7. u # v => Cardinality({u, v}) = 2
      <3> SUFFICES ASSUME u # v PROVE Cardinality({u, v}) = 2
        OBVIOUS
      <3>1. Cardinality({u}) = 1 /\ IsFiniteSet({u})
        BY FS_Singleton
      <3>2. Cardinality({u} \cup {v}) = Cardinality({u}) + 1
        BY <3>1, FS_AddElement
      <3>3. {u} \cup {v} = {u, v}
        OBVIOUS
      <3> QED BY <3>1, <3>2, <3>3
    <2> QED BY <2>2, <2>5, <2>6, <2>7
  <1> QED BY <1>3, <1>4, <1>5 DEF Merges

\* The users that a request has locked, by where it is.
LEMMA LocksType ==
  ASSUME IInv, NEW q \in Requests
  PROVE  /\ Locks(q) \subseteq UserIds
         /\ Locks(q) # {} => Canonical(q) \in Locks(q)
         /\ Locks(q) # {} => IntoOK(Into(q))
         /\ Is(q, "merging") => Locks(q) # {} /\ Locks(q) = request[q].locked
  <1>1. Locks(q) \subseteq UserIds
    BY AtTypes DEF Locks, Is, Locking, Merging
  <1>2. Locks(q) # {} => Canonical(q) \in Locks(q)
    BY <1>1, FirstOf DEF Canonical
  <1>3. Locks(q) # {} => IntoOK(Into(q))
    BY <1>1, <1>2 DEF Into, IntoOK
  <1>4. Is(q, "merging") => Locks(q) # {} /\ Locks(q) = request[q].locked
    BY AtTypes DEF RequestOK, Is, Locks
  <1> QED BY <1>1, <1>2, <1>3, <1>4

\* What a merge has copied goes on to be what it needs, while others leave the
\* connections of the users alone that it has locked.
LEMMA CopiesStay ==
  ASSUME IInv, IInv', UniqueConnections, NEW q \in Requests, Is(q, "merging"), Copies(q), request'[q] = request[q],
         \A e \in ConnectionIds : connections'[e] # Absent /\ connections'[e].user \in Locks(q)
                                    => connections'[e] = connections[e]
  PROVE  Copies(q)'
  <1>1. Locks(q)' = Locks(q) /\ Into(q)' = Into(q)
    BY DEF Locks, Is, Canonical, First, Into
  <1>2. Canonical(q) \in Locks(q) /\ Locks(q) \subseteq UserIds
    BY LocksType
  <1>3. request[q].tokened \subseteq ConnectionIds
    BY AtTypes DEF Merging
  <1>4. PICK into : into = Into(q)
    OBVIOUS
  <1>5. \A u \in UserIds : into[u] = IF u \in Locks(q) THEN Canonical(q) ELSE u
    BY <1>4 DEF Into
  <1> SUFFICES ASSUME NEW c \in request[q].tokened, Moves(into, c)', Existing(into, c)' # {}
               PROVE  request[q].copied.tokens[Target(into, c)'] # Absent
    BY <1>1, <1>4 DEF Copies
  <1>6. c \in ConnectionIds /\ connections'[c] # Absent /\ into[connections'[c].user] # connections'[c].user
    BY <1>3 DEF Moves
  <1>7. PICK e : e = Target(into, c)'
    OBVIOUS
  <1>8. /\ e \in ConnectionIds /\ connections'[e] # Absent /\ connections'[e].sub = connections'[c].sub
        /\ connections'[e].user = into[connections'[c].user]
    <2>1. e \in Existing(into, c)'
      BY <1>7 DEF Target
    <2> QED BY <2>1 DEF Existing
  <1>9. connections'[c].user \in Locks(q) /\ connections'[e].user = Canonical(q)
    <2>1. connections'[c].user \in UserIds
      BY <1>6 DEF IInv, Tables, TypeOK, Connection
    <2> QED BY <1>5, <1>6, <1>8, <2>1
  <1>10. connections'[c] = connections[c] /\ connections'[e] = connections[e]
    BY <1>2, <1>6, <1>8, <1>9
  <1>11. Moves(into, c) /\ e \in Existing(into, c)
    BY <1>6, <1>8, <1>10 DEF Moves, Existing
  <1>12. Target(into, c) = e
    <2>1. Target(into, c) \in Existing(into, c)
      BY <1>11 DEF Target
    <2>2. PICK d : d = Target(into, c)
      OBVIOUS
    <2>3. /\ d \in ConnectionIds /\ connections[d] # Absent /\ connections[d].sub = connections[e].sub
          /\ connections[d].user = connections[e].user /\ e \in ConnectionIds
      BY <1>11, <2>1, <2>2 DEF Existing
    <2>4. connections[d] = connections[e]
      BY <1>8, <1>10, <2>3 DEF IInv, Tables, TypeOK, Connection
    <2> QED BY <2>2, <2>3, <2>4 DEF UniqueConnections
  <1> QED BY <1>4, <1>7, <1>11, <1>12 DEF Copies

\* What a merge has settled stays, while others leave the connections of the
\* users alone that it has locked, and give none of the duplicates a rule.
LEMMA SettledStays ==
  ASSUME IInv, IInv', NEW q \in Requests, Is(q, "merging"), Settled(q), request'[q] = request[q],
         \A e \in ConnectionIds : connections'[e] # Absent /\ connections'[e].user \in Locks(q)
                                    => connections'[e] = connections[e],
         \A r \in RuleIds, c \in ConnectionIds :
            RefersTo(r, c)' /\ connections'[c].user = rules'[r].user /\ rules'[r].user \in Duplicates(q)
              => RefersTo(r, c) /\ rules[r].user = rules'[r].user
  PROVE  Settled(q)'
  <1>1. Into(q)' = Into(q)
    BY DEF Locks, Is, Canonical, First, Into
  <1>2. Canonical(q) \in Locks(q) /\ Locks(q) \subseteq UserIds
    BY LocksType
  <1>3. PICK into : into = Into(q)
    OBVIOUS
  <1>4. \A u \in UserIds : into[u] = IF u \in Locks(q) THEN Canonical(q) ELSE u
    BY <1>3 DEF Into
  <1> SUFFICES ASSUME request[q].moved # Absent, NEW r \in RuleIds \ request[q].moved, NEW c \in ConnectionIds,
                      RefersTo(r, c)', connections'[c].user = rules'[r].user, Target(into, c)' # c
               PROVE  FALSE
    BY <1>1, <1>3 DEF Settled
  <1>5. /\ connections'[c] # Absent /\ into[connections'[c].user] # connections'[c].user
        /\ Existing(into, c)' # {}
    BY DEF Target, Moves
  <1>6. PICK u : u = connections'[c].user
    OBVIOUS
  <1>7. u \in UserIds
    BY <1>5, <1>6 DEF IInv, Tables, TypeOK, Connection
  <1>8. u \in Locks(q) /\ u # Canonical(q) /\ into[u] = Canonical(q)
    BY <1>4, <1>5, <1>6, <1>7
  <1>9. connections'[c] = connections[c] /\ connections[c].user = u
    BY <1>5, <1>6, <1>8
  <1>10. PICK e \in Existing(into, c)' : TRUE
    BY <1>5
  <1>11. /\ e \in ConnectionIds /\ connections'[e] # Absent
         /\ connections'[e].user = Canonical(q) /\ connections'[e].sub = connections'[c].sub
    BY <1>6, <1>8, <1>10 DEF Existing
  <1>12. connections'[e] = connections[e]
    BY <1>2, <1>11
  <1>13. e \in Existing(into, c) /\ Moves(into, c)
    BY <1>5, <1>6, <1>8, <1>9, <1>11, <1>12 DEF Existing, Moves
  <1>14. Target(into, c) \in Existing(into, c)
    BY <1>13 DEF Target
  <1>15. Target(into, c) # c
    BY <1>8, <1>9, <1>14 DEF Existing
  <1>16. RefersTo(r, c) /\ connections[c].user = rules[r].user
    BY <1>6, <1>8, <1>9 DEF Duplicates
  <1> QED BY <1>3, <1>15, <1>16 DEF Settled

\* A merge that does not fail moves connections to rows that are still unique.
LEMMA MergeUnique ==
  ASSUME Tables, UniqueConnections, NEW into, ~MergeFails(into), NEW copied, NEW moved, NEW row,
         mergeUsers(into, copied, moved, row)
  PROVE  UniqueConnections'
  <1> DEFINE Stays(c) == connections[c] # Absent /\ Target(into, c) = c
  <1>1. connections' = [c \in ConnectionIds |->
                          IF Stays(c) THEN [connections[c] EXCEPT !.user = into[@]] ELSE Absent]
    BY DEF mergeUsers
  <1>2. ASSUME NEW c \in ConnectionIds, connections'[c] # Absent
        PROVE  /\ Stays(c) /\ connections'[c].user = into[connections[c].user]
               /\ connections'[c].sub = connections[c].sub /\ connections[c] \in Connection
    <2>1. Stays(c) /\ connections'[c] = [connections[c] EXCEPT !.user = into[@]]
      BY <1>1, <1>2
    <2>2. connections[c] \in Connection
      BY <2>1 DEF Tables, TypeOK
    <2> QED BY <2>1, <2>2 DEF Connection
  <1>3. ASSUME NEW c \in ConnectionIds, Stays(c), Moves(into, c) PROVE Existing(into, c) = {}
    <2> SUFFICES ASSUME Existing(into, c) # {} PROVE FALSE
      OBVIOUS
    <2>1. c \in Existing(into, c)
      BY <1>3 DEF Target
    <2> QED BY <1>3, <2>1 DEF Existing, Moves
  <1> SUFFICES ASSUME NEW c \in ConnectionIds, NEW d \in ConnectionIds, connections'[c] # Absent,
                      connections'[c] = connections'[d], c # d
               PROVE  FALSE
    BY DEF UniqueConnections
  <1> HIDE DEF Stays
  <1>4. /\ Stays(c) /\ Stays(d) /\ into[connections[c].user] = into[connections[d].user]
        /\ connections[c].sub = connections[d].sub
        /\ connections[c] \in Connection /\ connections[d] \in Connection
    BY <1>2
  <1>5. connections[c] # Absent /\ connections[d] # Absent
    BY <1>4 DEF Stays
  <1>6. CASE Moves(into, c) /\ Moves(into, d)
    BY <1>3, <1>4, <1>6 DEF MergeFails
  <1>7. CASE Moves(into, c) /\ ~Moves(into, d)
    <2>1. d \in Existing(into, c)
      BY <1>4, <1>5, <1>7 DEF Moves, Existing
    <2> QED BY <1>3, <1>4, <1>7, <2>1
  <1>8. CASE ~Moves(into, c) /\ Moves(into, d)
    <2>1. c \in Existing(into, d)
      BY <1>4, <1>5, <1>8 DEF Moves, Existing
    <2> QED BY <1>3, <1>4, <1>8, <2>1
  <1>9. CASE ~Moves(into, c) /\ ~Moves(into, d)
    <2>1. connections[c] = connections[d]
      BY <1>4, <1>5, <1>9 DEF Moves, Connection
    <2> QED BY <1>5, <2>1 DEF UniqueConnections
  <1> QED BY <1>6, <1>7, <1>8, <1>9

\* A step that leaves the rows alone of the users that other requests have
\* locked, and its own request with no locks.
LEMMA OthersStay ==
  ASSUME IInv, IInv', Merges, UniqueUsers', UniqueConnections',
         NEW q \in Requests, NEW r, request' = [request EXCEPT ![q] = r],
         r.at # "merging", r.at = "locking" => r.locked = {},
         \A p \in Requests \ {q} :
            /\ \A u \in Locks(p) : users'[u] = users[u]
            /\ \A e \in ConnectionIds : connections'[e] # Absent /\ connections'[e].user \in Locks(p)
                                          => connections'[e] = connections[e]
            /\ Is(p, "merging") =>
                 \A k \in RuleIds, c \in ConnectionIds :
                    RefersTo(k, c)' /\ connections'[c].user = rules'[k].user /\ rules'[k].user \in Duplicates(p)
                      => RefersTo(k, c) /\ rules[k].user = rules'[k].user
  PROVE  Merges'
  <1>1. request'[q] = r /\ \A p \in Requests \ {q} : request'[p] = request[p]
    BY DEF IInv, RequestsOK
  <1>2. Locks(q)' = {} /\ ~Is(q, "merging")'
    BY <1>1 DEF Locks, Is
  <1>3. \A p \in Requests \ {q} : Locks(p)' = Locks(p) /\ (Is(p, "merging")' <=> Is(p, "merging"))
    BY <1>1 DEF Locks, Is
  <1>4. LocksMatch'
    <2> SUFFICES ASSUME NEW p \in Requests \ {q}, NEW u \in Locks(p) PROVE Matches(p, u)'
      BY <1>2, <1>3 DEF LocksMatch
    <2>1. Matches(p, u) /\ users'[u] = users[u] /\ request'[p] = request[p]
      BY <1>1 DEF Merges, LocksMatch
    <2> QED BY <2>1 DEF Matches, Exists
  <1>5. LocksDisjoint'
    <2> SUFFICES ASSUME NEW p \in Requests, NEW o \in Requests, Locks(p)' \cap Locks(o)' # {} PROVE p = o
      BY DEF LocksDisjoint
    <2>1. p # q /\ o # q
      BY <1>2
    <2> QED BY <1>3, <2>1 DEF Merges, LocksDisjoint
  <1>6. TokensCopied'
    <2> SUFFICES ASSUME NEW p \in Requests, Is(p, "merging")' PROVE Copies(p)'
      BY DEF TokensCopied
    <2>1. p # q /\ Is(p, "merging")
      BY <1>2, <1>3
    <2>2. Copies(p) /\ request'[p] = request[p]
      BY <1>1, <2>1 DEF Merges, TokensCopied
    <2> QED BY <2>1, <2>2, CopiesStay DEF Merges
  <1>7. RulesMoved'
    <2> SUFFICES ASSUME NEW p \in Requests, Is(p, "merging")' PROVE Settled(p)'
      BY DEF RulesMoved
    <2>1. p # q /\ Is(p, "merging")
      BY <1>2, <1>3
    <2>2. Settled(p) /\ request'[p] = request[p]
      BY <1>1, <2>1 DEF Merges, RulesMoved
    <2> QED BY <2>1, <2>2, SettledStays
  <1> QED BY <1>4, <1>5, <1>6, <1>7 DEF Merges

\* A step that changes no user and only deletes connections and rules.
LEMMA UsersStay ==
  ASSUME IInv, IInv', Merges, UNCHANGED <<users, migrated>>,
         \A c \in ConnectionIds : connections'[c] # Absent => connections'[c] = connections[c],
         \A k \in RuleIds : rules'[k] # Absent => rules'[k] = rules[k],
         NEW q \in Requests, NEW r, request' = [request EXCEPT ![q] = r],
         r.at # "merging", r.at = "locking" => r.locked = {}
  PROVE  Merges'
  <1>1. UniqueUsers'
    BY DEF Merges, UniqueUsers, Exists
  <1>2. UniqueConnections'
    BY DEF Merges, UniqueConnections
  <1>3. \A k \in RuleIds, c \in ConnectionIds : RefersTo(k, c)' => RefersTo(k, c) /\ rules[k].user = rules'[k].user
    BY DEF RefersTo
  <1> QED BY <1>1, <1>2, <1>3, OthersStay

\* The migration, for which nobody may have a user locked, leaves one user for
\* every email.
LEMMA MigrateMerges ==
  ASSUME IInv, IInv', Merges, Migrate
  PROVE  Merges'
  <1>1. \A q \in Requests : Locks(q) = {} /\ Locks(q)' = {} /\ ~Is(q, "merging")'
    <2> TAKE q \in Requests
    <2>1. Locks(q) = {}
      BY LocksType DEF Migrate, Locked
    <2>2. request' = request /\ ~Is(q, "merging")
      BY <2>1, LocksType DEF Migrate
    <2> QED BY <2>1, <2>2 DEF Locks, Is
  <1>2. LocksMatch' /\ LocksDisjoint' /\ TokensCopied' /\ RulesMoved'
    BY <1>1 DEF LocksMatch, LocksDisjoint, TokensCopied, RulesMoved
  <1>3. UniqueConnections'
    BY MergeUnique DEF Migrate, Merges, IInv
  <1>4. users' = [u \in UserIds |-> IF Oldest[u] = u THEN users[u] ELSE Absent]
    BY DEF Migrate, mergeUsers
  <1>5. UniqueUsers'
    <2> SUFFICES ASSUME NEW u \in UserIds, NEW v \in UserIds, users'[u] # Absent, users'[v] # Absent,
                        users'[u].external = users'[v].external \/ users'[u].email = users'[v].email
                 PROVE  u = v
      BY DEF UniqueUsers, Exists
    <2>1. /\ Oldest[u] = u /\ Oldest[v] = v /\ users'[u] = users[u] /\ users'[v] = users[v]
          /\ Exists(u) /\ Exists(v)
      BY <1>4 DEF Exists
    <2>2. CASE users[u].external = users[v].external
      BY <2>1, <2>2 DEF Merges, UniqueUsers
    <2>3. CASE users[u].email = users[v].email
      BY <2>1, <2>3 DEF Oldest
    <2> QED BY <2>1, <2>2, <2>3
  <1> QED BY <1>2, <1>3, <1>5 DEF Merges

\* The merge copies a token to every connection that one with a token goes into.
LEMMA CopiesToken ==
  ASSUME NEW into, NEW e \in ConnectionIds, NEW c \in Donors(into, e), tokens[c] # Absent
  PROVE  Copy(into).tokens[e] # Absent
  <1> DEFINE read == {tokens[d] : d \in Donors(into, e)} \ {Absent}
  <1>1. tokens[c] \in read
    OBVIOUS
  <1>2. Copy(into).tokens[e] = IF read = {} THEN Absent ELSE CHOOSE t \in read : TRUE
    BY DEF Copy
  <1> HIDE DEF read
  <1>3. Copy(into).tokens[e] \in read
    BY <1>1, <1>2
  <1> QED BY <1>3 DEF read

\* A merge that nothing happens to keeps what it has copied, and settled.
LEMMA CopiesSame ==
  ASSUME NEW q, Copies(q), connections' = connections, Into(q)' = Into(q),
         request'[q].tokened = request[q].tokened, request'[q].copied = request[q].copied
  PROVE  Copies(q)'
  <1>2. PICK into : into = Into(q)
    OBVIOUS
  <1>3. \A c : /\ Moves(into, c)' <=> Moves(into, c)
               /\ Existing(into, c)' = Existing(into, c)
               /\ Target(into, c)' = Target(into, c)
    BY DEF Moves, Existing, Target
  <1>4. Copies(q)' <=> \A c \in request[q].tokened :
          Moves(into, c)' /\ Existing(into, c)' # {} => request[q].copied.tokens[Target(into, c)'] # Absent
    BY <1>2 DEF Copies
  <1> QED BY <1>2, <1>3, <1>4 DEF Copies

LEMMA MergeSame ==
  ASSUME NEW q, request'[q] = request[q], connections' = connections, rules' = rules
  PROVE  /\ Copies(q) => Copies(q)'
         /\ Settled(q) => Settled(q)'
  <1>1. Into(q)' = Into(q)
    BY DEF Into, Canonical, First, Locks, Is
  <1>2. PICK into : into = Into(q)
    OBVIOUS
  <1>3. \A c : Target(into, c)' = Target(into, c)
    BY DEF Moves, Existing, Target
  <1>4. \A r, c : RefersTo(r, c)' <=> RefersTo(r, c)
    BY DEF RefersTo
  <1>5. Settled(q) => Settled(q)'
    BY <1>1, <1>2, <1>3, <1>4 DEF Settled
  <1> QED BY <1>1, <1>5, CopiesSame

\* Locking the next row: it matches, and nobody else has it.
LEMMA LockMerges ==
  ASSUME IInv, Merges, NEW q \in Requests, LockRow(q)
  PROVE  Merges'
  <1> DEFINE u == First(q, request[q].left)
             r == [request[q] EXCEPT !.left = @ \ {u}, !.locked = IF Matches(q, u) THEN @ \cup {u} ELSE @]
  <1>1. request[q] \in Locking /\ request[q].at = "locking" /\ request[q].left # {}
    BY AtTypes DEF LockRow, Is
  <1>2. /\ ~Locked(u)
        /\ request' = [request EXCEPT ![q] = r]
        /\ UNCHANGED <<tables, migrated, states>>
    BY <1>1 DEF LockRow, Matches, Is, IInv, RequestsOK, Locking
  <1> HIDE DEF u
  <1>3. /\ r.at = "locking" /\ r.external = request[q].external /\ r.email = request[q].email
        /\ r.locked = IF Matches(q, u) THEN request[q].locked \cup {u} ELSE request[q].locked
    BY <1>1 DEF Locking
  <1> HIDE DEF r
  <1>4. request'[q] = r /\ \A p \in Requests \ {q} : request'[p] = request[p]
    BY <1>2 DEF IInv, RequestsOK
  <1>5. \A p \in Requests \ {q} : Locks(p)' = Locks(p) /\ (Is(p, "merging")' <=> Is(p, "merging"))
    BY <1>4 DEF Locks, Is
  <1>6. ~Is(q, "merging")' /\ Locks(q) = request[q].locked
        /\ Locks(q)' = IF Matches(q, u) THEN Locks(q) \cup {u} ELSE Locks(q)
    BY <1>1, <1>3, <1>4 DEF Locks, Is
  <1>7. \A p \in Requests : u \notin Locks(p)
    BY <1>2 DEF Locked
  <1>8. UniqueUsers' /\ UniqueConnections'
    BY <1>2 DEF Merges, UniqueUsers, UniqueConnections, Exists, tables
  <1>9. LocksMatch'
    <2> SUFFICES ASSUME NEW p \in Requests, NEW v \in Locks(p)' PROVE Matches(p, v)'
      BY DEF LocksMatch
    <2>1. Matches(p, v)
      BY <1>5, <1>6 DEF Merges, LocksMatch
    <2>2. request'[p].email = request[p].email /\ request'[p].external = request[p].external
      BY <1>3, <1>4
    <2> QED BY <1>2, <2>1, <2>2 DEF Matches, Exists, tables
  <1>10. LocksDisjoint'
    <2> SUFFICES ASSUME NEW p \in Requests, NEW o \in Requests, Locks(p)' \cap Locks(o)' # {}, p # o PROVE FALSE
      BY DEF LocksDisjoint
    <2>1. Locks(p) \cap Locks(o) = {}
      BY DEF Merges, LocksDisjoint
    <2> QED BY <1>5, <1>6, <1>7, <2>1
  <1>11. TokensCopied'
    <2> SUFFICES ASSUME NEW p \in Requests, Is(p, "merging")' PROVE Copies(p)'
      BY DEF TokensCopied
    <2>1. p # q /\ Is(p, "merging")
      BY <1>5, <1>6
    <2>2. Copies(p) /\ request'[p] = request[p] /\ connections' = connections /\ rules' = rules
      BY <1>2, <1>4, <2>1 DEF Merges, TokensCopied, tables
    <2> QED BY <2>2, MergeSame
  <1>12. RulesMoved'
    <2> SUFFICES ASSUME NEW p \in Requests, Is(p, "merging")' PROVE Settled(p)'
      BY DEF RulesMoved
    <2>1. p # q /\ Is(p, "merging")
      BY <1>5, <1>6
    <2>2. Settled(p) /\ request'[p] = request[p] /\ connections' = connections /\ rules' = rules
      BY <1>2, <1>4, <2>1 DEF Merges, RulesMoved, tables
    <2> QED BY <2>2, MergeSame
  <1> QED BY <1>8, <1>9, <1>10, <1>11, <1>12 DEF Merges

\* Beginning a merge copies the token of every connection that goes.
LEMMA BeginMerges ==
  ASSUME IInv, Merges, NEW q \in Requests, BeginMerge(q)
  PROVE  Merges'
  <1>1. request[q] \in Locking /\ Is(q, "locking") /\ Locks(q) # {} /\ Locks(q) = request[q].locked
    BY AtTypes DEF BeginMerge, Found, Locks
  <1>2. PICK r : r = [at |-> "merging", external |-> request[q].external, email |-> request[q].email,
               byEmail |-> request[q].byEmail \cap Locks(q), locked |-> Locks(q), copied |-> Copy(Into(q)),
               moved |-> Absent,
               tokened |-> {c \in ConnectionIds : tokens[c] # Absent
                                                  /\ connections[c].user \in Locks(q)}]
    OBVIOUS
  <1>3. request' = [request EXCEPT ![q] = r] /\ UNCHANGED <<tables, migrated, states>>
    BY <1>2 DEF BeginMerge, Set
  <1>4. request'[q] = r /\ \A p \in Requests \ {q} : request'[p] = request[p]
    BY <1>3 DEF IInv, RequestsOK
  <1>5. \A p \in Requests : Locks(p)' = Locks(p)
    <2> TAKE p \in Requests
    <2>1. CASE p = q
      BY <1>1, <1>2, <1>4, <2>1 DEF Locks, Is
    <2>2. CASE p # q
      BY <1>4, <2>2 DEF Locks, Is
    <2> QED BY <2>1, <2>2
  <1>6. UniqueUsers' /\ UniqueConnections'
    BY <1>3 DEF Merges, UniqueUsers, UniqueConnections, Exists, tables
  <1>7. LocksMatch' /\ LocksDisjoint'
    <2>1. \A p \in Requests : request'[p].email = request[p].email /\ request'[p].external = request[p].external
      BY <1>2, <1>4
    <2>2. LocksMatch'
      BY <1>3, <1>5, <2>1 DEF Merges, LocksMatch, Matches, Exists, tables
    <2>3. LocksDisjoint'
      BY <1>5 DEF Merges, LocksDisjoint
    <2> QED BY <2>2, <2>3
  <1>8. TokensCopied'
    <2> SUFFICES ASSUME NEW p \in Requests, Is(p, "merging")' PROVE Copies(p)'
      BY DEF TokensCopied
    <2>1. CASE p # q
      <3>1. Is(p, "merging") /\ request'[p] = request[p] /\ connections' = connections /\ rules' = rules
        BY <1>3, <1>4, <2>1 DEF Is, tables
      <3> QED BY <3>1, MergeSame DEF Merges, TokensCopied
    <2>2. CASE p = q
      <3>1. Canonical(q)' = Canonical(q)
        <4>1. Locks(q)' \cap request'[q].byEmail = Locks(q) \cap request[q].byEmail
          BY <1>2, <1>4, <1>5
        <4> QED BY <1>5, <4>1 DEF Canonical, First
      <3>2. PICK into : into = Into(q)
        OBVIOUS
      <3>3. Into(q)' = into
        BY <1>5, <3>1, <3>2 DEF Into
      <3> SUFFICES ASSUME NEW c \in r.tokened, Moves(into, c), Existing(into, c) # {}
                   PROVE  r.copied.tokens[Target(into, c)] # Absent
        BY <1>3, <1>4, <2>2, <3>3 DEF Copies, Moves, Existing, Target, tables
      <3>4. c \in ConnectionIds /\ tokens[c] # Absent /\ connections[c] # Absent
        BY <1>2 DEF Moves
      <3>5. PICK e : e = Target(into, c)
        OBVIOUS
      <3>6. e \in Existing(into, c)
        BY <3>5 DEF Target
      <3>7. e \in ConnectionIds /\ e # c
        BY <3>6 DEF Existing, Moves
      <3>8. c \in Donors(into, e)
        BY <3>4, <3>5, <3>7 DEF Donors
      <3>9. Copy(into).tokens[e] # Absent
        BY <3>4, <3>7, <3>8, CopiesToken
      <3> QED BY <1>2, <3>2, <3>5, <3>9
    <2> QED BY <2>1, <2>2
  <1>9. RulesMoved'
    <2> SUFFICES ASSUME NEW p \in Requests, Is(p, "merging")' PROVE Settled(p)'
      BY DEF RulesMoved
    <2>1. CASE p # q
      <3>1. Is(p, "merging") /\ request'[p] = request[p] /\ connections' = connections /\ rules' = rules
        BY <1>3, <1>4, <2>1 DEF Is, tables
      <3> QED BY <3>1, MergeSame DEF Merges, RulesMoved
    <2>2. CASE p = q
      BY <1>2, <1>4, <2>2 DEF Settled
    <2> QED BY <2>1, <2>2
  <1> QED BY <1>6, <1>7, <1>8, <1>9 DEF Merges

\* Moving the rules settles all that refer to connections which will go.
LEMMA MoveMerges ==
  ASSUME IInv, Merges, NEW q \in Requests, MoveRules(q)
  PROVE  Merges'
  <1>1. request[q] \in Merging /\ Is(q, "merging")
    BY AtTypes DEF MoveRules
  <1>2. PICK moved : moved = {r \in RuleIds : Folded(Into(q), r)}
    OBVIOUS
  <1>3. request' = [request EXCEPT ![q].moved = moved] /\ UNCHANGED <<tables, migrated, states>>
    BY <1>2 DEF MoveRules
  <1>4. /\ request'[q] = [request[q] EXCEPT !.moved = moved]
        /\ \A p \in Requests \ {q} : request'[p] = request[p]
    BY <1>3 DEF IInv, RequestsOK
  <1>5. /\ request'[q].at = request[q].at /\ request'[q].locked = request[q].locked
        /\ request'[q].byEmail = request[q].byEmail /\ request'[q].email = request[q].email
        /\ request'[q].external = request[q].external /\ request'[q].copied = request[q].copied
        /\ request'[q].tokened = request[q].tokened /\ request'[q].moved = moved
    BY <1>1, <1>4 DEF Merging
  <1>6. \A p \in Requests : Locks(p)' = Locks(p) /\ Is(p, "merging")' = Is(p, "merging")
    <2> TAKE p \in Requests
    <2>1. CASE p = q
      BY <1>5, <2>1 DEF Locks, Is
    <2>2. CASE p # q
      BY <1>4, <2>2 DEF Locks, Is
    <2> QED BY <2>1, <2>2
  <1>7. Into(q)' = Into(q)
    BY <1>5, <1>6 DEF Into, Canonical, First
  <1>8. UniqueUsers' /\ UniqueConnections'
    BY <1>3 DEF Merges, UniqueUsers, UniqueConnections, Exists, tables
  <1>9. LocksMatch' /\ LocksDisjoint'
    <2>1. \A p \in Requests : request'[p].email = request[p].email /\ request'[p].external = request[p].external
      BY <1>4, <1>5
    <2>2. LocksMatch'
      BY <1>3, <1>6, <2>1 DEF Merges, LocksMatch, Matches, Exists, tables
    <2>3. LocksDisjoint'
      BY <1>6 DEF Merges, LocksDisjoint
    <2> QED BY <2>2, <2>3
  <1>10. connections' = connections /\ rules' = rules
    BY <1>3 DEF tables
  <1>11. ASSUME NEW p \in Requests, Is(p, "merging")' PROVE Copies(p)' /\ Settled(p)'
    <2>1. Is(p, "merging") /\ Copies(p) /\ Settled(p)
      BY <1>6, <1>11 DEF Merges, TokensCopied, RulesMoved
    <2>2. CASE p # q
      BY <1>4, <1>10, <2>1, <2>2, MergeSame
    <2>3. CASE p = q
      <3>1. Copies(q)'
        BY <1>5, <1>7, <1>10, <2>1, <2>3, CopiesSame
      <3>2. PICK into : into = Into(q)
        OBVIOUS
      <3>3. \A c : Target(into, c)' = Target(into, c)
        BY <1>10 DEF Moves, Existing, Target
      <3>4. \A r \in RuleIds \ moved, c \in ConnectionIds : RefersTo(r, c) => Target(into, c) = c
        BY <1>2, <3>2 DEF Folded, RefersTo
      <3>5. \A r, c : RefersTo(r, c)' <=> RefersTo(r, c)
        BY <1>10 DEF RefersTo
      <3>6. Settled(q)'
        BY <1>5, <1>7, <3>2, <3>3, <3>4, <3>5 DEF Settled
      <3> QED BY <2>3, <3>1, <3>6
    <2> QED BY <2>2, <2>3
  <1> QED BY <1>8, <1>9, <1>11 DEF Merges, TokensCopied, RulesMoved

\* A row of users that is written is unique when no other has its external ID
\* nor, after the migration, its email.
LEMMA UniqueUser ==
  ASSUME UniqueUsers, UNCHANGED migrated, NEW u \in UserIds, NEW new, users'[u] = new,
         \A v \in UserIds : users'[v] # Absent /\ v # u =>
            Exists(v) /\ users'[v] = users[v] /\ users[v].external # new.external,
         migrated => \A v \in UserIds : users'[v] # Absent /\ v # u => users[v].email # new.email
  PROVE  UniqueUsers'
  <1>1. ASSUME NEW v \in UserIds, NEW w \in UserIds, users'[v] # Absent, users'[w] # Absent, v # w
        PROVE  users'[v].external # users'[w].external
    <2>1. \A x, y \in UserIds : Exists(x) /\ Exists(y) /\ x # y => users[x].external # users[y].external
      BY DEF UniqueUsers
    <2> QED BY <1>1, <2>1
  <1>2. ASSUME migrated, NEW v \in UserIds, NEW w \in UserIds, users'[v] # Absent, users'[w] # Absent, v # w
        PROVE  users'[v].email # users'[w].email
    <2>1. \A x, y \in UserIds : Exists(x) /\ Exists(y) /\ x # y => users[x].email # users[y].email
      BY <1>2 DEF UniqueUsers
    <2>2. \A x \in UserIds : users'[x] # Absent /\ x # u =>
            Exists(x) /\ users'[x] = users[x] /\ users[x].email # new.email
      BY <1>2
    <2> QED BY <1>2, <2>1, <2>2
  <1>3. migrated' = migrated
    OBVIOUS
  <1> QED BY <1>1, <1>2, <1>3 DEF UniqueUsers, Exists

\* A merge in a sign-in, which moves only what belongs to users it has locked.
LEMMA UpdateMerges ==
  ASSUME IInv, IInv', Merges, NEW q \in Requests, UpdateUser(q)
  PROVE  Merges'
  <1> DEFINE new == [external |-> request[q].external, email |-> request[q].email]
             row == [users EXCEPT ![Canonical(q)] = new]
  <1>1. PICK into : into = Into(q)
    OBVIOUS
  <1>2. Canonical(q) \in Locks(q) /\ Locks(q) \subseteq UserIds /\ IntoOK(into)
    BY <1>1, LocksType DEF UpdateUser
  <1>3. \A u \in UserIds : into[u] = IF u \in Locks(q) THEN Canonical(q) ELSE u
    BY <1>1 DEF Into
  <1>4. ~MergeFails(into) /\ mergeUsers(into, request[q].copied, request[q].moved, row) /\ UNCHANGED migrated
    BY <1>1 DEF UpdateUser
  <1>5. UniqueConnections'
    BY <1>4, MergeUnique DEF Merges, IInv
  <1>6. users' = [u \in UserIds |-> IF into[u] = u THEN row[u] ELSE Absent]
    BY <1>4 DEF mergeUsers
  <1>7. \A u \in UserIds : u \notin Locks(q) => users'[u] = users[u]
    BY <1>2, <1>3, <1>6 DEF IInv, Tables, TypeOK
  <1>8. /\ \A u \in Locks(q) : u # Canonical(q) => users'[u] = Absent
        /\ users'[Canonical(q)] = new
    BY <1>2, <1>3, <1>6 DEF IInv, Tables, TypeOK
  <1>9. /\ WithExternal(new.external) \subseteq Locks(q)
        /\ migrated => WithEmail(new.email) \subseteq Locks(q)
    BY DEF UpdateUser, Taken
  <1> HIDE DEF new, row
  <1>10. UniqueUsers'
    <2>1. \A v \in UserIds : users'[v] # Absent /\ v # Canonical(q) =>
            v \notin Locks(q) /\ Exists(v) /\ users'[v] = users[v]
      BY <1>7, <1>8 DEF Exists
    <2>2. \A v \in UserIds : users'[v] # Absent /\ v # Canonical(q) =>
            Exists(v) /\ users'[v] = users[v] /\ users[v].external # new.external
      BY <1>9, <2>1 DEF WithExternal
    <2>3. migrated => \A v \in UserIds : users'[v] # Absent /\ v # Canonical(q) => users[v].email # new.email
      <3> SUFFICES ASSUME migrated, NEW v \in UserIds, users'[v] # Absent, v # Canonical(q)
                   PROVE  users[v].email # new.email
        OBVIOUS
      <3> QED BY <1>9, <2>1 DEF WithEmail
    <2>4. UniqueUsers /\ migrated' = migrated /\ Canonical(q) \in UserIds /\ users'[Canonical(q)] = new
      BY <1>2, <1>4, <1>8 DEF Merges
    <2> QED BY <2>2, <2>3, <2>4, UniqueUser
  <1>11. ASSUME NEW p \in Requests \ {q}
         PROVE  /\ \A u \in Locks(p) : users'[u] = users[u]
                /\ \A e \in ConnectionIds : connections'[e] # Absent /\ connections'[e].user \in Locks(p)
                                              => connections'[e] = connections[e]
                /\ \A k \in RuleIds, c \in ConnectionIds :
                      RefersTo(k, c)' /\ connections'[c].user = rules'[k].user /\ rules'[k].user \in Duplicates(p)
                        => RefersTo(k, c) /\ rules[k].user = rules'[k].user
    <2>1. Locks(p) \cap Locks(q) = {} /\ Locks(p) \subseteq UserIds
      BY LocksType DEF Merges, LocksDisjoint
    <2>2. \A u \in Locks(p) : users'[u] = users[u]
      BY <1>7, <2>1
    <2>3. ASSUME NEW e \in ConnectionIds, connections'[e] # Absent, connections'[e].user \in Locks(p)
          PROVE  connections'[e] = connections[e]
      <3>1. connections[e] # Absent /\ connections'[e] = [connections[e] EXCEPT !.user = into[@]]
        BY <1>4, <2>3 DEF mergeUsers
      <3>2. connections[e] \in Connection
        BY <3>1 DEF IInv, Tables, TypeOK
      <3>3. connections'[e].user = into[connections[e].user]
        BY <3>1, <3>2 DEF Connection
      <3>4. into[connections[e].user] = connections[e].user
        BY <1>2, <1>3, <2>1, <2>3, <3>2, <3>3 DEF Connection
      <3> QED BY <3>1, <3>2, <3>4 DEF Connection
    <2>4. ASSUME NEW k \in RuleIds, NEW c \in ConnectionIds, RefersTo(k, c)',
                 connections'[c].user = rules'[k].user, rules'[k].user \in Duplicates(p)
          PROVE  RefersTo(k, c) /\ rules[k].user = rules'[k].user
      <3>1. /\ rules[k] # Absent /\ rules'[k].user = into[rules[k].user]
            /\ \/ c = Target(into, rules[k].source)
               \/ c = Target(into, rules[k].target)
        BY <1>4, <2>4 DEF RefersTo, mergeUsers
      <3>2. /\ rules[k] \in Rule /\ rules[k].user \in UserIds
            /\ rules[k].source \in ConnectionIds /\ rules[k].target \in ConnectionIds
            /\ connections[rules[k].source] # Absent /\ connections[rules[k].target] # Absent
        BY <3>1 DEF IInv, Tables, TypeOK, RulesRefer, Rule
      <3>3. rules'[k].user \in Locks(p) /\ rules'[k].user \notin Locks(q)
        BY <2>1, <2>4 DEF Duplicates
      <3>4. rules[k].user = rules'[k].user
        BY <1>2, <1>3, <3>1, <3>2, <3>3
      <3>5. PICK d \in {rules[k].source, rules[k].target} : c = Target(into, d)
        BY <3>1
      <3>6. d \in ConnectionIds /\ connections[d] # Absent /\ connections[d].user \in UserIds
        BY <3>2 DEF IInv, Tables, TypeOK, Connection
      <3>7. connections'[c] # Absent /\ connections'[c] = connections[c]
        <4>1. rules'[k] \in Rule /\ connections'[c] # Absent
          BY <2>4 DEF RefersTo, IInv, Tables, TypeOK, RulesRefer
        <4> QED BY <2>3, <2>4, <3>3, <4>1
      <3>8. c = d
        <4> SUFFICES ASSUME c # d PROVE FALSE
          OBVIOUS
        <4>1. Moves(into, d) /\ c \in Existing(into, d)
          BY <3>5 DEF Target
        <4>2. connections[c].user = into[connections[d].user] /\ into[connections[d].user] # connections[d].user
          BY <4>1 DEF Moves, Existing
        <4>3. into[connections[d].user] = Canonical(q)
          BY <1>3, <3>6, <4>2
        <4> QED BY <1>2, <2>4, <3>3, <3>7, <4>2, <4>3
      <3> QED BY <3>1, <3>4, <3>5, <3>8 DEF RefersTo
    <2> QED BY <2>2, <2>3, <2>4
  <1>12. PICK r : r = [at |-> "signed in", user |-> Canonical(q)]
    OBVIOUS
  <1>13. request' = [request EXCEPT ![q] = r] /\ r.at \notin {"locking", "merging"}
    BY <1>12 DEF UpdateUser, SignedIn, Set
  <1> QED BY <1>5, <1>10, <1>11, <1>13, OthersStay

\* A new user, or one with a new email, which no other has.
LEMMA InsertMerges ==
  ASSUME IInv, IInv', Merges, NEW q \in Requests, InsertUser(q)
  PROVE  Merges'
  <1> DEFINE same == WithExternal(request[q].external)
             new == [external |-> request[q].external, email |-> request[q].email]
  <1>1. PICK u \in IF same # {} THEN same ELSE {lastUser + 1} :
            /\ u <= MaxUsers
            /\ users' = [users EXCEPT ![u] = new]
            /\ SignedIn(q, u)
    BY DEF InsertUser
  <1>2. /\ UNCHANGED <<connections, rules, migrated>> /\ \A v \in same : ~Locked(v)
        /\ migrated => WithEmail(new.email) \subseteq same
    BY DEF InsertUser, Taken
  <1>3. lastUser \in Nat
    BY NumberTypes DEF IInv
  <1>4. u \in UserIds
    BY <1>1, <1>3 DEF UserIds, WithExternal
  <1>5. users'[u] = new /\ \A v \in UserIds : v # u => users'[v] = users[v]
    BY <1>1, <1>4 DEF IInv, Tables, TypeOK
  <1>6. \A p \in Requests : u \notin Locks(p)
    <2>1. CASE u \in same
      BY <1>2, <2>1 DEF Locked
    <2>2. CASE u = lastUser + 1
      <3>1. ~Exists(u)
        BY <1>3, <1>4, <2>2 DEF IInv, Tables, TypeOK
      <3> QED BY <3>1 DEF Merges, LocksMatch, Matches
    <2> QED BY <1>1, <2>1, <2>2
  <1>7. UniqueUsers'
    <2>1. \A v \in UserIds : users'[v] # Absent /\ v # u =>
            v \notin same /\ Exists(v) /\ users'[v] = users[v]
      <3> SUFFICES ASSUME NEW v \in UserIds, users'[v] # Absent, v # u
                   PROVE  v \notin same /\ Exists(v) /\ users'[v] = users[v]
        OBVIOUS
      <3>1. CASE u \in same
        BY <1>5, <3>1 DEF Merges, UniqueUsers, WithExternal, Exists
      <3>2. CASE u \notin same
        BY <1>1, <1>5, <3>2 DEF Exists
      <3> QED BY <3>1, <3>2
    <2>2. \A v \in UserIds : users'[v] # Absent /\ v # u =>
            Exists(v) /\ users'[v] = users[v] /\ users[v].external # new.external
      BY <2>1 DEF WithExternal
    <2>3. migrated => \A v \in UserIds : users'[v] # Absent /\ v # u => users[v].email # new.email
      <3> SUFFICES ASSUME migrated, NEW v \in UserIds, users'[v] # Absent, v # u
                   PROVE  users[v].email # new.email
        OBVIOUS
      <3> QED BY <1>2, <2>1 DEF WithEmail
    <2>4. UniqueUsers /\ migrated' = migrated /\ users'[u] = new
      BY <1>2, <1>5 DEF Merges
    <2> HIDE DEF same, new
    <2> QED BY <1>4, <2>2, <2>3, <2>4, UniqueUser
  <1>8. UniqueConnections'
    BY <1>2 DEF Merges, UniqueConnections
  <1>9. \A p \in Requests : \A v \in Locks(p) : users'[v] = users[v]
    BY <1>5, <1>6, LocksType
  <1>10. PICK r : r = [at |-> "signed in", user |-> u]
    OBVIOUS
  <1>11. request' = [request EXCEPT ![q] = r] /\ r.at \notin {"locking", "merging"}
    BY <1>1, <1>10 DEF SignedIn, Set
  <1>12. \A k, c : RefersTo(k, c)' <=> RefersTo(k, c)
    BY <1>2 DEF RefersTo
  <1> QED BY <1>2, <1>7, <1>8, <1>9, <1>11, <1>12, OthersStay

\* A callback finds the connection to the Google account, or creates the first.
LEMMA CallbackMerges ==
  ASSUME IInv, IInv', Merges, NEW q \in Requests, NEW u \in UserIds, NEW sub \in Subs, Callback(q, u, sub)
  PROVE  Merges'
  <1>1. PICK c \in LinkedTo(u, sub) :
         /\ c > lastConnection => ~Locked(u) /\ c <= MaxConnections
         /\ connections' = [connections EXCEPT ![c] = [user |-> u, sub |-> sub]]
         /\ Set(q, [at |-> "linked", connection |-> c, sub |-> sub])
    BY DEF Callback
  <1>2. UNCHANGED <<users, rules, migrated>> /\ \A k, d : RefersTo(k, d)' <=> RefersTo(k, d)
    BY DEF Callback, RefersTo
  <1>3. PICK r : r = [at |-> "linked", connection |-> c, sub |-> sub]
    OBVIOUS
  <1>4. request' = [request EXCEPT ![q] = r] /\ r.at \notin {"locking", "merging"}
    BY <1>1, <1>3 DEF Set
  <1>5. lastConnection \in Nat
    BY NumberTypes DEF IInv
  <1>6. CASE c \in ConnectionIds /\ connections[c] = [user |-> u, sub |-> sub]
    <2>1. connections' = connections
      BY <1>1, <1>6 DEF IInv, Tables, TypeOK
    <2> QED BY <1>2, <1>4, <2>1, UsersStay
  <1>7. CASE c = lastConnection + 1 /\ {o \in Own(u) : connections[o].sub = sub} = {}
    <2>1. c \in ConnectionIds /\ ~Locked(u)
      BY <1>1, <1>5, <1>7 DEF ConnectionIds
    <2>2. /\ connections'[c] = [user |-> u, sub |-> sub]
          /\ \A d \in ConnectionIds : d # c => connections'[d] = connections[d]
      BY <1>1, <2>1 DEF IInv, Tables, TypeOK
    <2>3. [user |-> u, sub |-> sub] # Absent
      BY DEF Connection
    <2>4. UniqueConnections'
      <3> SUFFICES ASSUME NEW d \in ConnectionIds, NEW e \in ConnectionIds, connections'[d] # Absent,
                          connections'[d] = connections'[e], d # e
                   PROVE  FALSE
        BY DEF UniqueConnections
      <3>1. CASE d # c /\ e # c
        BY <2>2, <3>1 DEF Merges, UniqueConnections
      <3>2. ASSUME NEW o \in ConnectionIds, o # c, connections'[o] = [user |-> u, sub |-> sub] PROVE FALSE
        BY <1>7, <2>2, <2>3, <3>2 DEF Own
      <3> QED BY <2>2, <3>1, <3>2
    <2>5. UniqueUsers'
      BY <1>2 DEF Merges, UniqueUsers, Exists
    <2>6. \A p \in Requests : \A e \in ConnectionIds : connections'[e].user \in Locks(p) => connections'[e] = connections[e]
      BY <2>1, <2>2 DEF Locked
    <2> QED BY <1>2, <1>4, <2>4, <2>5, <2>6, OthersStay
  <1>8. CASE c \in Own(u) /\ connections[c].sub = sub
    <2>1. c \in ConnectionIds /\ connections[c] \in Connection /\ connections[c].user = u
      BY <1>8 DEF Own, IInv, Tables, TypeOK
    <2>2. connections[c] = [user |-> u, sub |-> sub]
      BY <1>8, <2>1 DEF Connection
    <2> QED BY <1>6, <2>1, <2>2
  <1> QED BY <1>1, <1>7, <1>8 DEF LinkedTo

\* The other steps of requests: no lock, no user and no new connection.
LEMMA OtherMerges ==
  ASSUME IInv, IInv', Merges, NEW q \in Requests,
         \/ \E i \in Identities : SignIn(q, i[1], i[2])
         \/ SignInFails(q) \/ Deadlock(q) \/ StoreEncryptedToken(q) \/ syncCalendarsFromToken(q) \/ CallbackFails(q)
         \/ GoogleStart(q) \/ Answer(q) \/ \E c \in ConnectionIds : DeleteGoogleConnection(q, c)
         \/ \E r \in RuleIds : DeleteRule(q, r)
  PROVE  Merges'
  <1>1. CASE \E i \in Identities : SignIn(q, i[1], i[2])
    <2>1. PICK i \in Identities : SignIn(q, i[1], i[2])
      BY <1>1
    <2>2. PICK r : r = [at |-> "locking", external |-> i[1], email |-> i[2], byEmail |-> WithEmail(i[2]),
                        left |-> WithEmail(i[2]) \cup WithExternal(i[1]), locked |-> {}]
      OBVIOUS
    <2>3. r.at = "locking" /\ r.locked = {}
      BY <2>2
    <2>4. request' = [request EXCEPT ![q] = r] /\ UNCHANGED <<users, connections, rules, migrated>>
      BY <2>1, <2>2 DEF SignIn, Set, tables
    <2> QED BY <2>3, <2>4, UsersStay
  <1>2. CASE StoreEncryptedToken(q)
    <2>1. PICK r : r = [at |-> "stored", connection |-> request[q].connection]
      OBVIOUS
    <2>2. r.at = "stored" /\ request' = [request EXCEPT ![q] = r] /\ UNCHANGED <<users, connections, rules, migrated>>
      BY <1>2, <2>1 DEF StoreEncryptedToken, Set
    <2> QED BY <2>2, UsersStay
  <1>3. ASSUME End(q), UNCHANGED <<users, migrated>>,
               \A c \in ConnectionIds : connections'[c] # Absent => connections'[c] = connections[c],
               \A k \in RuleIds : rules'[k] # Absent => rules'[k] = rules[k]
        PROVE  Merges'
    <2>1. request' = [request EXCEPT ![q] = Idle] /\ Idle.at = "idle"
      BY <1>3 DEF End, Set, Idle
    <2> QED BY <1>3, <2>1, UsersStay
  <1>4. CASE SignInFails(q) \/ Deadlock(q) \/ CallbackFails(q) \/ Answer(q)
    BY <1>3, <1>4 DEF SignInFails, Deadlock, CallbackFails, Answer, tables
  <1>5. CASE syncCalendarsFromToken(q) \/ GoogleStart(q)
    BY <1>3, <1>5 DEF syncCalendarsFromToken, GoogleStart, tables
  <1>6. ASSUME NEW c \in ConnectionIds, DeleteGoogleConnection(q, c) PROVE Merges'
    <2>1. \A d \in ConnectionIds : connections'[d] # Absent => connections'[d] = connections[d]
      BY <1>6 DEF DeleteGoogleConnection, IInv, Tables, TypeOK
    <2> QED BY <1>3, <1>6, <2>1 DEF DeleteGoogleConnection
  <1>7. ASSUME NEW r \in RuleIds, DeleteRule(q, r) PROVE Merges'
    <2>1. \A k \in RuleIds : rules'[k] # Absent => rules'[k] = rules[k]
      BY <1>7 DEF DeleteRule, IInv, Tables, TypeOK
    <2> QED BY <1>3, <1>7, <2>1 DEF DeleteRule
  <1> QED BY <1>1, <1>2, <1>4, <1>5, <1>6, <1>7

\* A rule that is saved belongs to nobody whom another request merges away.
LEMMA SaveMerges ==
  ASSUME IInv, IInv', Merges, NEW q \in Requests, NEW r \in RuleIds, NEW c \in ConnectionIds, NEW d \in ConnectionIds,
         CreateRule(q, r, c, d) \/ UpdateRule(q, r, c, d)
  PROVE  Merges'
  <1>1. PICK u : u = request[q].user
    OBVIOUS
  <1>2. /\ rules' = [rules EXCEPT ![r] = [user |-> u, source |-> c, target |-> d]]
        /\ End(q) /\ UNCHANGED <<users, connections, migrated>>
        /\ ~Locked(u) \/ (rules[r] # Absent /\ rules[r].user = u /\ ~MergeLocksRule(r))
    BY <1>1 DEF CreateRule, UpdateRule, SaveRule
  <1>3. request' = [request EXCEPT ![q] = Idle] /\ Idle.at = "idle"
    BY <1>2 DEF End, Set, Idle
  <1>4. UniqueUsers' /\ UniqueConnections'
    BY <1>2 DEF Merges, UniqueUsers, UniqueConnections, Exists
  <1>5. /\ rules'[r] = [user |-> u, source |-> c, target |-> d]
        /\ \A k \in RuleIds \ {r} : rules'[k] = rules[k]
    BY <1>2 DEF IInv, Tables, TypeOK
  <1>6. ASSUME NEW p \in Requests, Is(p, "merging"), NEW k \in RuleIds, NEW e \in ConnectionIds,
               RefersTo(k, e)', rules'[k].user \in Duplicates(p)
        PROVE  RefersTo(k, e) /\ rules[k].user = rules'[k].user
    <2>1. CASE k # r
      BY <1>5, <1>6, <2>1 DEF RefersTo
    <2>2. CASE k = r
      <3>1. u \in Duplicates(p)
        BY <1>5, <1>6, <2>2
      <3>2. Locked(u)
        BY <3>1 DEF Locked, Duplicates
      <3>3. r \in RulesLocked(p)
        BY <1>2, <1>6, <3>1, <3>2 DEF RulesLocked
      <3> QED BY <1>2, <3>2, <3>3 DEF MergeLocksRule
    <2> QED BY <2>1, <2>2
  <1> QED BY <1>2, <1>3, <1>4, <1>6, OthersStay

\* Every step keeps what merges rely on.
LEMMA NextMerges == IInv /\ IInv' /\ Merges /\ [Next]_vars => Merges'
  <1> SUFFICES ASSUME IInv, IInv', Merges, [Next]_vars PROVE Merges'
    OBVIOUS
  <1>1. CASE Migrate
    BY <1>1, MigrateMerges
  <1>2. ASSUME NEW q \in Requests, NEW u \in UserIds, NEW sub \in Subs, Callback(q, u, sub) PROVE Merges'
    BY <1>2, CallbackMerges
  <1>3. ASSUME NEW q \in Requests, Step(q) \/ \E i \in Identities : SignIn(q, i[1], i[2]) PROVE Merges'
    BY <1>3, LockMerges, BeginMerges, MoveMerges, UpdateMerges, InsertMerges, OtherMerges, SaveMerges DEF Step
  <1>4. CASE UNCHANGED <<tables, migrated, request>>
    <2>1. \A q \in Requests : Is(q, "merging")' = Is(q, "merging") /\ Locks(q)' = Locks(q)
      BY <1>4 DEF Is, Locks
    <2>2. UniqueUsers' /\ UniqueConnections'
      BY <1>4 DEF Merges, UniqueUsers, UniqueConnections, Exists, tables
    <2>3. LocksMatch' /\ LocksDisjoint'
      BY <1>4, <2>1 DEF Merges, LocksMatch, LocksDisjoint, Matches, Exists, tables
    <2>4. TokensCopied' /\ RulesMoved'
      BY <1>4, <2>1, MergeSame DEF Merges, TokensCopied, RulesMoved, tables
    <2> QED BY <2>2, <2>3, <2>4 DEF Merges
  <1>5. ASSUME NEW u \in UserIds, ExpireState(u) PROVE Merges'
    BY <1>4, <1>5 DEF ExpireState
  <1>6. CASE UNCHANGED vars
    BY <1>4, <1>6 DEF vars
  <1> QED BY <1>1, <1>2, <1>3, <1>5, <1>6 DEF Next

\* Merges can always rely on it.
LEMMA SpecMerges == Spec => [](IInv /\ Merges)
  <1>1. IInv /\ Merges /\ [Next]_vars => (IInv /\ Merges)'
    BY NextIInv, NextMerges
  <1>2. Init => IInv /\ Merges
    BY InitIInv, InitMerges
  <1> QED BY <1>1, <1>2, PTL DEF Spec

\* After the migration a sign-in finds at most one user by email and one by
\* external ID, so two duplicates cannot both be linked to one Google account.
LEMMA NoConflict == IInv /\ Merges => MergeCannotFail
  <1> SUFFICES ASSUME IInv, Merges, migrated, NEW q \in Requests, Is(q, "merging"), MergeFails(Into(q))
               PROVE  FALSE
    BY DEF MergeCannotFail
  <1>1. PICK into : into = Into(q)
    OBVIOUS
  <1>2. Canonical(q) \in Locks(q) /\ Locks(q) \subseteq UserIds
    BY LocksType
  <1>3. \A u \in UserIds : into[u] = IF u \in Locks(q) THEN Canonical(q) ELSE u
    BY <1>1 DEF Into
  <1>4. PICK c \in ConnectionIds, d \in ConnectionIds :
          /\ c # d /\ Moves(into, c) /\ Moves(into, d) /\ connections[c].sub = connections[d].sub
    BY <1>1 DEF MergeFails
  <1>5. /\ connections[c] # Absent /\ connections[c] \in Connection
        /\ connections[d] # Absent /\ connections[d] \in Connection
    BY <1>4 DEF Moves, IInv, Tables, TypeOK
  <1>6. PICK u, v : u = connections[c].user /\ v = connections[d].user
    OBVIOUS
  <1>7. u \in UserIds /\ v \in UserIds /\ into[u] # u /\ into[v] # v
    BY <1>4, <1>5, <1>6 DEF Moves, Connection
  <1>8. u \in Locks(q) /\ v \in Locks(q) /\ u # Canonical(q) /\ v # Canonical(q)
    BY <1>3, <1>7
  <1>9. u # v
    <2> SUFFICES ASSUME u = v PROVE FALSE
      OBVIOUS
    <2>1. connections[c].user = connections[d].user /\ connections[c].sub = connections[d].sub
      BY <1>4, <1>6
    <2>2. connections[c] = connections[d]
      BY <1>5, <2>1 DEF Connection
    <2> QED BY <1>4, <1>5, <2>2 DEF Merges, UniqueConnections
  <1>10. \A w \in Locks(q) : Matches(q, w)
    BY DEF Merges, LocksMatch
  <1>11. \A w, x \in Locks(q) :
           w # x => users[w].external # users[x].external /\ users[w].email # users[x].email
    BY <1>2, <1>10 DEF Merges, UniqueUsers, Matches
  <1> QED BY <1>2, <1>8, <1>9, <1>10, <1>11 DEF Matches

\* Once the migration has left one user for every email, no merge ever meets the
\* unique constraints that would end each request of that person in a 500.
THEOREM MergesSucceed == Spec => []MergeCannotFail
  BY SpecMerges, NoConflict, PTL

-----------------------------------------------------------------------------
(* What a merge keeps *)

\* A merge keeps every rule that it has moved or need not move, and for every
\* connection one to the same Google account, with a token if it has seen one.
LEMMA MergeKeeps ==
  ASSUME Tables, NEW into, IntoOK(into), NEW copied, NEW moved, NEW row, mergeUsers(into, copied, moved, row)
  PROVE  /\ \A r \in RuleIds : rules[r] # Absent /\ (Folded(into, r) => r \in moved) => rules'[r] # Absent
         /\ \A c \in ConnectionIds : connections[c] # Absent =>
              /\ Target(into, c) \in ConnectionIds
              /\ connections'[Target(into, c)] # Absent
              /\ connections'[Target(into, c)].sub = connections[c].sub
              /\ connections'[Target(into, c)].user = into[connections[c].user]
              /\ copied.tokens[Target(into, c)] # Absent \/ tokens[Target(into, c)] # Absent
                   => tokens'[Target(into, c)] # Absent
  <1>1. ASSUME NEW r \in RuleIds, rules[r] # Absent, Folded(into, r) => r \in moved PROVE rules'[r] # Absent
    <2>1. rules[r] \in Rule
      BY <1>1 DEF Tables, TypeOK
    <2>2. /\ rules[r].source \in ConnectionIds /\ connections[rules[r].source] # Absent
          /\ rules[r].target \in ConnectionIds /\ connections[rules[r].target] # Absent
      BY <1>1, <2>1 DEF Tables, TypeOK, RulesRefer, Rule
    <2>3. /\ Target(into, rules[r].source) \in ConnectionIds
          /\ Target(into, rules[r].target) \in ConnectionIds
      BY <2>2, TargetOf
    <2>4. into[rules[r].user] \in UserIds
      BY <2>1 DEF IntoOK, Rule
    <2>5. rules'[r] = [user   |-> into[rules[r].user],
                       source |-> Target(into, rules[r].source),
                       target |-> Target(into, rules[r].target)]
      BY <1>1 DEF mergeUsers
    <2> QED BY <2>3, <2>4, <2>5 DEF Rule
  <1>2. ASSUME NEW c \in ConnectionIds, connections[c] # Absent, NEW e, e = Target(into, c)
        PROVE  /\ e \in ConnectionIds /\ connections'[e] # Absent
               /\ connections'[e].sub = connections[c].sub
               /\ connections'[e].user = into[connections[c].user]
               /\ copied.tokens[e] # Absent \/ tokens[e] # Absent => tokens'[e] # Absent
    <2>1. /\ e \in ConnectionIds /\ connections[e] # Absent /\ Target(into, e) = e
          /\ connections[e].sub = connections[c].sub /\ into[connections[e].user] = into[connections[c].user]
      BY <1>2, TargetOf
    <2>2. connections[e] \in Connection
      BY <2>1 DEF Tables, TypeOK
    <2>3. connections'[e] = [connections[e] EXCEPT !.user = into[@]]
      BY <2>1 DEF mergeUsers
    <2>4. tokens'[e] = IF copied.tokens[e] # Absent THEN copied.tokens[e] ELSE tokens[e]
      BY <2>1 DEF mergeUsers
    <2>5. connections'[e] \in Connection
      BY <2>2, <2>3 DEF Connection, IntoOK
    <2> QED BY <2>1, <2>2, <2>3, <2>4, <2>5 DEF Connection
  <1> QED BY <1>1, <1>2

\* The body of MergeLosesNothing.
LosesNothing ==
    Removed # {} =>
        /\ \A r \in RuleIds : rules[r] # Absent =>
             \/ rules'[r] # Absent
             \/ /\ ~({rules[r].source, rules[r].target} \subseteq Own(rules[r].user))
                /\ \E q \in Requests : Is(q, "merging") /\ request[q].moved # Absent /\ r \notin request[q].moved
        /\ \A c \in ConnectionIds : connections[c] # Absent =>
             \E e \in ConnectionIds :
                /\ connections'[e] # Absent /\ connections'[e].sub = connections[c].sub
                /\ connections'[e].user = connections[c].user \/ connections[c].user \in Removed
                /\ \/ tokens'[e] # Absent
                   \/ tokens[c] = Absent
                   \/ \E q \in Requests : Is(q, "merging") /\ c \notin request[q].tokened

\* A merge that copies the tokens it has seen loses nothing.
LEMMA MergeLossless ==
  ASSUME Tables, NEW into, IntoOK(into), NEW copied, NEW moved, NEW row, mergeUsers(into, copied, moved, row),
         \A r \in RuleIds : Folded(into, r) =>
            \/ r \in moved
            \/ /\ ~({rules[r].source, rules[r].target} \subseteq Own(rules[r].user))
               /\ \E q \in Requests : Is(q, "merging") /\ request[q].moved # Absent /\ r \notin request[q].moved,
         \A c \in ConnectionIds : connections[c] # Absent /\ Target(into, c) # c /\ tokens[c] # Absent =>
            \/ copied.tokens[Target(into, c)] # Absent
            \/ \E q \in Requests : Is(q, "merging") /\ c \notin request[q].tokened
  PROVE  LosesNothing
  <1> SUFFICES ASSUME NEW c \in ConnectionIds, connections[c] # Absent
               PROVE  \E e \in ConnectionIds :
                        /\ connections'[e] # Absent /\ connections'[e].sub = connections[c].sub
                        /\ connections'[e].user = connections[c].user \/ connections[c].user \in Removed
                        /\ \/ tokens'[e] # Absent
                           \/ tokens[c] = Absent
                           \/ \E q \in Requests : Is(q, "merging") /\ c \notin request[q].tokened
    BY MergeKeeps DEF LosesNothing
  <1>1. PICK e : e = Target(into, c)
    OBVIOUS
  <1>2. /\ e \in ConnectionIds /\ connections'[e] # Absent /\ connections'[e].sub = connections[c].sub
        /\ connections'[e].user = into[connections[c].user]
        /\ copied.tokens[e] # Absent \/ tokens[e] # Absent => tokens'[e] # Absent
    BY <1>1, MergeKeeps
  <1>3. connections'[e].user = connections[c].user \/ connections[c].user \in Removed
    <2> SUFFICES ASSUME into[connections[c].user] # connections[c].user PROVE connections[c].user \in Removed
      BY <1>2
    <2>1. connections[c].user \in UserIds /\ users[connections[c].user] # Absent
      BY DEF Tables, TypeOK, Connection, Exists
    <2>2. users'[connections[c].user] = Absent
      BY <2>1 DEF mergeUsers
    <2> QED BY <2>1, <2>2 DEF Removed
  <1>4. \/ tokens'[e] # Absent
        \/ tokens[c] = Absent
        \/ \E q \in Requests : Is(q, "merging") /\ c \notin request[q].tokened
    BY <1>1, <1>2
  <1> QED BY <1>2, <1>3, <1>4

\* No step loses anything by removing users.
LEMMA StepLossless == IInv /\ Merges /\ [Next]_vars => [LosesNothing]_vars
  <1> SUFFICES ASSUME IInv, Merges, Next PROVE LosesNothing
    OBVIOUS
  <1>1. CASE Migrate
    <2>1. ASSUME NEW c \in ConnectionIds, connections[c] # Absent, Target(Oldest, c) # c, tokens[c] # Absent
          PROVE  Copy(Oldest).tokens[Target(Oldest, c)] # Absent
      <3>1. Target(Oldest, c) \in ConnectionIds
        BY <2>1, OldestOf, TargetOf DEF IInv
      <3>2. c \in Donors(Oldest, Target(Oldest, c))
        BY <2>1 DEF Donors
      <3> QED BY <2>1, <3>1, <3>2, CopiesToken
    <2>2. Tables /\ mergeUsers(Oldest, Copy(Oldest), RuleIds, users)
      BY <1>1 DEF Migrate, IInv
    <2> QED BY <2>1, <2>2, OldestOf, MergeLossless
  <1>2. ASSUME NEW q \in Requests, UpdateUser(q) PROVE LosesNothing
    <2>1. /\ Tables /\ IntoOK(Into(q)) /\ Is(q, "merging") /\ Copies(q)
          /\ Settled(q) /\ request[q].moved # Absent
          /\ \E row : mergeUsers(Into(q), request[q].copied, request[q].moved, row)
      BY <1>2, LocksType DEF UpdateUser, IInv, Merges, TokensCopied, RulesMoved
    <2>2. ASSUME NEW c \in ConnectionIds, Target(Into(q), c) # c
          PROVE  \/ request[q].copied.tokens[Target(Into(q), c)] # Absent
                 \/ \E p \in Requests : Is(p, "merging") /\ c \notin request[p].tokened
      BY <2>1, <2>2 DEF Target, Copies
    <2>3. ASSUME NEW r \in RuleIds, Folded(Into(q), r), r \notin request[q].moved
          PROVE  ~({rules[r].source, rules[r].target} \subseteq Own(rules[r].user))
      <3>1. PICK c \in {rules[r].source, rules[r].target} : Target(Into(q), c) # c
        BY <2>3 DEF Folded
      <3>2. rules[r] # Absent /\ c \in ConnectionIds /\ RefersTo(r, c)
        BY <2>3, <3>1 DEF Folded, RefersTo, IInv, Tables, TypeOK, Rule
      <3>3. connections[c].user # rules[r].user
        BY <2>1, <2>3, <3>1, <3>2 DEF Settled
      <3> QED BY <3>1, <3>3 DEF Own
    <2> QED BY <2>1, <2>2, <2>3, MergeLossless
  <1>3. Removed = {} => LosesNothing
    BY DEF LosesNothing
  <1>4. users' = users => Removed = {}
    BY DEF Removed
  <1>5. ASSUME NEW q \in Requests, InsertUser(q) PROVE Removed = {}
    <2>1. PICK u : users' = [users EXCEPT ![u] = [external |-> request[q].external,
                                                  email    |-> request[q].email]]
      BY <1>5 DEF InsertUser
    <2>2. [external |-> request[q].external, email |-> request[q].email] \in User
      <3>1. request[q] \in Locking
        BY <1>5, AtTypes DEF InsertUser
      <3> QED BY <3>1 DEF Locking, User
    <2> QED BY <2>1, <2>2 DEF Removed, IInv, Tables, TypeOK
  <1>6. ASSUME NEW q \in Requests, Step(q), ~UpdateUser(q), ~InsertUser(q) PROVE users' = users
    BY <1>6 DEF Step, LockRow, BeginMerge, SignInFails, Deadlock, StoreEncryptedToken, syncCalendarsFromToken,
                CallbackFails, GoogleStart, Answer, DeleteGoogleConnection, DeleteRule, CreateRule, UpdateRule,
                SaveRule, MoveRules, tables
  <1>7. ASSUME NEW q \in Requests,
               \/ \E i \in Identities : SignIn(q, i[1], i[2])
               \/ \E u \in UserIds, sub \in Subs : Callback(q, u, sub)
        PROVE  users' = users
    BY <1>7 DEF SignIn, Callback, tables
  <1>8. ASSUME NEW u \in UserIds, ExpireState(u) PROVE users' = users
    BY <1>8 DEF ExpireState, tables
  <1> QED BY <1>1, <1>2, <1>3, <1>4, <1>5, <1>6, <1>7, <1>8 DEF Next

\* Merges, those of sign-ins and of the migration, lose no linked Google account,
\* no token that they have seen, and no rule but one that somebody has saved
\* over a connection of another user since the merge has moved the rules,
\* whatever callbacks and deletions other requests fit in between.
THEOREM MergesLoseNothing == Spec => MergeLosesNothing
  BY SpecMerges, StepLossless, PTL DEF Spec, MergeLosesNothing, LosesNothing

-----------------------------------------------------------------------------
(* What rules copy between *)

\* The body of RulesKeepAccounts.
KeepAccounts ==
    \A r \in RuleIds : rules[r] # Absent /\ rules'[r] # Absent /\ ~Saved(r) =>
        KeepsAccount(r, "source") /\ KeepsAccount(r, "target")

\* A step that leaves the rules there are, and the connections they refer to.
LEMMA SameAccounts ==
  ASSUME Tables, \A r \in RuleIds : rules'[r] # Absent => rules'[r] = rules[r],
         \A r \in RuleIds, c \in ConnectionIds : rules'[r] # Absent /\ RefersTo(r, c) => connections'[c] = connections[c]
  PROVE  KeepAccounts
  <1> SUFFICES ASSUME NEW r \in RuleIds, rules[r] # Absent, rules'[r] # Absent, NEW side \in {"source", "target"}
               PROVE  KeepsAccount(r, side)
    BY DEF KeepAccounts
  <1>1. rules'[r] = rules[r] /\ rules[r] \in Rule /\ rules[r][side] \in ConnectionIds
    BY DEF Tables, TypeOK, Rule
  <1>2. connections[rules[r][side]] # Absent
    BY DEF Tables, TypeOK, RulesRefer
  <1>3. RefersTo(r, rules[r][side])
    BY DEF RefersTo
  <1> QED BY <1>1, <1>2, <1>3 DEF KeepsAccount

\* A merge moves a rule with the connections it refers to.
LEMMA MergeAccounts ==
  ASSUME Tables, NEW into, IntoOK(into), NEW copied, NEW moved, NEW row, mergeUsers(into, copied, moved, row)
  PROVE  KeepAccounts
  <1> SUFFICES ASSUME NEW r \in RuleIds, rules[r] # Absent, rules'[r] # Absent, NEW side \in {"source", "target"}
               PROVE  KeepsAccount(r, side)
    BY DEF KeepAccounts
  <1>1. rules[r] \in Rule /\ rules[r][side] \in ConnectionIds
    BY DEF Tables, TypeOK, Rule
  <1>2. connections[rules[r][side]] # Absent
    BY DEF Tables, TypeOK, RulesRefer
  <1>3. rules'[r].user = into[rules[r].user] /\ rules'[r][side] = Target(into, rules[r][side])
    BY DEF mergeUsers
  <1>4. /\ connections'[Target(into, rules[r][side])] # Absent
        /\ connections'[Target(into, rules[r][side])].sub = connections[rules[r][side]].sub
        /\ connections'[Target(into, rules[r][side])].user = into[connections[rules[r][side]].user]
    BY <1>1, <1>2, MergeKeeps
  <1> QED BY <1>3, <1>4 DEF KeepsAccount

\* No step but a save changes what a rule copies between.
LEMMA StepAccounts == IInv /\ [Next]_vars => [KeepAccounts]_vars
  <1> SUFFICES ASSUME IInv, Next PROVE KeepAccounts
    OBVIOUS
  <1>0. Tables
    BY DEF IInv
  <1>1. CASE Migrate
    BY <1>0, <1>1, OldestOf, MergeAccounts DEF Migrate
  <1>2. ASSUME NEW q \in Requests, UpdateUser(q) PROVE KeepAccounts
    <2>1. IntoOK(Into(q))
      BY <1>2, LocksType DEF UpdateUser
    <2>2. \E row : mergeUsers(Into(q), request[q].copied, request[q].moved, row)
      BY <1>2 DEF UpdateUser
    <2> QED BY <1>0, <2>1, <2>2, MergeAccounts
  <1>3. rules' = rules /\ connections' = connections => KeepAccounts
    BY <1>0, SameAccounts
  <1>4. ASSUME NEW q \in Requests, NEW u \in UserIds, NEW sub \in Subs, Callback(q, u, sub) PROVE KeepAccounts
    <2>1. PICK c \in LinkedTo(u, sub) : /\ connections' = [connections EXCEPT ![c] = [user |-> u, sub |-> sub]]
                                        /\ rules' = rules
      BY <1>4 DEF Callback
    <2>2. ASSUME NEW d \in ConnectionIds, connections[d] # Absent PROVE connections'[d] = connections[d]
      <3>1. connections[d] \in Connection /\ d <= lastConnection /\ lastConnection \in Nat
        BY <1>0, <2>2, NumberTypes DEF Tables, TypeOK
      <3>2. CASE d # c
        BY <1>0, <2>1, <3>2 DEF Tables, TypeOK
      <3>3. CASE d = c
        <4>1. d # lastConnection + 1
          BY <3>1 DEF ConnectionIds
        <4>2. connections[d] = [user |-> u, sub |-> sub]
          BY <2>1, <3>1, <3>3, <4>1 DEF LinkedTo, Own, Connection
        <4> QED BY <1>0, <2>1, <3>3, <4>2 DEF Tables, TypeOK
      <3> QED BY <3>2, <3>3
    <2>3. \A r \in RuleIds, d \in ConnectionIds : RefersTo(r, d) => connections[d] # Absent
      BY <1>0 DEF Tables, TypeOK, RulesRefer, RefersTo
    <2> QED BY <1>0, <2>1, <2>2, <2>3, SameAccounts
  <1>5. ASSUME NEW q \in Requests, NEW c \in ConnectionIds, DeleteGoogleConnection(q, c) PROVE KeepAccounts
    <2>1. /\ connections' = [connections EXCEPT ![c] = Absent]
          /\ rules' = [r \in RuleIds |-> IF RefersTo(r, c) THEN Absent ELSE rules[r]]
      BY <1>5 DEF DeleteGoogleConnection
    <2>2. \A d \in ConnectionIds \ {c} : connections'[d] = connections[d]
      BY <1>0, <2>1 DEF Tables, TypeOK
    <2> QED BY <1>0, <2>1, <2>2, SameAccounts
  <1>6. ASSUME NEW q \in Requests, NEW r \in RuleIds, DeleteRule(q, r) PROVE KeepAccounts
    <2>1. rules' = [rules EXCEPT ![r] = Absent] /\ connections' = connections
      BY <1>6 DEF DeleteRule
    <2>2. \A k \in RuleIds : rules'[k] # Absent => rules'[k] = rules[k]
      BY <1>0, <2>1 DEF Tables, TypeOK
    <2> QED BY <1>0, <2>1, <2>2, SameAccounts
  <1>7. ASSUME NEW q \in Requests, NEW r \in RuleIds, NEW c \in ConnectionIds, NEW d \in ConnectionIds,
               CreateRule(q, r, c, d) \/ UpdateRule(q, r, c, d)
        PROVE  KeepAccounts
    <2>1. /\ Is(q, "signed in") /\ End(q) /\ connections' = connections
          /\ \A k \in RuleIds \ {r} : rules'[k] = rules[k]
      BY <1>0, <1>7 DEF CreateRule, UpdateRule, SaveRule, Tables, TypeOK
    <2>2. ~Is(q, "signed in")'
      <3>1. request'[q] = Idle
        BY <2>1 DEF End, Set, IInv, RequestsOK
      <3> QED BY <3>1 DEF Is, Idle
    <2>3. CASE rules'[r] = rules[r]
      BY <1>0, <2>1, <2>3, SameAccounts
    <2>4. CASE rules'[r] # rules[r]
      <3>1. Saved(r)
        BY <2>1, <2>2, <2>4 DEF Saved
      <3> SUFFICES ASSUME NEW k \in RuleIds \ {r}, rules[k] # Absent, NEW side \in {"source", "target"}
                   PROVE  KeepsAccount(k, side)
        BY <3>1 DEF KeepAccounts
      <3>2. rules[k] \in Rule /\ connections[rules[k][side]] # Absent
        BY <1>0 DEF Tables, TypeOK, RulesRefer
      <3> QED BY <2>1, <3>2 DEF KeepsAccount
    <2> QED BY <2>3, <2>4
  <1>8. ASSUME NEW q \in Requests,
               \/ LockRow(q) \/ InsertUser(q) \/ SignInFails(q) \/ Deadlock(q) \/ BeginMerge(q) \/ MoveRules(q)
               \/ StoreEncryptedToken(q) \/ syncCalendarsFromToken(q) \/ CallbackFails(q)
               \/ GoogleStart(q) \/ Answer(q)
               \/ \E i \in Identities : SignIn(q, i[1], i[2])
        PROVE  rules' = rules /\ connections' = connections
    BY <1>8 DEF LockRow, InsertUser, SignInFails, Deadlock, BeginMerge, MoveRules, StoreEncryptedToken,
                syncCalendarsFromToken, CallbackFails, GoogleStart, Answer, SignIn, tables
  <1>9. ASSUME NEW q \in Requests, Step(q) PROVE KeepAccounts
    BY <1>2, <1>3, <1>5, <1>6, <1>7, <1>8, <1>9 DEF Step
  <1>10. ASSUME NEW u \in UserIds, ExpireState(u) PROVE rules' = rules /\ connections' = connections
    BY <1>10 DEF ExpireState, tables
  <1> QED BY <1>1, <1>3, <1>4, <1>8, <1>9, <1>10 DEF Next

\* However sign-ins and the migration merge users and fold, move and delete
\* their connections, a rule that nobody saves keeps both Google accounts it
\* copies between, and what was a connection of its own user stays one.
THEOREM RulesFollowAccounts == Spec => RulesKeepAccounts
  BY SpecIInv, StepAccounts, PTL DEF Spec, RulesKeepAccounts, KeepAccounts
=============================================================================
