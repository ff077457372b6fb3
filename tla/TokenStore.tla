----------------------------- MODULE TokenStore -----------------------------
(***************************************************************************)
(* The OAuth tokens of connections on their way from a consent to a run:   *)
(* the callback that stores them, the envelopes they are encrypted with    *)
(* (store/token_codec.go, crypto/envelope.go), the change from the static  *)
(* key to KMS with its three re-encrypting writers (worker, API and        *)
(* cmd/calendarsync-admin), and what the Google adapter of a run does with *)
(* a token (adapter/google/adapter.go, auth/handler.go).                   *)
(***************************************************************************)
EXTENDS Naturals, Sequences

CONSTANTS
    Connections,
    Workers,      \* runs that are executed at a time
    MaxGrants,    \* bound: consents for a connection
    Absent

Keys   == {"static", "kms"}
Token  == [grant : 1 .. MaxGrants, key : Keys]   \* a row of encrypted_oauth_tokens

ASSUME TokenStoreAssumption == MaxGrants \in Nat /\ Absent \notin Token

\* newTokenCodec: what the environment of a service sets up.
Static == [primary |-> "static", legacyStatic |-> FALSE]
Both   == [primary |-> "kms",    legacyStatic |-> TRUE]
Kms    == [primary |-> "kms",    legacyStatic |-> FALSE]

VARIABLES
    row,        \* the stored token of each connection
    issued,     \* how many refresh tokens Google has issued for it
    revoked,    \* up to which of them they are revoked
    callback,   \* the token that a callback has encrypted and not stored yet
    codec,      \* of the deployed revision of each service
    admin,      \* calendarsync-admin reencrypt-tokens
    clean,      \* a run of it has succeeded that found all there was
    run         \* executeRun

vars == <<row, issued, revoked, callback, codec, admin, clean, run>>

NoRun == [at |-> "idle", sides |-> <<>>, tokens |-> <<>>, codec |-> Static]

Init ==
    /\ row = [c \in Connections |-> Absent]
    /\ issued = [c \in Connections |-> 0]
    /\ revoked = [c \in Connections |-> 0]
    /\ callback = [c \in Connections |-> Absent]
    /\ codec = [s \in {"api", "worker"} |-> Static]
    /\ admin = Absent
    /\ clean = FALSE
    /\ run = [p \in Workers |-> NoRun]

-----------------------------------------------------------------------------
(* TokenCodec *)

\* Mutant: KeyVersion is not stored.
EncryptWithoutKey(envelope, grant) == [grant |-> grant, key |-> Absent]

\* The two envelopes: AES-GCM, under a static key or under a key that KMS wraps.
Encrypt(envelope, grant)  == [grant |-> grant, key |-> envelope]
Decrypts(envelope, token) == token.key = envelope

EncryptToken(k, grant) == Encrypt(k.primary, grant)

\* DecryptToken: the envelope is chosen by KeyVersion.
Opens(k, token) ==
    Decrypts(IF token.key = "static" /\ k.legacyStatic THEN "static" ELSE k.primary, token)

\* Mutant: re-encrypts whatever there is.
IsAny(k, token) == k.legacyStatic

IsLegacy(k, token) == token.key = "static" /\ k.legacyStatic

\* Mutant: with the envelope that has decrypted it.
ReencryptSame(k, token) == token

ReencryptIfLegacy(k, token) == EncryptToken(k, token.grant)

-----------------------------------------------------------------------------
(* Consent of the user, and its withdrawal.  Bound: one callback at a time *)
(* for a connection.                                                       *)

\* handleGoogleCallback: Exchange and EncryptToken ...
Consent(c) ==
    /\ callback[c] = Absent /\ issued[c] < MaxGrants
    /\ issued' = [issued EXCEPT ![c] = @ + 1]
    /\ callback' = [callback EXCEPT ![c] = EncryptToken(codec["api"], issued[c] + 1)]
    /\ UNCHANGED <<row, revoked, codec, admin, clean, run>>

\* ... and StoreEncryptedToken, if nothing fails before.
StoreConsent(c) ==
    /\ callback[c] # Absent
    /\ row' = [row EXCEPT ![c] = callback[c]]
    /\ callback' = [callback EXCEPT ![c] = Absent]
    /\ UNCHANGED <<issued, revoked, codec, admin, clean, run>>

FailConsent(c) ==
    /\ callback[c] # Absent
    /\ callback' = [callback EXCEPT ![c] = Absent]
    /\ UNCHANGED <<row, issued, revoked, codec, admin, clean, run>>

Revoke(c) ==
    /\ revoked[c] < issued[c]
    /\ revoked' = [revoked EXCEPT ![c] = issued[c]]
    /\ UNCHANGED <<row, issued, callback, codec, admin, clean, run>>

-----------------------------------------------------------------------------
(* From the static key to KMS.  A process keeps the codec it started with. *)

Deploy(s) ==
    /\ \/ codec[s] = Static /\ codec' = [codec EXCEPT ![s] = Both]
       \/ codec[s] = Both /\ clean /\ codec' = [codec EXCEPT ![s] = Kms]
    /\ UNCHANGED <<row, issued, revoked, callback, admin, clean, run>>

\* Nothing writes tokens under the static key any more.
NoStaticWriter ==
    /\ codec["api"] # Static
    /\ \A c \in Connections : callback[c] # Absent => callback[c].key = "kms"

\* reencryptTokens: SELECT ... WHERE key_version = 'static', and then row by row.
AdminStart ==
    /\ admin = Absent /\ ~clean
    /\ LET static == {c \in Connections : row[c] # Absent /\ row[c].key = "static"}
       IN admin' = [left |-> static, found |-> row, all |-> NoStaticWriter]
    /\ UNCHANGED <<row, issued, revoked, callback, codec, clean, run>>

AdminStore(c) ==
    /\ admin # Absent /\ c \in admin.left
    /\ row' = [row EXCEPT ![c] = ReencryptIfLegacy(Both, admin.found[c])]
    /\ admin' = [admin EXCEPT !.left = @ \ {c}]
    /\ UNCHANGED <<issued, revoked, callback, codec, clean, run>>

\* All rows are done; or the key service or the database has failed.
AdminEnd(ok) ==
    /\ admin # Absent
    /\ ok => admin.left = {}
    /\ clean' = (ok /\ admin.all)
    /\ admin' = Absent
    /\ UNCHANGED <<row, issued, revoked, callback, codec, run>>

-----------------------------------------------------------------------------
(* A run; its tokens are read side by side, source before target *)

Set(p, record) == run' = [run EXCEPT ![p] = record]
At(p, at)      == run[p].at = at
Side(p)        == run[p].sides[Len(run[p].tokens) + 1]    \* the next one

StartRun(p, source, target) ==
    /\ At(p, "idle")
    /\ Set(p, [NoRun EXCEPT !.at = "tokens", !.sides = <<source, target>>, !.codec = codec["worker"]])
    /\ UNCHANGED <<row, issued, revoked, callback, codec, admin, clean>>

Ended(p) == Set(p, NoRun) /\ UNCHANGED <<row, issued, revoked, callback, codec, admin, clean>>

Got(p, token) ==
    Set(p, [run[p] EXCEPT !.tokens = Append(@, token),
                          !.at = IF Len(run[p].tokens) = 1 THEN "decrypt" ELSE "tokens"])

\* GetEncryptedToken, and ReencryptIfLegacy.
GetEncryptedToken(p) ==
    /\ At(p, "tokens") /\ row[Side(p)] # Absent
    /\ IF IsLegacy(run[p].codec, row[Side(p)])
       THEN Set(p, [run[p] EXCEPT !.at = "rewritten", !.tokens = Append(@, row[Side(p)])])
       ELSE Got(p, row[Side(p)])
    /\ UNCHANGED <<row, issued, revoked, callback, codec, admin, clean>>

\* StoreEncryptedToken overwrites what is there by then.
StoreRewritten(p) ==
    LET i == Len(run[p].tokens)
        token == ReencryptIfLegacy(run[p].codec, run[p].tokens[i])
    IN /\ At(p, "rewritten")
       /\ row' = [row EXCEPT ![run[p].sides[i]] = token]
       /\ Set(p, [run[p] EXCEPT !.tokens[i] = token, !.at = IF i = 2 THEN "decrypt" ELSE "tokens"])
       /\ UNCHANGED <<issued, revoked, callback, codec, admin, clean>>

\* DecryptToken of both.
Decrypt(p) ==
    /\ At(p, "decrypt")
    /\ \A i \in 1 .. 2 : Opens(run[p].codec, run[p].tokens[i])
    /\ Set(p, [run[p] EXCEPT !.at = "source"])
    /\ UNCHANGED <<row, issued, revoked, callback, codec, admin, clean>>

\* There is no token, or it is under a key that this process does not have.
Refused(p) ==
    /\ \/ At(p, "tokens") /\ row[Side(p)] = Absent
       \/ At(p, "decrypt") /\ \E i \in 1 .. 2 : ~Opens(run[p].codec, run[p].tokens[i])
    /\ Ended(p)

\* SetupOauth2: what ReadCalendarAuth finds in the map of the run.
Credentials(p, i) == run[p].tokens[i]

\* invalid_grant
Revoked(p, i) == Credentials(p, i).grant <= revoked[run[p].sides[i]]
Probing(p)    == IF At(p, "source") THEN 1 ELSE 2

\* Mutant: asks for reauthentication although it is still authenticated.
ProbeAgain(p) ==
    /\ At(p, "source") \/ At(p, "target")
    /\ Set(p, IF Revoked(p, Probing(p)) THEN run[p]
              ELSE [run[p] EXCEPT !.at = IF At(p, "source") THEN "target" ELSE "sync"])
    /\ UNCHANGED <<row, issued, revoked, callback, codec, admin, clean>>

\* A revoked token is found out, removed from the
\* map of the run, and Listen waits for a redirect to localhost.
Initialize(p) ==
    /\ At(p, "source") \/ At(p, "target")
    /\ Set(p, [run[p] EXCEPT !.at = IF Revoked(p, Probing(p)) THEN "listen"
                                    ELSE IF At(p, "source") THEN "target" ELSE "sync"])
    /\ UNCHANGED <<row, issued, revoked, callback, codec, admin, clean>>

\* The synchronisation: RunWorker and CalendarSync.
Synchronise(p) == At(p, "sync") /\ Ended(p)

\* An error, be it of the database, the key service or Google, or a context
\* that is done; Listen looks at none, and a run that listens goes on.
Fail(p) == run[p].at \notin {"idle", "listen"} /\ Ended(p)

\* The process is stopped.
Crash(p) == ~At(p, "idle") /\ Ended(p)

Work(p) ==
    \/ GetEncryptedToken(p) \/ StoreRewritten(p) \/ Decrypt(p) \/ Refused(p)
    \/ Initialize(p) \/ Synchronise(p)

Next ==
    \/ \E c \in Connections : \/ Consent(c) \/ StoreConsent(c) \/ FailConsent(c) \/ Revoke(c)
                              \/ AdminStore(c)
    \/ \E s \in {"api", "worker"} : Deploy(s)
    \/ AdminStart
    \/ \E ok \in BOOLEAN : AdminEnd(ok)
    \/ \E p \in Workers :
         \/ \E c, d \in Connections : StartRun(p, c, d)
         \/ Work(p) \/ Fail(p) \/ Crash(p)

\* executeRun goes on whenever it can.
Fairness == \A p \in Workers : WF_vars(Work(p))

Spec == Init /\ [][Next]_vars /\ Fairness

-----------------------------------------------------------------------------
(* Properties *)

\* Tokens were issued before they are stored, revoked, copied or re-encrypted.
TypeOK ==
    /\ row \in [Connections -> Token \cup {Absent}]
    /\ callback \in [Connections -> Token \cup {Absent}]
    /\ issued \in [Connections -> 0 .. MaxGrants]
    /\ \A c \in Connections : /\ revoked[c] \in 0 .. issued[c]
                              /\ row[c] # Absent => row[c].grant <= issued[c]
    /\ \A s \in {"api", "worker"} : codec[s] \in {Static, Both, Kms}
    /\ clean \in BOOLEAN
    /\ \A p \in Workers : \A i \in 1 .. Len(run[p].tokens) :
         run[p].tokens[i] \in Token /\ run[p].tokens[i].grant <= issued[run[p].sides[i]]

\* Once both services know both keys, every stored token can be opened by both;
\* and still when the static key is taken away from them after a successful run
\* of reencrypt-tokens, whatever callbacks, runs and that command were doing.
StoredTokensOpen ==
    (\A s \in {"api", "worker"} : codec[s] # Static) =>
        \A s \in {"api", "worker"}, c \in Connections : row[c] # Absent => Opens(codec[s], row[c])

\* A token that was read under the static key is yet to be stored again.
Underway ==
    \/ admin # Absent /\ admin.left # {}
    \/ \E p \in Workers : At(p, "rewritten") /\ run[p].tokens[Len(run[p].tokens)].key = "static"

\* Re-encryption ignores what was stored since it read, so a token may be
\* replaced by an older one; but only while the change of keys lasts: with the
\* last static row gone and nothing underway, no writer ever takes a
\* connection back to an older consent, be its services on one key or on two.
NoOlderGrant ==
    [][ ~Underway /\ clean => \A c \in Connections :
          row[c] # Absent => row'[c] # Absent /\ row'[c].grant >= row[c].grant ]_vars

\* A run ends, with success or error, or it listens for a consent because a
\* token that it read has been revoked; nothing else makes it wait.
Listening(p)  == At(p, "listen") /\ \E i \in 1 .. 2 : Revoked(p, i)
RunEndsOrListens == \A p \in Workers : ~At(p, "idle") ~> (At(p, "idle") \/ Listening(p))
=============================================================================
