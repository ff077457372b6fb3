-------------------------- MODULE TokenStore_proofs --------------------------
(* Theorems about stored tokens, for any number of connections, runs and      *)
(* consents.                                                                  *)
EXTENDS TokenStore, SequenceTheorems, TLAPS

USE TokenStoreAssumption

Codecs == {Static, Both, Kms}

Places == {"idle", "tokens", "rewritten", "decrypt", "source", "target", "listen", "sync"}

\* Of the tokens a run holds, the last is the one it is about to store again.
RunType == [at : Places, sides : Seq(Connections), tokens : Seq(Token), codec : Codecs]

RunOK(r) ==
    /\ r \in RunType
    /\ r.at # "idle" => Len(r.sides) = 2
    /\ r.at = "idle" => r.tokens = <<>>
    /\ Len(r.tokens) <= 2
    /\ r.at = "tokens" => Len(r.tokens) < 2
    /\ r.at = "rewritten" => Len(r.tokens) >= 1 /\ IsLegacy(r.codec, r.tokens[Len(r.tokens)])

AdminOK ==
    admin # Absent =>
      /\ admin \in [left : SUBSET Connections, found : [Connections -> Token \cup {Absent}], all : BOOLEAN]
      /\ \A c \in admin.left : admin.found[c] # Absent

Types ==
    /\ row \in [Connections -> Token \cup {Absent}]
    /\ callback \in [Connections -> Token \cup {Absent}]
    /\ issued \in [Connections -> 0 .. MaxGrants]
    /\ revoked \in [Connections -> 0 .. MaxGrants]
    /\ codec \in [{"api", "worker"} -> Codecs]
    /\ clean \in BOOLEAN
    /\ AdminOK
    /\ run \in [Workers -> RunType]

\* The tokens a run holds were issued for the connections it runs for.
Held(r, upTo) == \A i \in 1 .. Len(r.tokens) : r.tokens[i].grant <= upTo[r.sides[i]]

RunsOK == \A p \in Workers : RunOK(run[p]) /\ Held(run[p], issued)

\* Nobody holds a token that was not issued; one callback at a time means that
\* it holds the last one.
Issued ==
    \A c \in Connections : /\ row[c] # Absent => row[c].grant <= issued[c]
                           /\ callback[c] # Absent => callback[c].grant = issued[c]
                           /\ revoked[c] <= issued[c]
                           /\ admin # Absent /\ admin.found[c] # Absent => admin.found[c].grant <= issued[c]

IInv == Types /\ Issued /\ RunsOK

\* The invariant holds before any consent.
THEOREM InitIInv == Init => IInv
  <1> SUFFICES ASSUME Init PROVE IInv
    OBVIOUS
  <1> USE DEF Init
  <1>1. RunOK(NoRun) /\ NoRun \in RunType /\ Held(NoRun, issued)
    BY DEF RunOK, RunType, NoRun, Places, Codecs, Held
  <1>2. Types
    <2>1. codec \in [{"api", "worker"} -> Codecs]
      BY DEF Codecs
    <2>2. row \in [Connections -> Token \cup {Absent}] /\ callback \in [Connections -> Token \cup {Absent}]
      OBVIOUS
    <2>3. issued \in [Connections -> 0 .. MaxGrants] /\ revoked \in [Connections -> 0 .. MaxGrants]
      OBVIOUS
    <2>4. run \in [Workers -> RunType]
      BY <1>1
    <2>5. clean \in BOOLEAN /\ AdminOK
      BY DEF AdminOK
    <2> HIDE DEF Init
    <2> QED BY <2>1, <2>2, <2>3, <2>4, <2>5 DEF Types
  <1>3. Issued
    <2> SUFFICES ASSUME NEW c \in Connections
                 PROVE  row[c] = Absent /\ callback[c] = Absent /\ revoked[c] <= issued[c] /\ admin = Absent
      BY DEF Issued
    <2>1. row[c] = Absent /\ callback[c] = Absent /\ admin = Absent
      OBVIOUS
    <2>2. revoked[c] = 0 /\ issued[c] = 0
      OBVIOUS
    <2> QED BY <2>1, <2>2
  <1>4. RunsOK
    BY <1>1 DEF RunsOK
  <1> QED BY <1>2, <1>3, <1>4 DEF IInv

-----------------------------------------------------------------------------
(* The operators of the codec *)

\* What both envelopes make of a grant is a token of that grant.
LEMMA EncryptTypes ==
  ASSUME NEW k \in Codecs, NEW g \in 1 .. MaxGrants
  PROVE  EncryptToken(k, g) \in Token /\ EncryptToken(k, g).grant = g
  BY DEF Codecs, Static, Both, Kms, Token, Keys, EncryptToken, Encrypt

\* Re-encryption keeps the grant; a legacy token ends up under the KMS key.
LEMMA ReencryptTypes ==
  ASSUME NEW k \in Codecs, NEW t \in Token
  PROVE  /\ ReencryptIfLegacy(k, t) \in Token
         /\ ReencryptIfLegacy(k, t).grant = t.grant
         /\ IsLegacy(k, t) => k = Both
         /\ k = Both => ReencryptIfLegacy(k, t).key = "kms"
  BY DEF Codecs, Static, Both, Kms, Token, Keys, ReencryptIfLegacy, EncryptToken, Encrypt, IsLegacy

\* Grants that only go up leave the runs as they are.
LEMMA HeldGrows ==
  ASSUME NEW r, RunOK(r), NEW old, NEW new, old \in [Connections -> 0 .. MaxGrants],
         new \in [Connections -> 0 .. MaxGrants],
         \A c \in Connections : old[c] <= new[c], Held(r, old), r.at # "idle"
  PROVE  Held(r, new)
  <1> SUFFICES ASSUME NEW i \in 1 .. Len(r.tokens) PROVE r.tokens[i].grant <= new[r.sides[i]]
    BY DEF Held
  <1>1. r.sides[i] \in Connections /\ r.tokens[i] \in Token /\ r.tokens[i].grant <= old[r.sides[i]]
    BY DEF RunOK, RunType, Held
  <1>2. r.tokens[i].grant \in Nat
    BY <1>1 DEF Token
  <1> QED BY <1>1, <1>2

-----------------------------------------------------------------------------
(* Consents *)

\* Consents, their callbacks and their withdrawal keep the invariant.
LEMMA ConsentStep ==
  ASSUME IInv, NEW c \in Connections, Consent(c) \/ StoreConsent(c) \/ FailConsent(c) \/ Revoke(c)
  PROVE  IInv'
  <1> USE DEF IInv
  <1>1. CASE Consent(c)
    <2>1. issued[c] + 1 \in 1 .. MaxGrants /\ issued[c] \in Nat
      BY <1>1 DEF Consent, Types
    <2>2. codec["api"] \in Codecs
      BY DEF Types
    <2>3. /\ EncryptToken(codec["api"], issued[c] + 1) \in Token
          /\ EncryptToken(codec["api"], issued[c] + 1).grant = issued[c] + 1
      BY <2>1, <2>2, EncryptTypes
    <2>4. issued' \in [Connections -> 0 .. MaxGrants] /\ \A d \in Connections : issued[d] <= issued'[d]
      BY <1>1, <2>1 DEF Consent, Types
    <2>5. Types'
      BY <1>1, <2>3, <2>4 DEF Consent, Types, AdminOK
    <2>6. Issued'
      <3> SUFFICES ASSUME NEW d \in Connections
                   PROVE  /\ row[d] # Absent => row[d].grant <= issued'[d]
                          /\ callback'[d] # Absent => callback'[d].grant = issued'[d]
                          /\ revoked[d] <= issued'[d]
                          /\ admin # Absent /\ admin.found[d] # Absent => admin.found[d].grant <= issued'[d]
        BY <1>1 DEF Issued, Consent
      <3>1. issued[d] \in Nat /\ issued'[d] \in Nat /\ issued[d] <= issued'[d] /\ revoked[d] \in Nat
        BY <2>4 DEF Types
      <3>2. row[d] # Absent => row[d].grant \in Nat
        BY DEF Types, Token
      <3>3. admin # Absent /\ admin.found[d] # Absent => admin.found[d].grant \in Nat
        BY DEF Types, AdminOK, Token
      <3>4. callback'[d] # Absent => callback'[d].grant = issued'[d]
        BY <1>1, <2>3 DEF Consent, Types, Issued
      <3> QED BY <3>1, <3>2, <3>3, <3>4 DEF Issued
    <2>7. RunsOK'
      <3> SUFFICES ASSUME NEW p \in Workers PROVE RunOK(run[p]) /\ Held(run[p], issued')
        BY <1>1 DEF RunsOK, Consent
      <3>1. RunOK(run[p]) /\ Held(run[p], issued)
        BY DEF RunsOK
      <3>2. CASE run[p].at = "idle"
        BY <3>1, <3>2 DEF RunOK, Held
      <3>3. CASE run[p].at # "idle"
        BY <3>1, <3>3, <2>4, HeldGrows DEF Types
      <3> QED BY <3>1, <3>2, <3>3
    <2> QED BY <2>5, <2>6, <2>7
  <1>2. CASE StoreConsent(c) \/ FailConsent(c)
    <2>1. Types'
      BY <1>2 DEF StoreConsent, FailConsent, Types, AdminOK
    <2>2. Issued'
      BY <1>2 DEF StoreConsent, FailConsent, Types, Issued
    <2>3. RunsOK'
      BY <1>2 DEF StoreConsent, FailConsent, RunsOK
    <2> QED BY <2>1, <2>2, <2>3
  <1>3. CASE Revoke(c)
    <2>1. Types'
      BY <1>3 DEF Revoke, Types, AdminOK
    <2>2. Issued'
      BY <1>3 DEF Revoke, Types, Issued
    <2>3. RunsOK'
      BY <1>3 DEF Revoke, RunsOK
    <2> QED BY <2>1, <2>2, <2>3
  <1> QED BY <1>1, <1>2, <1>3

-----------------------------------------------------------------------------
(* The change of keys *)

\* Deployments and reencrypt-tokens keep the invariant.
LEMMA KeyStep ==
  ASSUME IInv,
         \/ \E s \in {"api", "worker"} : Deploy(s)
         \/ AdminStart
         \/ \E ok \in BOOLEAN : AdminEnd(ok)
         \/ \E c \in Connections : AdminStore(c)
  PROVE  IInv'
  <1> USE DEF IInv
  <1>1. CASE \E s \in {"api", "worker"} : Deploy(s)
    <2>1. PICK s \in {"api", "worker"} : Deploy(s)
      BY <1>1
    <2>2. Types'
      BY <2>1 DEF Deploy, Types, AdminOK, Codecs
    <2> QED BY <2>1, <2>2 DEF Deploy, Issued, RunsOK
  <1>2. CASE AdminStart
    <2>1. admin'.found = row /\ AdminOK'
      BY <1>2 DEF AdminStart, AdminOK, Types, NoStaticWriter
    <2>2. Types'
      BY <1>2, <2>1 DEF AdminStart, Types
    <2> QED BY <1>2, <2>1, <2>2 DEF AdminStart, Issued, RunsOK
  <1>3. CASE \E ok \in BOOLEAN : AdminEnd(ok)
    <2>1. PICK ok \in BOOLEAN : AdminEnd(ok)
      BY <1>3
    <2>2. clean' \in BOOLEAN
      BY <2>1 DEF AdminEnd, Types, AdminOK
    <2>3. Types'
      BY <2>1, <2>2 DEF AdminEnd, Types, AdminOK
    <2> QED BY <2>1, <2>3 DEF AdminEnd, Issued, RunsOK
  <1>4. CASE \E c \in Connections : AdminStore(c)
    <2>1. PICK c \in Connections : AdminStore(c)
      BY <1>4
    <2>2. admin.found[c] \in Token /\ admin.found[c].grant <= issued[c]
      BY <2>1 DEF AdminStore, Types, AdminOK, Issued
    <2>3. /\ ReencryptIfLegacy(Both, admin.found[c]) \in Token
          /\ ReencryptIfLegacy(Both, admin.found[c]).grant <= issued[c]
      BY <2>2, ReencryptTypes DEF Codecs
    <2>4. AdminOK' /\ admin'.found = admin.found
      BY <2>1 DEF AdminStore, AdminOK, Types
    <2>5. Types'
      BY <2>1, <2>3, <2>4 DEF AdminStore, Types
    <2>6. Issued'
      BY <2>1, <2>3, <2>4 DEF AdminStore, Types, Issued
    <2> QED BY <2>1, <2>5, <2>6 DEF AdminStore, RunsOK
  <1> QED BY <1>1, <1>2, <1>3, <1>4

-----------------------------------------------------------------------------
(* Runs *)

\* A step of a run that leaves everything else alone.
LEMMA SetRun ==
  ASSUME IInv, NEW p \in Workers, NEW r, Set(p, r), RunOK(r), Held(r, issued),
         UNCHANGED <<issued, revoked, callback, codec, admin, clean>>,
         row' \in [Connections -> Token \cup {Absent}],
         \A c \in Connections : row'[c] # Absent => row'[c].grant <= issued[c]
  PROVE  IInv'
  <1> USE DEF IInv
  <1>1. run' = [run EXCEPT ![p] = r] /\ run' \in [Workers -> RunType]
    BY DEF Set, Types, RunOK
  <1>2. Types'
    BY <1>1 DEF Types, AdminOK
  <1>3. Issued'
    BY DEF Issued
  <1>4. RunsOK'
    BY <1>1 DEF RunsOK, Types
  <1> QED BY <1>2, <1>3, <1>4

\* The same without a write to the database.
LEMMA SetRunOnly ==
  ASSUME IInv, NEW p \in Workers, NEW r, Set(p, r), RunOK(r), Held(r, issued),
         UNCHANGED <<row, issued, revoked, callback, codec, admin, clean>>
  PROVE  IInv'
  <1>1. row' \in [Connections -> Token \cup {Absent}] /\ \A c \in Connections : row'[c] # Absent => row'[c].grant <= issued[c]
    BY DEF IInv, Types, Issued
  <1> QED BY <1>1, SetRun

\* A run that holds another token.
LEMMA GotToken ==
  ASSUME NEW r, RunOK(r), Held(r, issued), r.at = "tokens", issued \in [Connections -> 0 .. MaxGrants],
         NEW t \in Token, t.grant <= issued[r.sides[Len(r.tokens) + 1]],
         NEW at \in {"rewritten", "tokens", "decrypt"},
         at = "tokens" => Len(r.tokens) = 0,
         at = "rewritten" => IsLegacy(r.codec, t)
  PROVE  /\ RunOK([r EXCEPT !.tokens = Append(@, t), !.at = at])
         /\ Held([r EXCEPT !.tokens = Append(@, t), !.at = at], issued)
  <1> DEFINE n == [r EXCEPT !.tokens = Append(@, t), !.at = at]
  <1>1. /\ r \in RunType /\ n = [r EXCEPT !.tokens = Append(r.tokens, t), !.at = at]
        /\ r.tokens \in Seq(Token) /\ Len(r.tokens) \in Nat /\ Len(r.tokens) < 2
    BY DEF RunOK, RunType
  <1>2. /\ Append(r.tokens, t) \in Seq(Token) /\ Len(Append(r.tokens, t)) = Len(r.tokens) + 1
        /\ Append(r.tokens, t)[Len(r.tokens) + 1] = t
        /\ \A i \in 1 .. Len(r.tokens) : Append(r.tokens, t)[i] = r.tokens[i]
    BY <1>1, AppendProperties
  <1>3. n \in RunType /\ n.at = at /\ n.tokens = Append(r.tokens, t) /\ n.sides = r.sides /\ n.codec = r.codec
    BY <1>1, <1>2 DEF RunType, Places
  <1>4. RunOK(n)
    BY <1>1, <1>2, <1>3 DEF RunOK
  <1>5. Held(n, issued)
    BY <1>1, <1>2, <1>3 DEF Held
  <1> HIDE DEF n
  <1> QED BY <1>4, <1>5 DEF n

\* What is known of a run that has not ended.
LEMMA RunFacts ==
  ASSUME NEW r, RunOK(r), r.at # "idle"
  PROVE  /\ r.tokens \in Seq(Token) /\ Len(r.tokens) \in 0 .. 2
         /\ r.sides \in Seq(Connections) /\ Len(r.sides) = 2
         /\ \A i \in 1 .. 2 : r.sides[i] \in Connections
         /\ \A i \in 1 .. Len(r.tokens) : r.tokens[i] \in Token
         /\ r.codec \in Codecs
         /\ r.at = "tokens" => Len(r.tokens) + 1 \in 1 .. 2 /\ (Len(r.tokens) # 1 => Len(r.tokens) = 0)
         /\ r.at = "rewritten" => Len(r.tokens) \in 1 .. 2 /\ Len(r.tokens) \in 1 .. Len(r.tokens)
  <1>1. r \in RunType /\ Len(r.sides) = 2 /\ Len(r.tokens) <= 2
    BY DEF RunOK
  <1>2. r.tokens \in Seq(Token) /\ r.sides \in Seq(Connections) /\ r.codec \in Codecs
    BY <1>1 DEF RunType
  <1>3. Len(r.tokens) \in Nat
    BY <1>2
  <1>4. \A i \in 1 .. 2 : r.sides[i] \in Connections
    BY <1>1, <1>2
  <1>5. \A i \in 1 .. Len(r.tokens) : r.tokens[i] \in Token
    BY <1>2
  <1>6. \A k \in Nat : /\ k <= 2 => k \in 0 .. 2
                       /\ k < 2 => k + 1 \in 1 .. 2 /\ (k # 1 => k = 0)
                       /\ k <= 2 /\ k >= 1 => k \in 1 .. 2 /\ k \in 1 .. k
    OBVIOUS
  <1>7. /\ r.at = "tokens" => Len(r.tokens) < 2
        /\ r.at = "rewritten" => Len(r.tokens) >= 1
    BY DEF RunOK
  <1> QED BY <1>1, <1>2, <1>3, <1>4, <1>5, <1>6, <1>7

\* A run that has stored its last token under another key.
LEMMA RewroteToken ==
  ASSUME NEW r, RunOK(r), Held(r, issued), r.at = "rewritten", NEW t \in Token,
         t.grant <= issued[r.sides[Len(r.tokens)]],
         NEW at \in {"tokens", "decrypt"}, at = "tokens" => Len(r.tokens) < 2
  PROVE  /\ RunOK([r EXCEPT !.tokens[Len(r.tokens)] = t, !.at = at])
         /\ Held([r EXCEPT !.tokens[Len(r.tokens)] = t, !.at = at], issued)
  <1> DEFINE i == Len(r.tokens)
             s == [r.tokens EXCEPT ![i] = t]
             n == [r EXCEPT !.tokens[i] = t, !.at = at]
  <1>1. r.tokens \in Seq(Token) /\ i \in 1 .. 2 /\ r \in RunType
    BY RunFacts DEF RunOK
  <1>2. ASSUME NEW q \in Seq(Token), NEW k \in 1 .. 2, k = Len(q)
        PROVE  /\ [q EXCEPT ![k] = t] \in Seq(Token) /\ Len([q EXCEPT ![k] = t]) = k
               /\ \A j \in 1 .. k : [q EXCEPT ![k] = t][j] = IF j = k THEN t ELSE q[j]
    <2>1. k \in 1 .. Len(q)
      BY <1>2
    <2> QED BY <1>2, <2>1, ExceptSeq
  <1>3. /\ s \in Seq(Token) /\ Len(s) = i
        /\ \A j \in 1 .. i : s[j] = IF j = i THEN t ELSE r.tokens[j]
    BY <1>1, <1>2
  <1>4. n \in RunType /\ n.at = at /\ n.tokens = s /\ n.sides = r.sides
    BY <1>1, <1>3 DEF RunType, Places
  <1> HIDE DEF n, s
  <1>5. RunOK(n)
    BY <1>1, <1>3, <1>4 DEF RunOK
  <1>6. Held(n, issued)
    BY <1>1, <1>3, <1>4 DEF Held
  <1> QED BY <1>5, <1>6 DEF n

\* Every step of a run keeps the invariant.
LEMMA RunStep ==
  ASSUME IInv, NEW p \in Workers,
         \/ \E c, d \in Connections : StartRun(p, c, d)
         \/ Work(p) \/ Fail(p) \/ Crash(p)
  PROVE  IInv'
  <1> DEFINE r == run[p]
  <1>1. RunOK(r) /\ Held(r, issued) /\ r \in RunType
    BY DEF IInv, RunsOK, RunOK
  <1> HIDE DEF r
  <1>2. ASSUME Ended(p) PROVE IInv'
    <2>1. RunOK(NoRun) /\ Held(NoRun, issued)
      BY DEF RunOK, RunType, NoRun, Places, Codecs, Held
    <2> QED BY <1>2, <2>1, SetRunOnly DEF Ended
  <1>3. ASSUME NEW at \in {"source", "target", "listen", "sync"}, r.at # "idle", Set(p, [r EXCEPT !.at = at]),
               UNCHANGED <<row, issued, revoked, callback, codec, admin, clean>>
        PROVE  IInv'
    <2> DEFINE n == [r EXCEPT !.at = at]
    <2>1. /\ n \in RunType /\ n.at = at /\ n.tokens = r.tokens /\ n.sides = r.sides
      BY <1>1 DEF RunType, Places
    <2>2. RunOK(n) /\ Held(n, issued)
      BY <1>1, <1>3, <2>1 DEF RunOK, Held
    <2> HIDE DEF n
    <2>3. Set(p, n)
      BY <1>3 DEF n
    <2> QED BY <1>3, <2>2, <2>3, SetRunOnly
  <1>4. CASE \E c, d \in Connections : StartRun(p, c, d)
    <2>1. PICK c \in Connections, d \in Connections : StartRun(p, c, d)
      BY <1>4
    <2> DEFINE s == <<c, d>>
               n == [NoRun EXCEPT !.at = "tokens", !.sides = s, !.codec = codec["worker"]]
    <2>2. codec["worker"] \in Codecs
      BY DEF IInv, Types
    <2>3. s \in Seq(Connections) /\ Len(s) = 2
      OBVIOUS
    <2>4. Set(p, n) /\ UNCHANGED <<row, issued, revoked, callback, codec, admin, clean>>
      BY <2>1 DEF StartRun
    <2> HIDE DEF s
    <2>5. NoRun \in RunType /\ NoRun.tokens = <<>>
      BY DEF NoRun, RunType, Places, Codecs
    <2>6. n \in RunType /\ n.at = "tokens" /\ n.sides = s /\ n.tokens = <<>>
      BY <2>2, <2>3, <2>5 DEF RunType, Places
    <2>7. RunOK(n) /\ Held(n, issued)
      BY <2>3, <2>6 DEF RunOK, Held
    <2> HIDE DEF n
    <2> QED BY <2>4, <2>7, SetRunOnly
  <1>5. CASE GetEncryptedToken(p)
    <2> DEFINE t == row[Side(p)]
               n(at) == [r EXCEPT !.tokens = Append(@, t), !.at = at]
    <2>1. r.at = "tokens" /\ t # Absent
      BY <1>5 DEF GetEncryptedToken, At, Side, r
    <2>2. (Len(r.tokens) # 1 => Len(r.tokens) = 0) /\ Side(p) \in Connections /\ Side(p) = r.sides[Len(r.tokens) + 1]
      <3>1. r.at # "idle"
        BY <2>1
      <3>2. (Len(r.tokens) # 1 => Len(r.tokens) = 0) /\ r.sides[Len(r.tokens) + 1] \in Connections
        BY <1>1, <2>1, <3>1, RunFacts
      <3>3. Side(p) = r.sides[Len(r.tokens) + 1]
        BY DEF Side, r
      <3> QED BY <3>2, <3>3
    <2>3. t \in Token /\ t.grant <= issued[Side(p)]
      BY <2>1, <2>2 DEF IInv, Types, Issued
    <2>4. issued \in [Connections -> 0 .. MaxGrants]
      BY DEF IInv, Types
    <2> HIDE DEF t
    <2>5. CASE IsLegacy(r.codec, t)
      <3>1. RunOK(n("rewritten")) /\ Held(n("rewritten"), issued)
        BY <1>1, <2>1, <2>2, <2>3, <2>4, <2>5, GotToken
      <3>2. n("rewritten") = [r EXCEPT !.at = "rewritten", !.tokens = Append(@, t)]
        BY <1>1 DEF RunType
      <3>3. Set(p, n("rewritten"))
        BY <1>5, <2>5, <3>2 DEF GetEncryptedToken, t, r
      <3> HIDE DEF n
      <3> QED BY <1>5, <3>1, <3>3, SetRunOnly DEF GetEncryptedToken
    <2>6. CASE ~IsLegacy(r.codec, t)
      <3> DEFINE at == IF Len(r.tokens) = 1 THEN "decrypt" ELSE "tokens"
      <3>1. at \in {"tokens", "decrypt"} /\ (at = "tokens" => Len(r.tokens) = 0)
        BY <2>2
      <3> HIDE DEF at
      <3>2. RunOK(n(at)) /\ Held(n(at), issued)
        BY <1>1, <2>1, <2>2, <2>3, <2>4, <3>1, GotToken
      <3>3. Set(p, n(at))
        BY <1>5, <2>6 DEF GetEncryptedToken, Got, t, at, r
      <3> HIDE DEF n
      <3> QED BY <1>5, <3>2, <3>3, SetRunOnly DEF GetEncryptedToken
    <2> QED BY <2>5, <2>6
  <1>6. CASE StoreRewritten(p)
    <2> DEFINE i == Len(r.tokens)
               t == ReencryptIfLegacy(r.codec, r.tokens[i])
               at == IF i = 2 THEN "decrypt" ELSE "tokens"
               n == [r EXCEPT !.tokens[i] = t, !.at = at]
    <2>1. r.at = "rewritten" /\ r.at # "idle"
      BY <1>6 DEF StoreRewritten, At, r
    <2>2. i \in 1 .. 2 /\ i \in 1 .. i /\ r.sides[i] \in Connections /\ r.tokens[i] \in Token /\ r.codec \in Codecs
      BY <1>1, <2>1, RunFacts
    <2>3. t \in Token /\ t.grant <= issued[r.sides[i]]
      <3>1. r.tokens[i].grant <= issued[r.sides[i]]
        BY <1>1, <2>2 DEF Held
      <3> QED BY <2>2, <3>1, ReencryptTypes
    <2>4. at \in {"tokens", "decrypt"} /\ (at = "tokens" => i < 2)
      BY <2>2
    <2> HIDE DEF t, at
    <2>5. RunOK(n) /\ Held(n, issued)
      BY <1>1, <2>1, <2>3, <2>4, RewroteToken
    <2>6. Set(p, n) /\ row' = [row EXCEPT ![r.sides[i]] = t]
      BY <1>6 DEF StoreRewritten, t, at, r
    <2>7. /\ row' \in [Connections -> Token \cup {Absent}]
          /\ \A c \in Connections : row'[c] # Absent => row'[c].grant <= issued[c]
      BY <2>2, <2>3, <2>6 DEF IInv, Types, Issued
    <2>8. UNCHANGED <<issued, revoked, callback, codec, admin, clean>>
      BY <1>6 DEF StoreRewritten
    <2> HIDE DEF n
    <2> QED BY <2>5, <2>6, <2>7, <2>8, SetRun
  <1>7. CASE Decrypt(p)
    BY <1>3, <1>7 DEF Decrypt, At, r
  <1>8. CASE Initialize(p)
    <2> DEFINE at == IF Revoked(p, Probing(p)) THEN "listen" ELSE IF At(p, "source") THEN "target" ELSE "sync"
    <2>1. at \in {"source", "target", "listen", "sync"}
      OBVIOUS
    <2>2. /\ Set(p, [r EXCEPT !.at = at]) /\ UNCHANGED <<row, issued, revoked, callback, codec, admin, clean>>
          /\ r.at # "idle"
      BY <1>8 DEF Initialize, At, r
    <2> HIDE DEF at
    <2> QED BY <1>3, <2>1, <2>2
  <1>9. CASE Refused(p) \/ Synchronise(p) \/ Fail(p) \/ Crash(p)
    BY <1>2, <1>9 DEF Refused, Synchronise, Fail, Crash
  <1> QED BY <1>4, <1>5, <1>6, <1>7, <1>8, <1>9 DEF Work

\* Every step keeps the invariant.
THEOREM NextIInv == IInv /\ [Next]_vars => IInv'
  <1> SUFFICES ASSUME IInv, [Next]_vars PROVE IInv'
    OBVIOUS
  <1>1. CASE \E c \in Connections : Consent(c) \/ StoreConsent(c) \/ FailConsent(c) \/ Revoke(c)
    BY <1>1, ConsentStep
  <1>2. CASE \/ \E s \in {"api", "worker"} : Deploy(s)
             \/ AdminStart
             \/ \E ok \in BOOLEAN : AdminEnd(ok)
             \/ \E c \in Connections : AdminStore(c)
    BY <1>2, KeyStep
  <1>3. CASE \E p \in Workers : \/ \E c, d \in Connections : StartRun(p, c, d)
                                \/ Work(p) \/ Fail(p) \/ Crash(p)
    BY <1>3, RunStep
  <1>4. CASE UNCHANGED vars
    BY <1>4 DEF vars, IInv, Types, AdminOK, Issued, RunsOK
  <1> QED BY <1>1, <1>2, <1>3, <1>4 DEF Next

\* The invariant always holds.
LEMMA SpecIInv == Spec => []IInv
  BY InitIInv, NextIInv, PTL DEF Spec

\* The tokens of connections, callbacks and runs are tokens that were issued
\* before, whoever copies, re-encrypts, revokes or loses them.
THEOREM TypeCorrect == Spec => []TypeOK
  <1>1. IInv => TypeOK
    <2> SUFFICES ASSUME IInv PROVE TypeOK
      OBVIOUS
    <2>1. \A c \in Connections : revoked[c] \in 0 .. issued[c] /\ (row[c] # Absent => row[c].grant <= issued[c])
      <3> TAKE c \in Connections
      <3>1. issued[c] \in 0 .. MaxGrants /\ revoked[c] \in 0 .. MaxGrants
        BY DEF IInv, Types
      <3> QED BY <3>1 DEF IInv, Issued
    <2>2. \A s \in {"api", "worker"} : codec[s] \in {Static, Both, Kms}
      BY DEF IInv, Types, Codecs
    <2>3. \A p \in Workers : \A i \in 1 .. Len(run[p].tokens) :
            run[p].tokens[i] \in Token /\ run[p].tokens[i].grant <= issued[run[p].sides[i]]
      BY DEF IInv, RunsOK, RunOK, RunType, Held
    <2> QED BY <2>1, <2>2, <2>3 DEF TypeOK, IInv, Types
  <1> QED BY <1>1, SpecIInv, PTL

-----------------------------------------------------------------------------
(* The keys of the stored tokens *)

\* What a run of reencrypt-tokens that found everything relies on and leaves.
KeysOK ==
    /\ clean => admin = Absent
    /\ clean \/ (admin # Absent /\ admin.all) => NoStaticWriter
    /\ \A c \in Connections : row[c] # Absent /\ row[c].key # "kms" =>
         ~clean /\ (admin # Absent /\ admin.all => c \in admin.left)
    /\ \A s \in {"api", "worker"} : codec[s] = Kms => clean

\* The three set-ups of a service are different.
LEMMA CodecsDiffer == Static # Both /\ Static # Kms /\ Both # Kms
  BY DEF Static, Both, Kms

\* Before any consent there is no token under a key that is missing.
THEOREM InitKeys == Init => KeysOK
  BY CodecsDiffer DEF Init, KeysOK

\* Every step keeps what is known of the keys.
LEMMA KeysNext ==
  ASSUME IInv, KeysOK, [Next]_vars
  PROVE  KeysOK'
  <1> USE CodecsDiffer
  <1>0. /\ row \in [Connections -> Token \cup {Absent}]
        /\ callback \in [Connections -> Token \cup {Absent}]
        /\ codec \in [{"api", "worker"} -> Codecs]
    BY DEF IInv, Types
  <1>1. ASSUME NEW c \in Connections, Consent(c) PROVE KeysOK'
    <2>1. codec["api"] # Static => EncryptToken(codec["api"], issued[c] + 1).key = "kms"
      BY <1>0 DEF Codecs, Static, Both, Kms, EncryptToken, Encrypt
    <2>2. NoStaticWriter => NoStaticWriter'
      BY <1>0, <1>1, <2>1 DEF Consent, NoStaticWriter
    <2> QED BY <1>1, <2>2 DEF Consent, KeysOK
  <1>2. ASSUME NEW c \in Connections, StoreConsent(c) PROVE KeysOK'
    <2>1. NoStaticWriter => NoStaticWriter' /\ callback[c].key = "kms"
      BY <1>0, <1>2 DEF StoreConsent, NoStaticWriter
    <2>2. \A d \in Connections : d # c => row'[d] = row[d]
      BY <1>0, <1>2 DEF StoreConsent
    <2>3. row'[c] = callback[c]
      BY <1>0, <1>2 DEF StoreConsent
    <2> QED BY <1>2, <2>1, <2>2, <2>3 DEF StoreConsent, KeysOK
  <1>3. ASSUME NEW c \in Connections, FailConsent(c) \/ Revoke(c) PROVE KeysOK'
    <2>1. NoStaticWriter => NoStaticWriter'
      BY <1>0, <1>3 DEF FailConsent, Revoke, NoStaticWriter
    <2> QED BY <1>3, <2>1 DEF FailConsent, Revoke, KeysOK
  <1>4. ASSUME NEW s \in {"api", "worker"}, Deploy(s) PROVE KeysOK'
    <2>1. NoStaticWriter => NoStaticWriter'
      BY <1>0, <1>4 DEF Deploy, NoStaticWriter
    <2>2. \A q \in {"api", "worker"} : codec'[q] = Kms => clean
      BY <1>0, <1>4 DEF Deploy, KeysOK
    <2> QED BY <1>4, <2>1, <2>2 DEF Deploy, KeysOK
  <1>5. CASE AdminStart
    <2>1. NoStaticWriter' = NoStaticWriter
      BY <1>5 DEF AdminStart, NoStaticWriter
    <2>2. /\ admin'.all => NoStaticWriter
          /\ \A c \in Connections : row[c] # Absent /\ row[c].key = "static" => c \in admin'.left
      BY <1>5 DEF AdminStart
    <2>3. \A c \in Connections : row[c] # Absent /\ row[c].key # "kms" => row[c].key = "static"
      BY <1>0 DEF Token, Keys
    <2> QED BY <1>5, <2>1, <2>2, <2>3 DEF AdminStart, KeysOK
  <1>6. ASSUME NEW ok \in BOOLEAN, AdminEnd(ok) PROVE KeysOK'
    <2>1. NoStaticWriter' = NoStaticWriter
      BY <1>6 DEF AdminEnd, NoStaticWriter
    <2>2. admin # Absent /\ admin' = Absent /\ ~clean
      BY <1>6 DEF AdminEnd, KeysOK
    <2>3. clean' => admin.all /\ admin.left = {}
      BY <1>6 DEF AdminEnd
    <2>4. \A s \in {"api", "worker"} : codec'[s] # Kms
      BY <1>6, <2>2 DEF AdminEnd, KeysOK
    <2> QED BY <1>6, <2>1, <2>2, <2>3, <2>4 DEF AdminEnd, KeysOK
  <1>7. ASSUME NEW c \in Connections, AdminStore(c) PROVE KeysOK'
    <2>1. NoStaticWriter' = NoStaticWriter
      BY <1>7 DEF AdminStore, NoStaticWriter
    <2>2. admin.found[c] \in Token /\ Both \in Codecs
      BY <1>7 DEF AdminStore, IInv, Types, AdminOK, Codecs
    <2>3. row'[c].key = "kms" /\ \A d \in Connections : d # c => row'[d] = row[d]
      BY <1>0, <1>7, <2>2, ReencryptTypes DEF AdminStore
    <2>4. admin'.all = admin.all /\ admin'.left = admin.left \ {c} /\ ~clean /\ admin # Absent
      BY <1>7 DEF AdminStore, IInv, Types, AdminOK, KeysOK
    <2> QED BY <1>7, <2>1, <2>3, <2>4 DEF AdminStore, KeysOK
  <1>8. ASSUME NEW p \in Workers, StoreRewritten(p) PROVE KeysOK'
    <2> DEFINE i == Len(run[p].tokens)
               t == ReencryptIfLegacy(run[p].codec, run[p].tokens[i])
               c == run[p].sides[i]
    <2>1. /\ run[p].tokens[i] \in Token /\ run[p].codec \in Codecs /\ c \in Connections
          /\ IsLegacy(run[p].codec, run[p].tokens[i])
      BY <1>8 DEF StoreRewritten, At, IInv, RunsOK, RunOK, RunType
    <2>2. t.key = "kms"
      BY <2>1, ReencryptTypes
    <2>3. row' = [row EXCEPT ![c] = t]
      BY <1>8 DEF StoreRewritten
    <2> HIDE DEF t, c
    <2>4. row'[c].key = "kms" /\ \A d \in Connections : d # c => row'[d] = row[d]
      BY <1>0, <2>1, <2>2, <2>3
    <2>5. NoStaticWriter' = NoStaticWriter
      BY <1>8 DEF StoreRewritten, NoStaticWriter
    <2> QED BY <1>8, <2>4, <2>5 DEF StoreRewritten, KeysOK
  <1>9. ASSUME UNCHANGED <<row, callback, codec, admin, clean>> PROVE KeysOK'
    BY <1>9 DEF KeysOK, NoStaticWriter
  <1>10. ASSUME NEW p \in Workers,
                \/ \E c, d \in Connections : StartRun(p, c, d)
                \/ GetEncryptedToken(p) \/ Decrypt(p) \/ Refused(p) \/ Initialize(p)
                \/ Synchronise(p) \/ Fail(p) \/ Crash(p)
         PROVE  UNCHANGED <<row, callback, codec, admin, clean>>
    BY <1>10 DEF StartRun, GetEncryptedToken, Decrypt, Refused, Initialize, Synchronise, Fail, Crash, Ended
  <1>11. CASE UNCHANGED vars
    BY <1>9, <1>11 DEF vars
  <1> QED BY <1>1, <1>2, <1>3, <1>4, <1>5, <1>6, <1>7, <1>8, <1>9, <1>10, <1>11 DEF Next, Work

\* What is known of the keys always holds.
LEMMA SpecKeys == Spec => [](IInv /\ KeysOK)
  BY InitIInv, InitKeys, NextIInv, KeysNext, PTL DEF Spec

\* Every stored token can be opened by both services, while they know both keys
\* and when the static one has been taken away from either.
THEOREM StoredOpen == Spec => []StoredTokensOpen
  <1>1. IInv /\ KeysOK => StoredTokensOpen
    <2> SUFFICES ASSUME IInv, KeysOK, NEW s \in {"api", "worker"}, codec[s] # Static,
                        NEW c \in Connections, row[c] # Absent
                 PROVE  Opens(codec[s], row[c])
      BY DEF StoredTokensOpen
    <2>1. codec[s] \in {Both, Kms} /\ row[c].key \in {"static", "kms"}
      BY DEF IInv, Types, Codecs, Token, Keys
    <2>2. codec[s] = Kms => row[c].key = "kms"
      BY DEF KeysOK
    <2>3. CASE codec[s] = Both /\ row[c].key = "static"
      BY <2>3 DEF Opens, Decrypts, Both
    <2>4. CASE codec[s] = Both /\ row[c].key = "kms"
      BY <2>4 DEF Opens, Decrypts, Both
    <2>5. CASE codec[s] = Kms
      <3>1. row[c].key = "kms" /\ ~codec[s].legacyStatic /\ codec[s].primary = "kms"
        BY <2>2, <2>5 DEF Kms
      <3> QED BY <3>1 DEF Opens, Decrypts
    <2> QED BY <2>1, <2>3, <2>4, <2>5
  <1> QED BY <1>1, SpecKeys, PTL

\* Once the change of keys is over no writer takes a connection back to an older
\* consent: a run that would still re-encrypt counts as underway, the command is
\* not running, and a callback holds the last token that was issued.
THEOREM NoOlder == Spec => NoOlderGrant
  <1>1. ASSUME IInv, KeysOK, Next, ~Underway, clean, NEW c \in Connections, row[c] # Absent
        PROVE  row'[c] # Absent /\ row'[c].grant >= row[c].grant
    <2>1. row[c] \in Token /\ row[c].grant \in Nat /\ row[c].grant <= issued[c] /\ admin = Absent
      BY <1>1 DEF IInv, Types, Issued, KeysOK, Token
    <2>2. CASE row' = row
      BY <1>1, <2>1, <2>2
    <2>3. ASSUME NEW d \in Connections, StoreConsent(d)
          PROVE  row'[c] # Absent /\ row'[c].grant >= row[c].grant
      <3>1. row' = [row EXCEPT ![d] = callback[d]] /\ callback[d] # Absent
        BY <2>3 DEF StoreConsent
      <3>2. callback[d].grant = issued[d] /\ row \in [Connections -> Token \cup {Absent}] /\ issued[d] \in Nat
        BY <1>1, <3>1 DEF IInv, Types, Issued
      <3>3. CASE c = d
        BY <2>1, <3>1, <3>2, <3>3
      <3>4. CASE c # d
        BY <1>1, <2>1, <3>1, <3>2, <3>4
      <3> QED BY <3>3, <3>4
    <2>4. ASSUME NEW p \in Workers, StoreRewritten(p) PROVE FALSE
      <3>1. At(p, "rewritten") /\ IsLegacy(run[p].codec, run[p].tokens[Len(run[p].tokens)])
        BY <1>1, <2>4 DEF StoreRewritten, At, IInv, RunsOK, RunOK
      <3> QED BY <1>1, <3>1 DEF IsLegacy, Underway
    <2>5. ASSUME NEW d \in Connections, AdminStore(d) PROVE FALSE
      BY <2>1, <2>5 DEF AdminStore
    <2>6. ASSUME NEW d \in Connections, Consent(d) \/ FailConsent(d) \/ Revoke(d) PROVE row' = row
      BY <2>6 DEF Consent, FailConsent, Revoke
    <2>7. ASSUME \/ \E s \in {"api", "worker"} : Deploy(s)
                 \/ AdminStart
                 \/ \E ok \in BOOLEAN : AdminEnd(ok)
          PROVE  row' = row
      BY <2>7 DEF Deploy, AdminStart, AdminEnd
    <2>8. ASSUME NEW p \in Workers,
                 \/ \E e, d \in Connections : StartRun(p, e, d)
                 \/ GetEncryptedToken(p) \/ Decrypt(p) \/ Refused(p) \/ Initialize(p)
                 \/ Synchronise(p) \/ Fail(p) \/ Crash(p)
          PROVE  row' = row
      BY <2>8 DEF StartRun, GetEncryptedToken, Decrypt, Refused, Initialize, Synchronise, Fail, Crash, Ended
    <2> QED BY <1>1, <2>2, <2>3, <2>4, <2>5, <2>6, <2>7, <2>8 DEF Next, Work
  <1>2. IInv /\ KeysOK /\ [Next]_vars =>
          [~Underway /\ clean => \A c \in Connections :
             row[c] # Absent => row'[c] # Absent /\ row'[c].grant >= row[c].grant]_vars
    BY <1>1
  <1> QED BY <1>2, SpecKeys, PTL DEF Spec, NoOlderGrant
=============================================================================
