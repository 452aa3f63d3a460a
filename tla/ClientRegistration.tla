------------------------- MODULE ClientRegistration -------------------------
(***************************************************************************)
(* The life of a client's registration: how the row is created by a user, *)
(* by RFC 7591 registration and by the configuration at boot, what its     *)
(* owner, its own registration token and the administrators may change,    *)
(* and how it authenticates (clientService, and the handlers of            *)
(* oauthController, accountController and adminController that call it).   *)
(*                                                                         *)
(* No operation of clientService is a transaction.  One that decides from  *)
(* a row it has read is two steps here, the read and the write, and any    *)
(* other request may come between.  Names, URIs and contacts of a metadata *)
(* document are reduced to whether they pass validation.                   *)
(***************************************************************************)
EXTENDS Naturals, FiniteSets

CONSTANTS
    Clients,            \* client_ids
    StaticClients,      \* those named in OAUTH_STATIC_CLIENTS
    Entries,            \* what the configuration may say about them at a boot
    Documents,          \* metadata documents that clients and users send
    Scopes,             \* the scopes the registry knows
    DefaultScopes,      \* openid, profile and email
    Secrets,            \* secrets the issuer may draw
    ConfigSecrets,      \* secrets written in the configuration
    Workers,            \* requests in progress at the same time
    RequireApproval,    \* config.clients.requireApproval
    MaxBoots,           \* bound: starts of a process
    Nil

Types == {"confidential", "public"}
Methods == {"client_secret_basic", "client_secret_post", "none"}
GrantTypes == {"authorization_code", "refresh_token"}
Statuses == {"PENDING", "APPROVED", "REJECTED", "DISABLED"}
Absent == "absent"
Unset == {Absent}       \* a set-valued field that is not in the document

ASSUME ConstantsAssumption ==
    /\ StaticClients \subseteq Clients
    /\ DefaultScopes \subseteq Scopes
    /\ Secrets \cap ConfigSecrets = {}
    /\ Nil \notin Secrets \cup ConfigSecrets
    /\ RequireApproval \in BOOLEAN
    /\ MaxBoots \in Nat
    /\ \A d \in Documents :
        /\ DOMAIN d = {"type", "method", "scopes", "grants", "sound"}
        /\ d = [field \in DOMAIN d |-> d[field]]
        /\ d.type \in Types \cup {Absent}
        /\ d.method \in Methods \cup {Absent}
        /\ d.sound \in BOOLEAN
    /\ \A e \in Entries :
        /\ e.client \in StaticClients
        /\ e.doc \in Documents
        /\ e.secret \in ConfigSecrets \cup {Nil}
        /\ e.firstParty \in BOOLEAN /\ e.consent \in {"ask", "skip", Absent}

VARIABLES
    row,        \* row[c]: the client's row
    gone,       \* clients deleted: a random client_id is not drawn again
    work,       \* work[w]: what a request has read and will do
    minted,     \* secrets already drawn
    shown,      \* secrets that a response has shown to somebody
    retired,    \* ghost: retired[c], secrets that were replaced
    decided,    \* ghost: decided[c], the status somebody decided on last
    boots

vars == <<row, gone, work, minted, shown, retired, decided, boots>>

-----------------------------------------------------------------------------
(* Metadata: buildClientData and the normalisations it applies *)

NoClient == [status |-> Nil]
Exists(c) == row[c] # NoClient

\* `input.x ?? existing.x', where `old' is a row or nothing.
Given(value, old, field) ==
    IF value # Absent THEN value ELSE IF old = NoClient THEN Absent ELSE old[field]
GivenSet(value, old, field) ==
    IF value # Unset THEN value ELSE IF old = NoClient THEN {} ELSE old[field]

TypeOf(d, old) ==
    LET t == Given(d.type, old, "type") IN IF t = Absent THEN "confidential" ELSE t

\* normalizeScopes: an unknown scope is refused, an empty list means the usual ones.
\* Mutant: one known scope is enough.
SomeScopeValid(v) == v \in {Unset, {}} \/ v \cap Scopes # {}
ScopesValid(v) == v = Unset \/ v \subseteq Scopes
NormalizeScopes(v) == IF v = {} THEN DefaultScopes ELSE v

GrantTypesValid(v) == v = Unset \/ v \subseteq GrantTypes
NormalizeGrantTypes(v) == IF v = {} THEN GrantTypes ELSE v

NormalizeAuthMethod(v, type) ==
    IF v # Absent THEN v ELSE IF type = "public" THEN "none" ELSE "client_secret_basic"
\* Mutant: only a public client's method is checked.
AuthMethodHalfValid(method, type) == type = "public" => method = "none"
AuthMethodValid(method, type) == (type = "public") <=> (method = "none")

BuildClientData(d, old) ==
    LET type == TypeOf(d, old)
    IN  [type |-> type,
         method |-> NormalizeAuthMethod(Given(d.method, old, "method"), type),
         scopes |-> NormalizeScopes(GivenSet(d.scopes, old, "scopes")),
         grants |-> NormalizeGrantTypes(GivenSet(d.grants, old, "grants"))]

\* What buildClientData throws on.
DataValid(d, old) ==
    /\ d.sound
    /\ ScopesValid(d.scopes)
    /\ GrantTypesValid(d.grants)
    /\ AuthMethodValid(BuildClientData(d, old).method, BuildClientData(d, old).type)

-----------------------------------------------------------------------------
Data == [type : Types, method : Methods, scopes : SUBSET Scopes, grants : SUBSET GrantTypes]
Rows ==
    [type : Types, method : Methods, scopes : SUBSET Scopes, grants : SUBSET GrantTypes,
     status : Statuses, secret : Secrets \cup ConfigSecrets \cup {Nil},
     token : BOOLEAN, owned : BOOLEAN, consent : BOOLEAN]

Idle == [op |-> "idle"]
WorkItems ==
    {Idle} \cup
    [op : {"register"}, client : Clients, secret : Secrets \cup {Nil}] \cup
    [op : {"rotate"}, client : Clients] \cup
    [op : {"approve"}, client : Clients, before : Rows] \cup
    [op : {"update"}, client : Clients, data : Data, before : Rows] \cup
    [op : {"sync"}, entry : Entries, old : Rows \cup {NoClient}] \cup
    [op : {"verify"}, client : Clients, secret : Secrets \cup ConfigSecrets,
     before : Secrets \cup ConfigSecrets \cup {Nil}] \cup
    [op : {"accepted"}, client : Clients, late : BOOLEAN]

TypeOK ==
    /\ row \in [Clients -> Rows \cup {NoClient}]
    /\ gone \in SUBSET (Clients \ StaticClients)
    /\ work \in [Workers -> WorkItems]
    /\ minted \in SUBSET Secrets
    /\ shown \in SUBSET minted
    /\ retired \in [Clients -> SUBSET (Secrets \cup ConfigSecrets)]
    /\ decided \in [Clients -> Statuses \cup {Nil}]
    /\ boots \in 0..MaxBoots

Init ==
    /\ row = [c \in Clients |-> NoClient]
    /\ gone = {}
    /\ work = [w \in Workers |-> Idle]
    /\ minted = {}
    /\ shown = {}
    /\ retired = [c \in Clients |-> {}]
    /\ decided = [c \in Clients |-> Nil]
    /\ boots = 0

Free(w) == work[w] = Idle
Later(w, item) == work' = [work EXCEPT ![w] = item]
Done(w) == Later(w, Idle)
Write(c, r) == row' = [row EXCEPT ![c] = r]
Decide(c, status) == decided' = [decided EXCEPT ![c] = status]

\* A secret is replaced; the issuer draws one it has never drawn.
Retire(c) == retired' = [retired EXCEPT ![c] = @ \cup ({row[c].secret} \ {Nil})]
DrawFor(type, s) ==
    IF type = "confidential"
    THEN s \in Secrets \ minted /\ minted' = minted \cup {s}
    ELSE s = Nil /\ UNCHANGED minted

\* The response carries the secret: "only its hash is stored".
Show(s) == shown' = shown \cup ({s} \ {Nil})

\* The row create() stores.
NewRow(data, status, secret, owned, consent) ==
    [type |-> data.type, method |-> data.method, scopes |-> data.scopes,
     grants |-> data.grants, status |-> status, secret |-> secret, token |-> FALSE,
     owned |-> owned, consent |-> consent]
\* The columns update() and a boot write; the others stay as they are.
With(old, data, consent) ==
    [old EXCEPT !.type = data.type, !.method = data.method, !.scopes = data.scopes,
                !.grants = data.grants, !.consent = consent]

-----------------------------------------------------------------------------
(* Creation *)

Unregistered(c) == c \in Clients \ (StaticClients \cup gone) /\ ~Exists(c)

\* submit: a user registers an application; approval follows policy.
Submitted == IF RequireApproval THEN "PENDING" ELSE "APPROVED"
Submit(w, c, d, s) ==
    LET data == BuildClientData(d, NoClient)
    IN  /\ Free(w) /\ Unregistered(c) /\ DataValid(d, NoClient)
        /\ DrawFor(data.type, s)
        /\ Write(c, NewRow(data, Submitted, s, TRUE, TRUE))
        /\ Show(s)
        /\ Decide(c, Submitted)
        /\ UNCHANGED <<gone, work, retired, boots>>

\* registerDynamic, up to its second statement: approved, consent always shown.
Register(w, c, d, s) ==
    LET wire == [d EXCEPT !.type = IF d.method = "none" THEN "public" ELSE "confidential"]
        data == BuildClientData(wire, NoClient)
    IN  /\ Free(w) /\ Unregistered(c) /\ DataValid(wire, NoClient)
        /\ DrawFor(data.type, s)
        /\ Write(c, NewRow(data, "APPROVED", s, FALSE, TRUE))
        /\ Decide(c, "APPROVED")
        /\ Later(w, [op |-> "register", client |-> c, secret |-> s])
        /\ UNCHANGED <<gone, shown, retired, boots>>

\* ... which stores the hash of the registration access token; the response
\* follows.
RegisterToken(w) ==
    LET c == work[w].client
    IN  /\ work[w].op = "register"
        /\ Write(c, [row[c] EXCEPT !.token = TRUE])
        /\ Show(work[w].secret)
        /\ Done(w)
        /\ UNCHANGED <<gone, minted, retired, decided, boots>>

-----------------------------------------------------------------------------
(* RFC 7592: the client manages its own registration *)

\* authenticateRegistrationToken, updateRegistration and update read the row
\* three times; what they check there never changes.  The new row is computed
\* from the last read.
UpdateReads(w, c, d) ==
    LET wire == [d EXCEPT !.type = Absent]
    IN  /\ Free(w) /\ Exists(c) /\ row[c].token
        /\ d.method # Absent => ((d.method = "none") <=> (row[c].type = "public"))
        /\ DataValid(wire, row[c])
        /\ Later(w, [op |-> "update", client |-> c, before |-> row[c],
                     data |-> BuildClientData(wire, row[c])])
        /\ UNCHANGED <<row, gone, minted, shown, retired, decided, boots>>

\* The document says nothing of requireConsent: the one that was read is written.
\* Mutant: the whole row is written back, as it was read.
UpdateWritesRow(w) ==
    LET c == work[w].client
    IN  /\ work[w].op = "update"
        /\ Write(c, With(work[w].before, work[w].data, work[w].before.consent))
        /\ Done(w)
        /\ UNCHANGED <<gone, minted, shown, retired, decided, boots>>
UpdateWrites(w) ==
    LET c == work[w].client
    IN  /\ work[w].op = "update"
        /\ Write(c, With(row[c], work[w].data, work[w].before.consent))
        /\ Done(w)
        /\ UNCHANGED <<gone, minted, shown, retired, decided, boots>>

\* remove, by the owner, an administrator or the registration token.  A request
\* that has read the row finds it gone at its next statement and fails.
OnRow(item, c) ==
    \/ item.op \in {"register", "rotate", "approve", "update", "verify"} /\ item.client = c
    \/ item.op = "sync" /\ item.entry.client = c /\ item.old # NoClient
Remove(c) ==
    /\ Exists(c)
    /\ Write(c, NoClient)
    /\ gone' = gone \cup ({c} \ StaticClients)
    /\ work' = [w \in Workers |-> IF OnRow(work[w], c) THEN Idle ELSE work[w]]
    /\ decided' = [decided EXCEPT ![c] = Nil]
    /\ retired' = [retired EXCEPT ![c] = {}]
    /\ UNCHANGED <<minted, shown, boots>>

-----------------------------------------------------------------------------
(* The owner and the administrators *)

\* rotateClientSecret lists the caller's applications; rotateSecret reads the row.
RotateReads(w, c) ==
    /\ Free(w) /\ Exists(c) /\ row[c].owned /\ row[c].type = "confidential"
    /\ Later(w, [op |-> "rotate", client |-> c])
    /\ UNCHANGED <<row, gone, minted, shown, retired, decided, boots>>

\* rotateClientSecret renders the page with the `client' of rotateSecret's result,
\* which has none: the view fails and the response is an error page.
RotateWrites(w, s) ==
    LET c == work[w].client
    IN  /\ work[w].op = "rotate"
        /\ DrawFor("confidential", s)
        /\ Retire(c)
        /\ Write(c, [row[c] EXCEPT !.secret = s])
        /\ Done(w)
        /\ UNCHANGED <<gone, shown, decided, boots>>

\* approve: the write does not ask for the status again, and a public client gets
\* the secret hash that was read.
ApproveReads(w, c) ==
    /\ Free(w) /\ Exists(c) /\ row[c].status = "PENDING"
    /\ Later(w, [op |-> "approve", client |-> c, before |-> row[c]])
    /\ UNCHANGED <<row, gone, minted, shown, retired, decided, boots>>

ApproveWrites(w, s) ==
    LET c == work[w].client
    IN  /\ work[w].op = "approve"
        /\ DrawFor(work[w].before.type, s)
        /\ IF s = Nil THEN UNCHANGED retired ELSE Retire(c)
        /\ Write(c, [row[c] EXCEPT !.status = "APPROVED",
                                   !.secret = IF s = Nil THEN work[w].before.secret ELSE s])
        /\ Show(s)
        /\ Decide(c, "APPROVED")
        /\ Done(w)
        /\ UNCHANGED <<gone, boots>>

\* setStatus; the tokens it revokes are TokenService's.
SetStatus(c, status) ==
    /\ Exists(c)
    /\ Write(c, [row[c] EXCEPT !.status = status])
    /\ Decide(c, status)
    /\ UNCHANGED <<gone, work, minted, shown, retired, boots>>

-----------------------------------------------------------------------------
(* Boot: syncStaticClients *)

SyncReads(w, e) ==
    /\ Free(w) /\ boots < MaxBoots
    /\ DataValid(e.doc, NoClient)
    /\ TypeOf(e.doc, NoClient) = "confidential" => e.secret # Nil
    /\ boots' = boots + 1
    /\ Later(w, [op |-> "sync", entry |-> e, old |-> row[e.client]])
    /\ UNCHANGED <<row, gone, minted, shown, retired, decided>>

\* requireConsent of an entry that may leave it out.
ConsentAtBoot(e, old) ==
    \/ e.consent = "ask"
    \/ e.consent = Absent /\ (IF old = NoClient THEN ~e.firstParty ELSE old.consent)

\* An entry that was not there is created; if another process created it first
\* the insert fails and the boot with it.
SyncWrites(w) ==
    LET e == work[w].entry
        old == work[w].old
        c == e.client
        data == BuildClientData(e.doc, NoClient)
        consent == ConsentAtBoot(e, old)
        secret == IF e.secret # Nil THEN e.secret
                  ELSE IF old = NoClient THEN Nil ELSE old.secret
    IN  /\ work[w].op = "sync"
        /\ Done(w)
        /\ IF old = NoClient /\ Exists(c)
           THEN UNCHANGED <<row, retired, decided>>
           ELSE /\ Write(c, IF old = NoClient
                            THEN NewRow(data, "APPROVED", secret, FALSE, consent)
                            ELSE [With(row[c], data, consent) EXCEPT !.status = "APPROVED",
                                                            !.secret = secret])
                /\ Decide(c, "APPROVED")
                /\ retired' = IF old # NoClient /\ secret # row[c].secret
                              THEN [retired EXCEPT ![c] = @ \cup ({row[c].secret} \ {Nil})]
                              ELSE retired
        /\ UNCHANGED <<gone, minted, shown, boots>>

-----------------------------------------------------------------------------
(* Client authentication, at the token, introspection and revocation endpoints *)

\* authenticate, up to its second read: the client must be approved and the
\* credentials must be presented the one way it registered, a public client
\* without any.
AuthReads(w, c, via, s) ==
    /\ Free(w) /\ Exists(c) /\ row[c].status = "APPROVED"
    /\ row[c].method = via
    /\ IF via = "none"
       THEN /\ s = Nil
            /\ Later(w, [op |-> "accepted", client |-> c, late |-> FALSE])
       ELSE /\ s # Nil
            /\ Later(w, [op |-> "verify", client |-> c, secret |-> s,
                         before |-> row[c].secret])
    /\ UNCHANGED <<row, gone, minted, shown, retired, decided, boots>>

\* The secret is compared with the hash of the second read.
\* Mutant: with the hash of the first.
MatchesFirst(item) == item.secret = item.before
Matches(item) == item.secret = row[item.client].secret
AuthVerifies(w) ==
    LET item == work[w]
    IN  /\ item.op = "verify"
        /\ Later(w, IF Matches(item)
                    THEN [op |-> "accepted", client |-> item.client,
                          late |-> item.secret \in retired[item.client]]
                    ELSE Idle)
        /\ UNCHANGED <<row, gone, minted, shown, retired, decided, boots>>

\* The request ends, answered or interrupted.
Leave(w) ==
    /\ ~Free(w)
    /\ Done(w)
    /\ UNCHANGED <<row, gone, minted, shown, retired, decided, boots>>

-----------------------------------------------------------------------------
ClientStep(w) ==
    \/ \E c \in Clients, d \in Documents :
        \/ \E s \in Secrets \cup {Nil} : Submit(w, c, d, s) \/ Register(w, c, d, s)
        \/ UpdateReads(w, c, d)
    \/ RegisterToken(w)
    \/ UpdateWrites(w)
    \/ \E c \in Clients, via \in Methods, s \in minted \cup ConfigSecrets \cup {Nil} :
        AuthReads(w, c, via, s)
    \/ AuthVerifies(w)

ReviewStep(w) ==
    \/ \E c \in Clients : RotateReads(w, c) \/ ApproveReads(w, c)
    \/ \E s \in Secrets \cup {Nil} : RotateWrites(w, s) \/ ApproveWrites(w, s)

Next ==
    \/ \E w \in Workers :
        \/ ClientStep(w) \/ ReviewStep(w) \/ Leave(w)
        \/ (\E e \in Entries : SyncReads(w, e)) \/ SyncWrites(w)
    \/ \E c \in Clients :
        \/ Remove(c)
        \/ \E status \in Statuses : SetStatus(c, status)

Spec == Init /\ [][Next]_vars

-----------------------------------------------------------------------------
(* Properties *)

\* "A confidential client cannot become public" (updateRegistration): whatever
\* documents, boots and reviews cross, a public client has no authentication
\* method, and a confidential one has a method and, unless it is the
\* configuration's, a secret.
MethodFitsType ==
    \A c \in Clients : Exists(c) =>
        /\ (row[c].type = "public") <=> (row[c].method = "none")
        /\ row[c].type = "confidential" /\ c \notin StaticClients => row[c].secret # Nil

\* rotateSecret "invalidates the old one immediately": once replaced, a secret
\* the issuer drew is never stored again, by an update, an approval or a boot
\* in flight, and no request gets in with it, not even one that had looked the
\* client up before the rotation.
OldSecretIsDead ==
    /\ \A c \in Clients \ StaticClients : Exists(c) => row[c].secret \notin retired[c]
    /\ \A w \in Workers :
        work[w].op = "accepted" /\ work[w].client \notin StaticClients => ~work[w].late

\* "a client submitted through the account pages starts PENDING and cannot be
\* used until someone approves it" (adminController): the stored status is the
\* one decided last, by policy at creation, by an administrator or by a boot.
\* No update a client makes of itself, and no rotation, moves it.
StatusIsAsDecided == \A c \in Clients : Exists(c) => row[c].status = decided[c]

\* "The one and only time a secret is shown" (clients.ejs:16) is the response to
\* the request that drew it: the secret of a user's application was shown.
StoredSecretWasShown ==
    \A c \in Clients : Exists(c) /\ row[c].owned => row[c].secret \in shown \cup {Nil}
=============================================================================
