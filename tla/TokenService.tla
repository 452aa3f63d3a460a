---------------------------- MODULE TokenService ----------------------------
(***************************************************************************)
(* The credential store of the issuer: grants, browser sessions, OIDC      *)
(* sessions, authorization codes and refresh tokens, and every operation   *)
(* that moves one of them (providerService, and the parts of               *)
(* sessionService, accountService and clientService that revoke).          *)
(*                                                                         *)
(* One database transaction is one step.  SQLite has a single writer; on   *)
(* PostgreSQL every transaction below begins by locking a row that any     *)
(* transaction it could conflict with locks too, in the order Client,      *)
(* User, Grant, Browser Session, Refresh/Code, OIDC Session.  What is NOT  *)
(* one transaction in the code is not one step here: a token request reads *)
(* the presented credential, runs its transaction later, and contains a    *)
(* replay in a third, separate transaction; disabling a client is three    *)
(* statements.  Between two of those a worker may be interrupted.          *)
(*                                                                         *)
(* Expiry is a step that may happen at any time.  Identifiers are random   *)
(* and never reused, so a code is named after the authorization request    *)
(* whose claim created it: `none' is a request not yet consumed.           *)
(***************************************************************************)
CONSTANTS
    Users, Clients, Sessions,   \* accounts, OAuth clients, browser sessions
    Codes, Tokens,              \* authorization codes, refresh tokens
    Workers,                    \* requests in progress at the same time
    Scopes, OpenId, OfflineAccess,   \* `openid' and `offline_access'
    AdminScopes,                \* scopes only an administrator may be given
    Owner,                      \* the user a browser session belongs to
    TrustedClients,             \* clients with requireConsent = false
    FirstPartyClients,          \* clients with isFirstParty
    LogoutClients,              \* clients with a back-channel logout URI
    ClientStatuses,             \* the statuses administrators set
    Registrations,              \* what a client may be registered with
    Rotation,                   \* rotateRefreshTokens
    Nil

\* What a registration allows a client: scopes, grant types, and whether the
\* callback its authorization requests name is still a registered one.
GrantTypes == {"authorization_code", "refresh_token"}
RegistrationRows == [scopes : SUBSET Scopes, grants : SUBSET GrantTypes, callback : BOOLEAN]

ASSUME ConstantsAssumption ==
    /\ AdminScopes \subseteq Scopes
    /\ Owner \in [Sessions -> Users]
    /\ TrustedClients \subseteq Clients
    /\ FirstPartyClients \subseteq Clients
    /\ LogoutClients \subseteq Clients
    /\ "APPROVED" \in ClientStatuses
    /\ ClientStatuses \subseteq {"APPROVED", "PENDING", "REJECTED", "DISABLED"}
    /\ Registrations \subseteq RegistrationRows
    /\ Rotation \in BOOLEAN
    /\ Nil \notin Sessions \cup Clients \cup Codes \cup Tokens

VARIABLES
    clientStatus,   \* clientStatus[c]: the registration's status
    registered,     \* registered[c]: what it allows
    account,        \* account[u]: "ACTIVE" (or PENDING) or "DISABLED"
    admins,         \* accounts whose role is ADMIN
    grant,          \* grant[u, c]: scopes granted; {} when absent or revoked
    session,        \* session[s]: the browser session row
    oidc,           \* oidc[s, c]: the per-client session row
    code,           \* code[k]: the authorization code row
    token,          \* token[t]: the refresh token row
    outbox,         \* OIDC sessions with a queued logout notification
    work,           \* work[w]: what a token request still has to do
    retired,        \* ghost: codes whose descendants were revoked
    killed          \* ghost: refresh families revoked as a whole

registry == <<clientStatus, registered, account, admins>>
vars == <<clientStatus, registered, account, admins, grant, session, oidc,
          code, token, outbox, work, retired, killed>>

-----------------------------------------------------------------------------
(* Rows and helper formulae *)

\* `redeemed' and `forfeited' both have usedAt set: exchanged for tokens, or
\* burned by a wrong client or a revocation.
CodeStates == {"none", "unused", "expired", "redeemed", "forfeited"}
Used(k) == code[k].state \in {"redeemed", "forfeited"}
Unspent(k) == code[k].state \in {"unused", "expired"}

\* A row's clientId, userId and sessionId are copied unchanged from the code
\* to every refresh token descended from it, so they are read through `code'.
\* `used' means usedAt is set and revokedAt is not.
TokenStates == {"none", "live", "used", "expired", "revoked"}
Exists(t) == token[t].state # "none"
CodeClient(k) == code[k].client
CodeSession(k) == code[k].session
CodeUser(k) == Owner[code[k].session]
TokenClient(t) == CodeClient(token[t].code)
TokenUser(t) == CodeUser(token[t].code)

CodeRows ==
    [state : CodeStates, session : Sessions \cup {Nil}, client : Clients \cup {Nil},
     scopes : SUBSET Scopes]
TokenRows ==
    [state : TokenStates, code : Codes \cup {Nil}, family : Tokens \cup {Nil},
     scopes : SUBSET Scopes]
NoCode == [state |-> "none", session |-> Nil, client |-> Nil, scopes |-> {}]
NoToken == [state |-> "none", code |-> Nil, family |-> Nil, scopes |-> {}]

Idle == [op |-> "idle"]
PendingRedeem(k) == [op |-> "redeem", code |-> k]
PendingContain(k) == [op |-> "contain", code |-> k]
PendingRefresh(t, S) == [op |-> "refresh", token |-> t, scopes |-> S]
PendingFamily(f) == [op |-> "family", family |-> f]
PendingDrainTokens(c) == [op |-> "drainTokens", client |-> c]
PendingDrainSessions(c) == [op |-> "drainSessions", client |-> c]

WorkItems ==
    {Idle} \cup
    [op : {"redeem", "contain"}, code : Codes] \cup
    [op : {"refresh"}, token : Tokens, scopes : SUBSET Scopes] \cup
    [op : {"family"}, family : Tokens] \cup
    [op : {"drainTokens", "drainSessions"}, client : Clients]

TypeOK ==
    /\ clientStatus \in [Clients -> ClientStatuses]
    /\ registered \in [Clients -> RegistrationRows]
    /\ account \in [Users -> {"ACTIVE", "DISABLED"}]
    /\ admins \in SUBSET Users
    /\ grant \in [Users \X Clients -> SUBSET Scopes]
    /\ session \in [Sessions -> {"none", "live", "expired", "gone"}]
    /\ oidc \in [Sessions \X Clients -> {"none", "live", "revoked"}]
    /\ code \in [Codes -> CodeRows]
    /\ token \in [Tokens -> TokenRows]
    /\ outbox \in SUBSET (Sessions \X Clients)
    /\ work \in [Workers -> WorkItems]
    /\ retired \in SUBSET Codes
    /\ killed \in SUBSET Tokens

Init ==
    /\ clientStatus = [c \in Clients |-> "APPROVED"]
    /\ registered \in [Clients -> Registrations]
    /\ account = [u \in Users |-> "ACTIVE"]
    /\ admins = {}
    /\ grant = [g \in Users \X Clients |-> {}]
    /\ session = [s \in Sessions |-> "none"]
    /\ oidc = [r \in Sessions \X Clients |-> "none"]
    /\ code = [k \in Codes |-> NoCode]
    /\ token = [t \in Tokens |-> NoToken]
    /\ outbox = {}
    /\ work = [w \in Workers |-> Idle]
    /\ retired = {}
    /\ killed = {}

\* scopeRegistry.assertAllowedForUser: admin-only scopes need the role.
AllowedForUser(u, S) == u \in admins \/ S \cap AdminScopes = {}

MayUse(c, grantType) == grantType \in registered[c].grants
ClientEligible(c, S) == clientStatus[c] = "APPROVED" /\ S \subseteq registered[c].scopes
CodeEligible(c, S) ==
    ClientEligible(c, S) /\ MayUse(c, "authorization_code") /\ registered[c].callback
\* Mutant: the account's status is not rechecked.
AccountNotRechecked(u, S) == AllowedForUser(u, S)
AccountEligible(u, S) == account[u] # "DISABLED" /\ AllowedForUser(u, S)
GrantCovers(u, c, S) == grant[<<u, c>>] # {} /\ S \subseteq grant[<<u, c>>]

\* The rechecks every token transaction makes under its locks.
MayHold(u, c, S) ==
    ClientEligible(c, S) /\ AccountEligible(u, S) /\ GrantCovers(u, c, S)

-----------------------------------------------------------------------------
(* Updates shared by several operations *)

\* updateMany({revokedAt: null} -> revokedAt) on a set of refresh tokens.
Revoke(T) ==
    token' = [t \in Tokens |-> IF t \in T /\ Exists(t)
                               THEN [token[t] EXCEPT !.state = "revoked"]
                               ELSE token[t]]

\* updateMany({usedAt: null} -> usedAt) on a set of codes.
Spend(K) ==
    code' = [k \in Codes |-> IF k \in K /\ Unspent(k)
                             THEN [code[k] EXCEPT !.state = "forfeited"]
                             ELSE code[k]]

\* updateMany({revokedAt: null} -> revokedAt) on a set of OIDC sessions.
LiveRows(R) == {r \in R : oidc[r] = "live"}
EndRows(R) ==
    oidc' = [r \in Sessions \X Clients |->
                IF r \in R /\ oidc[r] = "live" THEN "revoked" ELSE oidc[r]]

\* backchannel.enqueue, in the caller's transaction: only a client with an
\* endpoint gets a row.
Enqueue(R) == outbox' = outbox \cup {r \in LiveRows(R) : r[2] \in LogoutClients}

RowsOfUser(u) == {r \in Sessions \X Clients : Owner[r[1]] = u}
RowsOfGrant(u, c) == {r \in RowsOfUser(u) : r[2] = c}
RowsOfSession(s) == {s} \X Clients

CodesOfUser(u) == {k \in Codes : code[k].state # "none" /\ CodeUser(k) = u}
\* Mutant: a code whose browser session has ended is thought to be dead already.
CodesOfGrantSignedIn(u, c) ==
    {k \in CodesOfUser(u) : CodeClient(k) = c /\ session[CodeSession(k)] = "live"}
CodesOfGrant(u, c) == {k \in CodesOfUser(u) : CodeClient(k) = c}

TokensOfUser(u) == {t \in Tokens : Exists(t) /\ TokenUser(t) = u}
TokensOfGrant(u, c) == {t \in TokensOfUser(u) : TokenClient(t) = c}
TokensOfClient(c) == {t \in Tokens : Exists(t) /\ TokenClient(t) = c}
\* Mutant: only the tokens issued with a code, not those rotated from them.
FirstTokensOfSession(s, c) ==
    {t \in TokensOfClient(c) : CodeSession(token[t].code) = s /\ token[t].family = t}
TokensOfSession(s, c) ==
    {t \in TokensOfClient(c) : CodeSession(token[t].code) = s}
TokensOfFamily(f) == {t \in Tokens : Exists(t) /\ token[t].family = f}

\* The codes whose access and refresh tokens revokeTokensForSession revokes.
DescendantsEnded(s, c) ==
    {k \in Codes : code[k].state = "redeemed" /\ CodeSession(k) = s /\ CodeClient(k) = c}

Begin(w, item) == work[w] = Idle /\ work' = [work EXCEPT ![w] = item]
Finish(w) == work' = [work EXCEPT ![w] = Idle]
Continue(w, item) == work' = [work EXCEPT ![w] = item]

-----------------------------------------------------------------------------
(* Browser sessions *)

\* sessions.login: the session the browser presented is deleted, a fresh one
\* is created, and no OIDC session is touched.  Neither statement looks at the
\* account's status: the password was checked earlier, by authenticate.
SignIn(s, old) ==
    /\ session[s] = "none"
    /\ \A o \in old : session[o] # "none"
    /\ session' = [x \in Sessions |-> IF x = s THEN "live"
                                      ELSE IF x \in old THEN "gone" ELSE session[x]]
    /\ UNCHANGED <<registry, grant, oidc, code, token, outbox, work, retired, killed>>

SessionExpires(s) ==
    /\ session[s] = "live"
    /\ session' = [session EXCEPT ![s] = "expired"]
    /\ UNCHANGED <<registry, grant, oidc, code, token, outbox, work, retired, killed>>

\* sessions.find on an expired row, and sessions.pruneExpired.
DropExpiredSession(s) ==
    /\ session[s] = "expired"
    /\ session' = [session EXCEPT ![s] = "gone"]
    /\ UNCHANGED <<registry, grant, oidc, code, token, outbox, work, retired, killed>>

\* sessions.logout, which runs on its own only where the session middleware
\* meets a disabled account: no notification, refresh tokens left alone.
Logout(s) ==
    /\ account[Owner[s]] = "DISABLED"
    /\ session[s] = "live"
    /\ session' = [session EXCEPT ![s] = "gone"]
    /\ EndRows(RowsOfSession(s))
    /\ UNCHANGED <<registry, grant, code, token, outbox, work, retired, killed>>

\* provider.endSessions: the same, and each ended OIDC session is notified.
EndSessions(s) ==
    /\ session[s] \in {"live", "expired"}
    /\ session' = [session EXCEPT ![s] = "gone"]
    /\ EndRows(RowsOfSession(s))
    /\ Enqueue(RowsOfSession(s))
    /\ UNCHANGED <<registry, grant, code, token, work, retired, killed>>

-----------------------------------------------------------------------------
(* Authorization: the transaction that grants, opens the OIDC session and   *)
(* creates the code *)

\* upsertGrant: an active grant is widened, an absent or revoked one restarts
\* from these scopes.
Widen(u, c, S) == grant' = [grant EXCEPT ![<<u, c>>] = @ \cup S]

\* issueCode.  Consuming request k is the guard on "none".  The upsert of the
\* OIDC session revives a revoked row: same row id, same published sid.
IssueCode(k, s, c, S, explicitConsent) ==
    LET u == Owner[s] IN
    /\ S # {}
    /\ CodeEligible(c, S)
    /\ AccountEligible(u, S)
    /\ session[s] = "live"
    /\ code[k].state = "none"
    /\ IF explicitConsent \/ c \in TrustedClients
       THEN Widen(u, c, S)
       ELSE GrantCovers(u, c, S) /\ UNCHANGED grant
    /\ oidc' = [oidc EXCEPT ![<<s, c>>] = "live"]
    /\ code' = [code EXCEPT ![k] = [state |-> "unused", session |-> s,
                                    client |-> c, scopes |-> S]]
    /\ UNCHANGED <<registry, session, token, outbox, work, retired, killed>>

CodeExpires(k) ==
    /\ code[k].state = "unused"
    /\ code' = [code EXCEPT ![k].state = "expired"]
    /\ UNCHANGED <<registry, grant, session, oidc, token, outbox, work, retired, killed>>

-----------------------------------------------------------------------------
(* Token endpoint: authorization_code *)

\* exchangeAuthorizationCode up to its transaction.  The caller c has been
\* authenticated, so it is approved at this moment and perhaps not later, and
\* assertGrantAllowed has let it use this grant.
PresentCode(w, c, k) ==
    /\ clientStatus[c] = "APPROVED"
    /\ MayUse(c, "authorization_code")
    /\ code[k].state # "none"
    /\ work[w] = Idle
    /\ \/ /\ c # CodeClient(k)                     \* burned: wrong client
          /\ Spend({k})
          /\ UNCHANGED work
       \/ /\ c = CodeClient(k)
          /\ Used(k)
          /\ Continue(w, PendingContain(k))        \* replay seen by the pre-read
          /\ UNCHANGED code
       \/ /\ c = CodeClient(k)
          /\ code[k].state = "unused"
          /\ Continue(w, PendingRedeem(k))
          /\ UNCHANGED code
    /\ UNCHANGED <<registry, grant, session, oidc, token, outbox, retired, killed>>

Redeemable(k) ==
    /\ CodeEligible(CodeClient(k), code[k].scopes)
    /\ MayHold(CodeUser(k), CodeClient(k), code[k].scopes)
CodeRow(k) == <<CodeSession(k), CodeClient(k)>>

\* Mutant: the claim leaves out usedAt: null.
ClaimableUsedCode(k) == code[k].state \in {"unused", "redeemed"}

\* Mutant: the claim leaves out expiresAt > now.
ClaimableExpiredCode(k) == Unspent(k)

\* updateMany({usedAt: null, expiresAt > now}): the claim that makes a code
\* single-use.
ClaimableCode(k) == code[k].state = "unused"

\* Mutant: the code's id is stored as the family.
StoredUnderCode(t, k, f, S) == [state |-> "live", code |-> k, family |-> k, scopes |-> S]

\* issueTokens stores a refresh token for a client that may use one: for
\* offline_access, and for a first-party application that is not asking for an
\* ID token.
WantsRefresh(c, S) ==
    /\ MayUse(c, "refresh_token")
    /\ OfflineAccess \in S \/ (c \in FirstPartyClients /\ OpenId \notin S)

\* The row it stores: t, absent so far, with the given family.
Stored(t, k, f, S) == [state |-> "live", code |-> k, family |-> f, scopes |-> S]

\* The transaction: the rechecks, the claim, the OIDC session, the tokens.
RedeemCode(w, k) ==
    /\ work[w] = PendingRedeem(k)
    /\ Redeemable(k)
    /\ ClaimableCode(k)
    /\ oidc[CodeRow(k)] = "live"
    /\ code' = [code EXCEPT ![k].state = "redeemed"]
    /\ IF WantsRefresh(CodeClient(k), code[k].scopes)
       THEN \E t \in Tokens :
                /\ ~Exists(t)
                /\ token' = [token EXCEPT ![t] = Stored(t, k, t, code[k].scopes)]
       ELSE UNCHANGED token
    /\ Finish(w)
    /\ UNCHANGED <<registry, grant, session, oidc, outbox, retired, killed>>

\* The claim lost against another redemption, or against a burn.
RedeemFindsReplay(w, k) ==
    /\ work[w] = PendingRedeem(k)
    /\ Redeemable(k)
    /\ Used(k)
    /\ Continue(w, PendingContain(k))
    /\ UNCHANGED <<registry, grant, session, oidc, code, token, outbox, retired, killed>>

\* Mutant: the claim is committed before the OIDC session is looked up.
RefusedAfterClaim(w, k) ==
    /\ work[w] = PendingRedeem(k)
    /\ Redeemable(k)
    /\ code[k].state = "unused" /\ oidc[CodeRow(k)] # "live"
    /\ code' = [code EXCEPT ![k].state = "redeemed"]
    /\ Finish(w)
    /\ UNCHANGED <<registry, grant, session, oidc, token, outbox, retired, killed>>

\* Every other outcome rolls back, the claim with it, and answers invalid_grant.
RedeemRefused(w, k) ==
    /\ work[w] = PendingRedeem(k)
    /\ \/ ~Redeemable(k)
       \/ code[k].state = "expired"
       \/ code[k].state = "unused" /\ oidc[CodeRow(k)] # "live"
    /\ Finish(w)
    /\ UNCHANGED <<registry, grant, session, oidc, code, token, outbox, retired, killed>>

\* revokeTokensForSession, run for code k: by refuseAsReplay, and by RFC 7009
\* revocation of an access token descended from k.
RevokeTokensForSession(w, k) ==
    LET s == CodeSession(k)
        c == CodeClient(k) IN
    /\ work[w] = PendingContain(k)
    /\ Revoke(TokensOfSession(s, c))
    /\ EndRows({<<s, c>>})
    /\ retired' = retired \cup {k} \cup DescendantsEnded(s, c)
    /\ Finish(w)
    /\ UNCHANGED <<registry, grant, session, code, outbox, killed>>

-----------------------------------------------------------------------------
(* Token endpoint: refresh_token *)

\* exchangeRefreshToken up to its transaction.  S is the scope asked for, or
\* the token's own scopes.
PresentRefresh(w, c, t, S) ==
    /\ clientStatus[c] = "APPROVED"
    /\ MayUse(c, "refresh_token")
    /\ Exists(t)
    /\ \/ /\ c # TokenClient(t) \/ token[t].state \in {"used", "revoked"}
          /\ Begin(w, PendingFamily(token[t].family))
       \/ /\ c = TokenClient(t)
          /\ token[t].state = "live"
          /\ S \subseteq token[t].scopes
          /\ Begin(w, PendingRefresh(t, S))
    /\ UNCHANGED <<registry, grant, session, oidc, code, token, outbox, retired, killed>>

Refreshable(t, S) ==
    MayUse(TokenClient(t), "refresh_token") /\ MayHold(TokenUser(t), TokenClient(t), S)
TokenRow(t) == CodeRow(token[t].code)

\* Mutant: the claim leaves out revokedAt: null.
ClaimableRevokedToken(t) == token[t].state \in {"live", "revoked"}

\* updateMany({usedAt: null, revokedAt: null, expiresAt > now}).
ClaimableToken(t) == token[t].state = "live"

\* Mutant: the presented token stays usable.
RetireNothing(t) == token

\* What the claim leaves behind: usedAt set.
Retire(t) == [token EXCEPT ![t].state = "used"]

\* Mutant: a successor is stored with or without rotation.
RefreshAlwaysMints(w, t, S) ==
    /\ work[w] = PendingRefresh(t, S)
    /\ Refreshable(t, S)
    /\ ClaimableToken(t)
    /\ oidc[TokenRow(t)] = "live"
    /\ \E n \in Tokens :
           ~Exists(n) /\ token' = [token EXCEPT ![n] = Stored(n, token[t].code, token[t].family, S)]
    /\ Finish(w)
    /\ UNCHANGED <<registry, grant, session, oidc, code, outbox, retired, killed>>

\* The transaction: with rotation the presented token is retired and, if the
\* scopes asked for still want one, a successor of its family is stored.
\* Without rotation the row is only locked.
RefreshTokens(w, t, S) ==
    /\ work[w] = PendingRefresh(t, S)
    /\ Refreshable(t, S)
    /\ ClaimableToken(t)
    /\ oidc[TokenRow(t)] = "live"
    /\ \/ /\ Rotation
          /\ WantsRefresh(TokenClient(t), S)
          /\ \E n \in Tokens :
                /\ ~Exists(n)
                /\ token' = [Retire(t) EXCEPT ![n] =
                                 Stored(n, token[t].code, token[t].family, S)]
       \/ Rotation /\ ~WantsRefresh(TokenClient(t), S) /\ token' = Retire(t)
       \/ ~Rotation /\ UNCHANGED token
    /\ Finish(w)
    /\ UNCHANGED <<registry, grant, session, oidc, code, outbox, retired, killed>>

\* RefreshStateRejected or RefreshReplayDetected: rolled back, and the family
\* is revoked by a later transaction.  Without rotation a lost claim is only
\* refused: the row was revoked or has expired.
RefreshRejected(w, t, S) ==
    /\ work[w] = PendingRefresh(t, S)
    /\ LET lost == Refreshable(t, S) /\ ~ClaimableToken(t)
           rejected == \/ ~Refreshable(t, S)
                       \/ ClaimableToken(t) /\ oidc[TokenRow(t)] # "live" IN
       \/ rejected /\ Continue(w, PendingFamily(token[t].family))
       \/ lost /\ Rotation /\ Continue(w, PendingFamily(token[t].family))
       \/ lost /\ ~Rotation /\ Finish(w)
    /\ UNCHANGED <<registry, grant, session, oidc, code, token, outbox, retired, killed>>

RevokeFamily(w, f) ==
    /\ work[w] = PendingFamily(f)
    /\ Revoke(TokensOfFamily(f))
    /\ killed' = killed \cup {f}
    /\ Finish(w)
    /\ UNCHANGED <<registry, grant, session, oidc, code, outbox, retired>>

-----------------------------------------------------------------------------
(* Revocation endpoint (RFC 7009) *)

RevokePresentedRefresh(w, c, t) ==
    /\ clientStatus[c] = "APPROVED"
    /\ Exists(t)
    /\ TokenClient(t) = c
    /\ Begin(w, PendingFamily(token[t].family))
    /\ UNCHANGED <<registry, grant, session, oidc, code, token, outbox, retired, killed>>

\* An access token descended from code k; its sid names the row CodeRow(k).
RevokePresentedAccess(w, c, k) ==
    /\ clientStatus[c] = "APPROVED"
    /\ code[k].state = "redeemed"
    /\ CodeClient(k) = c
    /\ Begin(w, PendingContain(k))
    /\ UNCHANGED <<registry, grant, session, oidc, code, token, outbox, retired, killed>>

-----------------------------------------------------------------------------
(* The user, and administrators *)

\* revokeGrant.
RevokeGrant(u, c) ==
    /\ grant[<<u, c>>] # {}
    /\ grant' = [grant EXCEPT ![<<u, c>>] = {}]
    /\ Revoke(TokensOfGrant(u, c))
    /\ Spend(CodesOfGrant(u, c))
    /\ EndRows(RowsOfGrant(u, c))
    /\ Enqueue(RowsOfGrant(u, c))
    /\ UNCHANGED <<registry, session, work, retired, killed>>

\* revokeAllCredentialsWith: everything but the grants, and no notification.
RevokeAllCredentials(u) ==
    /\ session' = [s \in Sessions |-> IF Owner[s] = u /\ session[s] # "none"
                                      THEN "gone" ELSE session[s]]
    /\ Revoke(TokensOfUser(u))
    /\ Spend(CodesOfUser(u))
    /\ EndRows(RowsOfUser(u))
    /\ UNCHANGED <<grant, outbox, work, retired, killed>>

\* changePassword, which does not look at the status, and resetPassword, which
\* does.
ReplacePassword(u) ==
    /\ RevokeAllCredentials(u)
    /\ UNCHANGED registry

\* accounts.setStatus: disabling revokes in the same transaction.
DisableAccount(u) ==
    /\ account' = [account EXCEPT ![u] = "DISABLED"]
    /\ RevokeAllCredentials(u)
    /\ UNCHANGED <<clientStatus, registered, admins>>

EnableAccount(u) ==
    /\ account[u] = "DISABLED"
    /\ account' = [account EXCEPT ![u] = "ACTIVE"]
    /\ UNCHANGED <<clientStatus, registered, admins, grant, session, oidc, code,
                   token, outbox, work, retired, killed>>

\* accounts.setRole; without admin-only scopes the role decides nothing here.
SetRole(u) ==
    /\ AdminScopes # {}
    /\ admins' = IF u \in admins THEN admins \ {u} ELSE admins \cup {u}
    /\ UNCHANGED <<clientStatus, registered, account, grant, session, oidc, code,
                   token, outbox, work, retired, killed>>

\* clients.update, of what the token transactions read.
UpdateClient(c, registration) ==
    /\ registered[c] # registration
    /\ registered' = [registered EXCEPT ![c] = registration]
    /\ UNCHANGED <<clientStatus, account, admins, grant, session, oidc, code,
                   token, outbox, work, retired, killed>>

\* clients.setStatus, one statement a step: the status, then for a disabled or
\* rejected client its refresh tokens, then its OIDC sessions.
SetClientStatus(w, c, status) ==
    /\ work[w] = Idle
    /\ clientStatus' = [clientStatus EXCEPT ![c] = status]
    /\ IF status \in {"DISABLED", "REJECTED"}
       THEN Begin(w, PendingDrainTokens(c))
       ELSE UNCHANGED work
    /\ UNCHANGED <<registered, account, admins, grant, session, oidc, code,
                   token, outbox, retired, killed>>

DrainTokens(w, c) ==
    /\ work[w] = PendingDrainTokens(c)
    /\ Revoke(TokensOfClient(c))
    /\ Continue(w, PendingDrainSessions(c))
    /\ UNCHANGED <<registry, grant, session, oidc, code, outbox, retired, killed>>

DrainSessions(w, c) ==
    /\ work[w] = PendingDrainSessions(c)
    /\ EndRows(Sessions \X {c})
    /\ Finish(w)
    /\ UNCHANGED <<registry, grant, session, code, token, outbox, retired, killed>>

-----------------------------------------------------------------------------
(* The environment *)

TokenExpires(t) ==
    /\ token[t].state = "live"
    /\ token' = [token EXCEPT ![t].state = "expired"]
    /\ UNCHANGED <<registry, grant, session, oidc, code, outbox, work, retired, killed>>

\* The process dies or the database fails between two transactions of a
\* request: what it had still to do is never done.
Interrupted(w) ==
    /\ work[w] # Idle
    /\ Finish(w)
    /\ UNCHANGED <<registry, grant, session, oidc, code, token, outbox, retired, killed>>

-----------------------------------------------------------------------------
BrowserStep ==
    \E s \in Sessions :
        \/ \E old \in {{}} \cup {{o} : o \in Sessions} : SignIn(s, old)
        \/ SessionExpires(s)
        \/ DropExpiredSession(s)
        \/ Logout(s)
        \/ EndSessions(s)
        \/ \E k \in Codes, c \in Clients, S \in SUBSET Scopes, e \in BOOLEAN :
               IssueCode(k, s, c, S, e)

CodeStep(w, k) ==
    \/ \E c \in Clients : PresentCode(w, c, k) \/ RevokePresentedAccess(w, c, k)
    \/ RedeemCode(w, k)
    \/ RedeemFindsReplay(w, k)
    \/ RedeemRefused(w, k)
    \/ RevokeTokensForSession(w, k)

RefreshStep(w, t) ==
    \/ \E c \in Clients : RevokePresentedRefresh(w, c, t)
    \/ \E c \in Clients, S \in SUBSET Scopes : PresentRefresh(w, c, t, S)
    \/ \E S \in SUBSET Scopes : RefreshTokens(w, t, S) \/ RefreshRejected(w, t, S)
    \/ RevokeFamily(w, t)

AdminStep ==
    \/ \E u \in Users :
        \/ ReplacePassword(u)
        \/ DisableAccount(u)
        \/ EnableAccount(u)
        \/ SetRole(u)
        \/ \E c \in Clients : RevokeGrant(u, c)
    \/ \E c \in Clients, registration \in Registrations : UpdateClient(c, registration)
    \/ \E w \in Workers, c \in Clients :
        \/ \E status \in ClientStatuses : SetClientStatus(w, c, status)
        \/ DrainTokens(w, c)
        \/ DrainSessions(w, c)

ExpiryStep ==
    \/ \E k \in Codes : CodeExpires(k)
    \/ \E t \in Tokens : TokenExpires(t)

Next ==
    \/ BrowserStep
    \/ \E w \in Workers, k \in Codes : CodeStep(w, k)
    \/ \E w \in Workers, t \in Tokens : RefreshStep(w, t)
    \/ AdminStep
    \/ ExpiryStep
    \/ \E w \in Workers : Interrupted(w)

Spec == Init /\ [][Next]_vars

-----------------------------------------------------------------------------
(* Properties *)

\* Consent bounds every credential: a refresh token that can still be used and
\* a code not yet spent never carry a scope outside the user's current grant,
\* so withdrawing the grant leaves none behind, whatever was in flight
\* (issueCode, exchangeAuthorizationCode, exchangeRefreshToken, revokeGrant).
CoveredByGrant ==
    /\ \A k \in Codes : Unspent(k) =>
           GrantCovers(CodeUser(k), CodeClient(k), code[k].scopes)
    /\ \A t \in Tokens : token[t].state = "live" =>
           GrantCovers(TokenUser(t), TokenClient(t), token[t].scopes)
    /\ \A s \in Sessions, c \in Clients :
           oidc[<<s, c>>] = "live" => grant[<<Owner[s], c>>] # {}

\* "Disabling an account revokes its credentials; nobody stays signed in": a
\* disabled account has no usable refresh token, unspent code or live OIDC
\* session, even with a redemption, a rotation or a consent in flight when the
\* administrator acted (accounts.setStatus against the token transactions).
DisabledAccountHoldsNothing ==
    \A u \in Users : account[u] = "DISABLED" =>
        /\ \A k \in CodesOfUser(u) : ~Unspent(k)
        /\ \A t \in TokensOfUser(u) : token[t].state # "live"
        /\ \A r \in RowsOfUser(u) : oidc[r] # "live"

\* A code is exchanged at most once: all refresh tokens descended from it are
\* one family, however many requests raced on it (the conditional claim of
\* exchangeAuthorizationCode).
CodeYieldsOneFamily ==
    \A t, n \in Tokens :
        Exists(t) /\ Exists(n) /\ token[t].code = token[n].code
            => token[t].family = token[n].family

\* Rotation keeps one usable token in a family: two requests racing with the
\* same refresh token never both get a successor (exchangeRefreshToken).
OneLiveTokenPerFamily ==
    \A t, n \in Tokens :
        token[t].state = "live" /\ token[n].state = "live"
            /\ token[t].family = token[n].family => t = n

\* "Reuse the presented token ... instead of minting an unbounded tree of live
\* siblings on every exchange" (providerService.js:1105): without rotation a
\* family is one row, whatever is revoked and consented to again.
OneTokenWithoutRotation ==
    \A t, n \in Tokens :
        ~Rotation /\ Exists(t) /\ Exists(n) /\ token[t].family = token[n].family => t = n

\* Once a code replay has been answered, or an access token descended from the
\* code revoked, no refresh token descended from that code is usable, then or
\* ever: an exchange already past its pre-read cannot add one
\* (revokeTokensForSession against issueTokens).
RetiredCodeStaysDead ==
    \A k \in retired, t \in Tokens : Exists(t) /\ token[t].code = k => token[t].state # "live"

\* Once revokeFamily has committed, the family never has a usable token again:
\* "a replacement token cannot be inserted just after this update and escape
\* revocation" (revokeFamily against the rotation transaction).
KilledFamilyStaysDead ==
    \A f \in killed : \A t \in TokensOfFamily(f) : token[t].state # "live"

\* The step that leaves a code redeemed also leaves a token of it exactly when its
\* client is to have one by its registration at that moment, so a code whose
\* exchange was refused stays unspent and an honest retry is never taken for a
\* replay; and a token that is stored, with a code or by rotation, carries no scope
\* its user has lost the role for.  Both hold whatever administrators changed since
\* the code or the token was presented (the transactions of
\* exchangeAuthorizationCode and exchangeRefreshToken).
Redeemed(k) == code[k].state = "redeemed"
Yielded(k) == \E t \in Tokens : Exists(t) /\ token[t].code = k
ClaimYieldsToken(k) ==
    ~Redeemed(k) /\ Redeemed(k)' => (Yielded(k)' <=> WantsRefresh(CodeClient(k), code[k].scopes))
WithinRole(t) == AllowedForUser(TokenUser(t), token[t].scopes)
StoredWithRole(t) == ~Exists(t) /\ Exists(t)' => WithinRole(t)'
IssuanceIsExact ==
    [][/\ \A k \in Codes : ClaimYieldsToken(k)
       /\ \A t \in Tokens : StoredWithRole(t)]_vars

\* What client and user see of a code and of what descends from it.
Usable(k) == {t \in Tokens : token[t].state = "live" /\ token[t].code = k}
Stage(k) ==
    IF code[k].state = "none" THEN "none"
    ELSE IF code[k].state = "unused" THEN "offered"
    ELSE IF Usable(k) # {} THEN "held" ELSE "over"
Carried(k) ==
    IF Stage(k) = "offered" THEN code[k].scopes ELSE UNION {token[t].scopes : t \in Usable(k)}

Delegated == INSTANCE Delegation WITH
    Parties <- Users \X Clients,
    consent <- grant,
    party <- [k \in Codes |-> IF code[k].state = "none" THEN Nil
                              ELSE <<CodeUser(k), CodeClient(k)>>],
    stage <- [k \in Codes |-> Stage(k)],
    carried <- [k \in Codes |-> Carried(k)]

\* The store keeps the promise made to users: whatever races, replays, expires or
\* is revoked, what a code gives a client begins inside the consent, is accepted
\* once, is narrowed by every refresh ("the requested scope must not exceed what
\* was granted"), and once over never comes back; a consent that is withdrawn ends
\* all of it in that step.
ImplementsDelegation == Delegated!Spec

\* Pending work names rows that exist, asks for no more than the token it presents
\* carries, and only a spent code is contained.
Grounded(item) ==
    /\ item.op = "redeem" => code[item.code].state # "none"
    /\ item.op = "contain" => Used(item.code)
    /\ item.op = "refresh" => Exists(item.token) /\ item.scopes \subseteq token[item.token].scopes
    /\ item.op = "family" => Exists(item.family)

\* A code in the table belongs to a session and a client and asks for something.
CodesSound ==
    \A k \in Codes : code[k].state # "none" =>
        /\ CodeSession(k) \in Sessions
        /\ CodeClient(k) \in Clients
        /\ code[k].scopes # {}

\* A refresh token descends from a code that was exchanged, and from the first
\* token of its family.
TokensSound ==
    \A t \in Tokens : Exists(t) =>
        /\ token[t].code \in Codes
        /\ code[token[t].code].state = "redeemed"
        /\ token[t].family \in Tokens
        /\ Exists(token[t].family)
        /\ token[token[t].family].code = token[t].code

GhostsSound ==
    /\ \A k \in retired : Used(k)
    /\ \A f \in killed : Exists(f)

\* Where rows come from, whatever requests raced to create them: the part of
\* the inductive invariant that the properties above rest on.  In particular a
\* request only contains a code that really has been spent.
Lineage ==
    /\ CodesSound
    /\ TokensSound
    /\ GhostsSound
    /\ \A w \in Workers : Grounded(work[w])

\* grantRemainsActive and the session check of introspection and UserInfo, for
\* the access tokens descended from code k.
AccessTokenActive(k) ==
    /\ code[k].state = "redeemed"
    /\ ClientEligible(CodeClient(k), code[k].scopes)
    /\ account[CodeUser(k)] # "DISABLED"
    /\ GrantCovers(CodeUser(k), CodeClient(k), code[k].scopes)
    /\ oidc[CodeRow(k)] = "live"

\* "every token descended from it is revoked" (providerService.js:911): after a
\* code replay, or the revocation of an access token, the access tokens
\* descended from that code are never again reported active.
RetiredAccessTokenStaysInactive == \A k \in retired : ~AccessTokenActive(k)
=============================================================================
