------------------------- MODULE AccountCredentials -------------------------
(***************************************************************************)
(* The credentials of one account: its status, its password, the links     *)
(* sent to its address and its browser sessions (accountService.js).       *)
(*                                                                         *)
(* A request reads the account, awaits a scrypt hash and writes; an action *)
(* is the stretch up to the next await that other requests can get into.   *)
(* What the code does in one database transaction is one action.  A        *)
(* process that dies stops between two actions.                            *)
(***************************************************************************)
CONSTANTS
    Passwords,
    ResetLinks, VerifyLinks,    \* one-time links, each sent at most once
    Logins, Resets, Changes, Verifications, Asks,   \* requests, by endpoint
    NoPassword,                 \* an account of an external identity
    NoLink,
    StoredUnder,                \* the parameters the stored hash may be of
    RequireVerification         \* requireEmailVerification

Links == ResetLinks \cup VerifyLinks
Requests == Logins \cup Resets \cup Changes \cup Verifications \cup Asks

ASSUME AccountAssumption ==
    /\ NoPassword \notin Passwords
    /\ NoLink \notin Links
    /\ ResetLinks \cap VerifyLinks = {}
    /\ RequireVerification \in BOOLEAN
    /\ StoredUnder \subseteq {"registered", "old parameters"}
    /\ {"registered", "old parameters"} \cap Requests = {}
    /\ Asks \cap (Resets \cup Verifications \cup Logins \cup Changes) = {}
    /\ (Resets \cup Verifications) \cap (Logins \cup Changes) = {}
    /\ Resets \cap Verifications = {} /\ Logins \cap Changes = {}

VARIABLES
    status,         \* users.status
    emailVerified,  \* users.email_verified_at is set
    hash,           \* users.password_hash
    link,           \* the rows of the two one-time token tables
    sessions,       \* the requests whose sign-in left a live session
    req             \* what each request has read, and how far it is

vars == <<status, emailVerified, hash, link, sessions, req>>

Statuses == {"pending", "active", "disabled"}

\* A hash is salted, so two hashes of a password differ: `by' is the request
\* that wrote it.
Hashes == [pw : Passwords \cup {NoPassword},
           by : Requests \cup {"registered", "old parameters"}]

LinkStates == {"none", "live", "expired", "used", "gone"}

\* How far a request is, and what it has read or is about to write.
Progress == [at : {"new", "read", "claimed", "granted", "done", "refused"},
             hash : Hashes, status : Statuses, link : Links \cup {NoLink}]

TypeOK ==
    /\ status \in Statuses
    /\ emailVerified \in BOOLEAN
    /\ hash \in Hashes
    /\ link \in [Links -> LinkStates]
    /\ sessions \subseteq Requests
    /\ req \in [Requests -> Progress]

\* usedAt is null, whether or not expiresAt has passed.
Unused(l) == link[l] \in {"live", "expired"}

LinksOf(l) == IF l \in ResetLinks THEN ResetLinks ELSE VerifyLinks

\* updateMany({ usedAt: null }, { usedAt: now })
Spend(S) == [l \in Links |-> IF l \in S /\ Unused(l) THEN "used" ELSE link[l]]

Init ==
    /\ status \in {"pending", "active"}
    /\ emailVerified = FALSE
    /\ hash \in [pw : Passwords, by : StoredUnder]
               \cup {[pw |-> NoPassword, by |-> "registered"]}
    /\ link = [l \in Links |-> "none"]
    /\ sessions = {}
    /\ req = [r \in Requests |-> [at |-> "new", hash |-> hash, status |-> status,
                                  link |-> NoLink]]

-----------------------------------------------------------------------------
\* A request's progress: where it is, and what it learned on the way.
Goes(r, at) == req' = [req EXCEPT ![r].at = at]

\* authenticate up to its first write: a wrong password or a status that may not
\* sign in ends the request without one.
LoginReads(r) ==
    /\ req[r].at = "new"
    /\ hash.pw # NoPassword
    /\ status # "disabled"
    /\ status = "pending" => ~RequireVerification
    /\ req' = [req EXCEPT ![r] = [@ EXCEPT !.at = "read", !.hash = hash, !.status = status]]
    /\ UNCHANGED <<status, emailVerified, hash, link, sessions>>

\* user.update: from the record read before the hashes were computed, a PENDING
\* account is made ACTIVE and a hash of old parameters is replaced.
LoginWrites(r) ==
    /\ req[r].at = "read"
    /\ status' = IF req[r].status = "pending" THEN "active" ELSE status
    /\ hash' = IF req[r].hash.by = "old parameters"
               THEN [req[r].hash EXCEPT !.by = r] ELSE hash
    /\ Goes(r, "granted")
    /\ UNCHANGED <<emailVerified, link, sessions>>

\* sessions.login: the session the browser presented, if any, is replaced.
SignsIn(r) ==
    /\ req[r].at = "granted"
    /\ \E presented \in {{}} \cup {{s} : s \in sessions} :
          sessions' = (sessions \ presented) \cup {r}
    /\ Goes(r, "done")
    /\ UNCHANGED <<status, emailVerified, hash, link>>

\* A logout, an expiry, or a request of a disabled account.
SessionEnds(s) ==
    /\ s \in sessions
    /\ sessions' = sessions \ {s}
    /\ UNCHANGED <<status, emailVerified, hash, link, req>>

-----------------------------------------------------------------------------
\* requestPasswordReset, and issueEmailVerification for an unverified account.
AskReads(r, l) ==
    /\ req[r].at = "new"
    /\ IF l \in ResetLinks THEN status # "disabled" ELSE ~emailVerified
    /\ link[l] = "none" /\ \A q \in Requests : req[q].link # l
    /\ req' = [req EXCEPT ![r] = [@ EXCEPT !.at = "read", !.link = l]]
    /\ UNCHANGED <<status, emailVerified, hash, link, sessions>>

\* "Any outstanding token is invalidated first".
AskSpends(r) ==
    /\ req[r].at = "read"
    /\ link' = Spend(LinksOf(req[r].link))
    /\ Goes(r, "claimed")
    /\ UNCHANGED <<status, emailVerified, hash, sessions>>

AskCreates(r) ==
    /\ req[r].at = "claimed"
    /\ link' = [link EXCEPT ![req[r].link] = "live"]
    /\ Goes(r, "done")
    /\ UNCHANGED <<status, emailVerified, hash, sessions>>

LinkExpires(l) ==
    /\ link[l] = "live"
    /\ link' = [link EXCEPT ![l] = "expired"]
    /\ UNCHANGED <<status, emailVerified, hash, sessions, req>>

\* pruneExpiredTokens
PruneLinks ==
    /\ \E l \in Links : link[l] \in {"expired", "used"}
    /\ link' = [l \in Links |-> IF link[l] \in {"expired", "used"} THEN "gone" ELSE link[l]]
    /\ UNCHANGED <<status, emailVerified, hash, sessions, req>>

-----------------------------------------------------------------------------
\* revokeAllCredentialsWith, in the transaction of a caller: every session ends
\* and every outstanding link is spent.
RevokeAll ==
    /\ sessions' = {}
    /\ link' = Spend(Links)

\* Mutant: the link is claimed before the hash, outside the transaction.
ResetReadsClaiming(r, l, p) ==
    /\ req[r].at = "new"
    /\ link[l] = "live"
    /\ status # "disabled"
    /\ req' = [req EXCEPT ![r] = [@ EXCEPT !.at = "read", !.link = l,
                                           !.hash = [pw |-> p, by |-> r]]]
    /\ link' = Spend({l})
    /\ UNCHANGED <<status, emailVerified, hash, sessions>>

\* resetPassword up to its transaction; the new password is hashed on the way.
ResetReads(r, l, p) ==
    /\ req[r].at = "new"
    /\ link[l] = "live"
    /\ status # "disabled"
    /\ req' = [req EXCEPT ![r] = [@ EXCEPT !.at = "read", !.link = l,
                                           !.hash = [pw |-> p, by |-> r]]]
    /\ UNCHANGED <<status, emailVerified, hash, link, sessions>>

\* The transaction stands only if the account is not disabled by now and the
\* link is still unused.
\* Mutant: the link is not claimed again.
MayResetUnclaimed(r) == status # "disabled"
MayReset(r) == status # "disabled" /\ Unused(req[r].link)

ResetCommits(r) ==
    /\ req[r].at = "read"
    /\ MayReset(r)
    /\ status' = IF status = "pending" THEN "active" ELSE status
    /\ emailVerified' = TRUE
    /\ hash' = req[r].hash
    /\ RevokeAll
    /\ Goes(r, "granted")

\* AccountStateChanged or ResetTokenChangedConcurrently: all is rolled back.
ResetRefused(r) ==
    /\ req[r].at = "read"
    /\ ~MayReset(r)
    /\ Goes(r, "refused")
    /\ UNCHANGED <<status, emailVerified, hash, link, sessions>>

\* changePassword up to its transaction, for a signed-in user who knows the
\* current password or has none.
ChangeReads(r) ==
    /\ req[r].at = "new"
    /\ sessions # {} /\ status # "disabled"
    /\ req' = [req EXCEPT ![r] = [@ EXCEPT !.at = "read", !.hash = hash]]
    /\ UNCHANGED <<status, emailVerified, hash, link, sessions>>

\* Mutant: the hash that was proved is not compared in the write.
MayChangeStale(r) == TRUE
\* updateMany({ id, passwordHash: record.passwordHash })
MayChange(r) == hash = req[r].hash

ChangeCommits(r, p) ==
    /\ req[r].at = "read"
    /\ MayChange(r)
    /\ hash' = [pw |-> p, by |-> r]
    /\ RevokeAll
    /\ req' = [req EXCEPT ![r] = [@ EXCEPT !.at = "granted", !.hash = [pw |-> p, by |-> r]]]
    /\ UNCHANGED <<status, emailVerified>>

\* PasswordChangedConcurrently
ChangeRefused(r) ==
    /\ req[r].at = "read"
    /\ ~MayChange(r)
    /\ Goes(r, "refused")
    /\ UNCHANGED <<status, emailVerified, hash, link, sessions>>

-----------------------------------------------------------------------------
VerifyReads(r, l) ==
    /\ req[r].at = "new"
    /\ link[l] = "live"
    /\ status # "disabled"
    /\ req' = [req EXCEPT ![r] = [@ EXCEPT !.at = "read", !.link = l, !.status = status]]
    /\ UNCHANGED <<status, emailVerified, hash, link, sessions>>

VerifyClaims(r) ==
    /\ req[r].at = "read"
    /\ link' = Spend({req[r].link})
    /\ Goes(r, IF Unused(req[r].link) THEN "claimed" ELSE "refused")
    /\ UNCHANGED <<status, emailVerified, hash, sessions>>

\* The status written is the one read before the claim, promoted.
VerifyWrites(r) ==
    /\ req[r].at = "claimed"
    /\ emailVerified' = TRUE
    /\ status' = IF req[r].status = "pending" THEN "active" ELSE req[r].status
    /\ Goes(r, "done")
    /\ UNCHANGED <<hash, link, sessions>>

-----------------------------------------------------------------------------
\* setStatus by an administrator.
Disable ==
    /\ status # "disabled"
    /\ status' = "disabled"
    /\ RevokeAll
    /\ UNCHANGED <<emailVerified, hash, req>>

\* Mutant: the status of the request is written unchecked.
ReinstateUnvalidated ==
    /\ \E s \in {"pending", "active", ""} : s # status /\ status' = s
    /\ UNCHANGED <<emailVerified, hash, link, sessions, req>>

Reinstate ==
    /\ \E s \in {"pending", "active"} : s # status /\ status' = s
    /\ UNCHANGED <<emailVerified, hash, link, sessions, req>>

-----------------------------------------------------------------------------
LoginSteps == \E r \in Logins : LoginReads(r) \/ LoginWrites(r)
SessionSteps ==
    \/ \E r \in Logins \cup Resets \cup Changes : SignsIn(r)
    \/ \E s \in Requests : SessionEnds(s)
LinkSteps ==
    \/ \E r \in Asks : (\E l \in Links : AskReads(r, l)) \/ AskSpends(r) \/ AskCreates(r)
    \/ \E l \in Links : LinkExpires(l)
    \/ PruneLinks
PasswordSteps ==
    \/ \E r \in Resets :
          \/ \E l \in ResetLinks, p \in Passwords : ResetReads(r, l, p)
          \/ ResetCommits(r) \/ ResetRefused(r)
    \/ \E r \in Changes :
          \/ ChangeReads(r) \/ ChangeRefused(r)
          \/ \E p \in Passwords : ChangeCommits(r, p)
VerifySteps ==
    \E r \in Verifications :
        (\E l \in VerifyLinks : VerifyReads(r, l)) \/ VerifyClaims(r) \/ VerifyWrites(r)

Next ==
    LoginSteps \/ SessionSteps \/ LinkSteps \/ PasswordSteps \/ VerifySteps
    \/ Disable \/ Reinstate

Spec == Init /\ [][Next]_vars

-----------------------------------------------------------------------------
\* The requests a link has let through.
LetThroughBy(l) ==
    {r \in Resets \cup Verifications : req[r].link = l /\ req[r].at \in {"claimed", "granted", "done"}}

\* A link works once, however many requests have read it as live before one of
\* them spends it.
LinkWorksOnce == \A l \in Links : \A q, r \in LetThroughBy(l) : q = r

\* A reset link is spent by the password it sets, by the account's other
\* password or status changes, or by a newer link: a reset that is refused
\* leaves the link as it was.
RefusedResetKeepsItsLink ==
    [][\A l \in ResetLinks : (Unused(l) /\ link'[l] = "used") =>
          \/ hash' # hash
          \/ status # "disabled" /\ status' = "disabled"
          \/ \E r \in Asks : req[r].at = "read" /\ req'[r].at = "claimed"]_vars

\* A disabled account leaves that state by the administrator's action only.
DisabledStaysDisabled ==
    [][status = "disabled" /\ status' # "disabled" => Reinstate]_vars

\* The request's write stands: it replaces the hash, or a sign-in's update is made.
Succeeds(r) == req[r].at = "read" /\ req'[r].at = "granted"

\* The password changes in three ways only: by a change that proved the very hash it
\* replaces, so that of two that proved the same one only one succeeds; by a reset
\* whose link nothing had spent by then; and by a sign-in that had proved a password
\* under a hash of old parameters, which it stores again.  That upgrade does not look
\* at the hash it replaces, so it may undo a change or a reset made while it hashed
\* (accountService.js:324); a sign-in that read a hash of today's parameters never
\* brings a replaced password back.
PasswordReplacedKnowingly ==
    [][hash'.pw # hash.pw =>
          \/ \E r \in Changes : Succeeds(r) /\ req[r].hash = hash
          \/ \E r \in Resets : Succeeds(r) /\ Unused(req[r].link)
          \/ \E r \in Logins : /\ Succeeds(r) /\ req[r].hash.by = "old parameters"
                               /\ hash'.pw = req[r].hash.pw]_vars
=============================================================================
