# Formal models of the Knight OAuth issuer

TLA+ specifications of the parts of this server whose correctness depends on
the order in which requests, transactions, timers and stops interleave, the TLC
configurations that check them, and TLAPS proofs of what matters most. The
specifications are translated from the source. Where a definition stands for
code, `PROJECT.json` names the file and the lines.

    tlc -workers 2 -config TokenRaces.cfg TokenServiceMC     # one run
    tlapm TokenServiceProofs.tla                              # one module's proofs

## 1. Inventory

One Node process (or several, on PostgreSQL) answers HTTP requests. All durable
state is in one database through Prisma; requests interact through its rows,
never through memory, with two exceptions: the scrypt gate and the rate limiter
live in the process. Two timers (pruning, logout delivery) run beside the
requests. JavaScript is single-threaded, so interleaving happens at `await`.

| Component (source) | State | Operations | Interacts with |
|---|---|---|---|
| Token service (`providerService.js`) | `grants`, `authorization_requests`, `authorization_codes`, `refresh_tokens`, `oidc_sessions` | authorize, consent, issue a code, exchange, refresh, introspect, revoke, end sessions, prune | every other component; its transactions lock Client, User, Grant, Session, Refresh/Code, OIDC in this order |
| Accounts (`accountService.js`) | `users`, the two one-time link tables | register, authenticate, verify, ask for a link, reset, change, disable, role | revokes sessions, codes, tokens and OIDC sessions of its user |
| Browser sessions (`sessionService.js`, `middleware/session.js`) | `sessions` | sign in, find, touch, log out, expire | owner of OIDC sessions |
| Clients (`clientService.js`) | `oauth_clients` | create, update, approve, rotate secret, set status, dynamic registration, sync | revokes tokens and OIDC sessions of a client |
| Back-channel outbox (`backchannelService.js`, timers in `server.js`) | `backchannel_logouts` | enqueue (in the caller's transaction), flush, deliver, prune | clients' endpoints over the network |
| Hash gate (`lib/crypto.js`) | a counter and a queue in memory | acquire, release | every password operation |
| Signing keys (`keyService.js`) | `signing_keys`, a cached ring per process | bootstrap, rotate, prune | every token and logout token |
| External identities (`externalIdentityService.js`) | `external_identities`, `consumed_tickets` | verify and consume a ticket, resolve, link, unlink | accounts |
| Rate limiter (`middleware/rateLimit.js`) | counters in memory | hit, sweep | every request |
| Scopes, URIs, CSRF, JWT (`lib/`, `middleware/csrf.js`) | none | parsing, comparison, signing | - |
| Configuration, mail, audit, views, scripts | files, `audit_logs` | input and output | - |

What makes each one correct, and what is hard about it:

* Token service: a code is exchanged once and a refresh token rotated once,
  however many requests race; a replay ends everything descended from the code;
  consent bounds every credential at every moment; disabling an account or
  withdrawing consent leaves nothing usable. Hard, because a request reads the
  credential before its transaction, a refused transaction rolls back before a
  *second* transaction contains the replay, and a process may stop in between.
* Accounts: a link works once, a refused reset keeps its link, the password and
  the status change only on purpose. Hard, because scrypt is awaited between the
  read and the write of every password operation.
* Outbox: a notice is delivered at least once or given up after all its
  attempts. Hard, because a POST lies between the read and the write of a row,
  and two replicas flush the same rows.
* Hash gate: the slot count is exact, nobody waits beside a free slot, every
  accepted caller is answered.
* Browser flow: an authorization request is answered once, by the account and
  after the sign-in or consent it demanded, at an address the client registered,
  and the browser is not sent in circles. Hard, because the tabs of a browser
  share a cookie that each handler reads once, at its start.
* Clients: a replaced secret is dead, a client does not change its own status or
  type. Hard, because no operation is a transaction: each reads, decides, writes.
* External identities: a ticket is used once, in the browser that asked for it,
  for an account that was made for its subject. Hard, because a callback is six
  awaits long and the upstream chooses what it asserts.
* Keys: what one process signs, every process verifies. Hard, because each
  caches its ring, a call assigns it some time after it read the table, and a
  rotation is two statements.
* Rate limiter: of the requests a rule matches, no key gets more than twice its
  limit through in a window.

`PROJECT.json` lists the hazards one by one, each at its line, with the
properties that would catch it.

## 2. Modules

### `TokenService`, `Delegation` (with `TokenServiceMC` and `TokenServiceProofs`)

The credential store. One database transaction is one action: on SQLite there is
one writer, and on PostgreSQL the transactions modelled here begin by locking
rows that any conflicting one locks too (the module's head names the order). A
token request is *not* one action: it presents a credential (`PresentCode`,
`PresentRefresh`), runs its transaction later with the row it read
(`RedeemCode`, `RefreshTokens`, or a refusal), and contains a replay in a third
step (`RevokeTokensForSession`, `RevokeFamily`). `work[w]` is what the request
of worker `w` still has to do; `Interrupted(w)` forgets it, which is a process
that dies or a database that fails. `clients.setStatus` is three statements and
three actions for the same reason.

A code, a token and a session are model values. Codes are named by the
authorization request that is consumed to create them, so the code's "none" is
the conditional claim of that request. Expiry is a step of its own that may
happen at any time, so no bound on clocks is needed. Scope strings are sets.
Of a client's registration the store decides on its scopes, its grant types and
whether a code's callback is still among its redirect URIs (`registered`); an
administrator may change it at any time. Access tokens are not stored by the code and neither are they here: those
descended from code `k` are active exactly when `AccessTokenActive(k)`.

`retired` and `killed` are history variables: the codes whose descendants have
been revoked, and the families revoked as a whole. Nothing reads them but the
properties.

`Delegation` is the abstract specification, what a user is promised: a
delegation is offered within the consent, accepted once, only ever narrowed, and
ended for good; withdrawing the consent ends in one step all that was made under
it. It knows of no rows, families, requests or replays. `TokenService` implements
it (`ImplementsDelegation`): the delegation of a code is `offered` while the code
can be exchanged, `held` while it has a usable refresh token, and otherwise
`over`; it carries the code's scopes, then the token's (`Stage`, `Carried`).
Access tokens stand outside this promise: finding 1 is that they do come back.

### `AccountCredentials`, `AccountCredentialsProofs`

One account: status, password hash, one-time links, sessions. An action is the
stretch of a handler up to the next `await` that another request can get into:
`LoginReads`/`LoginWrites`/`SignsIn`, `ResetReads`/`ResetCommits`, and so on. A
hash carries the request that wrote it, because two salted hashes of one
password differ and `changePassword` compares hashes. The hash an account starts
with is of old parameters or of today's (`StoredUnder`); a sign-in upgrades the
former. A request's number is
used once; that bounds the instance and nothing else. `sessions` here are those
of the password only; their OIDC part is `TokenService`'s.

### `LogoutOutbox` (with `OutboxMC` and `LogoutOutboxProofs`)

The table, each replica's flush with the rows as it read them, the POST and the
write of its result, pruning, and flushes that stop half-way. Each notice is for
a client (`ClientOf`), and each client registers or drops its own endpoint. Time is abstracted
to `rested` (the retry interval has passed since the last attempt). A row's
`attempts` is written from the count the flush *read*, as in the code, so two
replicas may count one attempt for two POSTs.

### `HashGate`, `HashService`, `MeteredHashing`, `HashGateProofs`

The gate in front of scrypt, one action per uninterrupted stretch of JavaScript;
a resolved promise continues in a later step (`granted`). `HashService` is the
abstract specification: a bounded service in order of arrival. `HashGate`
implements it, with the slot holders as `served` and the array as `line`.
`MeteredHashing` puts the rate limiter in front of it: a request is counted by
address and identifier (`Arrive`) before it may reach the gate
(`AcquireAdmitted`). One whose path no rule matches as it is written has no keys
and passes uncounted. The Map is a function with `NoEntry` where it has no key;
counts above the limit are one value, since nothing tells them apart. `passed` is
history: how many requests of a key had been let through before each moment, of
which the burst in a span is a difference.

### `AuthorizationRequest` (with `AuthorizationMC` and `AuthorizationRequestProofs`)

One client, one browser, several tabs. `tab[t]` is the page a tab shows, the
redirect it is about to follow, or the handler it waits for; a handler that has
an `await` between reading the session and writing keeps what it read
(`authorizing`, `signingIn`, `issuing`). `cookie` and `row` are the browser's
cookie and the session table; `Swept` is what the session middleware deletes
while it reads. `Resolve` is `resolveAuthorization`, called from `/authorize`
(`Authorize`, then `Park`) and from `/continue` (`Continue`). `Issue` is the
transaction of `issueCode` with its rechecks and its claim. Clock comparisons
are kept as relations: a session row holds the requests that were parked before
it (`authTime > createdAt`), and whether it is older than `max_age`. A browser
may come with a session, and accounts may be disabled, from the start. The `end`
of a request and the `since` of a session row are history: how the request was
answered, and which requests `/authorize` had judged when the session was made.
What follows the code is `TokenService`'s.

### `RedirectUris`, `ScopeRegistry`

Pure rules as operators. `RedirectUris` is `lib/uri.js` over URLs as the WHATWG
parser leaves them (`Normalized` is the parser). `AuthorizationRequest` uses it
to match redirect URIs, and `ClientsMC` evaluates two facts over every
combination of spellings (assumption `UriRules`): a request matches a
registration exactly if both denote one endpoint, and the private ranges begin
and end where they should. `ScopeRegistry` is `lib/scopes.js` with the custom
scopes of `config/env.js`; `ExternalSignIn` uses it for the claims of accounts.

### `ClientRegistration` (with `ClientsMC` and `ClientRegistrationProofs`)

The rows of `oauth_clients`. Every operation that decides from a row it has
read is two actions, `...Reads` and `...Writes`, and `work[w]` holds what was
read. A metadata document is a record of the fields the decisions depend on;
`sound` stands for its names, contacts and URIs, which `ClientsMC` computes with
`RedirectUris`. An update writes back the `requireConsent` it has read, and a boot
writes the configuration's. A secret is a model value, drawn once. `retired` and `decided`
are history variables: the secrets a client had before, and the status somebody
decided on last. The tokens a change of status revokes are `TokenService`'s.

### `ExternalSignIn` (with `ExternalSignInMC` and `ExternalSignInProofs`)

One upstream, several browsers. A callback is `CallbackReads` (the state in the
session), `SpendState` (it is cleared, and the ticket verified),
`ConsumeTicket`, `Resolve`, then `MergeReads` and `MergeWrites` for an account
that is linked or `CreateLinkedAccount` for a new one, then `Enter`. The
upstream (`Issue`) signs any claims for any state it was handed. Local
registration is here, in its two statements, because it competes for addresses.
`spent`, `startedBy` and `born` are history variables. A clock bounds tickets.

### `KeyRing` (with `KeyRingMC` and `KeyRingProofs`)

The table, each process's cached ring, and the tokens signed with it. Several
calls run at a time, in one process or in several (`Home`), and `task[c]` is what
a call knows after its last await. `EnsureKeyRing`, `Read` and `Load` are
`ensureKeyRing` on a table that has keys: the call asks, the database answers,
and later the call assigns the ring from the rows it got. `Bootstrap`,
`ReadAgain` and `Settle` are the rest of it. `RotateRetires` and `RotateCreates`
are the two statements of `rotate`, and `RotateReloads` its return to
`ensureKeyRing`; it may run before the first load and beside any other call.
`StatementFails` ends a call at an await. `seen`, the tokens that were there when
rows were read, and `current`, whether a token was signed with the key that was
then active, are history. Nothing calls `rotate` yet: it
is an operation of the service, taken as often as `MaxRotations` allows. That
tokens live no longer than the overlap is assumed, as `config/env.js` ensures it.

## 3. Runs

| Run | Instance | States | What it shows |
|---|---|---|---|
| `token_races` | 1 user, client, session; 2 codes, 4 tokens, 2 workers | 428,792 | one family per code, one live token per family, replays and revocations are final; `Delegation` is implemented |
| `token_consent` | 2 sessions, 2 clients (one trusted), 2 scopes (one administrators'), 4 registrations, 1 code, 2 tokens, no rotation | 1,057,792 | consent bounds every credential; a disabled account holds nothing; an exchange yields the token the client is to have, within the user's role, or leaves the code; one row per family |
| `token_resurrection` | 1 client, 2 codes | - | finding 1 |
| `accounts` | 1 sign-in, 2 resets, 1 change, 2 confirmations, 2 requests for links; a hash of old parameters or none | 2,845,010 | links work once; a refused reset keeps its link; the password changes in three ways only |
| `account_reenabled` | 1 confirmation | - | finding 2 |
| `logout_outbox` | 2 replicas, 2 notices to 2 clients, 1 notice in a flush, 2 attempts, 1 stop | 301,476 | nothing is dropped, and every notice settles |
| `hash_gate` | 4 callers, 2 at one address, 1 at another, 1 uncounted, limit 1 in 2 units of time; 1 slot, queue of 2 | 88,853 | the limiter's burst; the gate, its liveness and its refinement |
| `authorization` | 1 request of 9 kinds, 2 tabs, 2 accounts, 4 session names, 1 event | 211,461 | one answer, to the client, after the sign-in and consent it demanded; flows end |
| `clients` | 2 clients (one static), 7 documents, 2 secrets, 2 workers, 2 boots | 994,290 | old secrets are dead; status and type move only by decision; the URI rules |
| `client_secret_shown` | the same | - | finding 3 |
| `identities` | 2 accounts, 1 subject, 2 browsers, 2 tickets, 2 workers | 684,699 | tickets are spent once, where they were asked for, for their subject's account; claims are true |
| `keys` | 2 processes with 2 calls and 1, 2 keys to draw, a key of the environment or none, 2 rotations, 1 token, time 2 | 2,141,242 | replicas agree until a rotation; a ring that is assigned verifies every living token the active key had signed when its rows were read |

Why the bounds suffice. Two requests are enough for every race in the token
service: a third adds no new pair of read and write. Two codes give one code's
containment the chance to meet another's exchange in the same session; four
tokens let both codes' families rotate once, or one of them three times. With one
scope a refresh narrows nothing; an instance with two scopes, one code, three
tokens and one worker, which does, refines `Delegation` in 7,246 states. Two
clients distinguish "mine" from "another's", two sessions likewise. The run
with two workers uses one client, because the requests of different clients meet
only in the rows of the user. The outbox needs a second notice, to another
client and outside the first batch, for starvation, two attempts for exhaustion,
and one stop for a lost result. The hash gate needs
a queue longer than one for order, and one more caller than it holds for a
refusal; with limit 1, four callers, one of them uncounted, reach it only across a
window's boundary.
One authorization request is enough, because requests share nothing but the
session and the grant, and two tabs give each step of it a competitor. One event
outside the flow (`MaxEvents`) is enough to void what a handler has read, and
every kind is tried; the sequences that need more (an old session *and* a
disabled account *and* an expiry) are reached because the initial states have
the old session and the disabled account already. With two events the invariants
hold in 1,067,188 states. Two workers pair every read of a client's row with
every other write, a third draw of a secret would be a third rotation of the
same kind, and two boots let a static client turn from confidential to public.
Two tickets let one be replayed while another is in flight; one is signed only
while it can still expire and be pruned before the clock stops (`MaxTime`). Two rotations let two calls of one process rotate
at once; a key drawn for the bootstrap and one for the first leave none for the
second, which then fails half-way. One token's life and one overlap pass by time
2, when the first retired key may leave the table. The theorems of section 5 lift most of
the bounds of the modules they are about.

Symmetry is used for interchangeable names only (codes, tokens, workers,
secrets, tickets, accounts, replicas, keys, requests of one kind), in runs that check
invariants and action properties and no liveness. `clients` and `identities` may
run out of names and stop, `keys` out of time: their configurations say
`CHECK_DEADLOCK FALSE`.

Every property of a passing run has a mutant: a changed definition, beside its
original in the module, which makes the property fail. `PROJECT.json` pairs them.

Fairness. `HashGate` assumes that the event loop runs every continuation and
that scrypt ends: weak fairness of `Start`, `Finished` and `Release`, and none
of arrivals. `LogoutOutbox` assumes that the timers fire (`repeat` in
`server.js`), that a POST ends (its `AbortController`), and that time passes;
flushes that stop half-way are finitely many (`MaxStops`). Endpoints may come
and go for ever. `AuthorizationRequest` assumes that a handler that has started
finishes, that a browser follows a redirect, and that a user with a form open
sends it sooner or later, with an account that works (strong fairness of
`SignIn`, because a form may be refused and shown again any number of times).
None of it is assumed of events outside the flow. The other modules state
safety only and assume no fairness.

## 4. Findings

1. *Revoked access tokens come back* (`providerService.js:742`). `issueCode`
   revives an ended OIDC session row under the same id, which is the `sid` of
   earlier access tokens. After a replay or an access-token revocation, the next
   authorization from the same browser makes them active again until they
   expire.
2. *A confirmation undoes a disabling* (`accountService.js:437`). `verifyEmail`
   writes the status it read before it claimed the link. (`authenticate` does
   the same for a PENDING account when verification is not required.)
3. *A rotated secret is never shown* (`accountController.js:560`).
   `rotateClientSecret` renders the page with the `client` of `rotateSecret`'s
   result, which has none; the view reads its name and fails. The old secret is
   already replaced, and the owner has neither.

Observed while modelling and not the subject of a run:

* A password change, a reset and a disabled account end OIDC sessions without
  queueing a notice (`accountService.js:697`), as do `sessions.logout` and
  `clients.setStatus`, although `backchannelService.js:8` says "When a session
  ends, each client that has one is sent a signed logout token".
* A sign-in that upgrades an old hash writes back the password it read before
  its scrypt calls (`accountService.js:325`): a reset that commits meanwhile is
  undone. `PasswordReplacedKnowingly` allows this way back, and no other.
* The rate limiter looks a path up as it is written (`rateLimit.js:137`), while
  Express matches routes without regard to case or to a trailing slash: a
  request to `/Login` or `/login/` reaches its handler and the hashing gate
  uncounted. `BurstIsBounded` speaks of the requests that have a rule.
* A rotation that runs while another call is loading (`keyService.js:139-147`)
  leaves that call's process with a ring that lacks the new key, until it
  restarts; as does one in another process. `LoadedRingVerifies` speaks of tokens
  signed before the rows were read.
* A callback that verified its ticket before the ticket expired and records it
  after the record of an earlier use has been pruned is accepted a second time
  (`externalIdentityService.js:232`, `:478`). `TicketIsSpentOnce` counts the uses
  of a ticket while it lives.
* `clients.setStatus` is three statements without a transaction
  (`clientService.js:486`): a stop after the first leaves a disabled client's
  refresh tokens and sessions live. They are refused while the client is not
  APPROVED, and are usable again once it is.
* A sign-in whose password was verified before a reset opens its session after
  it (`LoginReads`, `ResetCommits`, `LoginWrites`, `SignsIn` of
  `AccountCredentials`), although a password change "revokes ... every session".
* Two requests for a link that both spend the outstanding links before either
  creates its own leave two working links (`AskSpends` twice, then `AskCreates`).
* A failed notice is retried at every second tick: the timer's period and the
  retry interval are one setting, and an attempt made during a flush is younger
  than the next flush's cutoff. `README.md:65` of the repository calls the
  retries "backoff"; the interval is fixed.
* A spent code is deleted one refresh-token lifetime after its use
  (`providerService.js:2138`), "until the longest possible access/refresh
  credential can no longer be alive"; but each rotation gives its successor a
  whole lifetime, so the family may be alive and a replay finds no code.
* If another tab signs in while `/oauth2/authorize` is between reading the
  session, finding none, and parking a `prompt=login` request, that sign-in is
  older than the request, and nothing on the way says that a new one is
  demanded: `/login` finds the session and sends the tab to `/continue`, which
  finds it too old and sends it back, until the browser gives up. `FlowsEnd`
  leaves this tab out (`overtaken`). With `max_age` the same sign-in is accepted,
  rightly: `DemandedSignInHappened` asks for a session made since `/authorize`
  judged the old one, not since the request was parked.
* Consent is recorded for the account that is signed in when the consent form is
  sent, which another tab may have changed since the page was shown
  (`oauthController.js:300`).
* `clients.approve` writes without asking for the status again
  (`clientService.js:532`): it overrides a rejection or disabling that came in
  between, and of two approvals the first shows a secret that is already dead.
* A static client that the configuration turns public keeps its secret hash
  (`clientService.js:822`), which then serves nothing.
* Two administrators may demote each other at once (`adminController.js:170`),
  "so the server is never left without one" notwithstanding.
* In `redirectUriMatches` the loopback comparison looks at host, path and query:
  a fragment or credentials in the requested URI do not prevent a match, although
  the comment says they do. The endpoint is the same.
* `keys.rotate` and `external.link` are called by nothing.

## 5. Proofs

`TokenServiceProofs` proves, for any sets of users, clients, sessions, codes,
tokens, workers and scopes, under `ConstantsAssumption` alone:

* `TypeCorrect`, `RowsHaveLineage`: `[]TypeOK` and `[]Lineage`. `Sound` proves
  their conjunction by induction. Lineage is what the others need: a token
  descends from an exchanged code and from its family's first token, and a
  request contains only a code that was really spent. Without it a containment
  could name rows that do not exist, and nothing would follow from a claim.
* `ConsentBoundsCredentials`, `DisablingIsComplete`: the two invariants are
  inductive relative to `Sound`. Each has one case per action; the interesting
  ones are `RevokeGrant` and `RevokeAllCredentials` (everything the consent or
  account covered is ended) and `RedeemCode`, `RefreshTokens`, `IssueCode`
  (the rechecks make a new row covered at that moment).
* `CodesYieldOneFamily`, `FamiliesHaveOneLiveToken`, `NoRotationNoSuccessor`
  (together `RacesYieldOneToken`): a code yields one family, a family has one live
  token, and one row without rotation. The strengthening says that only an exchanged
  code has tokens, so the conditional claim admits one exchange, and that the
  presented token is the family's live one when its successor is stored.
* `RetiredCodesStayDead`, `KilledFamiliesStayDead` (together `RevocationIsFinal`):
  neither a contained code's descendants nor a killed
  family ever live again: an exchange needs an unspent code, and a successor a
  live predecessor of the same family.
* `ExchangeIsExact`: the step that spends a code on an exchange stores a refresh
  token exactly if the client may refresh, by its registration at that moment, and
  the user granted offline access (or the client is first-party and asked for no
  identity); and no token is stored with a scope whose role its user has lost. The
  rechecks are in the step that stores, so this needs types and lineage only.
* `StoreImplementsDelegation`: every behaviour of the store is one of
  `Delegation`, for any sets and with or without rotation. A step that creates
  nothing leaves each delegation as it was or ends it (`FadingEnds`); a consent
  offers, an exchange accepts or ends, a refresh keeps, narrows or ends, and
  `RevokeGrant` withdraws, each a lemma of its own. They need that a code has one
  usable token at most (else a step could narrow one of two), that an unexchanged
  one has none, and that a pending refresh asks for no more than its token
  carries although it was checked before the transaction (`Grounded`).

`HashGateProofs` proves, for any number of callers, slots and places: the four
invariants of the gate together (`GateIsSound`; they need one another: the count
is exact because no waiter holds a slot, and no wake-up is lost because a slot
handed over stays counted), each alone, `QueueHoldsWaiters` among them, which the
runs check only through the refinement, and `GateImplementsService`: the initial
states and every step map to `HashService` or to a stutter. The library's facts
about cardinality and sequences carry the counting.

Of the limiter in front of it the module proves `BurstsAreBounded`, for any keys,
requests, limit, window and sweep threshold, under `LimiterAssumption` (a request
has one or two keys, as `rateLimitMiddleware` builds them, or none if no rule
matches its path). The window of a key
that is live began at `resetAt - Window`; a dead one may be forgotten by a sweep
at any time. The invariant (`Counted`) says that the present window has let
through no more than its count and no more than the limit, and that any earlier
moment less than a window before its beginning saw no more than the limit since.
A new window begins only when the old one is dead, so a span of one window meets
the present window and one before it, and each contributes at most the limit.
`MeteredGateIsSound`: what is proved of the gate holds of the composition.

`AccountCredentialsProofs` proves, for any links, requests and passwords, under
`AccountAssumption`:

* `LinksWorkOnce`, on `LinksAreTracked`. That a link works once says nothing of
  a link still being made, and could not be kept by the step that sends it; the
  induction adds that an unsent link has one maker, that whoever presented a
  link presented a sent one, and that a link that let a request through is
  spent. Then the claim inside the transaction admits one request.
* `ResetLinksSurviveRefusal`: a commit that spends a link also changes the
  hash. The strengthening is that a request which wrote the stored hash has
  committed, so a committing one does not find its own hash stored already.
* `PasswordsChangeHandsKnowingly`, whatever hash is stored at first. A change
  compares the hash it proved in its write, a reset claims its link in its
  transaction, and a sign-in writes a hash only when it read one of old
  parameters, and then of the password it proved.

`AuthorizationRequestProofs` proves, for any tabs, sessions, users, requests and
parameters of requests, under `ConstantsAssumption`:

* `RequestsAreAnsweredOnce`: an unanswered request has no code. The step that
  needs care is parking, which writes a row while other tabs move; the induction
  says that a request still being judged by `/authorize` is known to one tab.
* `DemandedSignInsHappen`: once a tab is past the sign-in of a request, every
  session the browser's cookie will name meets the request's demand, because a
  sign-in only brings a later session and no step restores an earlier one. For
  `max_age` the induction adds that a session the browser had before the request
  is old, and stays so.
* `DemandedConsentsHappen`, `AnswersReachTheClient`: nothing goes to `issueCode`
  past the consent page when `prompt=consent`, and a `redirect_uri` that matched
  denotes a registered endpoint.
* `MatchingIsAlwaysByEndpoint`: the first of the two facts about URIs that
  `ClientsMC` evaluates, for URIs of any words. The parser keeps what it has
  made, and what the comparison leaves out is what an endpoint leaves out.

Most handlers only turn a page and take sessions away; `FrameKeeps` says once
that such a step keeps the invariant.

`ClientRegistrationProofs` proves, for any clients, documents, secrets and
requests, under `ConstantsAssumption`: `MethodAlwaysFitsType`,
`OldSecretStaysDead` and `StatusStaysAsDecided`. The invariant says what each
row satisfies and what a request that has read a row may still rely on when it
writes: that the row exists, and that its type has not changed since unless it
is the configuration's client, whose type only a boot changes. Steps that
read and steps that write are separate lemmas.

`KeyRingProofs` proves, for any replicas, keys, rotations and times, under
`ConstantsAssumption`: `ReplicasAlwaysAgree` and `LoadedRingAlwaysVerifies`. With
keys in the environment the table is never touched. Without, rows, rings, calls
and tokens all have one key until somebody rotates; after that, the row of the
key of a token that was signed when it was active is active or expires no sooner
than the token, which follows from `TokenTtl <= Overlap` and would not without it.
The same is an invariant of the rows a call has read and of the tokens there were
at that moment, so that it still holds of them when the call assigns the ring.

`ExternalSignInProofs` proves, for any browsers, accounts, subjects, tickets and
requests, under `ConstantsAssumption` and `NilIsNoRow`: `TicketsAreSpentOnce`,
`SignInsStartHere` and `NobodyIsEverMerged`. The invariant lists what a callback
knows after each of its awaits. It stays true because account rows, issued
tickets and drawn states are never taken back, and a spent ticket stays on
record until it has expired.

`ClaimsAreAlwaysTheAccounts` needs less of the states and more of the registry:
for any custom scopes that `RegistryIsValid` accepts, the boolean of a restricted
scope is no other's, so the answer it gets is about that scope alone; and no
custom scope may answer for an address. Of the states it needs only their types:
an account's address is one somebody has, or a subject's placeholder.

`LogoutOutboxProofs` proves, for any notices, replicas, attempts and rows in a
batch, under `OutboxAssumption`: `TypeCorrect` and `NoNoticeIsDropped`. A row's
count is written from the count a flush read, so that two replicas may count
backwards; what stays true is that no row and no flush says more attempts than
POSTs were made, and that an answer not yet written is of a POST that was
counted, and, if it was accepted, of a notice the client has. Without the last
two, a result written late could exhaust a row nobody tried, or mark it delivered.

Only model-checked: every liveness property (`AcceptedIsAnswered`,
`EveryLogoutSettles`, `FlowsEnd`, the fairness part of `ImplementsService`),
because the prover does not reason about ENABLED. `PrivateRangesAreExact` is
evaluated, for every pair of octets there is.

## 6. Not modelled, and why

* Formats: JWT, PKCE digests, cookies, CSRF tokens, HTML. They decide without
  state and have unit tests. A PKCE or secret mismatch ends a request before
  any write and is the absence of a step here. URLs are parsed records.
* Mail, audit and logging: a failure may end a request between two writes,
  which the models already allow everywhere.
* Start-up checks, configuration and shutdown: no later behaviour depends on
  their order, apart from requests being cut off, which `Interrupted`, `Stop`
  and `Leave` are. What a boot does to keys and static clients is modelled.
* Pruning of codes, tokens, requests and OIDC sessions: needs a clock over the
  lifetimes of rotated families; see the plan.
* Row locks: transactions are atomic here. That the lock order prevents
  deadlock is in the plan, not yet shown.
* `external.link` and profile edits: no route calls the first, and the second
  writes fields nothing else reads.
* The composition of the modules: `AuthorizationRequest` ends where
  `TokenService` begins (`Issue` and `IssueCode` are one transaction, seen from
  the browser and from the credentials it makes), and `SetStatus` of
  `ClientRegistration` is `SetClientStatus` of both. Their product is out of
  TLC's reach; what one needs of another is in its guards.

## 7. Plan

In order of importance:

1. `Housekeeping`: a clock; pruning of codes, OIDC sessions and requests against
   live families.
2. `LockOrder`: the acquisition sequence of every transaction; that no cycle of
   waiting exists, proved for any number of transactions.
3. A statement-level refresh transaction with the compare-and-set of
   `upsertGrant`, refining `TokenService`.
4. Proofs: the refinement of item 3, and what items 1 and 2 state.
