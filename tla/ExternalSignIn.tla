--------------------------- MODULE ExternalSignIn ---------------------------
(***************************************************************************)
(* Signing in through an upstream site (externalController and             *)
(* externalIdentityService) and what it writes into accounts that local    *)
(* registration and the administrators also write (accountService.register,*)
(* setAttributes, setRole and setStatus, adminController), down to the     *)
(* claims the accounts release to clients (providerService.buildUserClaims *)
(* over ScopeRegistry).                                                    *)
(*                                                                         *)
(* Each await of a callback is a step: the session's state is compared,    *)
(* spent and the ticket verified, the ticket consumed, the subject         *)
(* resolved, the account written, the session replaced.  One upstream, with*)
(* the shared secret: it signs any ticket it likes.  Passwords are         *)
(* AccountCredentials' and abstract here; addresses registered locally stay*)
(* unconfirmed.                                                            *)
(***************************************************************************)
EXTENDS ScopeRegistry, Naturals

CONSTANTS
    Users, Subjects, Emails, Browsers, Tickets, States, Workers,
    Assertions,     \* claims [subject, email, verified, attrs, username] of tickets
    AttrNames,      \* attribute names an upstream sends
    AutoCreate,     \* the provider's autoCreateUsers
    TicketTtl,      \* the provider's ticketTtlSeconds
    MaxTime,        \* bound: clock
    MaxSessions,    \* bound: sessions opened in a browser
    Nil

ExternalUsername == "external_preferred_username"
Roles == {"ADMIN", "USER"}

ASSUME ConstantsAssumption ==
    /\ RegistryIsValid
    /\ AutoCreate \in BOOLEAN
    /\ TicketTtl \in Nat /\ MaxTime \in Nat /\ MaxSessions \in Nat
    /\ Nil \notin Users \cup Subjects \cup Emails \cup Browsers \cup Tickets \cup States
    /\ Emails \cap Subjects = {}
    /\ ExternalUsername \notin AttrNames
    /\ \A a \in Assertions :
        /\ a.subject \in Subjects
        /\ a.email \in Emails \cup {Nil}
        /\ a.attrs \subseteq AttrNames
        /\ {a.verified, a.username} \subseteq BOOLEAN

VARIABLES
    account,    \* account[u]: the user's row, or Nil
    identity,   \* identity[s]: the account the subject is linked to, or Nil
    browser,    \* browser[b]: its session
    startedBy,  \* startedBy[x]: the browser whose start drew the state x
    ticket,     \* ticket[t]: what the upstream signed
    consumed,   \* rows of consumed_tickets
    spent,      \* ghost: how often a ticket was consumed before it expired
    work,       \* work[w]: a request in progress
    now

vars == <<account, identity, browser, startedBy, ticket, consumed, spent, work, now>>

\* A subject stands for its placeholder address at external.invalid; `born' is
\* a ghost, the subject an account was created for.
Account ==
    [email : Emails \cup Subjects, verified : BOOLEAN, password : BOOLEAN,
     role : Roles, disabled : BOOLEAN, attrs : SUBSET (AttrNames \cup {ExternalUsername}),
     born : Subjects \cup {Nil}]
ASSUME NilIsNoRow == Nil \notin Account

Session ==
    [sid : 0..MaxSessions, user : Users \cup {Nil}, state : States \cup {Nil},
     via : Tickets \cup {Nil}]
Idle == [op |-> "idle"]
Callback == [b : Browsers, sid : 0..MaxSessions, t : Tickets, state : States]
WorkItems ==
    {Idle} \cup
    [op : {"came", "checked", "taken", "new"}, c : Callback] \cup
    [op : {"found", "enter"}, c : Callback, u : Users] \cup
    [op : {"merge"}, c : Callback, u : Users, attrs : SUBSET (AttrNames \cup {ExternalUsername})] \cup
    [op : {"register"}, email : Emails, first : BOOLEAN]

TypeOK ==
    /\ account \in [Users -> Account \cup {Nil}]
    /\ identity \in [Subjects -> Users \cup {Nil}]
    /\ \A s \in Subjects : identity[s] # Nil => account[identity[s]] # Nil
    /\ browser \in [Browsers -> Session]
    /\ startedBy \in [States -> Browsers \cup {Nil}]
    /\ ticket \in [Tickets -> {Nil} \cup
                    [claims : Assertions, state : States, exp : Nat]]
    /\ consumed \in SUBSET Tickets
    /\ spent \in [Tickets -> Nat]
    /\ work \in [Workers -> WorkItems]
    /\ now \in 0..MaxTime

Init ==
    /\ account = [u \in Users |-> Nil]
    /\ identity = [s \in Subjects |-> Nil]
    /\ browser = [b \in Browsers |-> [sid |-> 0, user |-> Nil, state |-> Nil, via |-> Nil]]
    /\ startedBy = [x \in States |-> Nil]
    /\ ticket = [t \in Tickets |-> Nil]
    /\ consumed = {}
    /\ spent = [t \in Tickets |-> 0]
    /\ work = [w \in Workers |-> Idle]
    /\ now = 0

-----------------------------------------------------------------------------
Free(w) == work[w] = Idle
Goto(w, item) == work' = [work EXCEPT ![w] = item]
Done(w) == Goto(w, Idle)

Existing == {u \in Users : account[u] # Nil}
EmailTaken(e) == \E u \in Existing : account[u].email = e
\* sessionMiddleware: a disabled account is not signed in.
SignedIn(b) == browser[b].user # Nil /\ ~account[browser[b].user].disabled
Opened(b, u, t) == [sid |-> browser[b].sid + 1, user |-> u, state |-> Nil, via |-> t]
\* revokeAllCredentialsWith deletes the user's browser sessions.
SessionsEnd(u) ==
    browser' = [b \in Browsers |-> IF browser[b].user = u
                                   THEN [browser[b] EXCEPT !.user = Nil, !.state = Nil, !.via = Nil]
                                   ELSE browser[b]]

-----------------------------------------------------------------------------
(* The round trip to the upstream *)

\* start: a fresh state is parked in the browser's session.
Start(b) ==
    \E x \in States :
        /\ startedBy[x] = Nil
        /\ startedBy' = [startedBy EXCEPT ![x] = b]
        /\ browser' = [browser EXCEPT ![b].state = x]
        /\ UNCHANGED <<account, identity, ticket, consumed, spent, work, now>>

\* The upstream signs a ticket for a state it was handed.  (verify refuses one
\* that lives longer than TicketTtl, so none is signed here.)  The bound on `exp'
\* lets every ticket live to be pruned.
Issue(t) ==
    \E a \in Assertions, x \in States, life \in 1..TicketTtl :
        /\ ticket[t] = Nil /\ startedBy[x] # Nil
        /\ now + life < MaxTime
        /\ ticket' = [ticket EXCEPT ![t] = [claims |-> a, state |-> x, exp |-> now + life]]
        /\ UNCHANGED <<account, identity, browser, startedBy, consumed, spent, work, now>>

\* callback: the query's state is the one parked in this browser.
CallbackReads(w, b, t) ==
    /\ Free(w) /\ ticket[t] # Nil /\ browser[b].state # Nil
    /\ Goto(w, [op |-> "came",
                c |-> [b |-> b, sid |-> browser[b].sid, t |-> t, state |-> browser[b].state]])
    /\ UNCHANGED <<account, identity, browser, startedBy, ticket, consumed, spent, now>>

\* verify.  Mutant: the state inside the signed ticket is not compared.
VerifyUnbound(k, state) == now < k.exp
VerifyTicket(k, state) == now < k.exp /\ k.state = state

\* The state is spent "whether or not what follows succeeds".
SpendState(w) ==
    LET c == work[w].c
    IN  /\ work[w].op = "came"
        /\ browser' = IF browser[c.b].sid = c.sid
                      THEN [browser EXCEPT ![c.b].state = Nil] ELSE browser
        /\ IF VerifyTicket(ticket[c.t], c.state)
           THEN Goto(w, [op |-> "checked", c |-> c]) ELSE Done(w)
        /\ UNCHANGED <<account, identity, startedBy, ticket, consumed, spent, now>>

\* consumeTicket: the unique constraint refuses a replay.
Replayed(t) == t \in consumed
ConsumeTicket(w) ==
    LET t == work[w].c.t
    IN  /\ work[w].op = "checked"
        /\ IF Replayed(t)
           THEN Done(w) /\ UNCHANGED <<consumed, spent>>
           ELSE /\ consumed' = consumed \cup {t}
                /\ spent' = IF now < ticket[t].exp THEN [spent EXCEPT ![t] = @ + 1] ELSE spent
                /\ Goto(w, [op |-> "taken", c |-> work[w].c])
        /\ UNCHANGED <<account, identity, browser, startedBy, ticket, now>>

\* pruneConsumedTickets.  Mutant: every row.
PruneAll == consumed' = {}
PruneExpired == consumed' = {t \in consumed : ticket[t].exp >= now}
Prune ==
    /\ PruneExpired
    /\ consumed' # consumed
    /\ UNCHANGED <<account, identity, browser, startedBy, ticket, spent, work, now>>

-----------------------------------------------------------------------------
(* resolveAccount *)

\* The account a subject has.  Mutant: or the one with its address.
LinkedOrSameAddress(a) ==
    {u \in Existing : identity[a.subject] = u \/ account[u].email = a.email}
Linked(a) == {u \in Existing : identity[a.subject] = u}

Resolve(w) ==
    LET c == work[w].c
        a == ticket[c.t].claims
    IN  /\ work[w].op = "taken"
        /\ \/ \E u \in Linked(a) :
                IF account[u].disabled THEN Done(w) ELSE Goto(w, [op |-> "found", c |-> c, u |-> u])
           \/ /\ Linked(a) = {}
              /\ IF AutoCreate /\ (a.email # Nil => ~EmailTaken(a.email))
                 THEN Goto(w, [op |-> "new", c |-> c]) ELSE Done(w)
        /\ UNCHANGED <<account, identity, browser, startedBy, ticket, consumed, spent, now>>

\* setAttributes reads the account's attributes, when there is anything to set...
MergeReads(w) ==
    LET c == work[w].c
        a == ticket[c.t].claims
        u == work[w].u
    IN  /\ work[w].op = "found"
        /\ IF a.attrs # {} \/ a.username \/ ExternalUsername \in account[u].attrs
           THEN Goto(w, [op |-> "merge", c |-> c, u |-> u, attrs |-> account[u].attrs])
           ELSE Goto(w, [op |-> "enter", c |-> c, u |-> u])
        /\ UNCHANGED <<account, identity, browser, startedBy, ticket, consumed, spent, now>>

\* ... and writes them merged; the account is read again.
NameAttr(a) == IF a.username THEN {ExternalUsername} ELSE {}
MergeWrites(w) ==
    LET c == work[w].c
        a == ticket[c.t].claims
        u == work[w].u
    IN  /\ work[w].op = "merge"
        /\ account' = [account EXCEPT ![u].attrs =
                        (work[w].attrs \ {ExternalUsername}) \cup a.attrs \cup NameAttr(a)]
        /\ IF account[u].disabled THEN Done(w) ELSE Goto(w, [op |-> "enter", c |-> c, u |-> u])
        /\ UNCHANGED <<identity, browser, startedBy, ticket, consumed, spent, now>>

\* createLinkedAccount: account and identity in one statement, which the unique
\* constraints on the address and on the subject may refuse.
\* Mutant: an account without an address when the ticket asserts none.
AddressAsserted(a) == a.email
AddressFor(a) == IF a.email # Nil THEN a.email ELSE a.subject
CreateLinkedAccount(w) ==
    LET c == work[w].c
        a == ticket[c.t].claims
    IN  /\ work[w].op = "new"
        /\ IF EmailTaken(AddressFor(a)) \/ identity[a.subject] # Nil
           THEN Done(w) /\ UNCHANGED <<account, identity>>
           ELSE \E u \in Users \ Existing :
                /\ account' = [account EXCEPT ![u] =
                    [email |-> AddressFor(a), verified |-> a.email # Nil /\ a.verified,
                     password |-> FALSE, role |-> "USER", disabled |-> FALSE,
                     attrs |-> a.attrs \cup NameAttr(a), born |-> a.subject]]
                /\ identity' = [identity EXCEPT ![a.subject] = u]
                /\ Goto(w, [op |-> "enter", c |-> c, u |-> u])
        /\ UNCHANGED <<browser, startedBy, ticket, consumed, spent, now>>

\* signIn destroys the browser's session and opens another.
Enter(w) ==
    LET c == work[w].c
    IN  /\ work[w].op = "enter"
        /\ browser[c.b].sid < MaxSessions
        /\ browser' = [browser EXCEPT ![c.b] = Opened(c.b, work[w].u, c.t)]
        /\ Done(w)
        /\ UNCHANGED <<account, identity, startedBy, ticket, consumed, spent, now>>

-----------------------------------------------------------------------------
(* The account's owner *)

\* unlink: the row goes unless it is the account's last way in.
Unlink(b, s) ==
    /\ SignedIn(b)
    /\ identity[s] = browser[b].user
    /\ account[browser[b].user].password \/ \E r \in Subjects \ {s} : identity[r] = identity[s]
    /\ identity' = [identity EXCEPT ![s] = Nil]
    /\ UNCHANGED <<account, browser, startedBy, ticket, consumed, spent, work, now>>

\* An account without a password sets its first one; its sessions end.
SetFirstPassword(b) ==
    /\ SignedIn(b) /\ ~account[browser[b].user].password
    /\ account' = [account EXCEPT ![browser[b].user].password = TRUE]
    /\ SessionsEnd(browser[b].user)
    /\ UNCHANGED <<identity, startedBy, ticket, consumed, spent, work, now>>

PasswordSignIn(b, u) ==
    /\ u \in Existing /\ account[u].password /\ ~account[u].disabled
    /\ browser[b].sid < MaxSessions
    /\ browser' = [browser EXCEPT ![b] = Opened(b, u, Nil)]
    /\ UNCHANGED <<account, identity, startedBy, ticket, consumed, spent, work, now>>

\* register counts the accounts ...
RegisterReads(w, e) ==
    /\ Free(w)
    /\ Goto(w, [op |-> "register", email |-> e, first |-> Existing = {}])
    /\ UNCHANGED <<account, identity, browser, startedBy, ticket, consumed, spent, now>>

\* ... and creates one; the first is the administrator.
RegisterWrites(w) ==
    /\ work[w].op = "register"
    /\ IF EmailTaken(work[w].email)
       THEN UNCHANGED account
       ELSE \E u \in Users \ Existing :
            account' = [account EXCEPT ![u] =
                [email |-> work[w].email, verified |-> FALSE, password |-> TRUE,
                 role |-> IF work[w].first THEN "ADMIN" ELSE "USER", disabled |-> FALSE,
                 attrs |-> {}, born |-> Nil]]
    /\ Done(w)
    /\ UNCHANGED <<identity, browser, startedBy, ticket, consumed, spent, now>>

-----------------------------------------------------------------------------
\* The administrators, never on the own account.  Who asks is read in the step
\* that writes.
Administers(b, u) ==
    /\ SignedIn(b) /\ account[browser[b].user].role = "ADMIN"
    /\ u \in Existing \ {browser[b].user}

SetRole(b, u) ==
    /\ Administers(b, u)
    /\ \E r \in Roles \ {account[u].role} : account' = [account EXCEPT ![u].role = r]
    /\ UNCHANGED <<identity, browser, startedBy, ticket, consumed, spent, work, now>>

SetStatus(b, u) ==
    /\ Administers(b, u)
    /\ account' = [account EXCEPT ![u].disabled = ~@]
    /\ IF account[u].disabled THEN UNCHANGED browser ELSE SessionsEnd(u)
    /\ UNCHANGED <<identity, startedBy, ticket, consumed, spent, work, now>>

\* Only tickets have a use for the clock.
Tick ==
    /\ now < MaxTime
    /\ \E t \in Tickets : ticket[t] # Nil /\ (ticket[t].exp > now \/ t \in consumed)
    /\ now' = now + 1
    /\ UNCHANGED <<account, identity, browser, startedBy, ticket, consumed, spent, work>>

-----------------------------------------------------------------------------
CallbackStep(w) ==
    \/ \E b \in Browsers, t \in Tickets : CallbackReads(w, b, t)
    \/ SpendState(w) \/ ConsumeTicket(w) \/ Resolve(w)
    \/ MergeReads(w) \/ MergeWrites(w) \/ CreateLinkedAccount(w) \/ Enter(w)

AccountStep(w) ==
    \/ \E e \in Emails : RegisterReads(w, e)
    \/ RegisterWrites(w)

Next ==
    \/ \E w \in Workers : CallbackStep(w) \/ AccountStep(w)
    \/ \E b \in Browsers :
        \/ Start(b) \/ SetFirstPassword(b)
        \/ \E s \in Subjects : Unlink(b, s)
        \/ \E u \in Users : PasswordSignIn(b, u) \/ SetRole(b, u) \/ SetStatus(b, u)
    \/ \E t \in Tickets : Issue(t)
    \/ Prune \/ Tick

Spec == Init /\ [][Next]_vars

-----------------------------------------------------------------------------
(* What accounts release *)

\* buildUserClaims: a placeholder address is not presented.
\* Mutant: it is, like any other.
AddressAsStored(k) == [email |-> k.email, email_verified |-> k.verified]
AddressClaims(k) ==
    IF k.email \in Emails
    THEN [email |-> k.email, email_verified |-> k.verified]
    ELSE [email_verified |-> FALSE]
BuildUserClaims(u, granted) ==
    ClaimsFor([attributes |-> [n \in account[u].attrs |-> "upstream"]],
              granted, AddressClaims(account[u]))

-----------------------------------------------------------------------------
(* Properties *)

\* "Records a ticket as spent ... a replay loses the insert race and is rejected,
\* even if two arrive at once" (consumeTicket), and pruning the records does not
\* reopen a ticket: while it lives it is accepted once.
TicketIsSpentOnce == \A t \in Tickets : spent[t] <= 1

\* `state' "is what binds the ticket to the request that started it": whoever is
\* signed in through a ticket started that sign-in in this very browser.
SignInWasStartedHere ==
    \A b \in Browsers :
        browser[b].via # Nil => startedBy[ticket[browser[b].via].state] = b

\* "The link is (provider, subject) and nothing else": whatever addresses tickets
\* assert and whatever registers, links and unlinks meanwhile, a subject only ever
\* enters an account that was created for it.
NobodyIsMerged ==
    /\ \A s \in Subjects : identity[s] # Nil => account[identity[s]].born = s
    /\ \A b \in Browsers :
        browser[b].via # Nil =>
            account[browser[b].user].born = ticket[browser[b].via].claims.subject

AddressIsReal(u) ==
    LET claims == BuildUserClaims(u, Supported)
    IN  /\ "email" \in DOMAIN claims => claims["email"] \in Emails
        /\ "email_verified" \in DOMAIN claims =>
            claims["email_verified"] = (account[u].verified /\ account[u].email \in Emails)
AuthorityIsHeld(u) ==
    \A granted \in SUBSET CustomNames :
        CanRemainActive(account[u], granted) =>
            \A s \in granted : ~AllowFor(s, account[u]) =>
                /\ Custom(s).boolean # NoClaim
                /\ ~IntrospectionAuthority(account[u], granted)[Custom(s).boolean]

\* What clients are told of an account is what it is now.  Whatever tickets and
\* registrations wrote, its address is a real one, and said to be verified only if
\* it is (buildUserClaims); after a role was taken away, a restricted scope that a
\* token still carries is answered FALSE or ends the token
\* (introspectionAuthorityFor).
ClaimsAreTheAccounts == \A u \in Existing : AddressIsReal(u) /\ AuthorityIsHeld(u)
=============================================================================
