------------------------ MODULE AuthorizationRequest ------------------------
(***************************************************************************)
(* An authorization request on its way through the browser: /authorize,    *)
(* sign-in, consent, and the code or refusal that ends it                  *)
(* (oauthController, accountController's sign-in pages, providerService,   *)
(* sessionService, the session middleware).                                *)
(*                                                                         *)
(* One browser has several tabs and one session cookie.  A handler reads   *)
(* the cookie's session once, in the middleware, and uses that answer      *)
(* after its awaits: a tab holds what its handler read until the handler's *)
(* transaction runs, while the other tabs sign in and out.                 *)
(*                                                                         *)
(* Time is kept as far as the code compares it.  A session row remembers   *)
(* which requests were parked before it was created (authTime > createdAt) *)
(* and whether it has grown older than max_age; sessions and requests      *)
(* expire at any time.  Session names are reused once nothing refers to    *)
(* them.                                                                   *)
(***************************************************************************)
EXTENDS RedirectUris, FiniteSets

CONSTANTS
    Users, Requests, Tabs, Sessions,
    Scopes, OpenId,
    ClientUris,        \* the client's redirectUris, as stored
    ClientScopes,      \* the client's allowedScopes
    AdminScopes,       \* scopes only an administrator may be given
    Admins,            \* users whose role is ADMIN
    Consented,         \* users who gave the client every scope before
    Unsteady,          \* users an administrator may disable
    RequireConsent,    \* the client's requireConsent
    RequirePkce,       \* the client's requiresPkce
    Asked,             \* the parameters requests arrive with
    MaxEvents,         \* bound: sign-outs, expiries and administrative changes
    Nil

ASSUME ConstantsAssumption ==
    /\ ClientScopes \subseteq Scopes
    /\ AdminScopes \subseteq Scopes
    /\ Admins \subseteq Users
    /\ Consented \subseteq Users
    /\ Unsteady \subseteq Users
    /\ Users \ Unsteady # {}
    /\ IsFiniteSet(Tabs)
    /\ IsFiniteSet(Sessions)
    /\ Cardinality(Sessions) > Cardinality(Tabs) + 1
    /\ RequireConsent \in BOOLEAN
    /\ RequirePkce \in BOOLEAN
    /\ MaxEvents \in Nat
    /\ Nil \notin Users \cup Requests \cup Sessions
    /\ \A u \in ClientUris : RedirectUriValid(u) /\ u = Normalized(u)
    /\ \A p \in Asked :
        /\ p.scopes \subseteq Scopes
        /\ p.prompt \subseteq {"none", "login", "consent"}
        /\ p.maxAge \in BOOLEAN
        /\ p.pkce \in {"absent", "plain", "S256"}

VARIABLES
    request,    \* request[r]: the parked row, what it asks for, how it ended
    row,        \* row[s]: the browser session rows
    cookie,     \* the session the browser's cookie names
    tab,        \* tab[t]: the page or handler each tab is at
    grant,      \* grant[u]: scopes granted to the client
    disabled,   \* accounts an administrator has disabled
    client,     \* the client's status
    events      \* how many events outside the flow have happened

vars == <<request, row, cookie, tab, grant, disabled, client, events>>
registry == <<disabled, client, events>>

-----------------------------------------------------------------------------
(* Rows and pages *)

NoAsk == [scopes |-> {}, prompt |-> {}, maxAge |-> FALSE, redirect |-> Nil]
Asks == [scopes : SUBSET ClientScopes, prompt : SUBSET {"none", "login", "consent"},
         maxAge : BOOLEAN, redirect : {p.redirect : p \in Asked} \cup {Nil}]

\* `reauth': a ghost, the sign-in at /authorize was demanded of a user who had
\* a session.  `codes' counts the codes the request has yielded; `by' is the
\* user of the last, `fresh' that its session was created after the request
\* was parked, `anew' that it was after /authorize judged the session of then,
\* `shown' the user on the consent page it came from.
Endings == [codes : 0..2, by : Users \cup {Nil}, fresh : BOOLEAN, anew : BOOLEAN,
            shown : Users \cup {Nil}]
RequestRows ==
    [state : {"unsent", "parked", "consumed", "denied", "gone"},
     ask : Asks, reauth : BOOLEAN, end : Endings]
NoEnding == [codes |-> 0, by |-> Nil, fresh |-> FALSE, anew |-> FALSE, shown |-> Nil]

\* `after': the requests parked before the session was created; `since', a ghost,
\* those that /authorize had judged by then.
SessionRows == [user : Users, after : SUBSET Requests, since : SUBSET Requests, old : BOOLEAN]
NoRow == [user |-> Nil]

\* Where a tab is.  `to...' is a redirect the browser is about to follow;
\* `authorizing', `signingIn' and `issuing' are handlers between two awaits.
Pages == {"blank", "authorizing", "toLogin", "login", "signingIn",
          "toContinue", "toConsent", "consent", "issuing"}
Decisions == {"login", "reauth", "consent", "issue", "error"}
TabRows ==
    [page : Pages, req : Requests \cup {Nil}, next : {"account", "continue", "consent"},
     decision : Decisions, ask : Asks, sess : Sessions \cup {Nil},
     user : Users \cup {Nil}, scopes : SUBSET ClientScopes, explicit : BOOLEAN,
     shown : Users \cup {Nil}, overtaken : BOOLEAN]
Blank ==
    [page |-> "blank", req |-> Nil, next |-> "account", decision |-> "error",
     ask |-> NoAsk, sess |-> Nil, user |-> Nil, scopes |-> {}, explicit |-> FALSE,
     shown |-> Nil, overtaken |-> FALSE]

TypeOK ==
    /\ request \in [Requests -> RequestRows]
    /\ row \in [Sessions -> SessionRows \cup {NoRow}]
    /\ cookie \in Sessions \cup {Nil}
    /\ tab \in [Tabs -> TabRows]
    /\ grant \in [Users -> SUBSET ClientScopes]
    /\ disabled \in SUBSET Unsteady
    /\ client \in {"APPROVED", "DISABLED"}
    /\ events \in 0..MaxEvents

\* Some accounts may be disabled from the start, and the browser may have a
\* session, of any age.
First == CHOOSE s \in Sessions : TRUE
Earlier == {[user |-> u, after |-> {}, since |-> {}, old |-> b] :
              u \in Users \ disabled, b \in BOOLEAN}

Init ==
    /\ request = [r \in Requests |->
                    [state |-> "unsent", ask |-> NoAsk, reauth |-> FALSE, end |-> NoEnding]]
    /\ disabled \in SUBSET Unsteady
    /\ cookie \in {Nil, First}
    /\ \E here \in Earlier :
          row = [s \in Sessions |-> IF s = cookie THEN here ELSE NoRow]
    /\ tab = [t \in Tabs |-> Blank]
    /\ grant = [u \in Users |-> IF u \in Consented THEN ClientScopes ELSE {}]
    /\ client = "APPROVED"
    /\ events = 0

-----------------------------------------------------------------------------
(* The session middleware *)

\* sessions.find: an expired row is no session.
Found == IF cookie # Nil /\ row[cookie] # NoRow THEN cookie ELSE Nil

\* req.session with req.currentUser: the session of a disabled account is none.
SignedIn == IF Found # Nil /\ row[Found].user \notin disabled THEN Found ELSE Nil
CurrentUser == IF SignedIn = Nil THEN Nil ELSE row[SignedIn].user

\* What reading the cookie leaves behind: a disabled account's row is deleted.
Swept == IF Found # SignedIn THEN [row EXCEPT ![Found] = NoRow] ELSE row

\* Where a tab's handler is after it has answered.
Goto(t, place) == tab' = [tab EXCEPT ![t] = place]
ToLogin(r, next, reauth) ==
    [Blank EXCEPT !.page = "toLogin", !.req = r, !.next = next,
                  !.decision = IF reauth THEN "reauth" ELSE "login"]
To(page, r) == [Blank EXCEPT !.page = page, !.req = r]
Issuing(r, S, explicit, shown) ==
    [Blank EXCEPT !.page = "issuing", !.req = r, !.sess = SignedIn, !.user = CurrentUser,
                  !.scopes = S, !.explicit = explicit, !.shown = shown]

-----------------------------------------------------------------------------
(* providerService: parsing, parking and resolving a request *)

\* parsePkce: a missing challenge only where it is not required, S256 only.
PkceOk(p) == p.pkce = "S256" \/ (p.pkce = "absent" /\ ~RequirePkce)

\* parsePrompt: `none' excludes every other value.
PromptOk(p) == "none" \in p.prompt => p.prompt = {"none"}

\* parseAuthorizationRequest: the scopes are cut down to what the client may
\* have, and none left is an error; the redirect_uri is kept as it was sent.
\* Mutant: the scopes are stored as they were asked for.
ParsedUnfiltered(p) ==
    [scopes |-> p.scopes, prompt |-> p.prompt, maxAge |-> p.maxAge, redirect |-> p.redirect]
Parsed(p) ==
    [scopes |-> p.scopes \cap ClientScopes, prompt |-> p.prompt, maxAge |-> p.maxAge,
     redirect |-> p.redirect]
Acceptable(p) ==
    /\ FindMatchingRedirectUri(ClientUris, p.redirect) # {}
    /\ Parsed(p).scopes # {}
    /\ PkceOk(p)
    /\ PromptOk(p)

\* loadAuthorizationRequest: spent, expired and pruned requests do not load.
Loads(r) == request[r].state = "parked" /\ client = "APPROVED"

AllowedForUser(u, S) == u \in Admins \/ S \cap AdminScopes = {}

\* resolveAuthorization.  `fresh': the session authenticated after the request
\* was parked, which is never so on the first pass.
\* Mutant: any session found on the way back counts as a new sign-in.
FreshIfAny(r) == SignedIn # Nil
Fresh(r) == SignedIn # Nil /\ r \in row[SignedIn].after
TooOld(ask, fresh) == ask.maxAge /\ row[SignedIn].old /\ ~fresh
LoginDemanded(ask, fresh) == "login" \in ask.prompt /\ ~fresh
\* Mutant: prompt=consent is satisfied by a grant that covers the scopes.
ConsentUnlessCovered(ask) == RequireConsent /\ ~(ask.scopes \subseteq grant[CurrentUser])
ConsentNeeded(ask) ==
    \/ "consent" \in ask.prompt
    \/ RequireConsent /\ ~(ask.scopes \subseteq grant[CurrentUser])
Quietly(ask, decision) == IF "none" \in ask.prompt THEN "error" ELSE decision
Resolve(ask, fresh) ==
    IF SignedIn = Nil THEN Quietly(ask, "login")
    ELSE IF LoginDemanded(ask, fresh) THEN "reauth"
    ELSE IF TooOld(ask, fresh) THEN Quietly(ask, "reauth")
    ELSE IF ~AllowedForUser(CurrentUser, ask.scopes) THEN "error"
    ELSE IF ConsentNeeded(ask) THEN Quietly(ask, "consent")
    ELSE "issue"

-----------------------------------------------------------------------------
(* GET /oauth2/authorize *)

\* authorize, up to its decision.  A request whose client or redirect_uri does
\* not match ends in a page, any other error in a redirect: nothing is stored.
\* Each visit of the link is a request of its own.
Authorize(t, r, p) ==
    /\ tab[t].page = "blank"
    /\ request[r].state = "unsent"
    /\ \A x \in Tabs : tab[x].req # r
    /\ row' = Swept
    /\ LET decision == IF client = "APPROVED" /\ Acceptable(p)
                       THEN Resolve(Parsed(p), FALSE) ELSE "error"
       IN  IF decision = "error"
           THEN UNCHANGED tab
           ELSE Goto(t, [Issuing(r, Parsed(p).scopes, FALSE, Nil) EXCEPT
                            !.page = "authorizing", !.decision = decision, !.ask = Parsed(p)])
    /\ UNCHANGED <<request, cookie, grant, registry>>

\* persistAuthorizationRequest and the redirect that follows.
Park(t) ==
    LET here == tab[t]
        r == here.req
    IN  /\ here.page = "authorizing"
        /\ request' = [request EXCEPT ![r].state = "parked", ![r].ask = here.ask,
                                      ![r].reauth = here.decision = "reauth"]
        /\ Goto(t, CASE here.decision = "login"   -> [ToLogin(r, "continue", FALSE) EXCEPT
                                                        !.overtaken = here.overtaken]
                     [] here.decision = "reauth"  -> ToLogin(r, "continue", TRUE)
                     [] here.decision = "consent" -> To("toConsent", r)
                     [] here.decision = "issue"   ->
                          [here EXCEPT !.page = "issuing", !.decision = "error",
                                       !.ask = NoAsk, !.overtaken = FALSE])
        /\ UNCHANGED <<row, cookie, grant, registry>>

-----------------------------------------------------------------------------
(* The sign-in page *)

\* A bookmark or a link to /login.
OpenLogin(t) ==
    /\ tab[t].page = "blank"
    /\ Goto(t, ToLogin(Nil, "account", FALSE))
    /\ UNCHANGED <<request, row, cookie, grant, registry>>

\* Where `next' leads.
Target(here) ==
    CASE here.next = "account"  -> Blank
      [] here.next = "continue" -> [To("toContinue", here.req) EXCEPT !.overtaken = here.overtaken]
      [] here.next = "consent"  -> To("toConsent", here.req)

\* loginPage: somebody signed in is sent on, unless the client demanded a new
\* sign-in.
\* Mutant: the demand for a new sign-in is lost on the way to the page.
LoginPageForgetful(t) ==
    /\ tab[t].page = "toLogin"
    /\ row' = Swept
    /\ Goto(t, IF SignedIn # Nil THEN Target(tab[t]) ELSE [tab[t] EXCEPT !.page = "login"])
    /\ UNCHANGED <<request, cookie, grant, registry>>
LoginPage(t) ==
    /\ tab[t].page = "toLogin"
    /\ row' = Swept
    /\ Goto(t, IF SignedIn # Nil /\ tab[t].decision # "reauth"
               THEN Target(tab[t])
               ELSE [tab[t] EXCEPT !.page = "login"])
    /\ UNCHANGED <<request, cookie, grant, registry>>

\* submitLogin, up to accounts.authenticate: the cookie that came with the form
\* names the row that will be replaced.
SubmitLogin(t) ==
    /\ tab[t].page = "login"
    /\ row' = Swept
    /\ Goto(t, [tab[t] EXCEPT !.page = "signingIn", !.sess = SignedIn])
    /\ UNCHANGED <<request, cookie, grant, registry>>

Referenced == {cookie} \cup {tab[t].sess : t \in Tabs}
Unused == CHOOSE s \in Sessions : s \notin Referenced
Parked == {r \in Requests : request[r].state # "unsent"}
Judged == Parked \cup {tab[x].req : x \in {y \in Tabs : tab[y].page = "authorizing"}}

\* req.signIn: sessions.login deletes the row the form came with and creates
\* another.  The handlers still holding the old one are overtaken.
\* A row no cookie and no handler names is out of everyone's reach: it is
\* forgotten here.
SignIn(t, u) ==
    /\ tab[t].page = "signingIn"
    /\ u \notin disabled
    /\ row' = [s \in Sessions |->
                 IF s = Unused THEN [user |-> u, after |-> Parked, since |-> Judged, old |-> FALSE]
                 ELSE IF \E x \in Tabs \ {t} : tab[x].sess = s /\ s # tab[t].sess THEN row[s]
                 ELSE NoRow]
    /\ cookie' = Unused
    /\ tab' = [x \in Tabs |->
                 IF x = t THEN Target(tab[t])
                 ELSE [tab[x] EXCEPT !.overtaken = @ \/ tab[x].page = "authorizing"]]
    /\ UNCHANGED <<request, grant, registry>>

\* authenticate refuses a disabled account; the form is shown again.
SignInRefused(t) ==
    /\ tab[t].page = "signingIn"
    /\ disabled # {}
    /\ Goto(t, [tab[t] EXCEPT !.page = "login", !.sess = Nil, !.decision = "login"])
    /\ UNCHANGED <<request, row, cookie, grant, registry>>

-----------------------------------------------------------------------------
(* GET /oauth2/authorize/continue, and consent *)

\* continueAuthorization: the parked request is resolved again.  An error goes
\* to the client and leaves the request parked.
Continue(t) ==
    LET r == tab[t].req
        decision == Resolve(request[r].ask, Fresh(r))
    IN  /\ tab[t].page = "toContinue"
        /\ row' = Swept
        /\ Goto(t, IF ~Loads(r) THEN Blank
                   ELSE CASE decision = "error" -> Blank
                          [] decision \in {"login", "reauth"} ->
                                [ToLogin(r, "continue", FALSE) EXCEPT
                                    !.overtaken = tab[t].overtaken]
                          [] decision = "consent" -> To("toConsent", r)
                          [] OTHER -> Issuing(r, request[r].ask.scopes, FALSE, Nil))
        /\ UNCHANGED <<request, cookie, grant, registry>>

\* consentPage
ConsentPage(t) ==
    LET r == tab[t].req
    IN  /\ tab[t].page = "toConsent"
        /\ row' = Swept
        /\ Goto(t, IF ~Loads(r) THEN Blank
                   ELSE IF SignedIn = Nil THEN ToLogin(r, "consent", FALSE)
                   ELSE [To("consent", r) EXCEPT !.shown = CurrentUser])
        /\ UNCHANGED <<request, cookie, grant, registry>>

\* submitConsent with another decision than `allow': denyAuthorization.
Deny(t) ==
    LET r == tab[t].req
    IN  /\ tab[t].page = "consent"
        /\ row' = Swept
        /\ IF SignedIn = Nil
           THEN Goto(t, ToLogin(Nil, "account", FALSE)) /\ UNCHANGED request
           ELSE /\ Goto(t, Blank)
                /\ request' = IF Loads(r) THEN [request EXCEPT ![r].state = "denied"] ELSE request
        /\ UNCHANGED <<cookie, grant, registry>>

\* completeAuthorization: the boxes left ticked, with `openid' riding along.
Approved(r, boxes) ==
    (request[r].ask.scopes \cap boxes) \cup (request[r].ask.scopes \cap {OpenId})

\* submitConsent with `allow'.  Clearing every box answers access_denied to the
\* client and leaves the request parked.
Allow(t, boxes) ==
    LET r == tab[t].req
        S == Approved(r, boxes)
    IN  /\ tab[t].page = "consent"
        /\ row' = Swept
        /\ Goto(t, IF SignedIn = Nil THEN ToLogin(Nil, "account", FALSE)
                   ELSE IF ~Loads(r) \/ S = {} \/ ~AllowedForUser(CurrentUser, S) THEN Blank
                   ELSE Issuing(r, S, TRUE, tab[t].shown))
        /\ UNCHANGED <<request, cookie, grant, registry>>

\* The browser opens a page of the flow a second time: reload, history, or the
\* address in another tab.
OpenAgain(t, x) ==
    /\ tab[t].page \in {"login", "consent"}
    /\ tab[x].page = "blank"
    /\ Goto(x, IF tab[t].page = "consent" THEN To("toConsent", tab[t].req)
               ELSE [tab[t] EXCEPT !.page = "toLogin"])
    /\ UNCHANGED <<request, row, cookie, grant, registry>>

-----------------------------------------------------------------------------
(* issueCode: one transaction *)

\* Mutant: the claim does not ask whether the request was already answered.
ClaimableAgain(r) == request[r].state \in {"parked", "consumed", "denied"}
Claimable(r) == request[r].state = "parked"

\* The grant the code is issued under: widened by an explicit consent, and for
\* a client that needs none.
Widened(here) ==
    IF here.explicit \/ ~RequireConsent THEN grant[here.user] \cup here.scopes
    ELSE grant[here.user]

MayIssue(here) ==
    /\ client = "APPROVED"
    /\ here.scopes \subseteq ClientScopes
    /\ here.user \notin disabled
    /\ AllowedForUser(here.user, here.scopes)
    /\ here.scopes \subseteq Widened(here)
    /\ row[here.sess] # NoRow
    /\ row[here.sess].user = here.user
    /\ Claimable(here.req)

Issue(t) ==
    LET here == tab[t]
        r == here.req
    IN  /\ here.page = "issuing"
        /\ Goto(t, Blank)
        /\ IF MayIssue(here)
           THEN /\ grant' = [grant EXCEPT ![here.user] = Widened(here)]
                /\ request' =
                     [request EXCEPT
                        ![r].state = "consumed",
                        ![r].end = [codes |-> IF @.codes = 0 THEN 1 ELSE 2,
                                    by |-> here.user,
                                    fresh |-> r \in row[here.sess].after,
                                    anew |-> r \in row[here.sess].since,
                                    shown |-> here.shown]]
           ELSE UNCHANGED <<grant, request>>
        /\ UNCHANGED <<row, cookie, registry>>

-----------------------------------------------------------------------------
(* What happens around the flow: at most MaxEvents of these *)

Event == events < MaxEvents /\ events' = events + 1

\* logout, from a page outside the flow.
Logout(t) ==
    /\ Event
    /\ tab[t].page = "blank"
    /\ SignedIn # Nil
    /\ row' = [row EXCEPT ![SignedIn] = NoRow]
    /\ cookie' = Nil
    /\ UNCHANGED <<request, tab, grant, disabled, client>>

SessionExpires(s) ==
    /\ Event
    /\ row[s] # NoRow
    /\ row' = [row EXCEPT ![s] = NoRow]
    /\ UNCHANGED <<request, cookie, tab, grant, disabled, client>>

SessionAges(s) ==
    /\ Event
    /\ row[s] # NoRow
    /\ ~row[s].old
    /\ row' = [row EXCEPT ![s].old = TRUE]
    /\ UNCHANGED <<request, cookie, tab, grant, disabled, client>>

\* expiresAt passes; the sweep deletes the row.  Both look the same afterwards.
RequestExpires(r) ==
    /\ Event
    /\ request[r].state = "parked"
    /\ request' = [request EXCEPT ![r].state = "gone"]
    /\ UNCHANGED <<row, cookie, tab, grant, disabled, client>>

RevokeGrant(u) ==
    /\ Event
    /\ grant[u] # {}
    /\ grant' = [grant EXCEPT ![u] = {}]
    /\ UNCHANGED <<request, row, cookie, tab, disabled, client>>

SetUserStatus(u) ==
    /\ Event
    /\ u \in Unsteady
    /\ disabled' = IF u \in disabled THEN disabled \ {u} ELSE disabled \cup {u}
    /\ row' = [s \in Sessions |-> IF row[s] # NoRow /\ row[s].user = u THEN NoRow ELSE row[s]]
    /\ UNCHANGED <<request, cookie, tab, grant, client>>

SetClientStatus ==
    /\ Event
    /\ client' = IF client = "APPROVED" THEN "DISABLED" ELSE "APPROVED"
    /\ UNCHANGED <<request, row, cookie, tab, grant, disabled>>

-----------------------------------------------------------------------------
\* What the browser and the server do by themselves, and what a user does who
\* wants the flow to end.
Proceed(t) ==
    \/ Park(t)
    \/ LoginPage(t)
    \/ SubmitLogin(t)
    \/ \E u \in Users : SignIn(t, u)
    \/ Continue(t)
    \/ ConsentPage(t)
    \/ Deny(t)
    \/ \E boxes \in SUBSET Scopes : Allow(t, boxes)
    \/ Issue(t)

Begin(t) ==
    \/ \E r \in Requests, p \in Asked : Authorize(t, r, p)
    \/ OpenLogin(t)
    \/ \E x \in Tabs : OpenAgain(t, x)
    \/ SignInRefused(t)

Around ==
    \/ \E t \in Tabs : Logout(t)
    \/ \E s \in Sessions : SessionExpires(s) \/ SessionAges(s)
    \/ \E r \in Requests : RequestExpires(r)
    \/ \E u \in Users : RevokeGrant(u) \/ SetUserStatus(u)
    \/ SetClientStatus

Next == (\E t \in Tabs : Proceed(t) \/ Begin(t)) \/ Around

Spec == Init /\ [][Next]_vars

\* A handler that has started finishes, a browser follows a redirect, and a
\* user with a sign-in or a consent form open sends it, sooner or later with
\* an account that works.
Fairness ==
    \A t \in Tabs :
        /\ WF_vars(Proceed(t))
        /\ SF_vars(\E u \in Users : SignIn(t, u))
FairSpec == Spec /\ Fairness

-----------------------------------------------------------------------------
(* Properties *)

\* A request is answered once: tabs that submit its consent page together, or
\* one that allows while another denies, leave at most one code, and none after
\* a denial (the conditional claims of issueCode and denyAuthorization).
OneAnswer ==
    \A r \in Requests :
        /\ request[r].end.codes <= 1
        /\ request[r].state = "denied" => request[r].end.codes = 0

\* "prompt=login is how a relying party forces re-authentication before a
\* sensitive operation" (resolveAuthorization): whichever tabs the user signed
\* in and consented in, the code of a request with prompt=login comes from a
\* session created after the request was parked, and that of a request that met
\* a session older than max_age from a session created since.  (Not after the
\* parking: another tab may sign in while /authorize is between the two.)
DemandedSignInHappened ==
    \A r \in Requests : request[r].end.codes > 0 =>
        /\ "login" \in request[r].ask.prompt => request[r].end.fresh
        /\ request[r].reauth => request[r].end.anew

\* prompt=consent: however often the request is resolved again, and whatever the
\* grant already covers, its code comes from a consent page.
DemandedConsentHappened ==
    \A r \in Requests :
        request[r].end.codes > 0 /\ "consent" \in request[r].ask.prompt
            => request[r].end.shown # Nil

\* A flow ends: no tab is sent around between /login and
\* /oauth2/authorize/continue for ever ("Without this distinction `prompt=login`
\* cannot terminate", resolveAuthorization), unless another tab signed in while
\* /oauth2/authorize was between reading the session and parking the request.
FlowsEnd ==
    \A t \in Tabs : (tab[t].page # "blank") ~> (tab[t].page = "blank" \/ tab[t].overtaken)

\* "A request can only match a registration it was already equivalent to"
\* (redirectUriMatches): whatever a request asked for, the redirect that answers
\* it goes to an endpoint the client registered.
AnswersGoToTheClient ==
    \A r \in Requests :
        request[r].state # "unsent" =>
            \E u \in ClientUris : Endpoint(request[r].ask.redirect) = Endpoint(u)
=============================================================================
