--------------------- MODULE AuthorizationRequestProofs ---------------------
(***************************************************************************)
(* An authorization request is answered once, as it demanded, at an address*)
(* of its client, for any number of tabs, sessions, users and requests.    *)
(*                                                                         *)
(* The induction follows what each tab has passed.  A tab beyond the       *)
(* sign-in of a request holds, and the browser's cookie names, a session   *)
(* that meets the request's demand: a later sign-in only brings later      *)
(* sessions, and no older one comes back.                                  *)
(***************************************************************************)
EXTENDS AuthorizationRequest, FiniteSetTheorems, TLAPS

\* The sessions that satisfy what a request demands of the sign-in.
Met(r, s) ==
    /\ "login" \in request[r].ask.prompt => r \in row[s].after
    /\ request[r].reauth => r \in row[s].since
CookieIsRow == cookie # Nil /\ row[cookie] # NoRow
CookieMeets(r) == CookieIsRow => Met(r, cookie)

\* The session that was too old for the request is still the browser's, or a
\* newer one is.
Outgrown(r) == CookieIsRow => r \in row[cookie].since \/ row[cookie].old

Answerable(ask) == \E u \in ClientUris : Endpoint(ask.redirect) = Endpoint(u)

\* The pages that belong to a request, and those behind its sign-in.
Bound(q) ==
    \/ q.page \in {"toContinue", "toConsent", "consent", "issuing"}
    \/ q.page \in {"toLogin", "login", "signingIn"} /\ q.next \in {"continue", "consent"}
Past(q) ==
    \/ q.page \in {"toConsent", "consent", "issuing"}
    \/ q.page \in {"toLogin", "login", "signingIn"} /\ q.next = "consent"

\* What a tab knows at the page q.
Judging(q) ==
    q.page = "authorizing" =>
        /\ q.req \in Requests
        /\ request[q.req].state = "unsent"
        /\ q.decision \in {"login", "reauth", "consent", "issue"}
        /\ Answerable(q.ask)
        /\ q.decision \in {"consent", "issue"} => "login" \notin q.ask.prompt
        /\ q.decision = "issue" =>
              "consent" \notin q.ask.prompt /\ q.sess \in Sessions /\ q.user \in Users
        /\ q.decision = "reauth" /\ "login" \notin q.ask.prompt =>
              q.ask.maxAge /\ Outgrown(q.req)
Passing(q) ==
    /\ Bound(q) => q.req \in Requests
    /\ Past(q) => CookieMeets(q.req)
    /\ q.page = "consent" => q.shown # Nil
Finishing(q) ==
    q.page = "issuing" =>
        /\ q.sess \in Sessions
        /\ q.user \in Users
        /\ "consent" \in request[q.req].ask.prompt => q.shown # Nil
        /\ row[q.sess] # NoRow => Met(q.req, q.sess)
Here(q) == Judging(q) /\ Passing(q) /\ Finishing(q)
TabsKnow == \A t \in Tabs : Here(tab[t])

\* A request that is not parked yet is known to one tab.
Alone ==
    \A t, x \in Tabs : t # x /\ tab[t].page = "authorizing" => tab[x].req # tab[t].req

Undemanding(r) ==
    request[r].state = "unsent" =>
        "login" \notin request[r].ask.prompt /\ ~request[r].reauth
Answered(r) ==
    /\ request[r].end.codes <= 1
    /\ request[r].end.codes > 0 =>
        /\ request[r].state = "consumed"
        /\ "login" \in request[r].ask.prompt => request[r].end.fresh
        /\ request[r].reauth => request[r].end.anew
        /\ "consent" \in request[r].ask.prompt => request[r].end.shown # Nil
Standing(r) ==
    /\ request[r].state # "unsent" => Answerable(request[r].ask)
    /\ request[r].reauth /\ "login" \notin request[r].ask.prompt =>
          request[r].ask.maxAge /\ Outgrown(r)
RequestsHold == \A r \in Requests : Undemanding(r) /\ Answered(r) /\ Standing(r)

RowsOrdered == \A s \in Sessions : row[s] # NoRow => row[s].after \subseteq row[s].since

IInv ==
    /\ TypeOK
    /\ TabsKnow
    /\ Alone
    /\ RequestsHold
    /\ RowsOrdered

-----------------------------------------------------------------------------
(* Types *)

LEMMA RowTyped ==
    ASSUME TypeOK, NEW s \in Sessions, row[s] # NoRow
    PROVE  row[s] \in SessionRows
  BY DEF TypeOK

LEMMA TabTyped ==
    ASSUME TypeOK, NEW t \in Tabs
    PROVE  tab[t] \in TabRows
  BY DEF TypeOK

LEMMA NoAskTyped == NoAsk \in Asks
  BY DEF NoAsk, Asks

LEMMA ParsedTyped ==
    ASSUME NEW p \in Asked
    PROVE  Parsed(p) \in Asks
  BY ConstantsAssumption DEF Parsed, Asks

LEMMA PagesTyped ==
    ASSUME NEW r \in Requests \cup {Nil}
    PROVE  /\ Blank \in TabRows
           /\ \A page \in Pages : To(page, r) \in TabRows
           /\ \A next \in {"account", "continue", "consent"}, reauth \in BOOLEAN :
                 ToLogin(r, next, reauth) \in TabRows
  BY NoAskTyped DEF Blank, To, ToLogin, TabRows, Pages, Decisions

-----------------------------------------------------------------------------
(* What the cookie and a decision say *)

LEMMA Signed ==
    ASSUME TypeOK
    PROVE  /\ SignedIn \in Sessions \cup {Nil}
           /\ CurrentUser \in Users \cup {Nil}
           /\ SignedIn # Nil =>
                 /\ SignedIn = cookie /\ cookie \in Sessions
                 /\ row[cookie] \in SessionRows /\ row[cookie] # NoRow
                 /\ CurrentUser = row[cookie].user /\ CurrentUser \in Users
                 /\ CurrentUser # Nil
  BY RowTyped, ConstantsAssumption DEF TypeOK, SignedIn, Found, CurrentUser, SessionRows

LEMMA Resolved ==
    ASSUME TypeOK
    PROVE  \A ask \in Asks, fresh \in BOOLEAN :
             /\ Resolve(ask, fresh) \in Decisions
             /\ Resolve(ask, fresh) \in {"consent", "issue"} =>
                  /\ SignedIn # Nil
                  /\ "login" \in ask.prompt => fresh
                  /\ ask.maxAge /\ row[SignedIn].old => fresh
             /\ Resolve(ask, fresh) = "issue" => "consent" \notin ask.prompt
             /\ Resolve(ask, fresh) = "reauth" /\ "login" \notin ask.prompt =>
                  SignedIn # Nil /\ ask.maxAge /\ row[SignedIn].old
<1> SUFFICES ASSUME NEW ask \in Asks, NEW fresh \in BOOLEAN
             PROVE  /\ Resolve(ask, fresh) \in Decisions
                    /\ Resolve(ask, fresh) \in {"consent", "issue"} =>
                         /\ SignedIn # Nil
                         /\ "login" \in ask.prompt => fresh
                         /\ ask.maxAge /\ row[SignedIn].old => fresh
                    /\ Resolve(ask, fresh) = "issue" => "consent" \notin ask.prompt
                    /\ Resolve(ask, fresh) = "reauth" /\ "login" \notin ask.prompt =>
                         SignedIn # Nil /\ ask.maxAge /\ row[SignedIn].old
  OBVIOUS
<1> QED  BY DEF Resolve, Quietly, LoginDemanded, TooOld, ConsentNeeded, Decisions

\* URIs whose parts are any words.
UriTexts(Words) ==
    [scheme : Words, host : [name : Words, v4 : Seq(Nat)], port : Nat, path : Words,
     query : Words, fragment : BOOLEAN, userinfo : BOOLEAN]

LEMMA SameFields ==
    ASSUME NEW Words, NEW u \in UriTexts(Words), NEW v \in UriTexts(Words),
           u.scheme = v.scheme, u.host = v.host, u.port = v.port, u.path = v.path,
           u.query = v.query, u.fragment = v.fragment, u.userinfo = v.userinfo
    PROVE  u = v
BY DEF UriTexts

\* The parser keeps what it has made.
LEMMA NormalizedOnce ==
    ASSUME NEW Words, "/" \in Words, NEW u \in UriTexts(Words)
    PROVE  /\ Normalized(u) \in UriTexts(Words)
           /\ Normalized(Normalized(u)) = Normalized(u)
           /\ Clean(Normalized(u)) <=> Clean(u)
<1> DEFINE n == Normalized(u)
           web == u.scheme \in DOMAIN SchemePort
           port == IF web /\ u.port = SchemePort[u.scheme] THEN NoPort ELSE u.port
           path == IF web /\ u.path = "" THEN "/" ELSE u.path
<1>1. n = [u EXCEPT !.port = port, !.path = path]
  BY DEF Normalized
<1>2. port \in Nat /\ path \in Words
  <2>1. u.port \in Nat /\ u.path \in Words  BY DEF UriTexts
  <2>2. NoPort \in Nat  BY DEF NoPort
  <2> HIDE DEF web
  <2>3. port \in Nat  BY <2>1, <2>2
  <2>4. path \in Words  BY <2>1
  <2> QED  BY <2>3, <2>4
<1>3. /\ n \in UriTexts(Words) /\ n.scheme = u.scheme /\ n.port = port /\ n.path = path
      /\ n.fragment = u.fragment /\ n.userinfo = u.userinfo
  BY <1>1, <1>2 DEF UriTexts
<1>4. web => SchemePort[u.scheme] # NoPort
  BY DEF SchemePort, NoPort
<1>5. Normalized(n) = [n EXCEPT !.port = n.port, !.path = n.path]
  BY <1>3, <1>4 DEF Normalized
<1>6. [n EXCEPT !.port = n.port, !.path = n.path] = n
  BY <1>3 DEF UriTexts
<1> HIDE DEF n
<1>7. Clean(n) <=> Clean(u)
  BY <1>3 DEF Clean
<1> QED  BY <1>3, <1>5, <1>6, <1>7 DEF n

\* findMatchingRedirectUri only matches an endpoint the client registered.
LEMMA MatchIsEndpoint ==
    ASSUME NEW p \in Asked, FindMatchingRedirectUri(ClientUris, p.redirect) # {}
    PROVE  Answerable(Parsed(p))
<1>1. PICK u \in ClientUris : RedirectUriMatches(u, p.redirect)
  BY DEF FindMatchingRedirectUri
<1>2. u = Normalized(u)  BY ConstantsAssumption
<1>3. CASE u = Normalized(p.redirect)
  BY <1>2, <1>3 DEF Answerable, Parsed, Endpoint
<1>4. CASE /\ PortFloats(u, Normalized(p.redirect))
           /\ u.host = Normalized(p.redirect).host
           /\ u.path = Normalized(p.redirect).path
           /\ u.query = Normalized(p.redirect).query
  BY <1>2, <1>4 DEF Answerable, Parsed, Endpoint, PortFloats
<1> QED  BY <1>1, <1>3, <1>4 DEF RedirectUriMatches

\* A request matches a registration exactly if both denote one endpoint, however
\* either is spelled and whatever is registered (redirectUriMatches: of a loopback
\* URI only the port floats, and everything else is compared exactly).
THEOREM MatchingIsAlwaysByEndpoint ==
    ASSUME NEW Words, "/" \in Words, NEW texts \in SUBSET UriTexts(Words)
    PROVE  MatchingIsByEndpoint(texts)
<1> SUFFICES ASSUME NEW requested \in texts, NEW registered \in RegisteredFrom(texts)
             PROVE  /\ RedirectUriMatches(registered, requested) =>
                          Endpoint(requested) = Endpoint(registered)
                    /\ Clean(requested) /\ Endpoint(requested) = Endpoint(registered) =>
                          RedirectUriMatches(registered, requested)
  BY DEF MatchingIsByEndpoint
<1> DEFINE n == Normalized(requested)
<1>1. PICK t \in texts : RedirectUriValid(t) /\ registered = Normalized(t)
  BY DEF RegisteredFrom
<1>2. /\ registered \in UriTexts(Words) /\ Normalized(registered) = registered
      /\ Clean(registered)
  BY <1>1, NormalizedOnce DEF RedirectUriValid
<1>3. n \in UriTexts(Words) /\ (Clean(n) <=> Clean(requested))
  BY NormalizedOnce
<1> HIDE DEF n
<1>4. Endpoint(requested)
        = [scheme |-> n.scheme, host |-> n.host, path |-> n.path, query |-> n.query,
           port |-> IF n.scheme = "http" /\ IsLoopbackHost(n.host) THEN NoPort ELSE n.port]
  BY DEF Endpoint, n
<1>5. Endpoint(registered)
        = [scheme |-> registered.scheme, host |-> registered.host,
           path |-> registered.path, query |-> registered.query,
           port |-> IF registered.scheme = "http" /\ IsLoopbackHost(registered.host)
                    THEN NoPort ELSE registered.port]
  BY <1>2 DEF Endpoint
<1>6. RedirectUriMatches(registered, requested) <=>
        \/ registered = n
        \/ /\ PortFloats(registered, n)
           /\ registered.host = n.host /\ registered.path = n.path
           /\ registered.query = n.query
  BY DEF RedirectUriMatches, n
<1>7. RedirectUriMatches(registered, requested) => Endpoint(requested) = Endpoint(registered)
  BY <1>4, <1>5, <1>6 DEF PortFloats
<1>8. ASSUME Clean(requested), Endpoint(requested) = Endpoint(registered)
      PROVE  RedirectUriMatches(registered, requested)
  <2>1. /\ n.scheme = registered.scheme /\ n.host = registered.host
        /\ n.path = registered.path /\ n.query = registered.query
    BY <1>4, <1>5, <1>8
  <2>2. CASE n.scheme = "http" /\ IsLoopbackHost(n.host)
    BY <2>1, <2>2, <1>6 DEF PortFloats
  <2>3. CASE ~(n.scheme = "http" /\ IsLoopbackHost(n.host))
    <3>1. n.port = registered.port
      <4>1. ~(registered.scheme = "http" /\ IsLoopbackHost(registered.host))
        BY <2>1, <2>3
      <4>2. Endpoint(requested).port = n.port  BY <2>3, <1>4
      <4>3. Endpoint(registered).port = registered.port  BY <4>1, <1>5
      <4> QED  BY <4>2, <4>3, <1>8
    <3>2. n.fragment = registered.fragment /\ n.userinfo = registered.userinfo
      BY <1>2, <1>3, <1>8 DEF Clean, UriTexts
    <3>3. n = registered  BY <2>1, <3>1, <3>2, <1>2, <1>3, SameFields
    <3> QED  BY <3>3, <1>6
  <2> QED  BY <2>2, <2>3
<1> QED  BY <1>7, <1>8

\* There is always a session name that nothing refers to.
LEMMA UnusedIsUnused ==
    ASSUME TypeOK
    PROVE  Unused \in Sessions /\ Unused \notin Referenced
<1> DEFINE f == [t \in Tabs |-> tab[t].sess]
           held == {f[t] : t \in Tabs}
<1>1. f \in Surjection(Tabs, held)  BY DEF Surjection
<1>2. IsFiniteSet(held) /\ Cardinality(held) <= Cardinality(Tabs)
  <2> HIDE DEF f, held
  <2> QED  BY <1>1, ConstantsAssumption, FS_Surjection
<1>3. IsFiniteSet(held \cup {cookie}) /\ Cardinality(held \cup {cookie}) <= Cardinality(Tabs) + 1
  <2> HIDE DEF f, held
  <2>1. /\ IsFiniteSet(held \cup {cookie})
        /\ Cardinality(held \cup {cookie}) \in {Cardinality(held), Cardinality(held) + 1}
    BY <1>2, FS_AddElement
  <2> QED  BY <1>2, <2>1, FS_CardinalityType, ConstantsAssumption
<1>4. Referenced = held \cup {cookie}  BY DEF Referenced
<1>5. ~(Sessions \subseteq held \cup {cookie})
  <2> HIDE DEF f, held
  <2> QED  BY <1>3, FS_Subset, FS_CardinalityType, ConstantsAssumption
<1> QED  BY <1>4, <1>5 DEF Unused

-----------------------------------------------------------------------------
(* Steps that only take sessions away, turn a page, or end a request *)

\* The cookie is kept or dropped; rows are kept, deleted, or grow old.
Ebbs ==
    /\ cookie' \in {cookie, Nil}
    /\ row' \in [Sessions -> SessionRows \cup {NoRow}]
    /\ \A s \in Sessions : row'[s] # NoRow =>
          /\ row[s] # NoRow
          /\ row'[s].after = row[s].after
          /\ row'[s].since = row[s].since
          /\ row[s].old => row'[s].old

\* A tab that turns to the page q leaves the requests /authorize is judging to
\* the tabs they are judged in.
Apart(t, q) ==
    \A x \in Tabs \ {t} :
        /\ q.page = "authorizing" => tab[x].req # q.req
        /\ tab[x].page = "authorizing" => tab[x].req # q.req
Turns == \E t \in Tabs, q \in TabRows :
            tab' = [tab EXCEPT ![t] = q] /\ Here(q) /\ Apart(t, q)

\* What a request asks does not change, nor whether it is parked.
Kept ==
    /\ request' \in [Requests -> RequestRows]
    /\ \A r \in Requests :
          /\ request'[r].ask = request[r].ask
          /\ request'[r].reauth = request[r].reauth
          /\ request'[r].state = "unsent" <=> request[r].state = "unsent"
          /\ Answered(r)'

LEMMA EbbingKeeps ==
    ASSUME TypeOK, Ebbs, Kept, NEW q \in TabRows, Here(q)
    PROVE  Here(q)'
<1>1. \A r \in Requests, s \in Sessions : row'[s] # NoRow /\ Met(r, s) => Met(r, s)'
  BY DEF Met, Ebbs, Kept
<1>2. CookieIsRow' => CookieIsRow /\ cookie' = cookie /\ cookie \in Sessions
  BY DEF CookieIsRow, Ebbs, TypeOK
<1>3. \A r \in Requests : CookieMeets(r) => CookieMeets(r)'
  BY <1>1, <1>2 DEF CookieMeets, CookieIsRow
<1>4. \A r \in Requests : Outgrown(r) => Outgrown(r)'
  BY <1>2 DEF Outgrown, CookieIsRow, Ebbs
<1>5. Judging(q)'
  BY <1>4 DEF Here, Judging, Kept, Answerable
<1>6. Passing(q)'
  <2>1. Bound(q) => q.req \in Requests  BY DEF Here, Passing
  <2>2. Past(q) => Bound(q) /\ CookieMeets(q.req)  BY DEF Here, Passing, Past, Bound
  <2>3. Past(q) => CookieMeets(q.req)'  BY <2>1, <2>2, <1>3
  <2>4. q.page = "consent" => q.shown # Nil  BY DEF Here, Passing
  <2>5. Bound(q)' = Bound(q) /\ Past(q)' = Past(q)  BY DEF Bound, Past
  <2> QED  BY <2>1, <2>3, <2>4, <2>5 DEF Passing
<1>7. Finishing(q)'
  <2>1. SUFFICES ASSUME q.page = "issuing"
                 PROVE  /\ q.sess \in Sessions
                        /\ q.user \in Users
                        /\ "consent" \in request'[q.req].ask.prompt => q.shown # Nil
                        /\ row'[q.sess] # NoRow => Met(q.req, q.sess)'
    BY DEF Finishing
  <2>2. q.req \in Requests  BY <2>1 DEF Here, Passing, Bound
  <2>3. Finishing(q)  BY DEF Here
  <2>4. /\ q.sess \in Sessions /\ q.user \in Users
        /\ "consent" \in request[q.req].ask.prompt => q.shown # Nil
        /\ row[q.sess] # NoRow => Met(q.req, q.sess)
    BY <2>1, <2>3 DEF Finishing
  <2>5. row'[q.sess] # NoRow => row[q.sess] # NoRow  BY <2>4 DEF Ebbs
  <2> QED  BY <1>1, <2>2, <2>4, <2>5 DEF Kept
<1> QED  BY <1>5, <1>6, <1>7 DEF Here

\* Such a step keeps the invariant.
LEMMA FrameKeeps ==
    ASSUME IInv, Ebbs, Kept, Turns \/ tab' = tab,
           grant' \in [Users -> SUBSET ClientScopes], disabled' \in SUBSET Unsteady,
           client' \in {"APPROVED", "DISABLED"}, events' \in 0..MaxEvents
    PROVE  IInv'
<1> USE DEF IInv
<1>1. tab' \in [Tabs -> TabRows]  BY DEF Turns, TypeOK
<1>2. TypeOK'  BY <1>1 DEF TypeOK, Ebbs, Kept
<1>3. TabsKnow'
  <2> SUFFICES ASSUME NEW x \in Tabs PROVE Here(tab[x])'
    BY DEF TabsKnow
  <2>1. \E q \in TabRows : q = tab'[x] /\ Here(q)
    BY DEF Turns, TypeOK, TabsKnow
  <2>2. PICK q \in TabRows : q = tab'[x] /\ Here(q)  BY <2>1
  <2>3. Here(q)'  BY <2>2, EbbingKeeps
  <2> QED  BY <2>2, <2>3 DEF Here, Judging, Passing, Finishing, Bound, Past
<1>4. Alone'  BY DEF Alone, Turns, TypeOK, Apart
<1>5. RequestsHold'
  <2>1. \A r \in Requests : Outgrown(r) => Outgrown(r)'
    BY DEF Outgrown, CookieIsRow, Ebbs, TypeOK
  <2> QED  BY <2>1 DEF RequestsHold, Kept, Undemanding, Standing, Answerable
<1>6. RowsOrdered'  BY DEF RowsOrdered, Ebbs
<1> QED  BY <1>2, <1>3, <1>4, <1>5, <1>6
-----------------------------------------------------------------------------
(* What most handlers leave alone *)

LEMMA SweptEbbs ==
    ASSUME IInv, row' = Swept, cookie' = cookie
    PROVE  Ebbs
<1>1. Swept \in [Sessions -> SessionRows \cup {NoRow}]
      /\ \A s \in Sessions : Swept[s] \in {row[s], NoRow}
  BY DEF Swept, IInv, TypeOK
<1> QED  BY <1>1 DEF Ebbs

LEMMA SameRowsEbb ==
    ASSUME IInv, row' = row, cookie' = cookie
    PROVE  Ebbs
  BY DEF Ebbs, IInv, TypeOK

LEMMA SameRequestsKept ==
    ASSUME IInv, request' = request
    PROVE  Kept
  BY DEF Kept, IInv, TypeOK, RequestsHold, Answered

\* A handler that only turns its tab's page.
LEMMA TurningKeeps ==
    ASSUME IInv, row' = Swept \/ row' = row, Turns \/ tab' = tab,
           UNCHANGED <<request, cookie, grant, registry>>
    PROVE  IInv'
<1>1. Ebbs /\ Kept  BY SweptEbbs, SameRowsEbb, SameRequestsKept
<1>2. /\ grant' \in [Users -> SUBSET ClientScopes] /\ disabled' \in SUBSET Unsteady
      /\ client' \in {"APPROVED", "DISABLED"} /\ events' \in 0..MaxEvents
  BY DEF IInv, TypeOK, registry
<1> QED  BY <1>1, <1>2, FrameKeeps

\* A page of the same request, or of none, is apart from what others judge.
LEMMA OwnRequestApart ==
    ASSUME IInv, NEW t \in Tabs, NEW q \in TabRows, q.page # "authorizing",
           q.req \in {tab[t].req, Nil}
    PROVE  Apart(t, q)
<1>1. ASSUME NEW x \in Tabs \ {t}, tab[x].page = "authorizing"
      PROVE  tab[x].req # q.req
  <2>1. tab[x].req \in Requests  BY <1>1 DEF IInv, TabsKnow, Here, Judging
  <2>2. tab[x].req # tab[t].req  BY <1>1 DEF IInv, Alone
  <2> QED  BY <2>1, <2>2, ConstantsAssumption
<1> QED  BY <1>1 DEF Apart

\* The same, of what a handler answers with.
LEMMA OwnTurn ==
    ASSUME IInv, NEW t \in Tabs,
           \E q \in TabRows : /\ tab' = [tab EXCEPT ![t] = q]
                              /\ Here(q)
                              /\ q.page # "authorizing"
                              /\ q.req \in {tab[t].req, Nil}
    PROVE  Turns
  BY OwnRequestApart DEF Turns

-----------------------------------------------------------------------------
(* The pages a handler answers with *)

LEMMA BlankHere ==
    ASSUME IInv
    PROVE  Blank \in TabRows /\ Here(Blank) /\ Blank.page = "blank" /\ Blank.req = Nil
  BY PagesTyped DEF Blank, Here, Judging, Passing, Finishing, Bound, Past

LEMMA ToLoginHere ==
    ASSUME IInv, NEW r \in Requests \cup {Nil}
    PROVE  \A next \in {"account", "continue", "consent"}, reauth \in BOOLEAN :
             /\ ToLogin(r, next, reauth) \in TabRows
             /\ ToLogin(r, next, reauth).page = "toLogin"
             /\ ToLogin(r, next, reauth).req = r
             /\ \/ next = "account"
                \/ next = "continue" /\ r \in Requests
                \/ next = "consent" /\ r \in Requests /\ CookieMeets(r)
                => Here(ToLogin(r, next, reauth))
<1> SUFFICES ASSUME NEW next \in {"account", "continue", "consent"}, NEW reauth \in BOOLEAN
             PROVE  /\ ToLogin(r, next, reauth) \in TabRows
                    /\ ToLogin(r, next, reauth).page = "toLogin"
                    /\ ToLogin(r, next, reauth).req = r
                    /\ \/ next = "account"
                       \/ next = "continue" /\ r \in Requests
                       \/ next = "consent" /\ r \in Requests /\ CookieMeets(r)
                       => Here(ToLogin(r, next, reauth))
  OBVIOUS
<1> DEFINE q == ToLogin(r, next, reauth)
<1>1. q \in TabRows  BY PagesTyped
<1>2. q.page = "toLogin" /\ q.req = r /\ q.next = next  BY DEF ToLogin, Blank
<1> HIDE DEF q
<1>3. (next = "account" \/ (next = "continue" /\ r \in Requests)
          \/ (next = "consent" /\ r \in Requests /\ CookieMeets(r))) => Here(q)
  BY <1>2 DEF Here, Judging, Passing, Finishing, Bound, Past
<1> QED  BY <1>1, <1>2, <1>3 DEF q

LEMMA ToContinueHere ==
    ASSUME IInv, NEW r \in Requests
    PROVE  \A b \in BOOLEAN :
             LET q == [To("toContinue", r) EXCEPT !.overtaken = b]
             IN  q \in TabRows /\ q.page = "toContinue" /\ q.req = r /\ Here(q)
<1> SUFFICES ASSUME NEW b \in BOOLEAN
             PROVE LET q == [To("toContinue", r) EXCEPT !.overtaken = b]
                   IN  q \in TabRows /\ q.page = "toContinue" /\ q.req = r /\ Here(q)
  OBVIOUS
<1> DEFINE q == [To("toContinue", r) EXCEPT !.overtaken = b]
<1>1. q \in TabRows  BY NoAskTyped DEF To, Blank, TabRows, Pages, Decisions
<1>2. q.page = "toContinue" /\ q.req = r  BY DEF To, Blank
<1> HIDE DEF q
<1>3. Here(q)  BY <1>2 DEF Here, Judging, Passing, Finishing, Bound, Past
<1> QED  BY <1>1, <1>2, <1>3 DEF q

LEMMA ToConsentHere ==
    ASSUME IInv, NEW r \in Requests, CookieMeets(r)
    PROVE  /\ To("toConsent", r) \in TabRows /\ Here(To("toConsent", r))
           /\ To("toConsent", r).page = "toConsent" /\ To("toConsent", r).req = r
<1> DEFINE q == To("toConsent", r)
<1>1. q \in TabRows  BY PagesTyped DEF Pages
<1>2. q.page = "toConsent" /\ q.req = r  BY DEF To, Blank
<1> HIDE DEF q
<1>3. Here(q)  BY <1>2 DEF Here, Judging, Passing, Finishing, Bound, Past
<1> QED  BY <1>1, <1>2, <1>3 DEF q

\* issueCode is called for a session that meets the demand.
LEMMA IssuingHere ==
    ASSUME IInv, NEW t \in Tabs, NEW r \in Requests, r = tab[t].req,
           SignedIn # Nil, CookieMeets(r),
           NEW S \in SUBSET ClientScopes, NEW explicit \in BOOLEAN,
           NEW shown \in Users \cup {Nil},
           "consent" \in request[r].ask.prompt => shown # Nil,
           tab' = [tab EXCEPT ![t] = Issuing(r, S, explicit, shown)]
    PROVE  Turns
<1> DEFINE q == Issuing(r, S, explicit, shown)
<1>1. /\ SignedIn = cookie /\ cookie \in Sessions /\ row[cookie] # NoRow
      /\ CurrentUser \in Users
  BY Signed DEF IInv
<1>2. q \in TabRows  BY <1>1, NoAskTyped DEF Issuing, Blank, TabRows, Pages, Decisions
<1>3. /\ q.page = "issuing" /\ q.req = r /\ q.sess = cookie
      /\ q.user = CurrentUser /\ q.shown = shown
  BY <1>1 DEF Issuing, Blank
<1>4. Met(r, cookie)  BY <1>1, ConstantsAssumption DEF CookieMeets, CookieIsRow
<1>5. tab' = [tab EXCEPT ![t] = q]  OBVIOUS
<1> HIDE DEF q
<1>6. Here(q)
  BY <1>1, <1>3, <1>4 DEF Here, Judging, Passing, Finishing, Bound, Past
<1> QED  BY <1>2, <1>3, <1>5, <1>6, OwnTurn

-----------------------------------------------------------------------------
(* The sign-in pages *)

LEMMA OpenLoginKeeps ==
    ASSUME IInv, NEW t \in Tabs, OpenLogin(t)
    PROVE  IInv'
<1>1. tab' = [tab EXCEPT ![t] = ToLogin(Nil, "account", FALSE)]
      /\ UNCHANGED <<request, row, cookie, grant, registry>>
  BY DEF OpenLogin, Goto
<1>2. Turns  BY <1>1, ToLoginHere, OwnTurn
<1> QED  BY <1>1, <1>2, TurningKeeps

\* Where a finished sign-in leads: a page of the same request, or none.
LEMMA TargetHere ==
    ASSUME IInv, NEW here \in TabRows, here.page \in {"toLogin", "login", "signingIn"},
           Here(here)
    PROVE  /\ Target(here) \in TabRows
           /\ Target(here).page # "authorizing"
           /\ Target(here).req \in {here.req, Nil}
           /\ Here(Target(here))
<1>1. CASE here.next = "account"
  <2>1. Target(here) = Blank  BY <1>1 DEF Target
  <2> QED  BY <2>1, BlankHere
<1>2. CASE here.next = "continue"
  <2>1. here.req \in Requests /\ here.overtaken \in BOOLEAN
    BY <1>2 DEF Here, Passing, Bound, TabRows
  <2>2. Target(here) = [To("toContinue", here.req) EXCEPT !.overtaken = here.overtaken]
    BY <1>2 DEF Target
  <2> QED  BY <2>1, <2>2, ToContinueHere
<1>3. CASE here.next = "consent"
  <2>1. here.req \in Requests /\ CookieMeets(here.req)
    BY <1>3 DEF Here, Passing, Bound, Past
  <2>2. Target(here) = To("toConsent", here.req)  BY <1>3 DEF Target
  <2> QED  BY <2>1, <2>2, ToConsentHere
<1> QED  BY <1>1, <1>2, <1>3 DEF TabRows

\* The sign-in pages keep what the tab came with.
LEMMA SignInPageHere ==
    ASSUME IInv, NEW here \in TabRows, here.page \in {"toLogin", "login", "signingIn"},
           Here(here), NEW q \in TabRows, q.page \in {"toLogin", "login", "signingIn"},
           q.next = here.next, q.req = here.req
    PROVE  Here(q)
  BY DEF Here, Judging, Passing, Finishing, Bound, Past

LEMMA LoginPageKeeps ==
    ASSUME IInv, NEW t \in Tabs, LoginPage(t)
    PROVE  IInv'
<1>1. tab[t] \in TabRows /\ Here(tab[t]) /\ tab[t].page = "toLogin"
  BY DEF IInv, TypeOK, TabsKnow, LoginPage
<1>2. CASE tab' = [tab EXCEPT ![t] = Target(tab[t])]
  <2>1. Turns  BY <1>1, <1>2, TargetHere, OwnTurn
  <2> QED  BY <2>1, TurningKeeps DEF LoginPage
<1>3. CASE tab' = [tab EXCEPT ![t] = [tab[t] EXCEPT !.page = "login"]]
  <2> DEFINE q == [tab[t] EXCEPT !.page = "login"]
  <2>1. q \in TabRows /\ q.page = "login" /\ q.next = tab[t].next /\ q.req = tab[t].req
    BY <1>1 DEF TabRows, Pages
  <2>2. tab' = [tab EXCEPT ![t] = q]  BY <1>3
  <2> HIDE DEF q
  <2>3. Here(q)  BY <1>1, <2>1, SignInPageHere
  <2>4. Turns  BY <2>1, <2>2, <2>3, OwnTurn
  <2> QED  BY <2>4, TurningKeeps DEF LoginPage
<1> QED  BY <1>2, <1>3 DEF LoginPage, Goto

LEMMA SubmitLoginKeeps ==
    ASSUME IInv, NEW t \in Tabs, SubmitLogin(t)
    PROVE  IInv'
<1>1. tab[t] \in TabRows /\ Here(tab[t]) /\ tab[t].page = "login"
  BY DEF IInv, TypeOK, TabsKnow, SubmitLogin
<1> DEFINE q == [tab[t] EXCEPT !.page = "signingIn", !.sess = SignedIn]
<1>2. SignedIn \in Sessions \cup {Nil}  BY Signed DEF IInv
<1>3. q \in TabRows /\ q.page = "signingIn" /\ q.next = tab[t].next /\ q.req = tab[t].req
  BY <1>1, <1>2 DEF TabRows, Pages
<1>4. tab' = [tab EXCEPT ![t] = q]  BY DEF SubmitLogin, Goto
<1> HIDE DEF q
<1>5. Here(q)  BY <1>1, <1>3, SignInPageHere
<1>6. Turns  BY <1>3, <1>4, <1>5, OwnTurn
<1> QED  BY <1>6, TurningKeeps DEF SubmitLogin

LEMMA SignInRefusedKeeps ==
    ASSUME IInv, NEW t \in Tabs, SignInRefused(t)
    PROVE  IInv'
<1>1. tab[t] \in TabRows /\ Here(tab[t]) /\ tab[t].page = "signingIn"
  BY DEF IInv, TypeOK, TabsKnow, SignInRefused
<1> DEFINE q == [tab[t] EXCEPT !.page = "login", !.sess = Nil, !.decision = "login"]
<1>2. q \in TabRows /\ q.page = "login" /\ q.next = tab[t].next /\ q.req = tab[t].req
  BY <1>1 DEF TabRows, Pages, Decisions
<1>3. tab' = [tab EXCEPT ![t] = q]  BY DEF SignInRefused, Goto
<1> HIDE DEF q
<1>4. Here(q)  BY <1>1, <1>2, SignInPageHere
<1>5. Turns  BY <1>2, <1>3, <1>4, OwnTurn
<1> QED  BY <1>5, TurningKeeps DEF SignInRefused

\* A page opened again is known to as much: it is not one that /authorize is
\* still judging a request at.
LEMMA OpenAgainKeeps ==
    ASSUME IInv, NEW t \in Tabs, NEW x \in Tabs, OpenAgain(t, x)
    PROVE  IInv'
<1>1. tab[t] \in TabRows /\ Here(tab[t]) /\ tab[t].page \in {"login", "consent"}
  BY DEF IInv, TypeOK, TabsKnow, OpenAgain
<1>2. ASSUME NEW q \in TabRows, q.page # "authorizing", q.req = tab[t].req,
             tab' = [tab EXCEPT ![x] = q], Here(q)
      PROVE  IInv'
  <2>1. ASSUME NEW y \in Tabs \ {x}, tab[y].page = "authorizing"
        PROVE  tab[y].req # q.req
    BY <1>1, <1>2, <2>1 DEF IInv, Alone
  <2>2. Turns
    <3>1. Apart(x, q)  BY <1>2, <2>1 DEF Apart
    <3>2. tab' = [tab EXCEPT ![x] = q] /\ Here(q)  BY <1>2
    <3> QED  BY <3>1, <3>2 DEF Turns
  <2> QED  BY <2>2, TurningKeeps DEF OpenAgain
<1>3. CASE tab[t].page = "consent"
  <2>1. tab' = [tab EXCEPT ![x] = To("toConsent", tab[t].req)]
    BY <1>3 DEF OpenAgain, Goto
  <2>2. tab[t].req \in Requests /\ CookieMeets(tab[t].req)
    BY <1>1, <1>3 DEF Here, Passing, Bound, Past
  <2> QED  BY <1>2, <2>1, <2>2, ToConsentHere
<1>4. CASE tab[t].page = "login"
  <2> DEFINE q == [tab[t] EXCEPT !.page = "toLogin"]
  <2>1. q \in TabRows /\ q.page = "toLogin" /\ q.next = tab[t].next /\ q.req = tab[t].req
    BY <1>1 DEF TabRows, Pages
  <2>2. tab' = [tab EXCEPT ![x] = q]  BY <1>4 DEF OpenAgain, Goto
  <2> HIDE DEF q
  <2>3. Here(q)  BY <1>1, <1>4, <2>1, SignInPageHere
  <2> QED  BY <1>2, <2>1, <2>2, <2>3
<1> QED  BY <1>1, <1>3, <1>4
-----------------------------------------------------------------------------
(* /authorize *)

LEMMA AuthorizeKeeps ==
    ASSUME IInv, NEW t \in Tabs, NEW r \in Requests, NEW p \in Asked, Authorize(t, r, p)
    PROVE  IInv'
<1>1. UNCHANGED <<request, cookie, grant, registry>> /\ row' = Swept
  BY DEF Authorize
<1>2. CASE UNCHANGED tab  BY <1>1, <1>2, TurningKeeps
<1>3. CASE ~UNCHANGED tab
  <2> DEFINE decision == Resolve(Parsed(p), FALSE)
             q == [Issuing(r, Parsed(p).scopes, FALSE, Nil) EXCEPT
                     !.page = "authorizing", !.decision = decision, !.ask = Parsed(p)]
  <2>1. Acceptable(p) /\ decision # "error" /\ tab' = [tab EXCEPT ![t] = q]
    BY <1>3 DEF Authorize, Goto
  <2>2. Parsed(p) \in Asks /\ Parsed(p).scopes \subseteq ClientScopes
    BY ParsedTyped DEF Asks
  <2>3. /\ decision \in Decisions
        /\ decision \in {"consent", "issue"} =>
             SignedIn # Nil /\ "login" \notin Parsed(p).prompt
        /\ decision = "issue" => "consent" \notin Parsed(p).prompt
        /\ decision = "reauth" /\ "login" \notin Parsed(p).prompt =>
             SignedIn # Nil /\ Parsed(p).maxAge /\ row[SignedIn].old
    BY <2>2, Resolved DEF IInv
  <2>4. /\ SignedIn \in Sessions \cup {Nil} /\ CurrentUser \in Users \cup {Nil}
        /\ SignedIn # Nil => SignedIn = cookie /\ SignedIn \in Sessions /\ CurrentUser \in Users
    BY Signed DEF IInv
  <2> HIDE DEF decision
  <2>5. q \in TabRows
    BY <2>2, <2>3, <2>4 DEF Issuing, Blank, TabRows, Pages, Decisions
  <2>6. /\ q.page = "authorizing" /\ q.req = r /\ q.decision = decision
        /\ q.ask = Parsed(p) /\ q.sess = SignedIn /\ q.user = CurrentUser
    BY DEF Issuing, Blank
  <2>7. Answerable(Parsed(p))  BY <2>1, MatchIsEndpoint DEF Acceptable
  <2>8. request[r].state = "unsent" /\ \A x \in Tabs : tab[x].req # r
    BY DEF Authorize
  <2> HIDE DEF q
  <2>9. Judging(q)
    <3>1. decision = "reauth" /\ "login" \notin Parsed(p).prompt => Outgrown(r)
      BY <2>3, <2>4 DEF Outgrown
    <3>2. decision \in {"login", "reauth", "consent", "issue"}
      BY <2>1, <2>3 DEF Decisions
    <3> QED  BY <2>3, <2>4, <2>6, <2>7, <2>8, <3>1, <3>2 DEF Judging
  <2>10. Here(q)  BY <2>6, <2>9 DEF Here, Passing, Finishing, Bound, Past
  <2>11. Apart(t, q)  BY <2>6, <2>8 DEF Apart
  <2>12. Turns  BY <2>1, <2>5, <2>10, <2>11 DEF Turns
  <2> QED  BY <1>1, <2>12, TurningKeeps
<1> QED  BY <1>2, <1>3

\* Parking changes what one request asks, and no other tab knows it yet.
LEMMA ParkKeeps ==
    ASSUME IInv, NEW t \in Tabs, Park(t)
    PROVE  IInv'
<1> SUFFICES ASSUME NEW here \in TabRows, here = tab[t], NEW r \in Requests, r = here.req
             PROVE  IInv'
  BY DEF Park, IInv, TypeOK, TabsKnow, Here, Judging
<1>1. here.page = "authorizing" /\ Here(here)
  BY DEF Park, IInv, TabsKnow
<1>2. UNCHANGED <<row, cookie, grant, registry>>  BY DEF Park
<1>3. /\ request' = [request EXCEPT ![r].state = "parked", ![r].ask = here.ask,
                                    ![r].reauth = here.decision = "reauth"]
      /\ request[r] \in RequestRows
  BY DEF Park, IInv, TypeOK
<1>4. request[r].state = "unsent" /\ Judging(here)
  BY <1>1 DEF Here, Judging
<1>5. /\ request'[r].state = "parked" /\ request'[r].ask = here.ask
      /\ request'[r].reauth <=> (here.decision = "reauth")
      /\ request'[r].end = request[r].end
      /\ \A x \in Requests \ {r} : request'[x] = request[x]
  BY <1>3 DEF IInv, TypeOK, RequestRows
<1>6. request' \in [Requests -> RequestRows]
  <2>1. here.ask \in Asks  BY DEF TabRows
  <2> QED  BY <1>3, <2>1 DEF IInv, TypeOK, RequestRows
<1>7. \A x \in Tabs \ {t} : tab[x].req # r
  BY <1>1 DEF IInv, Alone
<1>8. PICK q \in TabRows : /\ tab' = [tab EXCEPT ![t] = q]
                           /\ q.page \in {"toLogin", "toConsent", "issuing"} /\ q.req = r
                           /\ q.page = "toLogin" => q.next = "continue"
                           /\ q.page = "toConsent" => here.decision = "consent"
                           /\ q.page = "issuing" =>
                                here.decision = "issue" /\ q.sess = here.sess
                                /\ q.user = here.user
  <2>1. CASE here.decision = "login"
    <3> DEFINE q == [ToLogin(r, "continue", FALSE) EXCEPT !.overtaken = here.overtaken]
    <3>1. tab' = [tab EXCEPT ![t] = q]  BY <2>1 DEF Park, Goto
    <3>2. here.overtaken \in BOOLEAN /\ ToLogin(r, "continue", FALSE) \in TabRows
      BY PagesTyped DEF TabRows
    <3>3. q \in TabRows  BY <3>2 DEF TabRows
    <3>4. q.page = "toLogin" /\ q.next = "continue" /\ q.req = r
      BY DEF ToLogin, Blank
    <3> HIDE DEF q
    <3> QED  BY <3>1, <3>3, <3>4
  <2>2. CASE here.decision = "reauth"
    <3> DEFINE q == ToLogin(r, "continue", TRUE)
    <3>1. tab' = [tab EXCEPT ![t] = q]  BY <2>2 DEF Park, Goto
    <3>2. q \in TabRows /\ q.page = "toLogin" /\ q.next = "continue" /\ q.req = r
      BY NoAskTyped, ZenonT(60) DEF ToLogin, Blank, TabRows, Pages, Decisions
    <3> HIDE DEF q
    <3> QED  BY <3>1, <3>2
  <2>3. CASE here.decision = "consent"
    <3> DEFINE q == To("toConsent", r)
    <3>1. tab' = [tab EXCEPT ![t] = q]  BY <2>3 DEF Park, Goto
    <3>2. q \in TabRows /\ q.page = "toConsent" /\ q.req = r
      BY NoAskTyped, ZenonT(60) DEF To, Blank, TabRows, Pages, Decisions
    <3> HIDE DEF q
    <3> QED  BY <2>3, <3>1, <3>2
  <2>4. CASE here.decision = "issue"
    <3> DEFINE q == [here EXCEPT !.page = "issuing", !.decision = "error",
                                 !.ask = NoAsk, !.overtaken = FALSE]
    <3>1. tab' = [tab EXCEPT ![t] = q]  BY <2>4 DEF Park, Goto
    <3>2. /\ q \in TabRows /\ q.page = "issuing" /\ q.req = r
          /\ q.sess = here.sess /\ q.user = here.user
      BY NoAskTyped, ZenonT(60) DEF TabRows, Pages, Decisions
    <3> HIDE DEF q
    <3> QED  BY <2>4, <3>1, <3>2
  <2> QED  BY <1>1, <1>4, <2>1, <2>2, <2>3, <2>4 DEF Judging
<1>9. TypeOK'
  BY <1>2, <1>6, <1>8 DEF IInv, TypeOK, registry
<1>10. TabsKnow'
  <2> SUFFICES ASSUME NEW x \in Tabs PROVE Here(tab[x])'
    BY DEF TabsKnow
  <2>1. CASE x = t
    <3>1. tab'[x] = q  BY <2>1, <1>8 DEF IInv, TypeOK
    <3>3. here.decision \in {"consent", "issue"} =>
            "login" \notin request'[r].ask.prompt /\ ~request'[r].reauth
      BY <1>1, <1>4, <1>5 DEF Judging
    <3>4. here.decision = "issue" => /\ "consent" \notin request'[r].ask.prompt
                                     /\ here.sess \in Sessions /\ here.user \in Users
      BY <1>1, <1>4, <1>5 DEF Judging
    <3>5. Here(q)'
      BY <1>8, <3>3, <3>4
      DEF Here, Judging, Passing, Finishing, Bound, Past, CookieMeets, Met
    <3> QED  BY <3>1, <3>5 DEF Here, Judging, Passing, Finishing, Bound, Past
  <2>2. CASE x # t
    <3>1. tab'[x] = tab[x] /\ Here(tab[x]) /\ tab[x].req # r
      BY <2>2, <1>7, <1>8 DEF IInv, TypeOK, TabsKnow
    <3>2. tab[x].req \in Requests => request'[tab[x].req] = request[tab[x].req]
      BY <1>5, <3>1
    <3> QED  BY <1>2, <3>1, <3>2
         DEF Here, Judging, Passing, Finishing, Bound, Past, CookieMeets, CookieIsRow, Met,
             Outgrown, Answerable
  <2> QED  BY <2>1, <2>2
<1>11. Alone'
  BY <1>7, <1>8 DEF IInv, TypeOK, Alone
<1>12. RequestsHold'
  <2> SUFFICES ASSUME NEW y \in Requests
               PROVE  (Undemanding(y) /\ Answered(y) /\ Standing(y))'
    BY DEF RequestsHold
  <2>1. Undemanding(y) /\ Answered(y) /\ Standing(y)  BY DEF IInv, RequestsHold
  <2>2. CASE y # r
    BY <1>2, <1>5, <2>1, <2>2
    DEF Undemanding, Answered, Standing, Outgrown, CookieIsRow, Answerable
  <2>3. CASE y = r
    <3>1. Answered(r)'
      <4>1. request[r].end.codes \in 0..2  BY <1>3 DEF RequestRows, Endings
      <4> QED  BY <1>4, <1>5, <2>1, <2>3, <4>1 DEF Answered
    <3>2. Standing(r)'
      BY <1>1, <1>2, <1>4, <1>5 DEF Judging, Standing, Outgrown, CookieIsRow, Answerable
    <3> QED  BY <1>5, <2>3, <3>1, <3>2 DEF Undemanding
  <2> QED  BY <2>2, <2>3
<1>13. RowsOrdered'  BY <1>2 DEF IInv, RowsOrdered
<1> QED  BY <1>9, <1>10, <1>11, <1>12, <1>13 DEF IInv
-----------------------------------------------------------------------------
(* A finished sign-in: the browser has another session *)

LEMMA SignInKeeps ==
    ASSUME IInv, NEW t \in Tabs, NEW u \in Users, SignIn(t, u)
    PROVE  IInv'
<1> SUFFICES ASSUME NEW new \in Sessions, new = Unused, NEW here \in TabRows, here = tab[t]
             PROVE  IInv'
  BY UnusedIsUnused DEF IInv, TypeOK
<1>1. /\ UNCHANGED <<request, grant, registry>>
      /\ cookie' = new
      /\ here.page = "signingIn" /\ Here(here)
  BY DEF SignIn, IInv, TabsKnow
<1>2. new # cookie /\ \A x \in Tabs : tab[x].sess # new
  BY UnusedIsUnused DEF IInv, Referenced
<1>3. Parked \subseteq Judged /\ Judged \subseteq Requests
  BY DEF Parked, Judged, IInv, TabsKnow, Here, Judging
<1>4. row' = [s \in Sessions |->
                IF s = new THEN [user |-> u, after |-> Parked, since |-> Judged, old |-> FALSE]
                ELSE IF \E x \in Tabs \ {t} : tab[x].sess = s /\ s # tab[t].sess THEN row[s]
                ELSE NoRow]
  BY DEF SignIn
<1>5. /\ row'[new] = [user |-> u, after |-> Parked, since |-> Judged, old |-> FALSE]
      /\ \A s \in Sessions \ {new} : row'[s] \in {row[s], NoRow}
  BY <1>4
<1>6. row' \in [Sessions -> SessionRows \cup {NoRow}]
  BY <1>3, <1>4 DEF IInv, TypeOK, SessionRows
<1>7. PICK q \in TabRows : /\ q.page # "authorizing" /\ q.req \in {here.req, Nil}
                           /\ Here(q) /\ q = Target(here) /\ q.page # "issuing"
  <2>1. Target(here).page # "issuing"
    BY DEF Target, Blank, To, TabRows
  <2> QED  BY <1>1, <2>1, TargetHere
<1>8. tab' = [x \in Tabs |->
                IF x = t THEN q
                ELSE [tab[x] EXCEPT !.overtaken = @ \/ tab[x].page = "authorizing"]]
  BY <1>7 DEF SignIn
\* The new session meets whatever a parked request demands.
<1>9. \A r \in Requests : request[r].state # "unsent" => r \in Parked /\ r \in Judged
  BY <1>3 DEF Parked
<1>10. ASSUME NEW r \in Requests PROVE Met(r, new)'
  BY <1>1, <1>5, <1>9 DEF Met, IInv, RequestsHold, Undemanding
<1>11. ASSUME NEW r \in Requests PROVE CookieMeets(r)'
  BY <1>1, <1>10 DEF CookieMeets
<1>12. TypeOK'
  <2>1. \A x \in Tabs \ {t} : [tab[x] EXCEPT !.overtaken = @ \/ tab[x].page = "authorizing"]
                                \in TabRows
    BY DEF IInv, TypeOK, TabRows
  <2>2. tab' \in [Tabs -> TabRows]  BY <1>8, <2>1
  <2> QED  BY <1>1, <1>6, <2>2 DEF IInv, TypeOK, registry
<1>13. TabsKnow'
  <2> SUFFICES ASSUME NEW x \in Tabs PROVE Here(tab[x])'
    BY DEF TabsKnow
  <2>1. CASE x = t
    <3>1. tab'[x] = q /\ (Bound(q) => q.req \in Requests)
          /\ (Past(q) => Bound(q)) /\ (q.page = "consent" => q.shown # Nil)
      BY <2>1, <1>7, <1>8 DEF Here, Passing, Past, Bound
    <3>2. Here(q)'
      BY <1>7, <1>11, <3>1 DEF Here, Judging, Passing, Finishing, Bound, Past
    <3> QED  BY <3>1, <3>2 DEF Here, Judging, Passing, Finishing, Bound, Past
  <2>2. CASE x # t
    <3> SUFFICES ASSUME NEW p \in TabRows, p = tab[x] PROVE Here(tab[x])'
      BY DEF IInv, TypeOK
    <3>1. Here(p) /\ p.sess # new  BY <1>2 DEF IInv, TabsKnow
    <3>2. /\ tab'[x].page = p.page /\ tab'[x].req = p.req /\ tab'[x].next = p.next
          /\ tab'[x].decision = p.decision /\ tab'[x].ask = p.ask /\ tab'[x].sess = p.sess
          /\ tab'[x].user = p.user /\ tab'[x].shown = p.shown
      BY <1>8, <2>2 DEF TabRows
    <3>3. Judging(p)'
      <4>1. p.page = "authorizing" => p.req \in Judged /\ p.req \in Requests
        BY <3>1 DEF Judged, Here, Judging
      <4>2. p.page = "authorizing" => Outgrown(p.req)'
        BY <1>1, <1>5, <4>1 DEF Outgrown
      <4> QED  BY <1>1, <3>1, <4>2 DEF Here, Judging, Answerable
    <3>4. Passing(p)'
      BY <1>11, <3>1 DEF Here, Passing, Bound, Past
    <3>5. Finishing(p)'
      <4>1. p.page = "issuing" => /\ p.sess \in Sessions \ {new}
                                  /\ p.req \in Requests
                                  /\ row[p.sess] # NoRow => Met(p.req, p.sess)
        BY <3>1 DEF Here, Passing, Finishing, Bound
      <4>2. p.page = "issuing" /\ row'[p.sess] # NoRow => Met(p.req, p.sess)'
        BY <1>1, <1>5, <4>1 DEF Met
      <4> QED  BY <1>1, <3>1, <4>2 DEF Here, Finishing
    <3> QED  BY <3>2, <3>3, <3>4, <3>5 DEF Here, Judging, Passing, Finishing, Bound, Past
  <2> QED  BY <2>1, <2>2
<1>14. Alone'
  <2> SUFFICES ASSUME NEW x \in Tabs, NEW y \in Tabs, x # y, tab'[x].page = "authorizing"
               PROVE  tab'[y].req # tab'[x].req
    BY DEF Alone
  <2>1. x # t /\ tab'[x].req = tab[x].req /\ tab[x].page = "authorizing"
    BY <1>7, <1>8 DEF IInv, TypeOK, TabRows
  <2>2. tab[x].req \in Requests  BY <2>1 DEF IInv, TabsKnow, Here, Judging
  <2>3. tab'[y].req \in {tab[y].req, Nil}
    BY <1>7, <1>8 DEF IInv, TypeOK, TabRows
  <2>4. tab[y].req # tab[x].req  BY <2>1 DEF IInv, Alone
  <2> QED  BY <2>1, <2>2, <2>3, <2>4, ConstantsAssumption
<1>15. RequestsHold'
  <2>1. ASSUME NEW r \in Requests, request[r].state # "unsent" PROVE Outgrown(r)'
    BY <1>1, <1>5, <1>9, <2>1 DEF Outgrown
  <2> QED  BY <1>1, <2>1
       DEF IInv, RequestsHold, Undemanding, Answered, Standing, Answerable
<1>16. RowsOrdered'
  BY <1>3, <1>5, <1>6 DEF IInv, RowsOrdered
<1> QED  BY <1>12, <1>13, <1>14, <1>15, <1>16 DEF IInv
-----------------------------------------------------------------------------
(* /continue and consent *)

LEMMA ContinueKeeps ==
    ASSUME IInv, NEW t \in Tabs, Continue(t)
    PROVE  IInv'
<1> SUFFICES ASSUME NEW r \in Requests, r = tab[t].req
             PROVE  IInv'
  BY DEF Continue, IInv, TabsKnow, Here, Passing, Bound
<1> DEFINE decision == Resolve(request[r].ask, Fresh(r))
<1>1. UNCHANGED <<request, cookie, grant, registry>> /\ row' = Swept
  BY DEF Continue
<1>2. request[r].ask \in Asks /\ request[r].ask.scopes \in SUBSET ClientScopes
      /\ Fresh(r) \in BOOLEAN
  BY DEF IInv, TypeOK, RequestRows, Asks, Fresh
<1>3. /\ decision \in Decisions
      /\ decision \in {"consent", "issue"} =>
           /\ SignedIn # Nil
           /\ "login" \in request[r].ask.prompt => Fresh(r)
           /\ request[r].ask.maxAge /\ row[SignedIn].old => Fresh(r)
      /\ decision = "issue" => "consent" \notin request[r].ask.prompt
  BY <1>2, Resolved DEF IInv
<1>4. decision \in {"consent", "issue"} => CookieMeets(r)
  <2>1. SUFFICES ASSUME decision \in {"consent", "issue"} PROVE Met(r, cookie)
    BY DEF CookieMeets
  <2>2. SignedIn = cookie /\ cookie \in Sessions /\ row[cookie] # NoRow /\ CookieIsRow
    BY <1>3, <2>1, Signed, ConstantsAssumption DEF IInv, CookieIsRow
  <2>3. Fresh(r) => r \in row[cookie].after /\ r \in row[cookie].since
    BY <2>2 DEF Fresh, IInv, RowsOrdered
  <2>4. Standing(r)  BY DEF IInv, RequestsHold
  <2>5. CASE "login" \in request[r].ask.prompt
    BY <1>3, <2>1, <2>3, <2>5 DEF Met
  <2>6. CASE "login" \notin request[r].ask.prompt
    <3>1. request[r].reauth => request[r].ask.maxAge
                               /\ (r \in row[cookie].since \/ row[cookie].old)
      BY <2>2, <2>4, <2>6 DEF Standing, Outgrown
    <3> QED  BY <1>3, <2>1, <2>2, <2>3, <2>6, <3>1 DEF Met
  <2> QED  BY <2>5, <2>6
<1>5. CASE tab' = [tab EXCEPT ![t] = Blank]
  <2>1. Turns  BY <1>5, BlankHere, OwnTurn
  <2> QED  BY <1>1, <2>1, TurningKeeps
<1>6. CASE decision \in {"login", "reauth"} /\ Loads(r)
  <2> DEFINE q == [ToLogin(r, "continue", FALSE) EXCEPT !.overtaken = tab[t].overtaken]
             p == ToLogin(r, "continue", FALSE)
  <2>1. tab' = [tab EXCEPT ![t] = q]  BY <1>6 DEF Continue, Goto
  <2>2. tab[t].overtaken \in BOOLEAN  BY DEF IInv, TypeOK, TabRows
  <2>3. p \in TabRows /\ p.page = "toLogin" /\ p.req = r /\ Here(p)
    BY ToLoginHere
  <2>4. q = [p EXCEPT !.overtaken = tab[t].overtaken]  OBVIOUS
  <2> HIDE DEF p, q
  <2>5. /\ q \in TabRows /\ q.page = "toLogin" /\ q.req = r
        /\ q.next = p.next
    BY <2>2, <2>3, <2>4 DEF TabRows
  <2>6. Here(q)  BY <2>3, <2>5, SignInPageHere
  <2>7. Turns  BY <2>1, <2>5, <2>6, OwnTurn
  <2> QED  BY <1>1, <2>7, TurningKeeps
<1>7. CASE decision = "consent" /\ Loads(r)
  <2>1. tab' = [tab EXCEPT ![t] = To("toConsent", r)]  BY <1>7 DEF Continue, Goto
  <2>2. Turns  BY <1>4, <1>7, <2>1, ToConsentHere, OwnTurn
  <2> QED  BY <1>1, <2>2, TurningKeeps
<1>8. CASE decision = "issue" /\ Loads(r)
  <2>1. tab' = [tab EXCEPT ![t] = Issuing(r, request[r].ask.scopes, FALSE, Nil)]
    BY <1>8 DEF Continue, Goto
  <2>2. SignedIn # Nil /\ CookieMeets(r) /\ "consent" \notin request[r].ask.prompt
    BY <1>3, <1>4, <1>8
  <2> HIDE DEF decision
  <2>3. PICK S \in SUBSET ClientScopes : S = request[r].ask.scopes  BY <1>2
  <2>4. Turns  BY <2>1, <2>2, <2>3, IssuingHere
  <2> QED  BY <1>1, <2>4, TurningKeeps
<1>9. (Loads(r) /\ decision # "error") \/ tab' = [tab EXCEPT ![t] = Blank]
  <2> HIDE DEF decision
  <2>1. tab' = [tab EXCEPT ![t] =
                  IF ~Loads(r) THEN Blank
                  ELSE CASE decision = "error" -> Blank
                         [] decision \in {"login", "reauth"} ->
                               [ToLogin(r, "continue", FALSE) EXCEPT
                                   !.overtaken = tab[t].overtaken]
                         [] decision = "consent" -> To("toConsent", r)
                         [] OTHER -> Issuing(r, request[r].ask.scopes, FALSE, Nil)]
    BY DEF Continue, Goto, decision
  <2> QED  BY <2>1
<1> QED  BY <1>3, <1>5, <1>6, <1>7, <1>8, <1>9 DEF Decisions

LEMMA ConsentPageKeeps ==
    ASSUME IInv, NEW t \in Tabs, ConsentPage(t)
    PROVE  IInv'
<1> SUFFICES ASSUME NEW r \in Requests, r = tab[t].req, CookieMeets(r)
             PROVE  IInv'
  BY DEF ConsentPage, IInv, TabsKnow, Here, Passing, Bound, Past
<1>1. UNCHANGED <<request, cookie, grant, registry>> /\ row' = Swept
  BY DEF ConsentPage
<1>2. CASE tab' = [tab EXCEPT ![t] = Blank]
  <2>1. Turns  BY <1>2, BlankHere, OwnTurn
  <2> QED  BY <1>1, <2>1, TurningKeeps
<1>3. CASE tab' = [tab EXCEPT ![t] = ToLogin(r, "consent", FALSE)]
  <2>1. /\ ToLogin(r, "consent", FALSE) \in TabRows /\ Here(ToLogin(r, "consent", FALSE))
        /\ ToLogin(r, "consent", FALSE).page = "toLogin"
        /\ ToLogin(r, "consent", FALSE).req = r
    BY ToLoginHere
  <2>2. Turns  BY <1>3, <2>1, OwnTurn
  <2> QED  BY <1>1, <2>2, TurningKeeps
<1>4. CASE SignedIn # Nil
           /\ tab' = [tab EXCEPT ![t] = [To("consent", r) EXCEPT !.shown = CurrentUser]]
  <2> DEFINE q == [To("consent", r) EXCEPT !.shown = CurrentUser]
  <2>1. CurrentUser \in Users /\ CurrentUser # Nil  BY <1>4, Signed DEF IInv
  <2>2. To("consent", r) \in TabRows  BY PagesTyped DEF Pages
  <2>3. q \in TabRows  BY <2>1, <2>2 DEF TabRows
  <2>4. q.page = "consent" /\ q.req = r /\ q.shown = CurrentUser  BY DEF To, Blank
  <2> HIDE DEF q
  <2>5. Here(q)  BY <2>1, <2>4 DEF Here, Judging, Passing, Finishing, Bound, Past
  <2>6. tab' = [tab EXCEPT ![t] = q]  BY <1>4 DEF q
  <2>7. Turns  BY <2>3, <2>4, <2>5, <2>6, OwnTurn
  <2> QED  BY <1>1, <2>7, TurningKeeps
<1> QED  BY <1>2, <1>3, <1>4 DEF ConsentPage, Goto

LEMMA AllowKeeps ==
    ASSUME IInv, NEW t \in Tabs, NEW boxes \in SUBSET Scopes, Allow(t, boxes)
    PROVE  IInv'
<1> SUFFICES ASSUME NEW r \in Requests, r = tab[t].req, CookieMeets(r),
                    NEW u \in Users, u = tab[t].shown, u # Nil
             PROVE  IInv'
  BY DEF Allow, IInv, TypeOK, TabRows, TabsKnow, Here, Passing, Bound, Past
<1> DEFINE S == Approved(r, boxes)
<1>1. UNCHANGED <<request, cookie, grant, registry>> /\ row' = Swept
  BY DEF Allow
<1>2. S \in SUBSET ClientScopes
  BY DEF Approved, IInv, TypeOK, RequestRows, Asks
<1>3. CASE tab' = [tab EXCEPT ![t] = Blank]
  <2>1. Turns  BY <1>3, BlankHere, OwnTurn
  <2> QED  BY <1>1, <2>1, TurningKeeps
<1>4. CASE tab' = [tab EXCEPT ![t] = ToLogin(Nil, "account", FALSE)]
  <2> DEFINE q == ToLogin(Nil, "account", FALSE)
  <2>1. /\ q \in TabRows /\ Here(q)
        /\ q.page = "toLogin" /\ q.req = Nil
    BY ToLoginHere
  <2> HIDE DEF q
  <2>2. q.page # "authorizing" /\ q.req \in {tab[t].req, Nil}  BY <2>1
  <2>3. tab' = [tab EXCEPT ![t] = q]  BY <1>4 DEF q
  <2>4. Turns  BY <2>1, <2>2, <2>3, OwnTurn
  <2> QED  BY <1>1, <2>4, TurningKeeps
<1>5. CASE SignedIn # Nil /\ tab' = [tab EXCEPT ![t] = Issuing(r, S, TRUE, u)]
  <2> HIDE DEF S
  <2>1. Turns  BY <1>2, <1>5, IssuingHere
  <2> QED  BY <1>1, <2>1, TurningKeeps
<1> QED  BY <1>3, <1>4, <1>5 DEF Allow, Goto
-----------------------------------------------------------------------------
(* Steps that end a request *)

\* A parked request has no code; a refusal or the end of its time leaves it so.
LEMMA EndingKept ==
    ASSUME IInv, NEW r \in Requests, request[r].state = "parked",
           NEW state \in {"denied", "gone"},
           request' = [request EXCEPT ![r].state = state]
    PROVE  Kept
<1>1. /\ request'[r].state = state /\ request'[r].ask = request[r].ask
      /\ request'[r].reauth = request[r].reauth /\ request'[r].end = request[r].end
      /\ \A x \in Requests \ {r} : request'[x] = request[x]
      /\ request' \in [Requests -> RequestRows]
  BY DEF IInv, TypeOK, RequestRows
<1>2. request[r].end.codes \in 0..2 /\ Answered(r) /\ ~(request[r].end.codes > 0)
  BY DEF IInv, TypeOK, RequestRows, Endings, RequestsHold, Answered
<1>3. \A x \in Requests : Answered(x)'
  BY <1>1, <1>2 DEF IInv, RequestsHold, Answered
<1> QED  BY <1>1, <1>3 DEF Kept

LEMMA DenyKeeps ==
    ASSUME IInv, NEW t \in Tabs, Deny(t)
    PROVE  IInv'
<1> SUFFICES ASSUME NEW r \in Requests, r = tab[t].req
             PROVE  IInv'
  BY DEF Deny, IInv, TabsKnow, Here, Passing, Bound
<1>1. UNCHANGED <<cookie, grant, registry>> /\ row' = Swept
  BY DEF Deny
<1>2. CASE SignedIn = Nil \/ ~Loads(r)
  <2>1. request' = request  BY <1>2 DEF Deny
  <2>2. tab' = [tab EXCEPT ![t] = Blank] \/ tab' = [tab EXCEPT ![t] = ToLogin(Nil, "account", FALSE)]
    BY DEF Deny, Goto
  <2>3. CASE tab' = [tab EXCEPT ![t] = Blank]
    <3>1. Turns  BY <2>3, BlankHere, OwnTurn
    <3> QED  BY <1>1, <2>1, <3>1, TurningKeeps
  <2>4. CASE tab' = [tab EXCEPT ![t] = ToLogin(Nil, "account", FALSE)]
    <3>1. Turns  BY <2>4, ToLoginHere, OwnTurn
    <3> QED  BY <1>1, <2>1, <3>1, TurningKeeps
  <2> QED  BY <2>2, <2>3, <2>4
<1>3. CASE SignedIn # Nil /\ Loads(r)
  <2>1. /\ request' = [request EXCEPT ![r].state = "denied"]
        /\ tab' = [tab EXCEPT ![t] = Blank]
        /\ request[r].state = "parked"
    BY <1>3 DEF Deny, Goto, Loads
  <2>2. Turns  BY <2>1, BlankHere, OwnTurn
  <2>3. Kept  BY <2>1, EndingKept
  <2>4. Ebbs  BY <1>1, SweptEbbs
  <2> QED  BY <1>1, <2>2, <2>3, <2>4, FrameKeeps DEF IInv, TypeOK, registry
<1> QED  BY <1>2, <1>3

\* The code comes from the session of the tab, which met the demand.
LEMMA IssueKeeps ==
    ASSUME IInv, NEW t \in Tabs, Issue(t)
    PROVE  IInv'
<1> SUFFICES ASSUME NEW here \in TabRows, here = tab[t], NEW r \in Requests, r = here.req
             PROVE  IInv'
  BY DEF Issue, IInv, TypeOK, TabsKnow, Here, Passing, Bound
<1>1. /\ UNCHANGED <<row, cookie, registry>>
      /\ tab' = [tab EXCEPT ![t] = Blank]
      /\ here.page = "issuing" /\ Here(here)
  BY DEF Issue, Goto, IInv, TabsKnow
<1>2. Turns  BY <1>1, BlankHere, OwnTurn
<1>3. Ebbs  BY <1>1, SameRowsEbb
<1>4. CASE ~MayIssue(here)
  <2>1. UNCHANGED <<grant, request>>  BY <1>4 DEF Issue
  <2> QED  BY <1>1, <1>2, <2>1, TurningKeeps
<1>5. CASE MayIssue(here)
  <2>1. /\ here.sess \in Sessions /\ here.user \in Users
        /\ "consent" \in request[r].ask.prompt => here.shown # Nil
        /\ row[here.sess] # NoRow => Met(r, here.sess)
    BY <1>1 DEF Here, Finishing
  <2>2. /\ row[here.sess] # NoRow /\ request[r].state = "parked"
        /\ Widened(here) \in SUBSET ClientScopes
    <3>1. grant[here.user] \in SUBSET ClientScopes /\ here.scopes \in SUBSET ClientScopes
      BY <2>1 DEF IInv, TypeOK, TabRows
    <3> QED  BY <1>5, <3>1 DEF MayIssue, Claimable, Widened
  <2> DEFINE end == [codes |-> IF request[r].end.codes = 0 THEN 1 ELSE 2,
                     by |-> here.user,
                     fresh |-> r \in row[here.sess].after,
                     anew |-> r \in row[here.sess].since,
                     shown |-> here.shown]
  <2>3. /\ request' = [request EXCEPT ![r].state = "consumed", ![r].end = end]
        /\ grant' = [grant EXCEPT ![here.user] = Widened(here)]
    BY <1>5 DEF Issue
  <2>4. request[r] \in RequestRows /\ request[r].end.codes = 0
    BY <2>2 DEF IInv, TypeOK, RequestRows, Endings, RequestsHold, Answered
  <2>5. end \in Endings /\ end.codes = 1
        /\ end.fresh = (r \in row[here.sess].after) /\ end.anew = (r \in row[here.sess].since)
        /\ end.shown = here.shown
    BY <2>1, <2>4 DEF Endings, TabRows
  <2> HIDE DEF end
  <2>6. /\ request'[r].state = "consumed" /\ request'[r].end = end
        /\ request'[r].ask = request[r].ask /\ request'[r].reauth = request[r].reauth
        /\ \A x \in Requests \ {r} : request'[x] = request[x]
        /\ request' \in [Requests -> RequestRows]
    BY <2>3, <2>5 DEF IInv, TypeOK, RequestRows
  <2>7. Answered(r)'
    <3>1. "login" \in request[r].ask.prompt => end.fresh  BY <2>1, <2>2, <2>5 DEF Met
    <3>2. request[r].reauth => end.anew  BY <2>1, <2>2, <2>5 DEF Met
    <3>3. "consent" \in request[r].ask.prompt => end.shown # Nil  BY <2>1, <2>5
    <3>4. end.codes <= 1  BY <2>5
    <3> QED  BY <2>6, <3>1, <3>2, <3>3, <3>4 DEF Answered
  <2>8. Kept
    BY <2>2, <2>6, <2>7 DEF Kept, IInv, RequestsHold, Answered
  <2>9. grant' \in [Users -> SUBSET ClientScopes]
    BY <2>2, <2>3 DEF IInv, TypeOK
  <2> QED  BY <1>1, <1>2, <1>3, <2>8, <2>9, FrameKeeps DEF IInv, TypeOK, registry
<1> QED  BY <1>4, <1>5

-----------------------------------------------------------------------------
(* What happens around the flow *)

LEMMA AroundKeeps ==
    ASSUME IInv, Around
    PROVE  IInv'
<1> USE DEF IInv
<1>1. events' \in 0..MaxEvents
  <2>1. Event  BY DEF Around, Logout, SessionExpires, SessionAges, RequestExpires,
                      RevokeGrant, SetUserStatus, SetClientStatus
  <2> QED  BY <2>1, ConstantsAssumption DEF Event, TypeOK
<1>2. ASSUME NEW t \in Tabs, Logout(t) PROVE IInv'
  <2>1. SignedIn \in Sessions  BY <1>2, Signed DEF Logout
  <2>2. Ebbs  BY <1>2, <2>1 DEF Logout, Ebbs, TypeOK
  <2>3. Kept  BY <1>2, SameRequestsKept DEF Logout
  <2> QED  BY <1>1, <1>2, <2>2, <2>3, FrameKeeps DEF Logout, TypeOK
<1>3. ASSUME NEW s \in Sessions, SessionExpires(s) PROVE IInv'
  <2>1. Ebbs  BY <1>3 DEF SessionExpires, Ebbs, TypeOK
  <2>2. Kept  BY <1>3, SameRequestsKept DEF SessionExpires
  <2> QED  BY <1>1, <1>3, <2>1, <2>2, FrameKeeps DEF SessionExpires, TypeOK
<1>4. ASSUME NEW s \in Sessions, SessionAges(s) PROVE IInv'
  <2>1. row[s] \in SessionRows  BY <1>4, RowTyped DEF SessionAges
  <2>2. row' = [row EXCEPT ![s] = [row[s] EXCEPT !.old = TRUE]]
    BY <1>4 DEF SessionAges
  <2>3. /\ row'[s] \in SessionRows /\ row'[s].old
        /\ row'[s].after = row[s].after /\ row'[s].since = row[s].since
        /\ \A x \in Sessions \ {s} : row'[x] = row[x]
        /\ row' \in [Sessions -> SessionRows \cup {NoRow}]
    BY <2>1, <2>2 DEF TypeOK, SessionRows
  <2>4. Ebbs  BY <1>4, <2>3 DEF SessionAges, Ebbs
  <2>5. Kept  BY <1>4, SameRequestsKept DEF SessionAges
  <2> QED  BY <1>1, <1>4, <2>4, <2>5, FrameKeeps DEF SessionAges, TypeOK
<1>5. ASSUME NEW r \in Requests, RequestExpires(r) PROVE IInv'
  <2>1. Ebbs  BY <1>5, SameRowsEbb DEF RequestExpires
  <2>2. Kept  BY <1>5, EndingKept DEF RequestExpires
  <2> QED  BY <1>1, <1>5, <2>1, <2>2, FrameKeeps DEF RequestExpires, TypeOK
<1>6. ASSUME NEW u \in Users, RevokeGrant(u) PROVE IInv'
  <2>1. Ebbs  BY <1>6, SameRowsEbb DEF RevokeGrant
  <2>2. Kept  BY <1>6, SameRequestsKept DEF RevokeGrant
  <2>3. grant' \in [Users -> SUBSET ClientScopes]  BY <1>6 DEF RevokeGrant, TypeOK
  <2> QED  BY <1>1, <1>6, <2>1, <2>2, <2>3, FrameKeeps DEF RevokeGrant, TypeOK
<1>7. ASSUME NEW u \in Users, SetUserStatus(u) PROVE IInv'
  <2>1. Ebbs  BY <1>7 DEF SetUserStatus, Ebbs, TypeOK
  <2>2. Kept  BY <1>7, SameRequestsKept DEF SetUserStatus
  <2>3. disabled' \in SUBSET Unsteady  BY <1>7 DEF SetUserStatus, TypeOK
  <2> QED  BY <1>1, <1>7, <2>1, <2>2, <2>3, FrameKeeps DEF SetUserStatus, TypeOK
<1>8. ASSUME SetClientStatus PROVE IInv'
  <2>1. Ebbs  BY <1>8, SameRowsEbb DEF SetClientStatus
  <2>2. Kept  BY <1>8, SameRequestsKept DEF SetClientStatus
  <2>3. client' \in {"APPROVED", "DISABLED"}  BY <1>8 DEF SetClientStatus
  <2> QED  BY <1>1, <1>8, <2>1, <2>2, <2>3, FrameKeeps DEF SetClientStatus, TypeOK
<1> QED  BY <1>2, <1>3, <1>4, <1>5, <1>6, <1>7, <1>8 DEF Around
-----------------------------------------------------------------------------
LEMMA InitEstablishes == Init => IInv
<1> SUFFICES ASSUME Init PROVE IInv
  OBVIOUS
<1>1. First \in Sessions
  <2>1. ~(Sessions \subseteq {})
    BY ConstantsAssumption, FS_EmptySet, FS_CardinalityType, SMT
  <2> QED  BY <2>1 DEF First
<1>2. PICK here \in Earlier : row = [s \in Sessions |-> IF s = cookie THEN here ELSE NoRow]
  BY DEF Init
<1>3. here \in SessionRows /\ here.after = {} /\ here.since = {}
  BY <1>2 DEF Earlier, SessionRows
<1>4. row \in [Sessions -> SessionRows \cup {NoRow}]
  BY <1>2, <1>3
<1>5. TypeOK
  <2>1. [state |-> "unsent", ask |-> NoAsk, reauth |-> FALSE, end |-> NoEnding] \in RequestRows
    BY NoAskTyped DEF RequestRows, NoEnding, Endings
  <2>2. request \in [Requests -> RequestRows]  BY <2>1 DEF Init
  <2>3. tab \in [Tabs -> TabRows]  BY PagesTyped DEF Init
  <2>4. grant \in [Users -> SUBSET ClientScopes]  BY DEF Init
  <2>5. events \in 0..MaxEvents  BY ConstantsAssumption DEF Init
  <2>6. /\ cookie \in Sessions \cup {Nil} /\ disabled \in SUBSET Unsteady
        /\ client \in {"APPROVED", "DISABLED"}
    BY <1>1 DEF Init
  <2> QED  BY <1>4, <2>2, <2>3, <2>4, <2>5, <2>6 DEF TypeOK
<1>6. TabsKnow
  BY DEF Init, TabsKnow, Blank, Here, Judging, Passing, Finishing, Bound, Past
<1>7. Alone  BY DEF Init, Alone, Blank
<1>8. RequestsHold
  BY DEF Init, RequestsHold, Undemanding, Answered, Standing, NoAsk, NoEnding
<1>9. RowsOrdered
  BY <1>2, <1>3 DEF RowsOrdered
<1> QED  BY <1>5, <1>6, <1>7, <1>8, <1>9 DEF IInv

LEMMA StepKeeps == IInv /\ [Next]_vars => IInv'
<1> SUFFICES ASSUME IInv, [Next]_vars PROVE IInv'
  OBVIOUS
<1>1. CASE UNCHANGED vars
  <2>1. UNCHANGED <<request, cookie, grant, registry>> /\ row' = row /\ tab' = tab
    BY <1>1 DEF vars, registry
  <2> QED  BY <2>1, TurningKeeps
<1>2. ASSUME NEW t \in Tabs, Proceed(t) PROVE IInv'
  BY <1>2, ParkKeeps, LoginPageKeeps, SubmitLoginKeeps, SignInKeeps, ContinueKeeps,
     ConsentPageKeeps, DenyKeeps, AllowKeeps, IssueKeeps DEF Proceed
<1>3. ASSUME NEW t \in Tabs, Begin(t) PROVE IInv'
  BY <1>3, AuthorizeKeeps, OpenLoginKeeps, OpenAgainKeeps, SignInRefusedKeeps DEF Begin
<1>4. CASE Around  BY <1>4, AroundKeeps
<1> QED  BY <1>1, <1>2, <1>3, <1>4 DEF Next

LEMMA Invariance == Spec => []IInv
  BY InitEstablishes, StepKeeps, PTL DEF Spec

-----------------------------------------------------------------------------
\* Rows, tabs and requests keep their shape; a session name is always free for
\* the next sign-in.
THEOREM TypeCorrect == Spec => []TypeOK
<1>1. IInv => TypeOK  BY DEF IInv
<1> QED  BY <1>1, Invariance, PTL

\* However many tabs submit its consent page, allow it or deny it, a request
\* yields one code at most, and none after a denial.
THEOREM RequestsAreAnsweredOnce == Spec => []OneAnswer
<1>1. IInv => OneAnswer
  <2> SUFFICES ASSUME IInv, NEW r \in Requests
               PROVE  /\ request[r].end.codes <= 1
                      /\ request[r].state = "denied" => request[r].end.codes = 0
    BY DEF OneAnswer
  <2>1. Answered(r) /\ request[r].end.codes \in 0..2
    BY DEF IInv, RequestsHold, TypeOK, RequestRows, Endings
  <2> QED  BY <2>1 DEF Answered
<1> QED  BY <1>1, Invariance, PTL

\* The code of a request that demanded a new sign-in comes from a session made
\* since, whichever of the browser's tabs signed in and consented.
THEOREM DemandedSignInsHappen == Spec => []DemandedSignInHappened
<1>1. IInv => DemandedSignInHappened
  BY DEF IInv, RequestsHold, Answered, DemandedSignInHappened
<1> QED  BY <1>1, Invariance, PTL

\* The code of a request with prompt=consent comes from a consent page.
THEOREM DemandedConsentsHappen == Spec => []DemandedConsentHappened
<1>1. IInv => DemandedConsentHappened
  BY DEF IInv, RequestsHold, Answered, DemandedConsentHappened
<1> QED  BY <1>1, Invariance, PTL

\* A parked request is answered at an endpoint its client registered, however
\* its redirect_uri was spelled.
THEOREM AnswersReachTheClient == Spec => []AnswersGoToTheClient
<1>1. IInv => AnswersGoToTheClient
  BY DEF IInv, RequestsHold, Standing, Answerable, AnswersGoToTheClient
<1> QED  BY <1>1, Invariance, PTL
=============================================================================
