------------------------- MODULE TokenServiceProofs -------------------------
(***************************************************************************)
(* Proofs about TokenService for every value of its constants.             *)
(***************************************************************************)
EXTENDS TokenService, TLAPS

-----------------------------------------------------------------------------
(* What the shared updates do to the types *)

\* Revoking refresh tokens leaves a table of refresh tokens.
LEMMA RevokeType ==
    ASSUME token \in [Tokens -> TokenRows], NEW T, Revoke(T)
    PROVE  token' \in [Tokens -> TokenRows]
BY DEF Revoke, TokenRows, TokenStates

\* Spending codes leaves a table of codes.
LEMMA SpendType ==
    ASSUME code \in [Codes -> CodeRows], NEW K, Spend(K)
    PROVE  code' \in [Codes -> CodeRows]
BY DEF Spend, CodeRows, CodeStates

\* Ending OIDC sessions leaves a table of OIDC sessions.
LEMMA EndRowsType ==
    ASSUME oidc \in [Sessions \X Clients -> {"none", "live", "revoked"}], NEW R, EndRows(R)
    PROVE  oidc' \in [Sessions \X Clients -> {"none", "live", "revoked"}]
BY DEF EndRows

\* Queueing notifications leaves a set of OIDC sessions.
LEMMA EnqueueType ==
    ASSUME outbox \in SUBSET (Sessions \X Clients), NEW R \in SUBSET (Sessions \X Clients),
           Enqueue(R)
    PROVE  outbox' \in SUBSET (Sessions \X Clients)
BY DEF Enqueue, LiveRows

\* Taking on, continuing or finishing work leaves every worker with a work item.
LEMMA WorkType ==
    ASSUME work \in [Workers -> WorkItems], NEW w \in Workers, NEW item \in WorkItems,
           Continue(w, item) \/ Begin(w, item) \/ Finish(w)
    PROVE  work' \in [Workers -> WorkItems]
BY DEF Continue, Begin, Finish, WorkItems

\* The work the operations create is work a worker can hold.
LEMMA WorkItemsType ==
    /\ Idle \in WorkItems
    /\ \A k \in Codes : PendingRedeem(k) \in WorkItems /\ PendingContain(k) \in WorkItems
    /\ \A t \in Tokens, S \in SUBSET Scopes : PendingRefresh(t, S) \in WorkItems
    /\ \A f \in Tokens : PendingFamily(f) \in WorkItems
    /\ \A c \in Clients :
           PendingDrainTokens(c) \in WorkItems /\ PendingDrainSessions(c) \in WorkItems
BY DEF WorkItems, PendingRedeem, PendingContain, PendingRefresh, PendingFamily,
       PendingDrainTokens, PendingDrainSessions

-----------------------------------------------------------------------------
(* Type correctness *)

\* A step of the browser or of the authorization endpoint keeps the types.
LEMMA BrowserStepType ==
    ASSUME TypeOK, BrowserStep PROVE TypeOK'
<1> USE ConstantsAssumption
<1>1. ASSUME NEW s \in Sessions, NEW old, SignIn(s, old) PROVE TypeOK'
  BY <1>1 DEF SignIn, TypeOK, registry
<1>2. ASSUME NEW s \in Sessions, SessionExpires(s) \/ DropExpiredSession(s) PROVE TypeOK'
  BY <1>2 DEF SessionExpires, DropExpiredSession, TypeOK, registry
<1>3. ASSUME NEW s \in Sessions, Logout(s) PROVE TypeOK'
  BY <1>3, EndRowsType DEF Logout, TypeOK, registry
<1>4. ASSUME NEW s \in Sessions, EndSessions(s) PROVE TypeOK'
  <2>1. RowsOfSession(s) \in SUBSET (Sessions \X Clients)
    BY DEF RowsOfSession
  <2>2. outbox' \in SUBSET (Sessions \X Clients)
    BY <1>4, <2>1, EnqueueType DEF EndSessions, TypeOK
  <2>3. oidc' \in [Sessions \X Clients -> {"none", "live", "revoked"}]
    BY <1>4, EndRowsType DEF EndSessions, TypeOK
  <2>4. QED
    BY <1>4, <2>2, <2>3 DEF EndSessions, TypeOK, registry
<1>5. ASSUME NEW s \in Sessions, NEW k \in Codes, NEW c \in Clients,
             NEW S \in SUBSET Scopes, NEW e \in BOOLEAN, IssueCode(k, s, c, S, e)
      PROVE  TypeOK'
  <2>1. grant' \in [Users \X Clients -> SUBSET Scopes]
    <3>1. <<Owner[s], c>> \in Users \X Clients
      OBVIOUS
    <3>2. UNCHANGED grant \/ Widen(Owner[s], c, S)
      BY <1>5 DEF IssueCode
    <3>3. grant \in [Users \X Clients -> SUBSET Scopes]
      BY DEF TypeOK
    <3>4. grant[<<Owner[s], c>>] \cup S \in SUBSET Scopes
      BY <3>1, <3>3
    <3>5. QED
      BY <3>2, <3>3, <3>4 DEF Widen
  <2>2. code' \in [Codes -> CodeRows]
    BY <1>5 DEF IssueCode, CodeRows, CodeStates, TypeOK
  <2>3. oidc' \in [Sessions \X Clients -> {"none", "live", "revoked"}]
    BY <1>5 DEF IssueCode, TypeOK
  <2>4. QED
    BY <1>5, <2>1, <2>2, <2>3 DEF IssueCode, TypeOK, registry
<1>6. QED
  BY <1>1, <1>2, <1>3, <1>4, <1>5 DEF BrowserStep

\* So does a step of the authorization_code grant.
LEMMA CodeStepType ==
    ASSUME TypeOK, NEW w \in Workers, NEW k \in Codes, CodeStep(w, k) PROVE TypeOK'
<1> USE ConstantsAssumption, WorkItemsType
<1>1. ASSUME NEW c \in Clients, PresentCode(w, c, k) PROVE TypeOK'
  <2>1. code' \in [Codes -> CodeRows]
    BY <1>1, SpendType DEF PresentCode, TypeOK
  <2>2. work' \in [Workers -> WorkItems]
    BY <1>1, WorkType DEF PresentCode, TypeOK
  <2>3. QED
    BY <1>1, <2>1, <2>2 DEF PresentCode, TypeOK, registry
<1>2. ASSUME NEW c \in Clients, RevokePresentedAccess(w, c, k) PROVE TypeOK'
  BY <1>2, WorkType DEF RevokePresentedAccess, TypeOK, registry
<1>3. CASE RedeemCode(w, k)
  <2>1. code' \in [Codes -> CodeRows]
    <3>1. code \in [Codes -> CodeRows]
      BY DEF TypeOK
    <3>2. code' = [code EXCEPT ![k].state = "redeemed"]
      BY <1>3 DEF RedeemCode
    <3>3. QED
      BY <3>1, <3>2 DEF CodeRows, CodeStates
  <2>2. token' \in [Tokens -> TokenRows]
    <3>1. code[k].scopes \in SUBSET Scopes
      BY DEF TypeOK, CodeRows
    <3>2. \A t \in Tokens : Stored(t, k, t, code[k].scopes) \in TokenRows
      BY <3>1 DEF Stored, TokenRows, TokenStates
    <3>3. QED
      BY <1>3, <3>2 DEF RedeemCode, TypeOK
  <2>3. work' \in [Workers -> WorkItems]
    BY <1>3, WorkType DEF RedeemCode, TypeOK
  <2>4. QED
    BY <1>3, <2>1, <2>2, <2>3 DEF RedeemCode, TypeOK, registry
<1>4. CASE RedeemFindsReplay(w, k) \/ RedeemRefused(w, k)
  BY <1>4, WorkType DEF RedeemFindsReplay, RedeemRefused, TypeOK, registry
<1>5. CASE RevokeTokensForSession(w, k)
  <2>1. token' \in [Tokens -> TokenRows]
    BY <1>5, RevokeType DEF RevokeTokensForSession, TypeOK
  <2>2. oidc' \in [Sessions \X Clients -> {"none", "live", "revoked"}]
    BY <1>5, EndRowsType DEF RevokeTokensForSession, TypeOK
  <2>3. work' \in [Workers -> WorkItems]
    BY <1>5, WorkType DEF RevokeTokensForSession, TypeOK
  <2>4. retired' \in SUBSET Codes
    BY <1>5 DEF RevokeTokensForSession, TypeOK, DescendantsEnded
  <2>5. QED
    BY <1>5, <2>1, <2>2, <2>3, <2>4 DEF RevokeTokensForSession, TypeOK, registry
<1>6. QED
  BY <1>1, <1>2, <1>3, <1>4, <1>5 DEF CodeStep

\* So does a step of the refresh_token grant.
LEMMA RefreshStepType ==
    ASSUME TypeOK, Lineage, NEW w \in Workers, NEW t \in Tokens, RefreshStep(w, t)
    PROVE  TypeOK'
<1> USE ConstantsAssumption, WorkItemsType
<1>1. Exists(t) => token[t].family \in Tokens /\ token[t].code \in Codes
  BY DEF Lineage, TokensSound
<1>2. ASSUME NEW c \in Clients, RevokePresentedRefresh(w, c, t) PROVE TypeOK'
  BY <1>1, <1>2, WorkType DEF RevokePresentedRefresh, TypeOK, registry
<1>3. ASSUME NEW c \in Clients, NEW S \in SUBSET Scopes, PresentRefresh(w, c, t, S)
      PROVE  TypeOK'
  BY <1>1, <1>3, WorkType DEF PresentRefresh, TypeOK, registry
<1>4. ASSUME NEW S \in SUBSET Scopes, RefreshTokens(w, t, S) PROVE TypeOK'
  <2>1. Retire(t) \in [Tokens -> TokenRows]
    <3>1. token \in [Tokens -> TokenRows]
      BY DEF TypeOK
    <3>2. QED
      BY <3>1 DEF Retire, TokenRows, TokenStates
  <2>2. Exists(t)
    BY <1>4 DEF RefreshTokens, ClaimableToken, Exists
  <2>3. \A n \in Tokens : Stored(n, token[t].code, token[t].family, S) \in TokenRows
    BY <1>1, <2>2 DEF Stored, TokenRows, TokenStates
  <2>4. token' \in [Tokens -> TokenRows]
    BY <1>4, <2>1, <2>3 DEF RefreshTokens, TypeOK
  <2>5. work' \in [Workers -> WorkItems]
    BY <1>4, WorkType DEF RefreshTokens, TypeOK
  <2>6. QED
    BY <1>4, <2>4, <2>5 DEF RefreshTokens, TypeOK, registry
<1>5. ASSUME NEW S \in SUBSET Scopes, RefreshRejected(w, t, S) PROVE TypeOK'
  <2>1. Exists(t)
    BY <1>5 DEF RefreshRejected, Lineage, Grounded, PendingRefresh
  <2>2. work' \in [Workers -> WorkItems]
    BY <1>1, <1>5, <2>1, WorkType DEF RefreshRejected, TypeOK
  <2>3. QED
    BY <1>5, <2>2 DEF RefreshRejected, TypeOK, registry
<1>6. CASE RevokeFamily(w, t)
  <2>1. token' \in [Tokens -> TokenRows]
    BY <1>6, RevokeType DEF RevokeFamily, TypeOK
  <2>2. work' \in [Workers -> WorkItems]
    BY <1>6, WorkType DEF RevokeFamily, TypeOK
  <2>3. QED
    BY <1>6, <2>1, <2>2 DEF RevokeFamily, TypeOK, registry
<1>7. QED
  BY <1>2, <1>3, <1>4, <1>5, <1>6 DEF RefreshStep

\* So does what users and administrators do.
LEMMA AdminStepType ==
    ASSUME TypeOK, AdminStep PROVE TypeOK'
<1> USE ConstantsAssumption, WorkItemsType
<1>1. ASSUME NEW u \in Users, RevokeAllCredentials(u)
      PROVE  /\ session' \in [Sessions -> {"none", "live", "expired", "gone"}]
             /\ token' \in [Tokens -> TokenRows]
             /\ code' \in [Codes -> CodeRows]
             /\ oidc' \in [Sessions \X Clients -> {"none", "live", "revoked"}]
             /\ UNCHANGED <<grant, outbox, work, retired, killed>>
  BY <1>1, RevokeType, SpendType, EndRowsType DEF RevokeAllCredentials, TypeOK
<1>2. ASSUME NEW u \in Users, ReplacePassword(u) PROVE TypeOK'
  BY <1>1, <1>2 DEF ReplacePassword, TypeOK, registry
<1>3. ASSUME NEW u \in Users, DisableAccount(u) PROVE TypeOK'
  BY <1>1, <1>3 DEF DisableAccount, TypeOK
<1>4. ASSUME NEW u \in Users, EnableAccount(u) \/ SetRole(u) PROVE TypeOK'
  BY <1>4 DEF EnableAccount, SetRole, TypeOK
<1>5. ASSUME NEW u \in Users, NEW c \in Clients, RevokeGrant(u, c) PROVE TypeOK'
  <2>1. grant' \in [Users \X Clients -> SUBSET Scopes]
    BY <1>5 DEF RevokeGrant, TypeOK
  <2>2. token' \in [Tokens -> TokenRows] /\ code' \in [Codes -> CodeRows]
    BY <1>5, RevokeType, SpendType DEF RevokeGrant, TypeOK
  <2>3. oidc' \in [Sessions \X Clients -> {"none", "live", "revoked"}]
    BY <1>5, EndRowsType DEF RevokeGrant, TypeOK
  <2>4. outbox' \in SUBSET (Sessions \X Clients)
    BY <1>5, EnqueueType DEF RevokeGrant, TypeOK, RowsOfGrant, RowsOfUser
  <2>5. QED
    BY <1>5, <2>1, <2>2, <2>3, <2>4 DEF RevokeGrant, TypeOK, registry
<1>6. ASSUME NEW c \in Clients, NEW r \in Registrations, UpdateClient(c, r) PROVE TypeOK'
  BY <1>6, ConstantsAssumption DEF UpdateClient, TypeOK
<1>7. ASSUME NEW w \in Workers, NEW c \in Clients, NEW status \in ClientStatuses,
             SetClientStatus(w, c, status)
      PROVE  TypeOK'
  <2>1. work' \in [Workers -> WorkItems]
    BY <1>7, WorkType DEF SetClientStatus, TypeOK
  <2>2. QED
    BY <1>7, <2>1 DEF SetClientStatus, TypeOK
<1>8. ASSUME NEW w \in Workers, NEW c \in Clients, DrainTokens(w, c) PROVE TypeOK'
  BY <1>8, RevokeType, WorkType DEF DrainTokens, TypeOK, registry
<1>9. ASSUME NEW w \in Workers, NEW c \in Clients, DrainSessions(w, c) PROVE TypeOK'
  BY <1>9, EndRowsType, WorkType DEF DrainSessions, TypeOK, registry
<1>10. QED
  BY <1>2, <1>3, <1>4, <1>5, <1>6, <1>7, <1>8, <1>9 DEF AdminStep

\* So does the environment.
LEMMA EnvironmentType ==
    ASSUME TypeOK, ExpiryStep \/ (\E w \in Workers : Interrupted(w)) PROVE TypeOK'
<1>1. ASSUME NEW k \in Codes, CodeExpires(k) PROVE TypeOK'
  BY <1>1, ZenonT(60) DEF CodeExpires, TypeOK, CodeRows, CodeStates, registry
<1>2. ASSUME NEW t \in Tokens, TokenExpires(t) PROVE TypeOK'
  BY <1>2, ZenonT(60) DEF TokenExpires, TypeOK, TokenRows, TokenStates, registry
<1>3. ASSUME NEW w \in Workers, Interrupted(w) PROVE TypeOK'
  BY <1>3, WorkType, WorkItemsType DEF Interrupted, TypeOK, registry
<1>4. QED
  BY <1>1, <1>2, <1>3 DEF ExpiryStep

-----------------------------------------------------------------------------
(* What the shared updates do to the rows *)

\* Revoking refresh tokens changes nothing but their state, and leaves none of
\* them usable.
LEMMA RevokeRows ==
    ASSUME token \in [Tokens -> TokenRows], NEW T, Revoke(T)
    PROVE  \A t \in Tokens :
               /\ token'[t].code = token[t].code
               /\ token'[t].family = token[t].family
               /\ token'[t].scopes = token[t].scopes
               /\ token[t].state = "none" <=> token'[t].state = "none"
               /\ token'[t].state \in {token[t].state, "revoked"}
               /\ t \in T => token'[t].state # "live"
               /\ t \notin T => token'[t] = token[t]
BY DEF Revoke, TokenRows, TokenStates, Exists

\* Spending codes changes nothing but their state, and leaves none unspent.
LEMMA SpendRows ==
    ASSUME code \in [Codes -> CodeRows], NEW K, Spend(K)
    PROVE  \A k \in Codes :
               /\ code'[k].session = code[k].session
               /\ code'[k].client = code[k].client
               /\ code'[k].scopes = code[k].scopes
               /\ code[k].state = "none" <=> code'[k].state = "none"
               /\ code[k].state = "redeemed" <=> code'[k].state = "redeemed"
               /\ Used(k) => Used(k)'
               /\ Unspent(k)' => Unspent(k) /\ k \notin K
               /\ code'[k].state = "unused" => code[k].state = "unused"
               /\ k \notin K => code'[k] = code[k]
BY DEF Spend, CodeRows, CodeStates, Used, Unspent

\* Ending OIDC sessions leaves none of them live and opens none.
LEMMA EndRowsRows ==
    ASSUME NEW R, EndRows(R)
    PROVE  \A r \in Sessions \X Clients :
               oidc'[r] = "live" => oidc[r] = "live" /\ r \notin R
BY DEF EndRows

-----------------------------------------------------------------------------
(* Which steps create rows *)

\* Nothing is gained: rows keep their identity, none becomes usable, and only
\* states move towards spent, revoked or ended.
Fading ==
    /\ \A k \in Codes :
           /\ code'[k].session = code[k].session
           /\ code'[k].client = code[k].client
           /\ code'[k].scopes = code[k].scopes
           /\ code[k].state = "none" <=> code'[k].state = "none"
           /\ code[k].state = "redeemed" <=> code'[k].state = "redeemed"
           /\ Used(k) => Used(k)'
           /\ Unspent(k)' => Unspent(k)
           /\ code'[k].state = "unused" => code[k].state = "unused"
    /\ \A t \in Tokens :
           /\ token'[t].code = token[t].code
           /\ token'[t].family = token[t].family
           /\ token'[t].scopes = token[t].scopes
           /\ token[t].state = "none" <=> token'[t].state = "none"
           /\ token'[t].state = "live" => token[t].state = "live"
    /\ \A r \in Sessions \X Clients : oidc'[r] = "live" => oidc[r] = "live"

\* No account becomes disabled.
NoneDisabled == \A u \in Users : account'[u] = "DISABLED" => account[u] = "DISABLED"

\* A fading step that also leaves grants and the ghost sets alone.
Quiet == Fading /\ NoneDisabled /\ UNCHANGED <<grant, retired, killed>>

\* The three bulk updates, alone or together, create nothing.
LEMMA FadingParts ==
    ASSUME TypeOK, NEW T, NEW K, NEW R,
           Revoke(T) \/ UNCHANGED token,
           Spend(K) \/ UNCHANGED code,
           EndRows(R) \/ UNCHANGED oidc
    PROVE  Fading
<1>1. \A k \in Codes :
          /\ code'[k].session = code[k].session
          /\ code'[k].client = code[k].client
          /\ code'[k].scopes = code[k].scopes
          /\ code[k].state = "none" <=> code'[k].state = "none"
          /\ code[k].state = "redeemed" <=> code'[k].state = "redeemed"
          /\ Used(k) => Used(k)'
          /\ Unspent(k)' => Unspent(k)
          /\ code'[k].state = "unused" => code[k].state = "unused"
  <2>1. CASE Spend(K)
    BY <2>1, SpendRows DEF TypeOK
  <2>2. CASE UNCHANGED code
    BY <2>2 DEF Used, Unspent
  <2>3. QED
    BY <2>1, <2>2
<1>2. \A t \in Tokens :
          /\ token'[t].code = token[t].code
          /\ token'[t].family = token[t].family
          /\ token'[t].scopes = token[t].scopes
          /\ token[t].state = "none" <=> token'[t].state = "none"
          /\ token'[t].state = "live" => token[t].state = "live"
  BY RevokeRows DEF TypeOK
<1>3. \A r \in Sessions \X Clients : oidc'[r] = "live" => oidc[r] = "live"
  BY EndRowsRows
<1>4. QED
  BY <1>1, <1>2, <1>3 DEF Fading

\* A step of a browser that is not a consent is quiet.
LEMMA BrowserStepQuiet ==
    ASSUME TypeOK, BrowserStep
    PROVE  \/ Quiet
           \/ \E s \in Sessions, k \in Codes, c \in Clients, S \in SUBSET Scopes, e \in BOOLEAN :
                  IssueCode(k, s, c, S, e)
<1>1. ASSUME NEW s \in Sessions, NEW old, SignIn(s, old) PROVE Quiet
  BY <1>1, FadingParts DEF SignIn, Quiet, NoneDisabled, registry
<1>2. ASSUME NEW s \in Sessions, SessionExpires(s) \/ DropExpiredSession(s) PROVE Quiet
  BY <1>2, FadingParts DEF SessionExpires, DropExpiredSession, Quiet, NoneDisabled, registry
<1>3. ASSUME NEW s \in Sessions, Logout(s) \/ EndSessions(s) PROVE Quiet
  BY <1>3, FadingParts DEF Logout, EndSessions, Quiet, NoneDisabled, registry
<1>4. QED
  BY <1>1, <1>2, <1>3 DEF BrowserStep

\* A step of the authorization_code grant is quiet, or it redeems a code, or it
\* contains a replay.
LEMMA CodeStepQuiet ==
    ASSUME TypeOK, NEW w \in Workers, NEW k \in Codes, CodeStep(w, k)
    PROVE  Quiet \/ RedeemCode(w, k) \/ (Fading /\ RevokeTokensForSession(w, k))
<1>1. ASSUME NEW c \in Clients, PresentCode(w, c, k) \/ RevokePresentedAccess(w, c, k)
      PROVE  Quiet
  BY <1>1, FadingParts DEF PresentCode, RevokePresentedAccess, Quiet, NoneDisabled, registry
<1>2. CASE RedeemFindsReplay(w, k) \/ RedeemRefused(w, k)
  BY <1>2, FadingParts DEF RedeemFindsReplay, RedeemRefused, Quiet, NoneDisabled, registry
<1>3. CASE RevokeTokensForSession(w, k)
  BY <1>3, FadingParts DEF RevokeTokensForSession
<1>4. QED
  BY <1>1, <1>2, <1>3 DEF CodeStep

\* A step of the refresh_token grant is quiet, or it exchanges a token, or it
\* revokes a family.
LEMMA RefreshStepQuiet ==
    ASSUME TypeOK, NEW w \in Workers, NEW t \in Tokens, RefreshStep(w, t)
    PROVE  \/ Quiet
           \/ \E S \in SUBSET Scopes : RefreshTokens(w, t, S)
           \/ Fading /\ RevokeFamily(w, t)
<1>1. ASSUME NEW c \in Clients, RevokePresentedRefresh(w, c, t) PROVE Quiet
  BY <1>1, FadingParts DEF RevokePresentedRefresh, Quiet, NoneDisabled, registry
<1>2. ASSUME NEW c \in Clients, NEW S \in SUBSET Scopes, PresentRefresh(w, c, t, S) PROVE Quiet
  BY <1>2, FadingParts DEF PresentRefresh, Quiet, NoneDisabled, registry
<1>3. ASSUME NEW S \in SUBSET Scopes, RefreshRejected(w, t, S) PROVE Quiet
  BY <1>3, FadingParts DEF RefreshRejected, Quiet, NoneDisabled, registry
<1>4. CASE RevokeFamily(w, t)
  BY <1>4, FadingParts DEF RevokeFamily
<1>5. QED
  BY <1>1, <1>2, <1>3, <1>4 DEF RefreshStep

\* A step of a user or an administrator is quiet, or it withdraws a grant, or it
\* disables an account.
LEMMA AdminStepQuiet ==
    ASSUME TypeOK, AdminStep
    PROVE  \/ Quiet
           \/ \E u \in Users, c \in Clients : Fading /\ RevokeGrant(u, c)
           \/ \E u \in Users : Fading /\ DisableAccount(u)
<1>1. ASSUME NEW u \in Users, ReplacePassword(u) PROVE Quiet
  BY <1>1, FadingParts DEF ReplacePassword, RevokeAllCredentials, Quiet, NoneDisabled, registry
<1>2. ASSUME NEW u \in Users, DisableAccount(u) PROVE Fading
  BY <1>2, FadingParts DEF DisableAccount, RevokeAllCredentials
<1>3. ASSUME NEW u \in Users, EnableAccount(u) \/ SetRole(u) PROVE Quiet
  BY <1>3, FadingParts DEF EnableAccount, SetRole, Quiet, NoneDisabled, TypeOK
<1>4. ASSUME NEW u \in Users, NEW c \in Clients, RevokeGrant(u, c) PROVE Fading
  BY <1>4, FadingParts DEF RevokeGrant
<1>5. ASSUME NEW c \in Clients, NEW r \in Registrations, UpdateClient(c, r) PROVE Quiet
  BY <1>5, FadingParts DEF UpdateClient, Quiet, NoneDisabled
<1>6. ASSUME NEW w \in Workers, NEW c \in Clients, NEW status \in ClientStatuses,
             SetClientStatus(w, c, status)
      PROVE  Quiet
  BY <1>6, FadingParts DEF SetClientStatus, Quiet, NoneDisabled
<1>7. ASSUME NEW w \in Workers, NEW c \in Clients, DrainTokens(w, c) \/ DrainSessions(w, c)
      PROVE  Quiet
  BY <1>7, FadingParts DEF DrainTokens, DrainSessions, Quiet, NoneDisabled, registry
<1>8. QED
  BY <1>1, <1>2, <1>3, <1>4, <1>5, <1>6, <1>7 DEF AdminStep

\* Expiry and interruption are quiet.
LEMMA EnvironmentQuiet ==
    ASSUME TypeOK, ExpiryStep \/ (\E w \in Workers : Interrupted(w)) PROVE Quiet
<1>1. ASSUME NEW k \in Codes, CodeExpires(k) PROVE Quiet
  <2>1. code \in [Codes -> CodeRows] /\ code' = [code EXCEPT ![k].state = "expired"]
    BY <1>1 DEF CodeExpires, TypeOK
  <2>2. Fading
    BY <1>1, <2>1 DEF CodeExpires, Fading, CodeRows, CodeStates, Used, Unspent
  <2>3. QED
    BY <1>1, <2>2 DEF CodeExpires, Quiet, NoneDisabled, registry
<1>2. ASSUME NEW t \in Tokens, TokenExpires(t) PROVE Quiet
  <2>1. token \in [Tokens -> TokenRows] /\ token' = [token EXCEPT ![t].state = "expired"]
    BY <1>2 DEF TokenExpires, TypeOK
  <2>2. Fading
    BY <1>2, <2>1 DEF TokenExpires, Fading, TokenRows, TokenStates, Used, Unspent
  <2>3. QED
    BY <1>2, <2>2 DEF TokenExpires, Quiet, NoneDisabled, registry
<1>3. ASSUME NEW w \in Workers, Interrupted(w) PROVE Quiet
  BY <1>3, FadingParts DEF Interrupted, Quiet, NoneDisabled, registry
<1>4. QED
  BY <1>1, <1>2, <1>3 DEF ExpiryStep

\* Every step is quiet or one of the seven that create or retire credentials.
LEMMA NextCases ==
    ASSUME TypeOK, [Next]_vars
    PROVE  \/ Quiet
           \/ \E s \in Sessions, k \in Codes, c \in Clients, S \in SUBSET Scopes, e \in BOOLEAN :
                  IssueCode(k, s, c, S, e)
           \/ \E w \in Workers, k \in Codes : RedeemCode(w, k)
           \/ \E w \in Workers, t \in Tokens, S \in SUBSET Scopes : RefreshTokens(w, t, S)
           \/ \E w \in Workers, k \in Codes : Fading /\ RevokeTokensForSession(w, k)
           \/ \E w \in Workers, f \in Tokens : Fading /\ RevokeFamily(w, f)
           \/ \E u \in Users, c \in Clients : Fading /\ RevokeGrant(u, c)
           \/ \E u \in Users : Fading /\ DisableAccount(u)
<1>1. CASE UNCHANGED vars
  BY <1>1, FadingParts DEF vars, Quiet, NoneDisabled
<1>2. QED
  BY <1>1, BrowserStepQuiet, CodeStepQuiet, RefreshStepQuiet, AdminStepQuiet,
     EnvironmentQuiet DEF Next

\* What the three creating transactions do to the rows, spelled out: a consent
\* creates one code and opens one OIDC session, within the grant.
LEMMA IssueCodeRows ==
    ASSUME TypeOK, NEW s \in Sessions, NEW k \in Codes, NEW c \in Clients,
           NEW S \in SUBSET Scopes, NEW e, IssueCode(k, s, c, S, e)
    PROVE  /\ S # {} /\ code[k].state = "none"
           /\ code'[k].state = "unused" /\ code'[k].session = s
           /\ code'[k].client = c /\ code'[k].scopes = S
           /\ \A j \in Codes : j # k => code'[j] = code[j]
           /\ \A r \in Sessions \X Clients : r # <<s, c>> => oidc'[r] = oidc[r]
           /\ \A g \in Users \X Clients : grant[g] \subseteq grant'[g]
           /\ S \subseteq grant'[<<Owner[s], c>>] /\ grant'[<<Owner[s], c>>] # {}
           /\ account[Owner[s]] # "DISABLED"
           /\ UNCHANGED <<token, account, work, retired, killed>>
<1>1. code \in [Codes -> CodeRows] /\ oidc \in [Sessions \X Clients -> {"none", "live", "revoked"}]
  BY DEF TypeOK
<1>2. /\ S # {} /\ code[k].state = "none"
      /\ code'[k].state = "unused" /\ code'[k].session = s
      /\ code'[k].client = c /\ code'[k].scopes = S
      /\ \A j \in Codes : j # k => code'[j] = code[j]
      /\ \A r \in Sessions \X Clients : r # <<s, c>> => oidc'[r] = oidc[r]
      /\ UNCHANGED <<token, account, work, retired, killed>>
      /\ account[Owner[s]] # "DISABLED"
  BY <1>1 DEF IssueCode, AccountEligible, registry
<1>3. /\ \A g \in Users \X Clients : grant[g] \subseteq grant'[g]
      /\ S \subseteq grant'[<<Owner[s], c>>]
  <2>1. <<Owner[s], c>> \in Users \X Clients
    BY ConstantsAssumption
  <2>2. grant \in [Users \X Clients -> SUBSET Scopes]
    BY DEF TypeOK
  <2>3. CASE Widen(Owner[s], c, S)
    BY <2>1, <2>2, <2>3 DEF Widen
  <2>4. CASE GrantCovers(Owner[s], c, S) /\ UNCHANGED grant
    BY <2>4 DEF GrantCovers
  <2>5. QED
    BY <2>3, <2>4 DEF IssueCode
<1>4. QED
  BY <1>2, <1>3

\* A redemption claims one unspent code and stores at most one token of a new
\* family.
LEMMA RedeemCodeRows ==
    ASSUME TypeOK, NEW w \in Workers, NEW k \in Codes, RedeemCode(w, k)
    PROVE  /\ code[k].state = "unused" /\ MayHold(CodeUser(k), CodeClient(k), code[k].scopes)
           /\ code'[k].state = "redeemed" /\ code'[k].session = code[k].session
           /\ code'[k].client = code[k].client /\ code'[k].scopes = code[k].scopes
           /\ \A j \in Codes : j # k => code'[j] = code[j]
           /\ \/ UNCHANGED token
              \/ \E t \in Tokens :
                     /\ token[t].state = "none"
                     /\ token'[t].state = "live" /\ token'[t].code = k
                     /\ token'[t].family = t /\ token'[t].scopes = code[k].scopes
                     /\ \A n \in Tokens : n # t => token'[n] = token[n]
           /\ UNCHANGED <<oidc, grant, account, admins, retired, killed>>
<1>1. code \in [Codes -> CodeRows] /\ token \in [Tokens -> TokenRows]
  BY DEF TypeOK
<1>2. /\ code[k].state = "unused" /\ MayHold(CodeUser(k), CodeClient(k), code[k].scopes)
      /\ code' = [code EXCEPT ![k].state = "redeemed"]
      /\ UNCHANGED <<oidc, grant, account, admins, retired, killed>>
  BY DEF RedeemCode, ClaimableCode, Redeemable, registry
<1>3. \/ UNCHANGED token
      \/ \E t \in Tokens : /\ token[t].state = "none"
                           /\ token' = [token EXCEPT ![t] = Stored(t, k, t, code[k].scopes)]
  BY DEF RedeemCode, Exists
<1>4. /\ code'[k].state = "redeemed" /\ code'[k].session = code[k].session
      /\ code'[k].client = code[k].client /\ code'[k].scopes = code[k].scopes
      /\ \A j \in Codes : j # k => code'[j] = code[j]
  BY <1>1, <1>2 DEF CodeRows, CodeStates
<1>5. \A t \in Tokens : LET n == Stored(t, k, t, code[k].scopes) IN
          n.state = "live" /\ n.code = k /\ n.family = t /\ n.scopes = code[k].scopes
  BY DEF Stored
<1>6. QED
  BY <1>1, <1>2, <1>3, <1>4, <1>5

\* A refresh retires at most the presented token and stores at most one
\* successor of its family.
LEMMA RefreshTokensRows ==
    ASSUME TypeOK, NEW w \in Workers, NEW t \in Tokens, NEW S \in SUBSET Scopes,
           RefreshTokens(w, t, S)
    PROVE  /\ token[t].state = "live" /\ MayHold(TokenUser(t), TokenClient(t), S)
           /\ UNCHANGED admins
           /\ \/ UNCHANGED token
              \/ /\ token'[t].state = "used" /\ token'[t].code = token[t].code
                 /\ token'[t].family = token[t].family /\ token'[t].scopes = token[t].scopes
                 /\ \A n \in Tokens : n # t => token'[n] = token[n]
              \/ \E n \in Tokens :
                     /\ n # t /\ token[n].state = "none"
                     /\ token'[t].state = "used" /\ token'[t].code = token[t].code
                     /\ token'[t].family = token[t].family /\ token'[t].scopes = token[t].scopes
                     /\ token'[n].state = "live" /\ token'[n].code = token[t].code
                     /\ token'[n].family = token[t].family /\ token'[n].scopes = S
                     /\ \A m \in Tokens : m \notin {t, n} => token'[m] = token[m]
           /\ UNCHANGED <<code, oidc, grant, account, retired, killed>>
<1>1. token \in [Tokens -> TokenRows]
  BY DEF TypeOK
<1>2. /\ token[t].state = "live" /\ MayHold(TokenUser(t), TokenClient(t), S)
      /\ UNCHANGED admins
      /\ UNCHANGED <<code, oidc, grant, account, retired, killed>>
  BY DEF RefreshTokens, ClaimableToken, Refreshable, registry
<1>3. \/ UNCHANGED token
      \/ token' = Retire(t)
      \/ \E n \in Tokens :
             /\ token[n].state = "none"
             /\ token' = [Retire(t) EXCEPT ![n] = Stored(n, token[t].code, token[t].family, S)]
  BY DEF RefreshTokens, Exists
<1>4. /\ Retire(t) \in [Tokens -> TokenRows]
      /\ Retire(t)[t].state = "used" /\ Retire(t)[t].code = token[t].code
      /\ Retire(t)[t].family = token[t].family /\ Retire(t)[t].scopes = token[t].scopes
      /\ \A n \in Tokens : n # t => Retire(t)[n] = token[n]
  BY <1>1 DEF Retire, TokenRows, TokenStates
<1>5. \A n \in Tokens : LET new == Stored(n, token[t].code, token[t].family, S) IN
          /\ new.state = "live" /\ new.code = token[t].code
          /\ new.family = token[t].family /\ new.scopes = S
  BY DEF Stored
<1>6. QED
  BY <1>2, <1>3, <1>4, <1>5

-----------------------------------------------------------------------------
(* The lineage of rows *)

\* Rows stay: a code once issued, once spent, or a token once stored.
RowsPersist ==
    /\ \A k \in Codes : (code[k].state # "none" => code'[k].state # "none")
    /\ \A k \in Codes : (Used(k) => Used(k)')
    /\ \A t \in Tokens : (Exists(t) => Exists(t)' /\ token'[t].scopes = token[t].scopes)

\* No step deletes a row or makes a spent code unspent.
LEMMA NextRowsPersist == ASSUME TypeOK, [Next]_vars PROVE RowsPersist
<1>1. CASE Fading
  BY <1>1 DEF Fading, RowsPersist, Exists
<1>2. ASSUME NEW s \in Sessions, NEW k \in Codes, NEW c \in Clients,
             NEW S \in SUBSET Scopes, NEW e \in BOOLEAN, IssueCode(k, s, c, S, e)
      PROVE  RowsPersist
  BY <1>2, IssueCodeRows DEF RowsPersist, Used, Exists
<1>3. ASSUME NEW w \in Workers, NEW k \in Codes, RedeemCode(w, k) PROVE RowsPersist
  BY <1>3, RedeemCodeRows DEF RowsPersist, Used, Exists
<1>4. ASSUME NEW w \in Workers, NEW t \in Tokens, NEW S \in SUBSET Scopes, RefreshTokens(w, t, S)
      PROVE  RowsPersist
  BY <1>4, RefreshTokensRows DEF RowsPersist, Used, Exists
<1>5. QED
  BY <1>1, <1>2, <1>3, <1>4, NextCases DEF Quiet

\* Work that was grounded stays grounded while rows stay.
LEMMA GroundedKept ==
    ASSUME NEW item \in WorkItems, Grounded(item), RowsPersist PROVE Grounded(item)'
BY DEF WorkItems, Idle, Grounded, RowsPersist

\* What a worker takes on names rows that are there.
LEMMA WorkGrounded ==
    ASSUME TypeOK, Lineage, [Next]_vars, NEW w \in Workers PROVE Grounded(work[w])'
<1> DEFINE Takes(v, item) == work' = [work EXCEPT ![v] = item]
<1>1. RowsPersist
  BY NextRowsPersist
<1>2. work \in [Workers -> WorkItems] /\ Grounded(work[w])
  BY DEF TypeOK, Lineage
<1>3. ASSUME NEW v \in Workers, NEW item, Grounded(item)', Takes(v, item)
      PROVE  Grounded(work[w])'
  <2>1. CASE w = v
    BY <1>2, <1>3, <2>1
  <2>2. CASE w # v
    BY <1>1, <1>2, <1>3, <2>2, GroundedKept
  <2>3. QED
    BY <2>1, <2>2
<1>4. CASE UNCHANGED work
  BY <1>1, <1>2, <1>4, GroundedKept
<1>5. Grounded(Idle)' /\ \A c \in Clients :
          Grounded(PendingDrainTokens(c))' /\ Grounded(PendingDrainSessions(c))'
  BY DEF Grounded, Idle, PendingDrainTokens, PendingDrainSessions
<1>6. /\ \A k \in Codes : code[k].state # "none" => Grounded(PendingRedeem(k))'
      /\ \A k \in Codes : Used(k) => Grounded(PendingContain(k))'
      /\ \A t \in Tokens : \A S : Exists(t) /\ S \subseteq token[t].scopes =>
             Grounded(PendingRefresh(t, S))'
      /\ \A f \in Tokens : Exists(f) => Grounded(PendingFamily(f))'
  BY <1>1 DEF Grounded, RowsPersist, PendingRedeem, PendingContain, PendingRefresh,
     PendingFamily
<1>7. \A t \in Tokens : Exists(t) => token[t].family \in Tokens /\ Exists(token[t].family)
  BY DEF Lineage, TokensSound
<1>8. CASE BrowserStep
  <2>1. UNCHANGED work
    BY <1>8, ZenonT(60) DEF BrowserStep, SignIn, SessionExpires, DropExpiredSession, Logout,
       EndSessions, IssueCode
  <2>2. QED
    BY <1>4, <2>1
<1>9. ASSUME NEW v \in Workers, NEW k \in Codes, CodeStep(v, k) PROVE Grounded(work[w])'
  <2>1. ASSUME NEW c \in Clients, PresentCode(v, c, k) PROVE Grounded(work[w])'
    BY <1>3, <1>4, <1>6, <2>1 DEF PresentCode, Continue
  <2>2. ASSUME NEW c \in Clients, RevokePresentedAccess(v, c, k) PROVE Grounded(work[w])'
    BY <1>3, <1>6, <2>2 DEF RevokePresentedAccess, Begin, Used
  <2>3. CASE RedeemCode(v, k) \/ RedeemRefused(v, k) \/ RevokeTokensForSession(v, k)
    BY <1>3, <1>5, <2>3 DEF RedeemCode, RedeemRefused, RevokeTokensForSession, Finish
  <2>4. CASE RedeemFindsReplay(v, k)
    BY <1>3, <1>6, <2>4 DEF RedeemFindsReplay, Continue
  <2>5. QED
    BY <1>9, <2>1, <2>2, <2>3, <2>4 DEF CodeStep
<1>10. ASSUME NEW v \in Workers, NEW t \in Tokens, RefreshStep(v, t) PROVE Grounded(work[w])'
  <2>1. ASSUME NEW c \in Clients, RevokePresentedRefresh(v, c, t) PROVE Grounded(work[w])'
    BY <1>3, <1>6, <1>7, <2>1 DEF RevokePresentedRefresh, Begin
  <2>2. ASSUME NEW c \in Clients, NEW S \in SUBSET Scopes, PresentRefresh(v, c, t, S)
        PROVE  Grounded(work[w])'
    BY <1>3, <1>6, <1>7, <2>2 DEF PresentRefresh, Begin
  <2>3. ASSUME NEW S \in SUBSET Scopes, RefreshTokens(v, t, S) PROVE Grounded(work[w])'
    BY <1>3, <1>5, <2>3 DEF RefreshTokens, Finish
  <2>4. ASSUME NEW S \in SUBSET Scopes, RefreshRejected(v, t, S) PROVE Grounded(work[w])'
    <3>1. Exists(t)
      BY <2>4 DEF RefreshRejected, Lineage, Grounded, PendingRefresh
    <3>2. QED
      BY <1>3, <1>5, <1>6, <1>7, <2>4, <3>1 DEF RefreshRejected, Continue, Finish
  <2>5. CASE RevokeFamily(v, t)
    BY <1>3, <1>5, <2>5 DEF RevokeFamily, Finish
  <2>6. QED
    BY <1>10, <2>1, <2>2, <2>3, <2>4, <2>5 DEF RefreshStep
<1>11. CASE AdminStep
  <2>1. ASSUME NEW v \in Workers, NEW c \in Clients, NEW status, SetClientStatus(v, c, status)
        PROVE  Grounded(work[w])'
    BY <1>3, <1>4, <1>5, <2>1 DEF SetClientStatus, Begin
  <2>2. ASSUME NEW v \in Workers, NEW c \in Clients, DrainTokens(v, c) \/ DrainSessions(v, c)
        PROVE  Grounded(work[w])'
    BY <1>3, <1>5, <2>2 DEF DrainTokens, DrainSessions, Continue, Finish
  <2>3. UNCHANGED work \/ \E v \in Workers, c \in Clients :
            \/ \E status \in ClientStatuses : SetClientStatus(v, c, status)
            \/ DrainTokens(v, c) \/ DrainSessions(v, c)
    BY <1>11 DEF AdminStep, ReplacePassword, DisableAccount, EnableAccount, SetRole,
       RevokeGrant, UpdateClient, RevokeAllCredentials
  <2>4. QED
    BY <1>4, <2>1, <2>2, <2>3
<1>12. CASE ExpiryStep \/ UNCHANGED vars
  BY <1>4, <1>12 DEF ExpiryStep, CodeExpires, TokenExpires, vars
<1>13. ASSUME NEW v \in Workers, Interrupted(v) PROVE Grounded(work[w])'
  BY <1>3, <1>5, <1>13 DEF Interrupted, Finish
<1>14. QED
  BY <1>8, <1>9, <1>10, <1>11, <1>12, <1>13 DEF Next

\* Every step preserves where rows come from.
LEMMA LineageStep ==
    ASSUME TypeOK, Lineage, [Next]_vars PROVE Lineage'
<1>1. CodesSound /\ TokensSound /\ GhostsSound
  BY DEF Lineage
<1>2. RowsPersist /\ retired \subseteq Codes /\ killed \subseteq Tokens
  BY NextRowsPersist DEF TypeOK
<1>3. ASSUME Fading PROVE CodesSound' /\ TokensSound'
  <2>1. CodesSound'
    BY <1>1, <1>3 DEF Fading, CodesSound, CodeSession, CodeClient
  <2>2. TokensSound'
    BY <1>1, <1>3 DEF Fading, TokensSound, Exists
  <2>3. QED
    BY <2>1, <2>2
<1>4. ASSUME NEW s \in Sessions, NEW k \in Codes, NEW c \in Clients,
             NEW S \in SUBSET Scopes, NEW e \in BOOLEAN, IssueCode(k, s, c, S, e)
      PROVE  CodesSound' /\ TokensSound'
  <2>1. /\ S # {} /\ code[k].state = "none" /\ code'[k].session = s
        /\ code'[k].client = c /\ code'[k].scopes = S
        /\ \A j \in Codes : j # k => code'[j] = code[j]
        /\ UNCHANGED token
    <3>1. S # {} /\ code[k].state = "none" /\ UNCHANGED token
      BY <1>4 DEF IssueCode
    <3>2. code' = [code EXCEPT ![k] = [state |-> "unused", session |-> s,
                                       client |-> c, scopes |-> S]]
      BY <1>4 DEF IssueCode
    <3>3. code \in [Codes -> CodeRows]
      BY DEF TypeOK
    <3>4. QED
      BY <3>1, <3>2, <3>3
  <2>2. CodesSound'
    BY <1>1, <2>1 DEF CodesSound, CodeSession, CodeClient
  <2>3. TokensSound'
    BY <1>1, <2>1 DEF TokensSound, Exists
  <2>4. QED
    BY <2>2, <2>3
<1>5. ASSUME NEW w \in Workers, NEW k \in Codes, RedeemCode(w, k)
      PROVE  CodesSound' /\ TokensSound'
  BY <1>1, <1>5, RedeemCodeRows DEF CodesSound, TokensSound, CodeSession, CodeClient, Exists
<1>6. ASSUME NEW w \in Workers, NEW t \in Tokens, NEW S \in SUBSET Scopes, RefreshTokens(w, t, S)
      PROVE  CodesSound' /\ TokensSound'
  BY <1>1, <1>6, RefreshTokensRows DEF CodesSound, TokensSound, CodeSession, CodeClient, Exists
<1>7. CodesSound' /\ TokensSound'
  BY <1>3, <1>4, <1>5, <1>6, NextCases DEF Quiet
<1>8. GhostsSound'
  <2>1. CASE UNCHANGED <<retired, killed>>
    BY <1>1, <1>2, <2>1 DEF RowsPersist, GhostsSound
  <2>2. ASSUME NEW w \in Workers, NEW k \in Codes, RevokeTokensForSession(w, k) PROVE GhostsSound'
    <3>1. Used(k)
      BY <2>2 DEF RevokeTokensForSession, Lineage, Grounded, PendingContain
    <3>2. \A j \in DescendantsEnded(CodeSession(k), CodeClient(k)) : j \in Codes /\ Used(j)
      BY DEF DescendantsEnded, Used
    <3>3. \A j \in retired' : j \in Codes /\ Used(j)
      BY <1>1, <1>2, <2>2, <3>1, <3>2 DEF RevokeTokensForSession, GhostsSound
    <3>4. killed' = killed
      BY <2>2 DEF RevokeTokensForSession
    <3>5. QED
      BY <1>1, <1>2, <3>3, <3>4 DEF RowsPersist, GhostsSound
  <2>3. ASSUME NEW w \in Workers, NEW f \in Tokens, RevokeFamily(w, f) PROVE GhostsSound'
    <3>1. Exists(f)
      BY <2>3 DEF RevokeFamily, Lineage, Grounded, PendingFamily
    <3>2. QED
      BY <1>1, <1>2, <2>3, <3>1 DEF RevokeFamily, RowsPersist, GhostsSound
  <2>4. \/ UNCHANGED <<retired, killed>>
        \/ \E w \in Workers, k \in Codes : RevokeTokensForSession(w, k)
        \/ \E w \in Workers, f \in Tokens : RevokeFamily(w, f)
    BY NextCases, ZenonT(60) DEF Quiet, IssueCode, RedeemCode, RefreshTokens, RevokeGrant,
       DisableAccount, RevokeAllCredentials
  <2>5. QED
    BY <2>1, <2>2, <2>3, <2>4
<1>9. \A w \in Workers : Grounded(work[w])'
  BY WorkGrounded
<1>10. QED
  BY <1>7, <1>8, <1>9 DEF Lineage

-----------------------------------------------------------------------------
(* Consent bounds every credential *)

\* Where the grant of a code or a token is looked up.
LEMMA Places ==
    ASSUME TypeOK, Lineage
    PROVE  /\ \A k \in Codes : code[k].state # "none" =>
                  <<CodeUser(k), CodeClient(k)>> \in Users \X Clients
           /\ \A t \in Tokens : Exists(t) =>
                  /\ token[t].code \in Codes
                  /\ code[token[t].code].state = "redeemed"
                  /\ <<TokenUser(t), TokenClient(t)>> \in Users \X Clients
BY ConstantsAssumption DEF Lineage, CodesSound, TokensSound, CodeUser, CodeClient, CodeSession,
   TokenUser, TokenClient

\* The same places after a step: rows that were there have not moved.
LEMMA PlacesKept ==
    ASSUME TypeOK, Lineage, [Next]_vars
    PROVE  /\ \A k \in Codes : code[k].state # "none" =>
                  /\ CodeUser(k)' = CodeUser(k) /\ CodeClient(k)' = CodeClient(k)
                  /\ code'[k].scopes = code[k].scopes /\ (Unspent(k)' => Unspent(k))
           /\ \A t \in Tokens : Exists(t) =>
                  /\ TokenUser(t)' = TokenUser(t) /\ TokenClient(t)' = TokenClient(t)
                  /\ token'[t].code = token[t].code
                  /\ token'[t].family = token[t].family
                  /\ token'[t].scopes = token[t].scopes
                  /\ (token'[t].state = "live" => token[t].state = "live")
<1>1. \A k \in Codes : code[k].state # "none" =>
          /\ code'[k].session = code[k].session /\ code'[k].client = code[k].client
          /\ code'[k].scopes = code[k].scopes /\ (Unspent(k)' => Unspent(k))
  <2>1. CASE Fading
    BY <2>1 DEF Fading
  <2>2. ASSUME NEW s \in Sessions, NEW k \in Codes, NEW c \in Clients,
               NEW S \in SUBSET Scopes, NEW e \in BOOLEAN, IssueCode(k, s, c, S, e),
               NEW j \in Codes, code[j].state # "none"
        PROVE  code'[j] = code[j]
    BY <2>2, IssueCodeRows
  <2>3. ASSUME NEW w \in Workers, NEW k \in Codes, RedeemCode(w, k), NEW j \in Codes
        PROVE  /\ code'[j].session = code[j].session /\ code'[j].client = code[j].client
               /\ code'[j].scopes = code[j].scopes /\ (Unspent(j)' => Unspent(j))
    BY <2>3, RedeemCodeRows DEF Unspent
  <2>4. ASSUME NEW w \in Workers, NEW t \in Tokens, NEW S \in SUBSET Scopes, RefreshTokens(w, t, S)
        PROVE  UNCHANGED code
    BY <2>4 DEF RefreshTokens
  <2>5. QED
    BY <2>1, <2>2, <2>3, <2>4, NextCases DEF Quiet, Unspent
<1>2. \A t \in Tokens : Exists(t) =>
          /\ token'[t].code = token[t].code /\ token'[t].family = token[t].family
          /\ token'[t].scopes = token[t].scopes
          /\ (token'[t].state = "live" => token[t].state = "live")
  <2>1. CASE Fading
    BY <2>1 DEF Fading
  <2>2. ASSUME NEW s \in Sessions, NEW k \in Codes, NEW c \in Clients,
               NEW S \in SUBSET Scopes, NEW e \in BOOLEAN, IssueCode(k, s, c, S, e)
        PROVE  UNCHANGED token
    BY <2>2 DEF IssueCode
  <2>3. ASSUME NEW w \in Workers, NEW k \in Codes, RedeemCode(w, k),
               NEW t \in Tokens, Exists(t)
        PROVE  token'[t] = token[t]
    BY <2>3, RedeemCodeRows DEF Exists
  <2>4. ASSUME NEW w \in Workers, NEW n \in Tokens, NEW S \in SUBSET Scopes,
               RefreshTokens(w, n, S), NEW t \in Tokens, Exists(t)
        PROVE  /\ token'[t].code = token[t].code /\ token'[t].family = token[t].family
               /\ token'[t].scopes = token[t].scopes
               /\ (token'[t].state = "live" => token[t].state = "live")
    BY <2>4, RefreshTokensRows DEF Exists
  <2>5. QED
    BY <2>1, <2>2, <2>3, <2>4, NextCases DEF Quiet
<1>3. QED
  BY <1>1, <1>2, Places, ZenonT(60) DEF CodeUser, CodeClient, CodeSession, TokenUser, TokenClient

\* While no grant shrinks, what was covered stays covered.
LEMMA CoverKept ==
    ASSUME TypeOK, Lineage, CoveredByGrant, [Next]_vars,
           \A g \in Users \X Clients : grant[g] \subseteq grant'[g]
    PROVE  /\ \A k \in Codes : code[k].state # "none" /\ Unspent(k)' =>
                  GrantCovers(CodeUser(k), CodeClient(k), code[k].scopes)'
           /\ \A t \in Tokens : Exists(t) /\ token'[t].state = "live" =>
                  GrantCovers(TokenUser(t), TokenClient(t), token[t].scopes)'
           /\ \A s \in Sessions, c \in Clients :
                  oidc[<<s, c>>] = "live" => grant'[<<Owner[s], c>>] # {}
<1>1. ASSUME NEW k \in Codes, code[k].state # "none", Unspent(k)'
      PROVE  GrantCovers(CodeUser(k), CodeClient(k), code[k].scopes)'
  <2>1. /\ <<CodeUser(k), CodeClient(k)>> \in Users \X Clients
        /\ CodeUser(k)' = CodeUser(k) /\ CodeClient(k)' = CodeClient(k)
        /\ code'[k].scopes = code[k].scopes /\ Unspent(k)
    BY <1>1, Places, PlacesKept
  <2>2. GrantCovers(CodeUser(k), CodeClient(k), code[k].scopes)
    BY <2>1 DEF CoveredByGrant
  <2>3. QED
    BY <2>1, <2>2 DEF GrantCovers
<1>2. ASSUME NEW t \in Tokens, Exists(t), token'[t].state = "live"
      PROVE  GrantCovers(TokenUser(t), TokenClient(t), token[t].scopes)'
  <2>1. /\ <<TokenUser(t), TokenClient(t)>> \in Users \X Clients
        /\ TokenUser(t)' = TokenUser(t) /\ TokenClient(t)' = TokenClient(t)
        /\ token'[t].scopes = token[t].scopes /\ token[t].state = "live"
    BY <1>2, Places, PlacesKept
  <2>2. GrantCovers(TokenUser(t), TokenClient(t), token[t].scopes)
    BY <2>1 DEF CoveredByGrant
  <2>3. QED
    BY <2>1, <2>2 DEF GrantCovers
<1>3. ASSUME NEW s \in Sessions, NEW c \in Clients, oidc[<<s, c>>] = "live"
      PROVE  grant'[<<Owner[s], c>>] # {}
  <2>1. <<Owner[s], c>> \in Users \X Clients
    BY ConstantsAssumption
  <2>2. grant[<<Owner[s], c>>] # {}
    BY <1>3 DEF CoveredByGrant
  <2>3. QED
    BY <2>1, <2>2
<1>4. QED
  BY <1>1, <1>2, <1>3

\* Every step keeps credentials within the user's grants.
LEMMA CoveredByGrantStep ==
    ASSUME TypeOK, Lineage, CoveredByGrant, [Next]_vars PROVE CoveredByGrant'
<1> DEFINE CodeCovered(k) == Unspent(k)' => GrantCovers(CodeUser(k), CodeClient(k), code[k].scopes)'
           TokenCovered(t) ==
               token'[t].state = "live" => GrantCovers(TokenUser(t), TokenClient(t), token[t].scopes)'
           RowCovered(s, c) == oidc'[<<s, c>>] = "live" => grant'[<<Owner[s], c>>] # {}
<1>1. SUFFICES /\ \A k \in Codes : CodeCovered(k)
               /\ \A t \in Tokens : TokenCovered(t)
               /\ \A s \in Sessions, c \in Clients : RowCovered(s, c)
  BY DEF CoveredByGrant
<1>2. ASSUME Fading, UNCHANGED grant
      PROVE  /\ \A k \in Codes : CodeCovered(k)
             /\ \A t \in Tokens : TokenCovered(t)
             /\ \A s \in Sessions, c \in Clients : RowCovered(s, c)
  <2>1. \A g \in Users \X Clients : grant[g] \subseteq grant'[g]
    BY <1>2
  <2>2. /\ \A k \in Codes : Unspent(k)' => code[k].state # "none"
        /\ \A t \in Tokens : token'[t].state = "live" => Exists(t)
        /\ \A s \in Sessions, c \in Clients : oidc'[<<s, c>>] = "live" => oidc[<<s, c>>] = "live"
    BY <1>2 DEF Fading, Unspent, Exists
  <2>3. QED
    BY <2>1, <2>2, CoverKept
<1>3. ASSUME NEW s \in Sessions, NEW k \in Codes, NEW c \in Clients,
             NEW S \in SUBSET Scopes, NEW e \in BOOLEAN, IssueCode(k, s, c, S, e)
      PROVE  /\ \A j \in Codes : CodeCovered(j)
             /\ \A t \in Tokens : TokenCovered(t)
             /\ \A r \in Sessions, d \in Clients : RowCovered(r, d)
  <2>1. \A g \in Users \X Clients : grant[g] \subseteq grant'[g]
    BY <1>3, IssueCodeRows
  <2>2. CodeCovered(k)
    <3>1. code'[k].session = s /\ code'[k].client = c /\ code'[k].scopes = S
      BY <1>3 DEF IssueCode, TypeOK
    <3>2. S \subseteq grant'[<<Owner[s], c>>] /\ grant'[<<Owner[s], c>>] # {}
      BY <1>3, IssueCodeRows
    <3>3. QED
      BY <3>1, <3>2 DEF GrantCovers, CodeUser, CodeClient
  <2>3. \A j \in Codes : j # k => CodeCovered(j)
    <3>1. ASSUME NEW j \in Codes, j # k, Unspent(j)' PROVE code[j].state # "none"
      BY <1>3, <3>1, IssueCodeRows DEF Unspent
    <3>2. QED
      BY <2>1, <3>1, CoverKept
  <2>4. \A t \in Tokens : TokenCovered(t)
    <3>1. UNCHANGED token
      BY <1>3 DEF IssueCode
    <3>2. \A t \in Tokens : token'[t].state = "live" => Exists(t)
      BY <3>1 DEF Exists
    <3>3. QED
      BY <2>1, <3>2, CoverKept
  <2>5. RowCovered(s, c)
    BY <1>3, IssueCodeRows
  <2>6. \A r \in Sessions, d \in Clients : RowCovered(r, d)
    <3>1. ASSUME NEW r \in Sessions, NEW d \in Clients, <<r, d>> # <<s, c>>
          PROVE  oidc'[<<r, d>>] = oidc[<<r, d>>]
      BY <1>3, <3>1 DEF IssueCode, TypeOK
    <3>2. QED
      BY <2>1, <2>5, <3>1, CoverKept
  <2>7. QED
    BY <2>2, <2>3, <2>4, <2>6
<1>4. ASSUME NEW w \in Workers, NEW k \in Codes, RedeemCode(w, k)
      PROVE  /\ \A j \in Codes : CodeCovered(j)
             /\ \A t \in Tokens : TokenCovered(t)
             /\ \A r \in Sessions, d \in Clients : RowCovered(r, d)
  <2>1. UNCHANGED <<grant, oidc>>
    BY <1>4, RedeemCodeRows
  <2>2. \A g \in Users \X Clients : grant[g] \subseteq grant'[g]
    BY <2>1
  <2>3. \A j \in Codes : CodeCovered(j)
    <3>1. ASSUME NEW j \in Codes, Unspent(j)' PROVE code[j].state # "none"
      BY <1>4, <3>1, RedeemCodeRows DEF Unspent
    <3>2. QED
      BY <2>2, <3>1, CoverKept
  <2>4. ASSUME NEW t \in Tokens, ~Exists(t), token'[t].state = "live" PROVE TokenCovered(t)
    <3>1. /\ token'[t].code = k /\ token'[t].scopes = code[k].scopes
          /\ code'[k].client = code[k].client /\ code'[k].session = code[k].session
          /\ GrantCovers(CodeUser(k), CodeClient(k), code[k].scopes)
      BY <1>4, <2>4, RedeemCodeRows DEF Exists, MayHold
    <3>2. QED
      BY <2>1, <3>1 DEF GrantCovers, TokenUser, TokenClient, CodeUser, CodeClient, CodeSession
  <2>5. QED
    BY <2>1, <2>2, <2>3, <2>4, CoverKept
<1>5. ASSUME NEW w \in Workers, NEW t \in Tokens, NEW S \in SUBSET Scopes, RefreshTokens(w, t, S)
      PROVE  /\ \A j \in Codes : CodeCovered(j)
             /\ \A n \in Tokens : TokenCovered(n)
             /\ \A r \in Sessions, d \in Clients : RowCovered(r, d)
  <2>1. UNCHANGED <<grant, oidc, code>>
    BY <1>5, RefreshTokensRows
  <2>2. \A g \in Users \X Clients : grant[g] \subseteq grant'[g]
    BY <2>1
  <2>3. \A j \in Codes : CodeCovered(j)
    <3>1. ASSUME NEW j \in Codes, Unspent(j)' PROVE code[j].state # "none"
      BY <2>1, <3>1 DEF Unspent
    <3>2. QED
      BY <2>2, <3>1, CoverKept
  <2>4. ASSUME NEW n \in Tokens, ~Exists(n), token'[n].state = "live" PROVE TokenCovered(n)
    <3>1. /\ token'[n].code = token[t].code /\ token'[n].scopes = S
          /\ GrantCovers(TokenUser(t), TokenClient(t), S)
      BY <1>5, <2>4, RefreshTokensRows DEF Exists, MayHold
    <3>2. QED
      BY <2>1, <3>1 DEF GrantCovers, TokenUser, TokenClient, CodeUser, CodeClient, CodeSession
  <2>5. QED
    BY <2>1, <2>2, <2>3, <2>4, CoverKept
<1>6. ASSUME NEW u \in Users, NEW c \in Clients, Fading, RevokeGrant(u, c)
      PROVE  /\ \A k \in Codes : CodeCovered(k)
             /\ \A t \in Tokens : TokenCovered(t)
             /\ \A s \in Sessions, d \in Clients : RowCovered(s, d)
  <2>1. \A g \in Users \X Clients : g # <<u, c>> => grant'[g] = grant[g]
    BY <1>6 DEF RevokeGrant, TypeOK
  <2>2. ASSUME NEW k \in Codes, Unspent(k)'
        PROVE  GrantCovers(CodeUser(k), CodeClient(k), code[k].scopes)'
    <3>1. Unspent(k) /\ code[k].state # "none" /\ k \notin CodesOfGrant(u, c)
      BY <1>6, <2>2, SpendRows DEF RevokeGrant, TypeOK, Unspent
    <3>2. /\ <<CodeUser(k), CodeClient(k)>> \in Users \X Clients
          /\ CodeUser(k)' = CodeUser(k) /\ CodeClient(k)' = CodeClient(k)
          /\ code'[k].scopes = code[k].scopes
      BY <3>1, Places, PlacesKept
    <3>3. <<CodeUser(k), CodeClient(k)>> # <<u, c>>
      BY <3>1 DEF CodesOfGrant, CodesOfUser
    <3>4. GrantCovers(CodeUser(k), CodeClient(k), code[k].scopes)
      BY <3>1 DEF CoveredByGrant
    <3>5. QED
      BY <2>1, <3>2, <3>3, <3>4 DEF GrantCovers
  <2>3. ASSUME NEW t \in Tokens, token'[t].state = "live"
        PROVE  GrantCovers(TokenUser(t), TokenClient(t), token[t].scopes)'
    <3>1. token[t].state = "live" /\ Exists(t) /\ t \notin TokensOfGrant(u, c)
      BY <1>6, <2>3, RevokeRows DEF RevokeGrant, TypeOK, Fading, Exists
    <3>2. /\ <<TokenUser(t), TokenClient(t)>> \in Users \X Clients
          /\ TokenUser(t)' = TokenUser(t) /\ TokenClient(t)' = TokenClient(t)
          /\ token'[t].scopes = token[t].scopes
      BY <3>1, Places, PlacesKept
    <3>3. <<TokenUser(t), TokenClient(t)>> # <<u, c>>
      BY <3>1 DEF TokensOfGrant, TokensOfUser
    <3>4. GrantCovers(TokenUser(t), TokenClient(t), token[t].scopes)
      BY <3>1 DEF CoveredByGrant
    <3>5. QED
      BY <2>1, <3>2, <3>3, <3>4 DEF GrantCovers
  <2>4. ASSUME NEW s \in Sessions, NEW d \in Clients, oidc'[<<s, d>>] = "live"
        PROVE  grant'[<<Owner[s], d>>] # {}
    <3>1. oidc[<<s, d>>] = "live" /\ <<s, d>> \notin RowsOfGrant(u, c)
      BY <1>6, <2>4, EndRowsRows DEF RevokeGrant
    <3>2. <<Owner[s], d>> \in Users \X Clients /\ <<Owner[s], d>> # <<u, c>>
      BY <3>1, ConstantsAssumption DEF RowsOfGrant, RowsOfUser
    <3>3. QED
      BY <2>1, <3>1, <3>2 DEF CoveredByGrant
  <2>5. QED
    BY <2>2, <2>3, <2>4
<1>7. ASSUME NEW u \in Users, DisableAccount(u) PROVE UNCHANGED grant
  BY <1>7 DEF DisableAccount, RevokeAllCredentials
<1>8. ASSUME NEW w \in Workers, NEW x,
             RevokeTokensForSession(w, x) \/ RevokeFamily(w, x)
      PROVE  UNCHANGED grant
  BY <1>8 DEF RevokeTokensForSession, RevokeFamily
<1>9. QED
  BY <1>2, <1>3, <1>4, <1>5, <1>6, <1>7, <1>8, NextCases DEF Quiet

-----------------------------------------------------------------------------
(* A disabled account holds nothing *)

\* No step hands a disabled account a credential, and disabling leaves none.
LEMMA DisabledAccountStep ==
    ASSUME TypeOK, Lineage, DisabledAccountHoldsNothing, [Next]_vars
    PROVE  DisabledAccountHoldsNothing'
<1> DEFINE Holds(u) == \/ \E k \in Codes : code[k].state # "none" /\ CodeUser(k) = u /\ Unspent(k)
                       \/ \E t \in Tokens : TokenUser(t) = u /\ token[t].state = "live"
                       \/ \E s \in Sessions, c \in Clients : Owner[s] = u /\ oidc[<<s, c>>] = "live"
<1>1. \A u \in Users : account[u] = "DISABLED" => ~Holds(u)
  BY DEF DisabledAccountHoldsNothing, CodesOfUser, TokensOfUser, RowsOfUser, Exists
<1>2. SUFFICES \A u \in Users : account'[u] = "DISABLED" => ~Holds(u)'
  BY DEF DisabledAccountHoldsNothing, CodesOfUser, TokensOfUser, RowsOfUser, Exists
<1>3. ASSUME Fading, NEW u \in Users, Holds(u)' PROVE Holds(u)
  <2>1. ASSUME NEW k \in Codes, CodeUser(k)' = u, Unspent(k)' PROVE Holds(u)
    <3>1. Unspent(k) /\ CodeUser(k) = u /\ code[k].state # "none"
      BY <1>3, <2>1 DEF Fading, Unspent, CodeUser
    <3>2. QED
      BY <3>1
  <2>2. ASSUME NEW t \in Tokens, TokenUser(t)' = u, token'[t].state = "live" PROVE Holds(u)
    <3>1. Exists(t) /\ token[t].state = "live"
      BY <1>3, <2>2 DEF Fading, Exists
    <3>2. TokenUser(t)' = TokenUser(t)
      BY <3>1, PlacesKept
    <3>3. QED
      BY <2>2, <3>1, <3>2
  <2>3. ASSUME NEW s \in Sessions, NEW c \in Clients, Owner[s] = u, oidc'[<<s, c>>] = "live"
        PROVE  Holds(u)
    BY <1>3, <2>3 DEF Fading
  <2>4. QED
    BY <1>3, <2>1, <2>2, <2>3
<1>4. ASSUME Fading, NoneDisabled, NEW u \in Users, account'[u] = "DISABLED" PROVE ~Holds(u)'
  BY <1>1, <1>3, <1>4 DEF NoneDisabled
<1>5. ASSUME NEW s \in Sessions, NEW k \in Codes, NEW c \in Clients,
             NEW S \in SUBSET Scopes, NEW e \in BOOLEAN, IssueCode(k, s, c, S, e),
             NEW u \in Users, account'[u] = "DISABLED"
      PROVE  ~Holds(u)'
  <2>1. /\ code \in [Codes -> CodeRows]
        /\ oidc \in [Sessions \X Clients -> {"none", "live", "revoked"}]
    BY DEF TypeOK
  <2>2. /\ code' = [code EXCEPT ![k] = [state |-> "unused", session |-> s,
                                        client |-> c, scopes |-> S]]
        /\ oidc' = [oidc EXCEPT ![<<s, c>>] = "live"]
        /\ UNCHANGED <<token, account>> /\ account[Owner[s]] # "DISABLED"
    BY <1>5 DEF IssueCode, AccountEligible, registry
  <2>3. Owner[s] # u /\ ~Holds(u)
    BY <1>1, <1>5, <2>2
  <2>4. ASSUME NEW j \in Codes, CodeUser(j)' = u, Unspent(j)' PROVE FALSE
    <3>1. j # k
      BY <2>1, <2>2, <2>3, <2>4 DEF CodeUser
    <3>2. code'[j] = code[j]
      BY <2>1, <2>2, <3>1
    <3>3. QED
      BY <2>3, <2>4, <3>2 DEF CodeUser, Unspent
  <2>5. ASSUME NEW t \in Tokens, TokenUser(t)' = u, token'[t].state = "live" PROVE FALSE
    <3>1. token[t].state = "live" /\ Exists(t)
      BY <2>2, <2>5 DEF Exists
    <3>2. QED
      BY <2>3, <2>5, <3>1, PlacesKept
  <2>6. ASSUME NEW r \in Sessions, NEW d \in Clients, Owner[r] = u, oidc'[<<r, d>>] = "live"
        PROVE  FALSE
    <3>1. <<r, d>> # <<s, c>>
      BY <2>3, <2>6
    <3>2. oidc'[<<r, d>>] = oidc[<<r, d>>]
      BY <2>1, <2>2, <3>1
    <3>3. QED
      BY <2>3, <2>6, <3>2
  <2>7. QED
    BY <2>4, <2>5, <2>6
<1>6. ASSUME NEW u \in Users, ~Holds(u), UNCHANGED oidc, 
             \A k \in Codes : Unspent(k)' => Unspent(k) /\ CodeUser(k)' = CodeUser(k),
             \A t \in Tokens : ~Exists(t) /\ token'[t].state = "live" => TokenUser(t)' # u
      PROVE  ~Holds(u)'
  <2>1. ASSUME NEW k \in Codes, CodeUser(k)' = u, Unspent(k)' PROVE FALSE
    <3>1. Unspent(k) /\ CodeUser(k) = u /\ code[k].state # "none"
      BY <1>6, <2>1 DEF Unspent
    <3>2. QED
      BY <1>6, <3>1
  <2>2. ASSUME NEW t \in Tokens, TokenUser(t)' = u, token'[t].state = "live" PROVE FALSE
    <3>1. Exists(t)
      BY <1>6, <2>2
    <3>2. TokenUser(t)' = TokenUser(t) /\ token[t].state = "live"
      BY <2>2, <3>1, PlacesKept
    <3>3. QED
      BY <1>6, <2>2, <3>2
  <2>3. QED
    BY <1>6, <2>1, <2>2
<1>7. ASSUME NEW w \in Workers, NEW k \in Codes, RedeemCode(w, k),
             NEW u \in Users, account'[u] = "DISABLED"
      PROVE  ~Holds(u)'
  <2>1. /\ UNCHANGED <<oidc, account>> /\ account[CodeUser(k)] # "DISABLED"
        /\ code'[k].session = code[k].session /\ code'[k].state = "redeemed"
        /\ \A j \in Codes : j # k => code'[j] = code[j]
    BY <1>7, RedeemCodeRows DEF MayHold, AccountEligible
  <2>2. ASSUME NEW j \in Codes, Unspent(j)' PROVE Unspent(j) /\ CodeUser(j)' = CodeUser(j)
    BY <2>1, <2>2 DEF Unspent, CodeUser
  <2>3. ASSUME NEW t \in Tokens, ~Exists(t), token'[t].state = "live" PROVE TokenUser(t)' # u
    <3>1. token'[t].code = k
      BY <1>7, <2>3, RedeemCodeRows DEF Exists
    <3>2. TokenUser(t)' = CodeUser(k)
      BY <2>1, <3>1 DEF TokenUser, CodeUser
    <3>3. QED
      BY <1>7, <2>1, <3>2
  <2>4. ~Holds(u)
    BY <1>1, <1>7, <2>1
  <2>5. QED
    BY <1>6, <2>1, <2>2, <2>3, <2>4
<1>8. ASSUME NEW w \in Workers, NEW t \in Tokens, NEW S \in SUBSET Scopes, RefreshTokens(w, t, S),
             NEW u \in Users, account'[u] = "DISABLED"
      PROVE  ~Holds(u)'
  <2>1. UNCHANGED <<oidc, account, code>> /\ account[TokenUser(t)] # "DISABLED"
    BY <1>8, RefreshTokensRows DEF MayHold, AccountEligible
  <2>2. ASSUME NEW j \in Codes, Unspent(j)' PROVE Unspent(j) /\ CodeUser(j)' = CodeUser(j)
    BY <2>1, <2>2 DEF Unspent, CodeUser
  <2>3. ASSUME NEW n \in Tokens, ~Exists(n), token'[n].state = "live" PROVE TokenUser(n)' # u
    <3>1. token'[n].code = token[t].code
      BY <1>8, <2>3, RefreshTokensRows DEF Exists
    <3>2. TokenUser(n)' = TokenUser(t)
      BY <2>1, <3>1 DEF TokenUser, CodeUser
    <3>3. QED
      BY <1>8, <2>1, <3>2
  <2>4. ~Holds(u)
    BY <1>1, <1>8, <2>1
  <2>5. QED
    BY <1>6, <2>1, <2>2, <2>3, <2>4
<1>9. ASSUME NEW v \in Users, Fading, DisableAccount(v), NEW u \in Users, account'[u] = "DISABLED"
      PROVE  ~Holds(u)'
  <2>1. CASE u # v
    <3>1. account[u] = "DISABLED"
      BY <1>9, <2>1 DEF DisableAccount, TypeOK
    <3>2. QED
      BY <1>1, <1>3, <1>9, <3>1
  <2>2. CASE u = v
    <3>1. Revoke(TokensOfUser(u)) /\ Spend(CodesOfUser(u)) /\ EndRows(RowsOfUser(u))
      BY <1>9, <2>2 DEF DisableAccount, RevokeAllCredentials
    <3>2. ASSUME NEW k \in Codes, CodeUser(k)' = u, Unspent(k)' PROVE FALSE
      <4>1. k \notin CodesOfUser(u)
        BY <3>1, <3>2, SpendRows DEF TypeOK
      <4>2. code[k].state # "none" /\ CodeUser(k) = u
        BY <1>9, <3>2 DEF Fading, Unspent, CodeUser
      <4>3. QED
        BY <4>1, <4>2 DEF CodesOfUser
    <3>3. ASSUME NEW t \in Tokens, TokenUser(t)' = u, token'[t].state = "live" PROVE FALSE
      <4>1. t \notin TokensOfUser(u)
        BY <3>1, <3>3, RevokeRows DEF TypeOK
      <4>2. Exists(t)
        BY <1>9, <3>3 DEF Fading, Exists
      <4>3. TokenUser(t) = u
        BY <3>3, <4>2, PlacesKept
      <4>4. QED
        BY <4>1, <4>2, <4>3 DEF TokensOfUser
    <3>4. ASSUME NEW s \in Sessions, NEW c \in Clients, Owner[s] = u, oidc'[<<s, c>>] = "live"
          PROVE  FALSE
      BY <3>1, <3>4, EndRowsRows DEF RowsOfUser
    <3>5. QED
      BY <3>2, <3>3, <3>4
  <2>3. QED
    BY <2>1, <2>2
<1>10. ASSUME NEW x, \/ \E w \in Workers : RevokeTokensForSession(w, x) \/ RevokeFamily(w, x)
                     \/ \E u \in Users : RevokeGrant(u, x)
       PROVE  NoneDisabled
  BY <1>10 DEF RevokeTokensForSession, RevokeFamily, RevokeGrant, NoneDisabled, registry
<1>11. QED
  BY <1>4, <1>5, <1>7, <1>8, <1>9, <1>10, NextCases DEF Quiet

-----------------------------------------------------------------------------
(* Families, replays and revoked families *)

\* The token a step stores, if any, and where its code and family come from.
LEMMA NewTokens ==
    ASSUME TypeOK, Lineage, [Next]_vars, NEW n \in Tokens, ~Exists(n), Exists(n)'
    PROVE  \/ /\ token'[n].family = n /\ token'[n].code \in Codes
              /\ code[token'[n].code].state = "unused"
              /\ \A m \in Tokens : m # n => token'[m] = token[m]
           \/ /\ Rotation
              /\ \E t \in Tokens :
                     /\ n # t /\ token[t].state = "live" /\ token'[t].state = "used"
                     /\ token'[n].code = token[t].code /\ token'[n].family = token[t].family
                     /\ \A m \in Tokens : m \notin {t, n} => token'[m] = token[m]
<1>1. ~Fading
  BY DEF Fading, Exists
<1>2. ASSUME NEW s \in Sessions, NEW k \in Codes, NEW c \in Clients,
             NEW S \in SUBSET Scopes, NEW e \in BOOLEAN, IssueCode(k, s, c, S, e)
      PROVE  FALSE
  BY <1>2 DEF IssueCode, Exists
<1>3. ASSUME NEW w \in Workers, NEW k \in Codes, RedeemCode(w, k)
      PROVE  /\ token'[n].family = n /\ token'[n].code = k /\ code[k].state = "unused"
             /\ \A m \in Tokens : m # n => token'[m] = token[m]
  <2>1. PICK t \in Tokens : /\ token'[t].code = k /\ token'[t].family = t
                            /\ \A m \in Tokens : m # t => token'[m] = token[m]
    BY <1>3, RedeemCodeRows DEF Exists
  <2>2. t = n
    BY <2>1 DEF Exists
  <2>3. code[k].state = "unused"
    BY <1>3, RedeemCodeRows
  <2>4. QED
    BY <2>1, <2>2, <2>3
<1>4. ASSUME NEW w \in Workers, NEW t \in Tokens, NEW S \in SUBSET Scopes, RefreshTokens(w, t, S)
      PROVE  /\ Rotation /\ n # t /\ token[t].state = "live" /\ token'[t].state = "used"
             /\ token'[n].code = token[t].code /\ token'[n].family = token[t].family
             /\ \A m \in Tokens : m \notin {t, n} => token'[m] = token[m]
  <2>1. Rotation
    BY <1>4 DEF RefreshTokens, Exists
  <2>2. token[t].state = "live" /\ n # t
    BY <1>4, RefreshTokensRows DEF Exists
  <2>3. PICK x \in Tokens : /\ x # t /\ token'[t].state = "used"
                            /\ token'[x].code = token[t].code
                            /\ token'[x].family = token[t].family
                            /\ \A m \in Tokens : m \notin {t, x} => token'[m] = token[m]
    BY <1>4, <2>2, RefreshTokensRows DEF Exists
  <2>4. x = n
    BY <2>2, <2>3 DEF Exists
  <2>5. QED
    BY <2>1, <2>2, <2>3, <2>4
<1>5. QED
  BY <1>1, <1>2, <1>3, <1>4, NextCases DEF Quiet

\* No step makes a code yield a second family, nor leaves two usable tokens in
\* one, nor, without rotation, adds a row to one.
LEMMA FamiliesStep ==
    ASSUME TypeOK, Lineage, [Next]_vars
    PROVE  /\ CodeYieldsOneFamily => CodeYieldsOneFamily'
           /\ OneLiveTokenPerFamily => OneLiveTokenPerFamily'
           /\ OneTokenWithoutRotation => OneTokenWithoutRotation'
<1>1. \A t \in Tokens : Exists(t) =>
          /\ token'[t].code = token[t].code /\ token'[t].family = token[t].family
          /\ (token'[t].state = "live" => token[t].state = "live")
  BY PlacesKept
<1>2. \A t \in Tokens : token[t].state = "live" => Exists(t)
  BY DEF Exists
<1>3. \A t \in Tokens : token'[t].state = "live" => Exists(t)'
  BY DEF Exists
<1>4. \A t \in Tokens : Exists(t) =>
          /\ code[token[t].code].state = "redeemed"
          /\ token[t].family \in Tokens /\ Exists(token[t].family)
          /\ token[token[t].family].code = token[t].code
  BY DEF Lineage, TokensSound
<1>5. CASE \A n \in Tokens : Exists(n)' => Exists(n)
  <2>1. CodeYieldsOneFamily => CodeYieldsOneFamily'
    BY <1>1, <1>5 DEF CodeYieldsOneFamily
  <2>2. OneLiveTokenPerFamily => OneLiveTokenPerFamily'
    BY <1>1, <1>3, <1>5 DEF OneLiveTokenPerFamily
  <2>3. OneTokenWithoutRotation => OneTokenWithoutRotation'
    BY <1>1, <1>5 DEF OneTokenWithoutRotation
  <2>4. QED
    BY <2>1, <2>2, <2>3
<1>6. ASSUME NEW n \in Tokens, ~Exists(n), token'[n].family = n, token'[n].code \in Codes,
             code[token'[n].code].state = "unused",
             \A m \in Tokens : m # n => token'[m] = token[m]
      PROVE  /\ CodeYieldsOneFamily => CodeYieldsOneFamily'
             /\ OneLiveTokenPerFamily => OneLiveTokenPerFamily'
             /\ OneTokenWithoutRotation => OneTokenWithoutRotation'
  <2>1. \A m \in Tokens : m # n /\ Exists(m)' =>
            /\ Exists(m) /\ token'[m].code # token'[n].code /\ token'[m].family # n
    BY <1>4, <1>6 DEF Exists
  <2>2. CodeYieldsOneFamily => CodeYieldsOneFamily'
    BY <1>6, <2>1 DEF CodeYieldsOneFamily
  <2>3. OneLiveTokenPerFamily => OneLiveTokenPerFamily'
    BY <1>3, <1>6, <2>1 DEF OneLiveTokenPerFamily
  <2>4. OneTokenWithoutRotation => OneTokenWithoutRotation'
    BY <1>6, <2>1 DEF OneTokenWithoutRotation
  <2>5. QED
    BY <2>2, <2>3, <2>4
<1>7. ASSUME NEW n \in Tokens, NEW t \in Tokens, ~Exists(n), Rotation, n # t,
             token[t].state = "live", token'[t].state = "used",
             token'[n].code = token[t].code, token'[n].family = token[t].family,
             \A m \in Tokens : m \notin {t, n} => token'[m] = token[m]
      PROVE  /\ CodeYieldsOneFamily => CodeYieldsOneFamily'
             /\ OneLiveTokenPerFamily => OneLiveTokenPerFamily'
             /\ OneTokenWithoutRotation => OneTokenWithoutRotation'
  <2>1. Exists(t)
    BY <1>2, <1>7
  <2>2. \A m \in Tokens : m # n /\ Exists(m)' => Exists(m)
    BY <1>7, <2>1 DEF Exists
  <2>3. ASSUME CodeYieldsOneFamily PROVE CodeYieldsOneFamily'
    BY <1>1, <1>7, <2>1, <2>2, <2>3 DEF CodeYieldsOneFamily
  <2>4. ASSUME OneLiveTokenPerFamily PROVE OneLiveTokenPerFamily'
    <3>1. \A m \in Tokens : m # t /\ token[m].state = "live" => token[m].family # token[t].family
      BY <1>7, <2>4 DEF OneLiveTokenPerFamily
    <3>2. \A m \in Tokens : m # n /\ token'[m].state = "live" =>
              token[m].state = "live" /\ token'[m].family = token[m].family /\ m # t
      BY <1>1, <1>3, <1>7, <2>2
    <3>3. QED
      BY <1>7, <2>4, <3>1, <3>2 DEF OneLiveTokenPerFamily
  <2>5. OneTokenWithoutRotation'
    BY <1>7 DEF OneTokenWithoutRotation
  <2>6. QED
    BY <2>3, <2>4, <2>5
<1>8. QED
  BY <1>5, <1>6, <1>7, NewTokens

\* No step gives a usable token to a code whose descendants were revoked, or to
\* a revoked family.
LEMMA RevokedStaysDeadStep ==
    ASSUME TypeOK, Lineage, RetiredCodeStaysDead, KilledFamilyStaysDead, [Next]_vars
    PROVE  RetiredCodeStaysDead' /\ KilledFamilyStaysDead'
<1> DEFINE Dead(t) == Exists(t) /\ (token[t].code \in retired \/ token[t].family \in killed)
<1>1. \A t \in Tokens : Dead(t) => token[t].state # "live"
  BY DEF RetiredCodeStaysDead, KilledFamilyStaysDead, TokensOfFamily
<1>2. SUFFICES \A t \in Tokens : Dead(t)' => token'[t].state # "live"
  BY DEF RetiredCodeStaysDead, KilledFamilyStaysDead, TokensOfFamily, Exists
<1>3. /\ \A k \in retired : Used(k)
      /\ \A f \in killed : Exists(f)
  BY DEF Lineage, GhostsSound
<1>4. \A t \in Tokens : Exists(t) =>
          /\ token'[t].code = token[t].code /\ token'[t].family = token[t].family
          /\ (token'[t].state = "live" => token[t].state = "live")
  BY PlacesKept
<1>5. CASE UNCHANGED <<retired, killed>>
  <2>1. ASSUME NEW t \in Tokens, Exists(t), Dead(t)' PROVE token'[t].state # "live"
    BY <1>1, <1>4, <1>5, <2>1
  <2>2. ASSUME NEW n \in Tokens, ~Exists(n), Dead(n)' PROVE token'[n].state # "live"
    <3>1. CASE token'[n].family = n /\ code[token'[n].code].state = "unused"
      BY <1>3, <1>5, <2>2, <3>1 DEF Used
    <3>2. CASE \E t \in Tokens :
                   /\ token[t].state = "live"
                   /\ token'[n].code = token[t].code /\ token'[n].family = token[t].family
      BY <1>1, <1>5, <2>2, <3>2 DEF Exists
    <3>3. QED
      BY <2>2, <3>1, <3>2, NewTokens
  <2>3. QED
    BY <2>1, <2>2
<1>6. ASSUME Fading, NEW t \in Tokens, Dead(t)'
      PROVE  Exists(t) /\ token'[t].code = token[t].code /\ token'[t].family = token[t].family
             /\ (Dead(t) => token'[t].state # "live")
  BY <1>1, <1>6 DEF Fading, Exists
<1>7. ASSUME NEW w \in Workers, NEW k \in Codes, Fading, RevokeTokensForSession(w, k)
      PROVE  \A t \in Tokens : Dead(t)' => token'[t].state # "live"
  <2>1. ASSUME NEW t \in Tokens, Exists(t),
               token[t].code \in {k} \cup DescendantsEnded(CodeSession(k), CodeClient(k))
        PROVE  token'[t].state # "live"
    <3>1. t \in TokensOfSession(CodeSession(k), CodeClient(k))
      BY <2>1 DEF TokensOfSession, TokensOfClient, TokenClient, DescendantsEnded
    <3>2. QED
      BY <1>7, <3>1, RevokeRows DEF RevokeTokensForSession, TypeOK
  <2>2. QED
    BY <1>6, <1>7, <2>1 DEF RevokeTokensForSession
<1>8. ASSUME NEW w \in Workers, NEW f \in Tokens, Fading, RevokeFamily(w, f)
      PROVE  \A t \in Tokens : Dead(t)' => token'[t].state # "live"
  <2>1. ASSUME NEW t \in Tokens, Exists(t), token[t].family = f PROVE token'[t].state # "live"
    BY <1>8, <2>1, RevokeRows DEF RevokeFamily, TokensOfFamily, TypeOK
  <2>2. QED
    BY <1>6, <1>8, <2>1 DEF RevokeFamily
<1>9. \/ UNCHANGED <<retired, killed>>
      \/ \E w \in Workers, k \in Codes : Fading /\ RevokeTokensForSession(w, k)
      \/ \E w \in Workers, f \in Tokens : Fading /\ RevokeFamily(w, f)
  BY NextCases, ZenonT(60) DEF Quiet, IssueCode, RedeemCode, RefreshTokens, RevokeGrant,
     DisableAccount, RevokeAllCredentials
<1>10. QED
  BY <1>5, <1>7, <1>8, <1>9

\* The step that spends a code on an exchange stores the refresh token its client
\* is to have, and only that one.
LEMMA RedemptionStep ==
    ASSUME TypeOK, Lineage, [Next]_vars, NEW k \in Codes PROVE ClaimYieldsToken(k)
<1> SUFFICES ASSUME code[k].state # "redeemed", code'[k].state = "redeemed"
             PROVE  Yielded(k)' <=> WantsRefresh(CodeClient(k), code[k].scopes)
  BY DEF ClaimYieldsToken, Redeemed
<1>1. ~Fading
  BY DEF Fading
<1>2. ASSUME NEW s \in Sessions, NEW j \in Codes, NEW c \in Clients,
             NEW S \in SUBSET Scopes, NEW e \in BOOLEAN, IssueCode(j, s, c, S, e)
      PROVE  FALSE
  BY <1>2 DEF IssueCode, TypeOK
<1>3. ASSUME NEW w \in Workers, NEW t \in Tokens, NEW S \in SUBSET Scopes, RefreshTokens(w, t, S)
      PROVE  FALSE
  BY <1>3 DEF RefreshTokens
<1>4. ASSUME NEW w \in Workers, NEW j \in Codes, RedeemCode(w, j)
      PROVE  Yielded(k)' <=> WantsRefresh(CodeClient(k), code[k].scopes)
  <2>1. j = k
    BY <1>4, RedeemCodeRows
  <2>2. ~Yielded(k)
    BY DEF Yielded, Lineage, TokensSound
  <2>3. CASE WantsRefresh(CodeClient(k), code[k].scopes)
    <3>1. \E t \in Tokens : token' = [token EXCEPT ![t] = Stored(t, k, t, code[k].scopes)]
      BY <1>4, <2>1, <2>3 DEF RedeemCode
    <3>2. Yielded(k)'
      BY <3>1 DEF Stored, Exists, TypeOK, Yielded
    <3>3. QED
      BY <2>3, <3>2
  <2>4. CASE ~WantsRefresh(CodeClient(k), code[k].scopes)
    <3>1. UNCHANGED token
      BY <1>4, <2>1, <2>4 DEF RedeemCode
    <3>2. ~Yielded(k)'
      BY <2>2, <3>1 DEF Yielded, Exists
    <3>3. QED
      BY <2>4, <3>2
  <2>5. QED
    BY <2>3, <2>4
<1>5. QED
  BY <1>1, <1>2, <1>3, <1>4, NextCases DEF Quiet

\* A step that stores a token checked, under its locks, that its user may have the
\* scopes it carries.
LEMMA StoredStep ==
    ASSUME TypeOK, [Next]_vars, NEW t \in Tokens PROVE StoredWithRole(t)
<1> SUFFICES ASSUME token[t].state = "none", token'[t].state # "none"
             PROVE  WithinRole(t)'
  BY DEF StoredWithRole, Exists
<1>1. ~Fading
  BY DEF Fading
<1>2. ASSUME NEW s \in Sessions, NEW k \in Codes, NEW c \in Clients,
             NEW S \in SUBSET Scopes, NEW e \in BOOLEAN, IssueCode(k, s, c, S, e)
      PROVE  FALSE
  BY <1>2 DEF IssueCode
<1>3. ASSUME NEW w \in Workers, NEW k \in Codes, RedeemCode(w, k) PROVE WithinRole(t)'
  <2>1. /\ AllowedForUser(CodeUser(k), code[k].scopes)
        /\ token'[t].code = k /\ token'[t].scopes = code[k].scopes
        /\ code'[k].session = code[k].session /\ UNCHANGED admins
    BY <1>3, RedeemCodeRows DEF MayHold, AccountEligible
  <2>2. QED
    BY <2>1 DEF WithinRole, AllowedForUser, TokenUser, CodeUser
<1>4. ASSUME NEW w \in Workers, NEW n \in Tokens, NEW S \in SUBSET Scopes, RefreshTokens(w, n, S)
      PROVE  WithinRole(t)'
  <2>1. /\ AllowedForUser(TokenUser(n), S)
        /\ token'[t].code = token[n].code /\ token'[t].scopes = S
        /\ UNCHANGED <<code, admins>>
    BY <1>4, RefreshTokensRows DEF MayHold, AccountEligible
  <2>2. QED
    BY <2>1 DEF WithinRole, AllowedForUser, TokenUser, CodeUser
<1>5. QED
  BY <1>1, <1>2, <1>3, <1>4, NextCases DEF Quiet

-----------------------------------------------------------------------------
(* The theorems *)

\* Nothing has been granted, issued or stored in an initial state.
LEMMA Initially ==
    ASSUME Init
    PROVE  /\ TypeOK
           /\ Lineage
           /\ CoveredByGrant
           /\ DisabledAccountHoldsNothing
           /\ CodeYieldsOneFamily /\ OneLiveTokenPerFamily /\ OneTokenWithoutRotation
           /\ RetiredCodeStaysDead /\ KilledFamilyStaysDead
<1>1. TypeOK
  BY ConstantsAssumption, WorkItemsType DEF Init, TypeOK, CodeRows, TokenRows, NoCode, NoToken,
     CodeStates, TokenStates
<1>2. /\ \A k \in Codes : code[k].state = "none"
      /\ \A t \in Tokens : token[t].state = "none"
      /\ \A s \in Sessions, c \in Clients : oidc[<<s, c>>] = "none"
      /\ \A w \in Workers : work[w] = Idle
      /\ retired = {} /\ killed = {}
  BY DEF Init, NoCode, NoToken
<1>3. Lineage
  BY <1>2 DEF Lineage, CodesSound, TokensSound, GhostsSound, Grounded, Idle, Exists
<1>4. CoveredByGrant
  BY <1>2 DEF CoveredByGrant, Unspent
<1>5. DisabledAccountHoldsNothing
  BY <1>2 DEF DisabledAccountHoldsNothing, CodesOfUser, TokensOfUser, RowsOfUser, Unspent, Exists
<1>6. /\ CodeYieldsOneFamily /\ OneLiveTokenPerFamily /\ OneTokenWithoutRotation
      /\ RetiredCodeStaysDead /\ KilledFamilyStaysDead
  BY <1>2 DEF CodeYieldsOneFamily, OneLiveTokenPerFamily, OneTokenWithoutRotation,
     RetiredCodeStaysDead, KilledFamilyStaysDead, Exists
<1>7. QED
  BY <1>1, <1>3, <1>4, <1>5, <1>6

\* The types and the lineage of rows are one inductive invariant: a refresh step
\* is well typed because the family it copies comes from a row that exists.
THEOREM Sound == Spec => [](TypeOK /\ Lineage)
<1>1. Init => TypeOK /\ Lineage
  BY Initially
<1>2. TypeOK /\ Lineage /\ [Next]_vars => (TypeOK /\ Lineage)'
  <2> SUFFICES ASSUME TypeOK, Lineage, [Next]_vars PROVE TypeOK' /\ Lineage'
    OBVIOUS
  <2>1. ASSUME UNCHANGED vars PROVE TypeOK'
    BY <2>1 DEF vars, TypeOK
  <2>2. ASSUME Next PROVE TypeOK'
    BY <2>2, BrowserStepType, CodeStepType, RefreshStepType, AdminStepType, EnvironmentType
    DEF Next
  <2>3. QED
    BY <2>1, <2>2, LineageStep
<1>3. QED
  BY <1>1, <1>2, PTL DEF Spec

\* The variables always hold rows, statuses and pending work of the expected
\* shape, whatever races happened.
THEOREM TypeCorrect == Spec => []TypeOK
BY Sound, PTL

\* Every row comes from where the code says it does: a token from an exchanged
\* code and the first token of its family, pending containment from a spent code.
THEOREM RowsHaveLineage == Spec => []Lineage
BY Sound, PTL

\* No usable refresh token, unspent code or live OIDC session ever outlives or
\* exceeds the consent it was issued under.
THEOREM ConsentBoundsCredentials == Spec => []CoveredByGrant
<1>1. Init => CoveredByGrant
  BY Initially
<1>2. TypeOK /\ Lineage /\ CoveredByGrant /\ [Next]_vars => CoveredByGrant'
  BY CoveredByGrantStep
<1>3. QED
  BY <1>1, <1>2, Sound, PTL DEF Spec

\* A disabled account never has a usable credential, whatever was in flight.
THEOREM DisablingIsComplete == Spec => []DisabledAccountHoldsNothing
<1>1. Init => DisabledAccountHoldsNothing
  BY Initially
<1>2. TypeOK /\ Lineage /\ DisabledAccountHoldsNothing /\ [Next]_vars
          => DisabledAccountHoldsNothing'
  BY DisabledAccountStep
<1>3. QED
  BY <1>1, <1>2, Sound, PTL DEF Spec

\* However many requests race, a code yields one family, a family has one usable
\* token and, without rotation, one row.
THEOREM RacesYieldOneToken ==
    Spec => [](CodeYieldsOneFamily /\ OneLiveTokenPerFamily /\ OneTokenWithoutRotation)
<1>1. Init => CodeYieldsOneFamily /\ OneLiveTokenPerFamily /\ OneTokenWithoutRotation
  BY Initially
<1>2. TypeOK /\ Lineage /\ [Next]_vars
          /\ CodeYieldsOneFamily /\ OneLiveTokenPerFamily /\ OneTokenWithoutRotation
      => (CodeYieldsOneFamily /\ OneLiveTokenPerFamily /\ OneTokenWithoutRotation)'
  BY FamiliesStep
<1>3. QED
  BY <1>1, <1>2, Sound, PTL DEF Spec

\* Two requests that present one code at once never start two families of tokens.
THEOREM CodesYieldOneFamily == Spec => []CodeYieldsOneFamily
BY RacesYieldOneToken, PTL

\* Two requests that present one refresh token at once never both leave a usable
\* successor.
THEOREM FamiliesHaveOneLiveToken == Spec => []OneLiveTokenPerFamily
BY RacesYieldOneToken, PTL

\* With rotation switched off a family never grows beyond the token it began with.
THEOREM NoRotationNoSuccessor == Spec => []OneTokenWithoutRotation
BY RacesYieldOneToken, PTL

\* What containment and family revocation killed never becomes usable again, even
\* with exchanges and rotations in flight when they committed.
THEOREM RevocationIsFinal == Spec => [](RetiredCodeStaysDead /\ KilledFamilyStaysDead)
<1>1. Init => RetiredCodeStaysDead /\ KilledFamilyStaysDead
  BY Initially
<1>2. TypeOK /\ Lineage /\ RetiredCodeStaysDead /\ KilledFamilyStaysDead /\ [Next]_vars
          => (RetiredCodeStaysDead /\ KilledFamilyStaysDead)'
  BY RevokedStaysDeadStep
<1>3. QED
  BY <1>1, <1>2, Sound, PTL DEF Spec

\* A code that was presented again leaves nothing usable, not even to the exchange
\* that was under way when its tokens were contained.
THEOREM RetiredCodesStayDead == Spec => []RetiredCodeStaysDead
BY RevocationIsFinal, PTL

\* A family that was revoked leaves nothing usable, not even to a rotation that was
\* under way.
THEOREM KilledFamiliesStayDead == Spec => []KilledFamilyStaysDead
BY RevocationIsFinal, PTL

\* A code is spent on an exchange together with the storing of the refresh token its
\* client is to have, and of no other; and no token is stored beyond its user's role.
THEOREM ExchangeIsExact == Spec => IssuanceIsExact
<1>1. TypeOK /\ Lineage /\ [Next]_vars =>
          [/\ \A k \in Codes : ClaimYieldsToken(k)
           /\ \A t \in Tokens : StoredWithRole(t)]_vars
  BY RedemptionStep, StoredStep
<1>2. QED
  BY <1>1, Sound, PTL DEF Spec, IssuanceIsExact

-----------------------------------------------------------------------------
(* The promise to users *)

\* The user and client of a code.
Party(k) == IF code[k].state = "none" THEN Nil ELSE <<CodeUser(k), CodeClient(k)>>

\* A code that was not exchanged has no token, and an exchanged one at most one that
\* is usable.
LEMMA UsableIsSingle ==
    ASSUME TypeOK, Lineage, CodeYieldsOneFamily, OneLiveTokenPerFamily, NEW k \in Codes
    PROVE  /\ code[k].state # "redeemed" => Usable(k) = {}
           /\ \A t, n \in Usable(k) : t = n
           /\ \A t \in Tokens : token[t].state = "live" => token[t].code \in Codes /\ Exists(t)
<1>1. \A t \in Tokens : token[t].state = "live" =>
          Exists(t) /\ token[t].code \in Codes /\ code[token[t].code].state = "redeemed"
  BY DEF Lineage, TokensSound, Exists
<1>2. code[k].state # "redeemed" => Usable(k) = {}
  BY <1>1 DEF Usable
<1>3. \A t, n \in Usable(k) : t = n
  BY <1>1 DEF Usable, CodeYieldsOneFamily, OneLiveTokenPerFamily
<1> QED  BY <1>1, <1>2, <1>3

\* What a step does to one delegation that it does not touch, and to one it ends.
Same(k) == Stage(k)' = Stage(k) /\ Carried(k)' = Carried(k)
Ends(k) ==
    /\ Stage(k) \in {"offered", "held"}
    /\ Stage(k)' = "over"
    /\ Carried(k)' = {}

\* What the two views say, case by case.
ViewsSay(k) ==
    /\ code[k].state = "none" => Stage(k) = "none"
    /\ code[k].state = "unused" => Stage(k) = "offered" /\ Carried(k) = code[k].scopes
    /\ code[k].state \notin {"none", "unused"} =>
          Stage(k) = (IF Usable(k) # {} THEN "held" ELSE "over")
    /\ code[k].state # "unused" =>
          /\ Usable(k) = {} => Carried(k) = {}
          /\ \A t : Usable(k) = {t} => Carried(k) = token[t].scopes
LEMMA Views == \A k \in Codes : ViewsSay(k)
<1> SUFFICES ASSUME NEW k \in Codes PROVE ViewsSay(k)
  OBVIOUS
<1>1. /\ code[k].state = "none" => Stage(k) = "none"
      /\ code[k].state = "unused" => Stage(k) = "offered" /\ Carried(k) = code[k].scopes
      /\ code[k].state \notin {"none", "unused"} =>
            Stage(k) = (IF Usable(k) # {} THEN "held" ELSE "over")
  BY DEF Stage, Carried
<1>2. ASSUME code[k].state # "unused"
      PROVE  Carried(k) = UNION {token[t].scopes : t \in Usable(k)}
  <2>1. Stage(k) # "offered"  BY <1>2 DEF Stage
  <2> QED  BY <2>1 DEF Carried
<1>3. Usable(k) = {} => UNION {token[t].scopes : t \in Usable(k)} = {}
  OBVIOUS
<1>4. ASSUME NEW t, Usable(k) = {t}
      PROVE  UNION {token[n].scopes : n \in Usable(k)} = token[t].scopes
  BY <1>4
<1> QED  BY <1>1, <1>2, <1>3, <1>4 DEF ViewsSay
LEMMA ViewsNext == (\A k \in Codes : ViewsSay(k))'
BY Views, PTL

LEMMA UntouchedIsSame ==
    ASSUME NEW k \in Codes, code'[k] = code[k],
           Usable(k)' = Usable(k), \A t \in Usable(k) : token'[t].scopes = token[t].scopes
    PROVE  Same(k)
BY DEF Same, Stage, Carried

\* Where nothing is gained, a delegation stays as it was or is over.
LEMMA FadingEnds ==
    ASSUME TypeOK, Lineage, CodeYieldsOneFamily, OneLiveTokenPerFamily, Fading, NEW k \in Codes
    PROVE  (Same(k) \/ Ends(k)) /\ Party(k)' = Party(k)
<1>1. /\ code'[k].session = code[k].session
      /\ code'[k].client = code[k].client
      /\ code'[k].scopes = code[k].scopes
      /\ code[k].state = "none" <=> code'[k].state = "none"
      /\ code'[k].state = "unused" => code[k].state = "unused"
  BY DEF Fading
<1>2. Usable(k)' \subseteq Usable(k) /\ \A t \in Usable(k) : token'[t].scopes = token[t].scopes
  BY DEF Fading, Usable
<1>3. /\ code[k].state # "redeemed" => Usable(k) = {}
      /\ \A t, n \in Usable(k) : t = n
  BY UsableIsSingle
<1>4. Party(k)' = Party(k)
  BY <1>1 DEF Party, CodeUser, CodeSession, CodeClient
<1>5. ViewsSay(k) /\ ViewsSay(k)'
  BY Views, ViewsNext
<1>6. CASE code[k].state = "none"
  <2>1. Usable(k) = {} /\ Usable(k)' = {}  BY <1>2, <1>3, <1>6
  <2>2. Same(k)  BY <1>1, <1>5, <1>6, <2>1 DEF Same, ViewsSay
  <2> QED  BY <1>4, <2>2
<1>7. CASE code[k].state = "unused"
  <2>1. Usable(k) = {} /\ Usable(k)' = {}  BY <1>2, <1>3, <1>7
  <2>2. CASE code'[k].state = "unused"
    <3>1. Same(k)  BY <1>1, <1>5, <1>7, <2>2 DEF Same, ViewsSay
    <3> QED  BY <1>4, <3>1
  <2>3. CASE code'[k].state # "unused"
    <3>1. Ends(k)  BY <1>1, <1>5, <1>7, <2>1, <2>3 DEF Ends, ViewsSay
    <3> QED  BY <1>4, <3>1
  <2> QED  BY <2>2, <2>3
<1>8. CASE code[k].state \notin {"none", "unused"}
  <2>1. code'[k].state \notin {"none", "unused"}  BY <1>1, <1>8
  <2>2. CASE Usable(k) = {}
    <3>1. Usable(k)' = {}  BY <1>2, <2>2
    <3>2. Same(k)  BY <1>5, <1>8, <2>1, <2>2, <3>1 DEF Same, ViewsSay
    <3> QED  BY <1>4, <3>2
  <2>3. ASSUME NEW t \in Usable(k) PROVE (Same(k) \/ Ends(k)) /\ Party(k)' = Party(k)
    <3>1. Usable(k) = {t}  BY <1>3, <2>3
    <3>2. CASE Usable(k)' = {t}
      <4>1. Same(k)  BY <1>2, <1>5, <1>8, <2>1, <2>3, <3>1, <3>2 DEF Same, ViewsSay
      <4> QED  BY <1>4, <4>1
    <3>3. CASE Usable(k)' = {}
      <4>1. Ends(k)  BY <1>5, <1>8, <2>1, <3>1, <3>3 DEF Ends, ViewsSay
      <4> QED  BY <1>4, <4>1
    <3> QED  BY <1>2, <3>1, <3>2, <3>3
  <2> QED  BY <2>2, <2>3
<1> QED  BY <1>6, <1>7, <1>8

\* The step of the promise that leaves the consent and closes what ends.
LEMMA EndingRefines ==
    ASSUME UNCHANGED grant, \A k \in Codes : (Same(k) \/ Ends(k)) /\ Party(k)' = Party(k)
    PROVE  Delegated!Next
<1> DEFINE K == {k \in Codes : Ends(k)}
<1>1. \A k \in K : Stage(k) \in {"offered", "held"}
  BY DEF Ends
<1>2. /\ [k \in Codes |-> Stage(k)]' = [k \in Codes |-> IF k \in K THEN "over" ELSE Stage(k)]
      /\ [k \in Codes |-> Carried(k)]' = [k \in Codes |-> IF k \in K THEN {} ELSE Carried(k)]
      /\ [k \in Codes |-> Party(k)]' = [k \in Codes |-> Party(k)]
  BY DEF Same, Ends
<1> HIDE DEF K
<1>3. K \in SUBSET Codes  BY DEF K
<1>4. Delegated!End(K)
  BY <1>1, <1>2, <1>3 DEF Delegated!End, Delegated!Open, Delegated!Close, Party
<1> QED  BY <1>3, <1>4 DEF Delegated!Next

\* Withdrawing a consent closes the delegations made under it and no other.
LEMMA WithdrawalRefines ==
    ASSUME TypeOK, Lineage, CodeYieldsOneFamily, OneLiveTokenPerFamily, Fading,
           NEW u \in Users, NEW c \in Clients, RevokeGrant(u, c)
    PROVE  Delegated!Next
<1> DEFINE g == <<u, c>>
           K == {k \in Codes : Stage(k) \in {"offered", "held"} /\ Party(k) = g}
<1>1. /\ code \in [Codes -> CodeRows] /\ token \in [Tokens -> TokenRows]
      /\ Revoke(TokensOfGrant(u, c)) /\ Spend(CodesOfGrant(u, c))
      /\ grant' = [grant EXCEPT ![g] = {}]
  BY DEF TypeOK, RevokeGrant
<1>2. \A k \in Codes : (Same(k) \/ Ends(k)) /\ Party(k)' = Party(k)
  BY FadingEnds
<1>3. \A k \in Codes \ CodesOfGrant(u, c) : Same(k)
  <2> TAKE k \in Codes \ CodesOfGrant(u, c)
  <2>1. code'[k] = code[k]  BY <1>1, SpendRows
  <2>2. ASSUME NEW t \in Tokens, token[t].state = "live", token[t].code = k
        PROVE  token'[t] = token[t]
    <3>1. code[k].state # "none"  BY <2>2, UsableIsSingle DEF Usable
    <3>2. t \notin TokensOfGrant(u, c)
      BY <2>2, <3>1 DEF TokensOfGrant, TokensOfUser, TokenUser, TokenClient, CodesOfGrant,
         CodesOfUser
    <3> QED  BY <1>1, <3>2, RevokeRows
  <2>3. ASSUME NEW t \in Tokens, token'[t].state = "live", token'[t].code = k
        PROVE  token[t].state = "live" /\ token[t].code = k
    BY <2>3 DEF Fading
  <2>4. Usable(k)' = Usable(k)  BY <2>2, <2>3 DEF Usable
  <2>5. \A t \in Usable(k) : token'[t].scopes = token[t].scopes  BY <2>2 DEF Usable
  <2> QED  BY <2>1, <2>4, <2>5, UntouchedIsSame
<1>4. \A k \in CodesOfGrant(u, c) : Stage(k)' \notin {"offered", "held"}
  <2> TAKE k \in CodesOfGrant(u, c)
  <2>1. k \in Codes /\ CodeUser(k) = u /\ CodeClient(k) = c
    BY DEF CodesOfGrant, CodesOfUser
  <2>2. code'[k].state # "unused"  BY <1>1, <2>1, SpendRows DEF Unspent
  <2>3. ASSUME NEW t \in Tokens, token'[t].state = "live", token'[t].code = k PROVE FALSE
    <3>1. token[t].state = "live" /\ token[t].code = k  BY <2>3 DEF Fading
    <3>2. t \in TokensOfGrant(u, c)
      BY <2>1, <3>1 DEF TokensOfGrant, TokensOfUser, TokenUser, TokenClient, Exists
    <3> QED  BY <1>1, <2>3, <3>2, RevokeRows
  <2>4. Usable(k)' = {}  BY <2>3 DEF Usable
  <2>5. ViewsSay(k)'  BY <2>1, ViewsNext
  <2> QED  BY <2>2, <2>4, <2>5 DEF ViewsSay
<1>5. \A k \in Codes : Stage(k) \in {"offered", "held"} =>
          (k \in CodesOfGrant(u, c) <=> Party(k) = g)
  BY DEF Stage, CodesOfGrant, CodesOfUser, Party
<1>6. \A k \in Codes : IF k \in K THEN Stage(k)' = "over" /\ Carried(k)' = {} ELSE Same(k)
  BY <1>2, <1>3, <1>4, <1>5 DEF Same, Ends
<1> HIDE DEF K
<1>7. /\ [k \in Codes |-> Stage(k)]' = [k \in Codes |-> IF k \in K THEN "over" ELSE Stage(k)]
      /\ [k \in Codes |-> Carried(k)]' = [k \in Codes |-> IF k \in K THEN {} ELSE Carried(k)]
      /\ [k \in Codes |-> Party(k)]' = [k \in Codes |-> Party(k)]
  BY <1>2, <1>6 DEF Same
<1>8. K = {k \in Codes : [j \in Codes |-> Stage(j)][k] \in {"offered", "held"}
                           /\ [j \in Codes |-> Party(j)][k] = g}
  BY DEF K
<1>9. Delegated!Withdraw(g)
  BY <1>1, <1>7, <1>8 DEF Delegated!Withdraw, Delegated!Open, Delegated!Close, Party
<1> QED  BY <1>9 DEF Delegated!Next

\* A consent offers one delegation and leaves the others.
LEMMA ConsentRefines ==
    ASSUME TypeOK, Lineage, CodeYieldsOneFamily, OneLiveTokenPerFamily,
           NEW s \in Sessions, NEW k \in Codes, NEW c \in Clients, NEW S \in SUBSET Scopes,
           NEW e \in BOOLEAN, IssueCode(k, s, c, S, e)
    PROVE  Delegated!Next
<1>1. /\ S # {} /\ code[k].state = "none" /\ code'[k].state = "unused"
      /\ code'[k].session = s /\ code'[k].client = c /\ code'[k].scopes = S
      /\ \A j \in Codes : j # k => code'[j] = code[j]
      /\ UNCHANGED token
  BY DEF IssueCode, TypeOK
<1> DEFINE g == <<Owner[s], c>>
<1>2. g \in Users \X Clients  BY ConstantsAssumption
<1>3. grant' = [grant EXCEPT ![g] = @ \cup S]
  <2>1. grant \in [Users \X Clients -> SUBSET Scopes]  BY DEF TypeOK
  <2>2. CASE Widen(Owner[s], c, S)  BY <2>2 DEF Widen
  <2>3. CASE GrantCovers(Owner[s], c, S) /\ UNCHANGED grant
    <3>1. grant[g] \cup S = grant[g]  BY <2>3 DEF GrantCovers
    <3>2. [grant EXCEPT ![g] = @ \cup S] = grant  BY <1>2, <2>1, <3>1
    <3> QED  BY <2>3, <3>2
  <2> QED  BY <2>2, <2>3 DEF IssueCode
<1>4. \A j \in Codes : Usable(j)' = Usable(j)  BY <1>1 DEF Usable
<1>5. \A j \in Codes \ {k} : Same(j) /\ Party(j)' = Party(j)
  <2> TAKE j \in Codes \ {k}
  <2>1. Same(j)  BY <1>1, <1>4, UntouchedIsSame
  <2>2. Party(j)' = Party(j)  BY <1>1 DEF Party, CodeUser, CodeSession, CodeClient
  <2> QED  BY <2>1, <2>2
<1>6. Stage(k) = "none" /\ Stage(k)' = "offered" /\ Carried(k)' = S
  BY <1>1, Views, ViewsNext DEF ViewsSay
<1>7. Party(k)' = g  BY <1>1 DEF Party, CodeUser, CodeSession, CodeClient
<1>8. /\ [j \in Codes |-> Stage(j)]' = [[j \in Codes |-> Stage(j)] EXCEPT ![k] = "offered"]
      /\ [j \in Codes |-> Carried(j)]' = [[j \in Codes |-> Carried(j)] EXCEPT ![k] = S]
      /\ [j \in Codes |-> Party(j)]' = [[j \in Codes |-> Party(j)] EXCEPT ![k] = g]
  BY <1>5, <1>6, <1>7 DEF Same
<1>9. Delegated!Offer(k, g, S)
  BY <1>1, <1>3, <1>6, <1>8 DEF Delegated!Offer, Party
<1> QED  BY <1>2, <1>9 DEF Delegated!Next

\* A delegation whose row and tokens a step leaves alone stays as it was.
LEMMA ElsewhereIsSame ==
    ASSUME NEW k \in Codes, code'[k] = code[k],
           \A t \in Tokens :
               \/ token'[t] = token[t]
               \/ /\ ~(token[t].state = "live" /\ token[t].code = k)
                  /\ ~(token'[t].state = "live" /\ token'[t].code = k)
    PROVE  Same(k) /\ Party(k)' = Party(k)
<1>1. Usable(k)' = Usable(k) /\ \A t \in Usable(k) : token'[t].scopes = token[t].scopes
  BY DEF Usable
<1>2. Same(k)  BY <1>1, UntouchedIsSame
<1>3. Party(k)' = Party(k)  BY DEF Party, CodeUser, CodeSession, CodeClient
<1> QED  BY <1>2, <1>3

\* An exchange turns the offer into a delegation that is held, with the same scopes,
\* or ends it where no refresh token is wanted.
LEMMA ExchangeRefines ==
    ASSUME TypeOK, Lineage, CodeYieldsOneFamily, OneLiveTokenPerFamily,
           NEW w \in Workers, NEW k \in Codes, RedeemCode(w, k)
    PROVE  Delegated!Next
<1>1. /\ code[k].state = "unused" /\ code'[k].state = "redeemed"
      /\ code'[k].session = code[k].session /\ code'[k].client = code[k].client
      /\ \A j \in Codes : j # k => code'[j] = code[j]
      /\ UNCHANGED grant
  BY RedeemCodeRows
<1>2. Usable(k) = {}  BY <1>1, UsableIsSingle
<1>3. Party(k)' = Party(k)
  BY <1>1 DEF Party, CodeUser, CodeSession, CodeClient
<1>4. ViewsSay(k) /\ ViewsSay(k)'  BY Views, ViewsNext
<1>5. CASE UNCHANGED token
  <2>1. Usable(k)' = {}  BY <1>2, <1>5 DEF Usable
  <2>2. Ends(k)  BY <1>1, <1>4, <2>1 DEF Ends, ViewsSay
  <2>3. \A j \in Codes \ {k} : Same(j) /\ Party(j)' = Party(j)
    BY <1>1, <1>5, ElsewhereIsSame
  <2> QED  BY <1>1, <1>3, <2>2, <2>3, EndingRefines
<1>6. ASSUME NEW t \in Tokens, token[t].state = "none",
             token'[t].state = "live", token'[t].code = k, token'[t].scopes = code[k].scopes,
             \A n \in Tokens : n # t => token'[n] = token[n]
      PROVE  Delegated!Next
  <2>1. Usable(k)' = {t}  BY <1>2, <1>6 DEF Usable
  <2>2. /\ Stage(k) = "offered" /\ Stage(k)' = "held"
        /\ Carried(k)' = Carried(k)
    BY <1>1, <1>4, <1>6, <2>1 DEF ViewsSay
  <2>3. \A j \in Codes \ {k} : Same(j) /\ Party(j)' = Party(j)
    <3> TAKE j \in Codes \ {k}
    <3>1. code'[j] = code[j]  BY <1>1
    <3>2. token[t].state # "live" /\ token'[t].code # j  BY <1>6
    <3> QED  BY <1>6, <3>1, <3>2, ElsewhereIsSame
  <2>4. /\ [j \in Codes |-> Stage(j)]' = [[j \in Codes |-> Stage(j)] EXCEPT ![k] = "held"]
        /\ [j \in Codes |-> Carried(j)]' = [j \in Codes |-> Carried(j)]
        /\ [j \in Codes |-> Party(j)]' = [j \in Codes |-> Party(j)]
    BY <1>3, <2>2, <2>3 DEF Same
  <2>5. Delegated!Accept(k)
    BY <1>1, <2>2, <2>4 DEF Delegated!Accept, Party
  <2> QED  BY <2>5 DEF Delegated!Next
<1> QED  BY <1>5, <1>6, RedeemCodeRows

\* A refresh leaves the delegation as it is, narrows it, or ends it.
LEMMA RefreshRefines ==
    ASSUME TypeOK, Lineage, CodeYieldsOneFamily, OneLiveTokenPerFamily,
           NEW w \in Workers, NEW t \in Tokens, NEW S \in SUBSET Scopes, RefreshTokens(w, t, S)
    PROVE  Delegated!Next
<1>1. token[t].state = "live" /\ UNCHANGED <<code, grant>>
  BY RefreshTokensRows
<1> PICK k \in Codes : k = token[t].code /\ code[k].state = "redeemed"
  BY <1>1 DEF Lineage, TokensSound, Exists
<1>3. Usable(k) = {t}
  <2>1. t \in Usable(k)  BY <1>1 DEF Usable
  <2> QED  BY <2>1, UsableIsSingle
<1>4. S \subseteq token[t].scopes
  <2>1. work[w] = PendingRefresh(t, S) /\ Grounded(work[w])
    BY DEF RefreshTokens, Lineage
  <2> QED  BY <2>1 DEF PendingRefresh, Grounded
<1>5. ViewsSay(k) /\ ViewsSay(k)'  BY Views, ViewsNext
<1>6. Party(k)' = Party(k)
  BY <1>1 DEF Party, CodeUser, CodeSession, CodeClient
<1>7. CASE UNCHANGED token
  <2>1. \A j \in Codes : Same(j) /\ Party(j)' = Party(j)
    BY <1>1, <1>7, ElsewhereIsSame
  <2> QED  BY <1>1, <2>1, EndingRefines
<1>8. ASSUME token'[t].state = "used", \A n \in Tokens : n # t => token'[n] = token[n]
      PROVE  Delegated!Next
  <2>1. Usable(k)' = {}  BY <1>3, <1>8 DEF Usable
  <2>2. Ends(k)  BY <1>1, <1>3, <1>5, <2>1 DEF Ends, ViewsSay
  <2>3. \A j \in Codes \ {k} : Same(j) /\ Party(j)' = Party(j)
    <3> TAKE j \in Codes \ {k}
    <3>1. token[t].code # j /\ token'[t].state # "live"  BY <1>8
    <3> QED  BY <1>1, <1>8, <3>1, ElsewhereIsSame
  <2> QED  BY <1>1, <1>6, <2>2, <2>3, EndingRefines
<1>9. ASSUME NEW n \in Tokens, n # t, token[n].state = "none",
             token'[t].state = "used", token'[n].state = "live",
             token'[n].code = token[t].code, token'[n].scopes = S,
             \A m \in Tokens : m \notin {t, n} => token'[m] = token[m]
      PROVE  Delegated!Next
  <2>1. Usable(k)' = {n}
    <3>1. token'[n].code = k  BY <1>9
    <3> QED  BY <1>3, <1>9, <3>1 DEF Usable
  <2>2. /\ Stage(k) = "held" /\ Stage(k)' = "held"
        /\ Carried(k) = token[t].scopes /\ Carried(k)' = S
    BY <1>1, <1>3, <1>5, <1>9, <2>1 DEF ViewsSay
  <2>3. \A j \in Codes \ {k} : Same(j) /\ Party(j)' = Party(j)
    <3> TAKE j \in Codes \ {k}
    <3>1. /\ token[t].code # j /\ token'[t].state # "live"
          /\ token[n].state # "live" /\ token'[n].code # j
      BY <1>9
    <3> QED  BY <1>1, <1>9, <3>1, ElsewhereIsSame
  <2>4. /\ [j \in Codes |-> Stage(j)]' = [j \in Codes |-> Stage(j)]
        /\ [j \in Codes |-> Carried(j)]' = [[j \in Codes |-> Carried(j)] EXCEPT ![k] = S]
        /\ [j \in Codes |-> Party(j)]' = [j \in Codes |-> Party(j)]
    BY <1>6, <2>2, <2>3 DEF Same
  <2>5. Delegated!Narrow(k, S)
    BY <1>1, <1>4, <2>2, <2>4 DEF Delegated!Narrow, Party
  <2> QED  BY <2>5 DEF Delegated!Next
<1> QED  BY <1>7, <1>8, <1>9, RefreshTokensRows

\* Every step of the store is a step of the promise.
LEMMA StepRefines ==
    ASSUME TypeOK, Lineage, CodeYieldsOneFamily, OneLiveTokenPerFamily, [Next]_vars
    PROVE  Delegated!Next
<1>1. ASSUME Fading, UNCHANGED grant PROVE Delegated!Next
  BY <1>1, FadingEnds, EndingRefines
<1>2. ASSUME NEW w \in Workers, NEW k \in Codes, RevokeTokensForSession(w, k)
      PROVE  UNCHANGED grant
  BY <1>2 DEF RevokeTokensForSession
<1>3. ASSUME NEW w \in Workers, NEW f \in Tokens, RevokeFamily(w, f) PROVE UNCHANGED grant
  BY <1>3 DEF RevokeFamily
<1>4. ASSUME NEW u \in Users, DisableAccount(u) PROVE UNCHANGED grant
  BY <1>4 DEF DisableAccount, RevokeAllCredentials
<1> QED
  BY <1>1, <1>2, <1>3, <1>4, WithdrawalRefines, ConsentRefines, ExchangeRefines, RefreshRefines,
     NextCases DEF Quiet

\* The store keeps the promise made to users: what a code gives a client begins
\* inside the consent, is accepted once, only ever narrowed and ended for good, and
\* a withdrawn consent ends all of it in that step, whatever races, replays,
\* expires or is revoked.
THEOREM StoreImplementsDelegation == Spec => ImplementsDelegation
<1>1. Init => Delegated!Init
  <2> SUFFICES ASSUME Init PROVE Delegated!Init
    OBVIOUS
  <2>1. \A k \in Codes : code[k].state = "none" /\ Usable(k) = {}
    BY DEF Init, NoCode, NoToken, Usable
  <2>2. \A k \in Codes : Stage(k) = "none" /\ Carried(k) = {}
    BY <2>1, Views DEF ViewsSay
  <2> QED  BY <2>1, <2>2 DEF Delegated!Init, Init
<1>2. TypeOK /\ Lineage /\ CodeYieldsOneFamily /\ OneLiveTokenPerFamily /\ [Next]_vars
          => [Delegated!Next]_(Delegated!delegationVars)
  BY StepRefines
<1> QED
  BY <1>1, <1>2, Sound, RacesYieldOneToken, PTL DEF Spec, ImplementsDelegation, Delegated!Spec
=============================================================================
