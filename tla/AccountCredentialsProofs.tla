---------------------- MODULE AccountCredentialsProofs ----------------------
(***************************************************************************)
(* A one-time link works once, for any number of links, of requests and of *)
(* passwords.  LinkWorksOnce is not inductive: the induction carries what  *)
(* the state of a link says of the requests that have read it.             *)
(***************************************************************************)
EXTENDS AccountCredentials, TLAPS

LinkUsers == Resets \cup Verifications

\* A link that is being made has one maker, and nobody has it yet.
MadeByOne ==
    \A r \in Asks :
        req[r].at \in {"read", "claimed"} =>
            /\ req[r].link \in Links /\ link[req[r].link] = "none"
            /\ \A q \in Asks :
                  req[q].at \in {"read", "claimed"} /\ req[q].link = req[r].link => q = r

\* Whoever presented a link presented one that had been sent.
PresentedWasSent ==
    \A r \in LinkUsers :
        req[r].at # "new" => req[r].link \in Links /\ link[req[r].link] # "none"

\* A link that let a request through is spent.
LetThroughIsSpent ==
    \A r \in LinkUsers :
        req[r].at \in {"claimed", "granted", "done"} => link[req[r].link] \in {"used", "gone"}

\* Two requests let through had different links.
OneLetThrough ==
    \A q, r \in LinkUsers :
        /\ req[q].at \in {"claimed", "granted", "done"}
        /\ req[r].at \in {"claimed", "granted", "done"}
        /\ req[q].link = req[r].link
        => q = r

LinkInv == MadeByOne /\ PresentedWasSent /\ LetThroughIsSpent /\ OneLetThrough

-----------------------------------------------------------------------------
\* A request that moves on keeps its type.
LEMMA GoesType ==
    ASSUME TypeOK, NEW r \in Requests,
           NEW at \in {"new", "read", "claimed", "granted", "done", "refused"}, Goes(r, at)
    PROVE  req' \in [Requests -> Progress]
<1>1. [req[r] EXCEPT !.at = at] \in Progress
  <2>1. req[r] \in Progress
    BY DEF TypeOK
  <2>2. QED
    BY <2>1 DEF Progress
<1>2. QED
  BY <1>1 DEF TypeOK, Goes

LEMMA LinkType ==
    ASSUME TypeOK, NEW S PROVE Spend(S) \in [Links -> LinkStates]
  BY DEF TypeOK, Spend, LinkStates

\* Every variable keeps its type.
LEMMA TypeStep == ASSUME TypeOK, [Next]_vars PROVE TypeOK'
<1>a. \A r \in Requests : req[r] \in Progress /\ req[r].hash \in Hashes /\ req[r].status \in Statuses
                          /\ req[r].link \in Links \cup {NoLink}
  BY DEF TypeOK, Progress
<1>1. ASSUME NEW r \in Logins, LoginReads(r) PROVE TypeOK'
  <2>1. r \in Requests /\ hash \in Hashes /\ status \in Statuses
    BY DEF TypeOK, Requests
  <2>2. [req[r] EXCEPT !.at = "read", !.hash = hash, !.status = status] \in Progress
    BY <1>a, <2>1 DEF Progress
  <2>3. QED
    BY <1>1, <2>1, <2>2 DEF TypeOK, LoginReads
<1>2. ASSUME NEW r \in Logins, LoginWrites(r) PROVE TypeOK'
  <2>1. r \in Requests
    BY DEF Requests
  <2>2. hash' \in Hashes
    BY <1>2, <1>a, <2>1 DEF TypeOK, LoginWrites, Hashes
  <2>3. status' \in Statuses
    BY <1>2 DEF TypeOK, LoginWrites, Statuses
  <2>4. QED
    BY <1>2, <2>1, <2>2, <2>3, GoesType DEF TypeOK, LoginWrites
<1>3. CASE SessionSteps
  <2>1. ASSUME NEW r \in Logins \cup Resets \cup Changes, SignsIn(r) PROVE TypeOK'
    <3>1. r \in Requests
      BY DEF Requests
    <3>2. sessions' \subseteq Requests
      BY <2>1, <3>1 DEF TypeOK, SignsIn
    <3>3. QED
      BY <2>1, <3>1, <3>2, GoesType DEF TypeOK, SignsIn
  <2>2. ASSUME NEW s \in Requests, SessionEnds(s) PROVE TypeOK'
    BY <2>2 DEF TypeOK, SessionEnds
  <2>3. QED
    BY <1>3, <2>1, <2>2 DEF SessionSteps
<1>4. CASE LinkSteps
  <2>1. ASSUME NEW r \in Asks, NEW l \in Links, AskReads(r, l) PROVE TypeOK'
    <3>1. r \in Requests
      BY DEF Requests
    <3>2. [req[r] EXCEPT !.at = "read", !.link = l] \in Progress
      BY <1>a, <3>1 DEF Progress
    <3>3. QED
      BY <2>1, <3>1, <3>2 DEF TypeOK, AskReads
  <2>2. ASSUME NEW r \in Asks, AskSpends(r) PROVE TypeOK'
    <3>1. r \in Requests
      BY DEF Requests
    <3>2. QED
      BY <2>2, <3>1, GoesType, LinkType DEF TypeOK, AskSpends
  <2>3. ASSUME NEW r \in Asks, AskCreates(r) PROVE TypeOK'
    <3>1. r \in Requests
      BY DEF Requests
    <3>2. link' \in [Links -> LinkStates]
      BY <2>3 DEF TypeOK, AskCreates, LinkStates
    <3>3. QED
      BY <2>3, <3>1, <3>2, GoesType DEF TypeOK, AskCreates
  <2>4. ASSUME NEW l \in Links, LinkExpires(l) PROVE TypeOK'
    BY <2>4 DEF TypeOK, LinkExpires, LinkStates
  <2>5. CASE PruneLinks
    BY <2>5 DEF TypeOK, PruneLinks, LinkStates
  <2>6. QED
    BY <1>4, <2>1, <2>2, <2>3, <2>4, <2>5 DEF LinkSteps
<1>5. ASSUME NEW r \in Resets, NEW l \in ResetLinks, NEW p \in Passwords, ResetReads(r, l, p)
      PROVE TypeOK'
  <2>1. r \in Requests /\ l \in Links /\ [pw |-> p, by |-> r] \in Hashes
    BY DEF Hashes, Requests, Links
  <2>2. [req[r] EXCEPT !.at = "read", !.link = l, !.hash = [pw |-> p, by |-> r]] \in Progress
    BY <1>a, <2>1 DEF Progress
  <2>3. QED
    BY <1>5, <2>1, <2>2 DEF TypeOK, ResetReads
<1>6. ASSUME NEW r \in Resets, ResetCommits(r) PROVE TypeOK'
  <2>1. r \in Requests
    BY DEF Requests
  <2>2. status' \in Statuses
    BY <1>6 DEF TypeOK, ResetCommits, Statuses
  <2>3. QED
    BY <1>6, <1>a, <2>1, <2>2, GoesType, LinkType DEF TypeOK, ResetCommits, RevokeAll
<1>7. ASSUME NEW r \in Resets \cup Changes, ResetRefused(r) \/ ChangeRefused(r) PROVE TypeOK'
  <2>1. r \in Requests
    BY DEF Requests
  <2>2. QED
    BY <1>7, <2>1, GoesType DEF TypeOK, ResetRefused, ChangeRefused
<1>8. ASSUME NEW r \in Changes, ChangeReads(r) PROVE TypeOK'
  <2>1. r \in Requests /\ hash \in Hashes
    BY DEF TypeOK, Requests
  <2>2. [req[r] EXCEPT !.at = "read", !.hash = hash] \in Progress
    BY <1>a, <2>1 DEF Progress
  <2>3. QED
    BY <1>8, <2>1, <2>2 DEF TypeOK, ChangeReads
<1>9. ASSUME NEW r \in Changes, NEW p \in Passwords, ChangeCommits(r, p) PROVE TypeOK'
  <2>1. r \in Requests /\ [pw |-> p, by |-> r] \in Hashes
    BY DEF Hashes, Requests
  <2>2. [req[r] EXCEPT !.at = "granted", !.hash = [pw |-> p, by |-> r]] \in Progress
    BY <1>a, <2>1 DEF Progress
  <2>3. QED
    BY <1>9, <2>1, <2>2, LinkType DEF TypeOK, ChangeCommits, RevokeAll
<1>10. CASE PasswordSteps
  BY <1>5, <1>6, <1>7, <1>8, <1>9, <1>10 DEF PasswordSteps
<1>11. CASE VerifySteps
  <2>1. ASSUME NEW r \in Verifications, NEW l \in VerifyLinks, VerifyReads(r, l) PROVE TypeOK'
    <3>1. r \in Requests /\ l \in Links /\ status \in Statuses
      BY DEF TypeOK, Requests, Links
    <3>2. [req[r] EXCEPT !.at = "read", !.link = l, !.status = status] \in Progress
      BY <1>a, <3>1 DEF Progress
    <3>3. QED
      BY <2>1, <3>1, <3>2 DEF TypeOK, VerifyReads
  <2>2. ASSUME NEW r \in Verifications, VerifyClaims(r) PROVE TypeOK'
    <3>1. r \in Requests
      BY DEF Requests
    <3>2. req' \in [Requests -> Progress]
      <4>1. CASE Unused(req[r].link)
        BY <2>2, <3>1, <4>1, GoesType DEF VerifyClaims
      <4>2. CASE ~Unused(req[r].link)
        BY <2>2, <3>1, <4>2, GoesType DEF VerifyClaims
      <4>3. QED
        BY <4>1, <4>2
    <3>3. QED
      BY <2>2, <3>2, LinkType DEF TypeOK, VerifyClaims
  <2>3. ASSUME NEW r \in Verifications, VerifyWrites(r) PROVE TypeOK'
    <3>1. r \in Requests
      BY DEF Requests
    <3>2. status' \in Statuses
      BY <1>a, <2>3, <3>1 DEF VerifyWrites, Statuses
    <3>3. QED
      BY <2>3, <3>1, <3>2, GoesType DEF TypeOK, VerifyWrites
  <2>4. QED
    BY <1>11, <2>1, <2>2, <2>3 DEF VerifySteps
<1>12. CASE Disable \/ Reinstate
  BY <1>12, LinkType DEF TypeOK, Disable, Reinstate, RevokeAll, Statuses
<1>13. CASE UNCHANGED vars
  BY <1>13 DEF TypeOK, vars
<1>14. QED
  BY <1>1, <1>2, <1>3, <1>4, <1>10, <1>11, <1>12, <1>13 DEF Next, LoginSteps

LEMMA TypeInit == Init => TypeOK
<1> SUFFICES ASSUME Init PROVE TypeOK
  OBVIOUS
<1>1. hash \in Hashes /\ status \in Statuses
  <2>1. CASE hash \in [pw : Passwords, by : StoredUnder]
    BY <2>1, AccountAssumption DEF Init, Hashes, Statuses
  <2>2. CASE hash = [pw |-> NoPassword, by |-> "registered"]
    BY <2>2 DEF Init, Hashes, Statuses
  <2>3. QED
    BY <2>1, <2>2 DEF Init
<1>2. link \in [Links -> LinkStates]
  BY DEF Init, LinkStates
<1>3. req \in [Requests -> Progress]
  BY <1>1 DEF Init, Progress
<1>4. QED
  BY <1>1, <1>2, <1>3 DEF Init, TypeOK

-----------------------------------------------------------------------------
\* No link is sent, and a spent one stays spent: what a step does to the links
\* unless it sends one.
Steady ==
    \A l \in Links : /\ link'[l] = "none" <=> link[l] = "none"
                     /\ link[l] \in {"used", "gone"} => link'[l] \in {"used", "gone"}

LEMMA SpendIsSteady == ASSUME TypeOK, NEW S, link' = Spend(S) PROVE Steady
<1> SUFFICES ASSUME NEW l \in Links
             PROVE  /\ link'[l] = "none" <=> link[l] = "none"
                    /\ link[l] \in {"used", "gone"} => link'[l] \in {"used", "gone"}
  BY DEF Steady
<1>1. link'[l] = IF l \in S /\ Unused(l) THEN "used" ELSE link[l]
  BY DEF Spend
<1>2. QED
  BY <1>1 DEF Unused

LEMMA SpendSpends ==
    ASSUME TypeOK, NEW S, NEW l \in S, l \in Links, Unused(l), link' = Spend(S)
    PROVE  link'[l] = "used"
  BY DEF Spend

\* The requests that use or make links are left alone.
LEMMA BystandersKeep ==
    ASSUME LinkInv, Steady,
           \A r \in Asks \cup LinkUsers : req'[r] = req[r]
    PROVE  LinkInv'
<1>1. MadeByOne'
  BY DEF LinkInv, MadeByOne, Steady
<1>2. PresentedWasSent'
  BY DEF LinkInv, PresentedWasSent, Steady
<1>3. LetThroughIsSpent'
  BY DEF LinkInv, LetThroughIsSpent, PresentedWasSent, Steady
<1>4. OneLetThrough'
  BY DEF LinkInv, OneLetThrough
<1>5. QED
  BY <1>1, <1>2, <1>3, <1>4 DEF LinkInv

\* One request that uses a link moves: it ends refused, presents a link that was
\* sent, is let through by an unspent one that the step spends, or was already.
LEMMA UserMoves ==
    ASSUME LinkInv, Steady, NEW r \in LinkUsers,
           \A q \in (Asks \cup LinkUsers) \ {r} : req'[q] = req[q],
           req'[r].link \in Links, link[req'[r].link] # "none",
           req'[r].at \in {"claimed", "granted", "done"} =>
              /\ req'[r].link = req[r].link
              /\ \/ req[r].at \in {"claimed", "granted", "done"}
                 \/ Unused(req[r].link) /\ link'[req[r].link] = "used"
    PROVE  LinkInv'
<1>1. \A q \in Asks : req'[q] = req[q]
  BY AccountAssumption DEF LinkUsers
<1>2. MadeByOne'
  BY <1>1 DEF LinkInv, MadeByOne, Steady
<1>3. PresentedWasSent'
  <2> SUFFICES ASSUME NEW q \in LinkUsers, req'[q].at # "new"
               PROVE  req'[q].link \in Links /\ link'[req'[q].link] # "none"
    BY DEF PresentedWasSent
  <2>1. CASE q = r
    BY <2>1 DEF Steady
  <2>2. CASE q # r
    BY <2>2 DEF LinkInv, PresentedWasSent, Steady
  <2>3. QED
    BY <2>1, <2>2
<1>4. LetThroughIsSpent'
  <2> SUFFICES ASSUME NEW q \in LinkUsers, req'[q].at \in {"claimed", "granted", "done"}
               PROVE  link'[req'[q].link] \in {"used", "gone"}
    BY DEF LetThroughIsSpent
  <2>1. CASE q = r
    BY <2>1 DEF LinkInv, LetThroughIsSpent, Steady
  <2>2. CASE q # r
    BY <2>2 DEF LinkInv, LetThroughIsSpent, PresentedWasSent, Steady
  <2>3. QED
    BY <2>1, <2>2
<1>5. OneLetThrough'
  <2>1. ASSUME NEW q \in LinkUsers, q # r, req[q].at \in {"claimed", "granted", "done"},
               req'[r].at \in {"claimed", "granted", "done"}, req'[r].link = req[q].link
        PROVE  FALSE
    BY <2>1 DEF LinkInv, LetThroughIsSpent, OneLetThrough, Unused
  <2>2. QED
    BY <2>1 DEF LinkInv, OneLetThrough
<1>6. QED
  BY <1>2, <1>3, <1>4, <1>5 DEF LinkInv

\* One request that makes a link moves, and sends none: it takes one that nobody
\* has, or goes on with the one it has.
LEMMA MakerMoves ==
    ASSUME LinkInv, Steady, NEW r \in Asks,
           \A q \in (Asks \cup LinkUsers) \ {r} : req'[q] = req[q],
           req'[r].link \in Links, link[req'[r].link] = "none",
           \/ req[r].at \in {"read", "claimed"} /\ req'[r].link = req[r].link
           \/ \A q \in Asks : req[q].link # req'[r].link
    PROVE  LinkInv'
<1>1. \A q \in LinkUsers : req'[q] = req[q]
  BY AccountAssumption DEF LinkUsers
<1>2. MadeByOne'
  <2>1. ASSUME NEW q \in Asks, req'[q].at \in {"read", "claimed"}
        PROVE  req'[q].link \in Links /\ link'[req'[q].link] = "none"
    <3>1. CASE q = r
      BY <3>1 DEF Steady
    <3>2. CASE q # r
      BY <2>1, <3>2 DEF LinkInv, MadeByOne, Steady
    <3>3. QED
      BY <3>1, <3>2
  <2>2. ASSUME NEW q \in Asks, q # r, req[q].at \in {"read", "claimed"},
               req'[r].link = req[q].link
        PROVE  FALSE
    BY <2>2 DEF LinkInv, MadeByOne
  <2>3. ASSUME NEW p \in Asks, NEW q \in Asks,
               req'[p].at \in {"read", "claimed"}, req'[q].at \in {"read", "claimed"},
               req'[q].link = req'[p].link
        PROVE  q = p
    BY <2>2, <2>3 DEF LinkInv, MadeByOne
  <2>4. QED
    BY <2>1, <2>3 DEF MadeByOne
<1>3. PresentedWasSent'
  BY <1>1 DEF LinkInv, PresentedWasSent, Steady
<1>4. LetThroughIsSpent'
  BY <1>1 DEF LinkInv, LetThroughIsSpent, PresentedWasSent, Steady
<1>5. OneLetThrough'
  BY <1>1 DEF LinkInv, OneLetThrough
<1>6. QED
  BY <1>2, <1>3, <1>4, <1>5 DEF LinkInv

\* Sending the link takes it from its maker, and from nobody else.
LEMMA LinkSent == ASSUME TypeOK, LinkInv, NEW r \in Asks, AskCreates(r) PROVE LinkInv'
<1>1. /\ req[r].at = "claimed" /\ req[r].link \in Links /\ link[req[r].link] = "none"
      /\ r \in Requests
  BY DEF AskCreates, LinkInv, MadeByOne, Requests
<1>2. /\ req'[r].at = "done"
      /\ \A q \in (Asks \cup LinkUsers) \ {r} : req'[q] = req[q]
  BY <1>1 DEF AskCreates, Goes, TypeOK, Requests, LinkUsers
<1>3. /\ link'[req[r].link] = "live"
      /\ \A l \in Links : l # req[r].link => link'[l] = link[l]
  BY <1>1 DEF AskCreates, TypeOK
<1>4. \A q \in LinkUsers : req'[q] = req[q]
  BY <1>2, AccountAssumption DEF LinkUsers
<1>5. MadeByOne'
  BY <1>1, <1>2, <1>3 DEF LinkInv, MadeByOne
<1>6. PresentedWasSent'
  BY <1>3, <1>4 DEF LinkInv, PresentedWasSent
<1>7. LetThroughIsSpent'
  BY <1>1, <1>3, <1>4 DEF LinkInv, LetThroughIsSpent, PresentedWasSent
<1>8. OneLetThrough'
  BY <1>4 DEF LinkInv, OneLetThrough
<1>9. QED
  BY <1>5, <1>6, <1>7, <1>8 DEF LinkInv

-----------------------------------------------------------------------------
LEMMA LinkStep == ASSUME TypeOK, LinkInv, [Next]_vars PROVE LinkInv'
<1>a. Asks \cup LinkUsers \subseteq Requests
  BY DEF LinkUsers, Requests
<1>b. UNCHANGED link => Steady
  BY DEF Steady
<1>c. ASSUME NEW r \in Logins \cup Changes,
             \E at : Goes(r, at) \/ \E rec : req' = [req EXCEPT ![r] = rec]
      PROVE  \A q \in Asks \cup LinkUsers : req'[q] = req[q]
  BY <1>a, <1>c, AccountAssumption DEF Goes, TypeOK, LinkUsers
<1>1. CASE LoginSteps
  <2>1. PICK r \in Logins : LoginReads(r) \/ LoginWrites(r)
    BY <1>1 DEF LoginSteps
  <2>2. \A q \in Asks \cup LinkUsers : req'[q] = req[q]
    BY <2>1, <1>c DEF LoginReads, LoginWrites
  <2>3. QED
    BY <2>1, <2>2, <1>b, BystandersKeep DEF LoginReads, LoginWrites
<1>2. CASE SessionSteps
  <2>1. ASSUME NEW r \in Logins \cup Changes, SignsIn(r) PROVE LinkInv'
    <3>1. \A q \in Asks \cup LinkUsers : req'[q] = req[q]
      BY <2>1, <1>c DEF SignsIn
    <3>2. QED
      BY <2>1, <3>1, <1>b, BystandersKeep DEF SignsIn
  <2>2. ASSUME NEW r \in Resets, SignsIn(r) PROVE LinkInv'
    <3>1. r \in LinkUsers /\ r \in Requests
      BY DEF LinkUsers, Requests
    <3>2. /\ req'[r].link = req[r].link /\ req[r].at = "granted"
          /\ \A q \in (Asks \cup LinkUsers) \ {r} : req'[q] = req[q]
      BY <2>2, <3>1, <1>a DEF SignsIn, Goes, TypeOK, Progress
    <3>3. req[r].link \in Links /\ link[req[r].link] # "none"
      BY <3>1, <3>2 DEF LinkInv, PresentedWasSent
    <3>4. Steady
      BY <2>2, <1>b DEF SignsIn
    <3>5. QED
      BY <3>1, <3>2, <3>3, <3>4, UserMoves
  <2>3. ASSUME NEW s \in Requests, SessionEnds(s) PROVE LinkInv'
    BY <2>3, <1>b, BystandersKeep DEF SessionEnds
  <2>4. QED
    BY <1>2, <2>1, <2>2, <2>3 DEF SessionSteps
<1>3. CASE LinkSteps
  <2>1. ASSUME NEW r \in Asks, NEW l \in Links, AskReads(r, l) PROVE LinkInv'
    <3>1. /\ req'[r].link = l /\ link[l] = "none"
          /\ \A q \in (Asks \cup LinkUsers) \ {r} : req'[q] = req[q]
          /\ \A q \in Asks : req[q].link # l
      BY <2>1, <1>a DEF AskReads, TypeOK, Progress
    <3>2. Steady
      BY <2>1, <1>b DEF AskReads
    <3>3. QED
      BY <3>1, <3>2, MakerMoves
  <2>2. ASSUME NEW r \in Asks, AskSpends(r) PROVE LinkInv'
    <3>1. /\ req'[r].link = req[r].link /\ req[r].at = "read"
          /\ \A q \in (Asks \cup LinkUsers) \ {r} : req'[q] = req[q]
      BY <2>2, <1>a DEF AskSpends, Goes, TypeOK, Progress
    <3>2. req[r].link \in Links /\ link[req[r].link] = "none"
      BY <3>1 DEF LinkInv, MadeByOne
    <3>3. Steady
      BY <2>2, SpendIsSteady DEF AskSpends
    <3>4. QED
      BY <3>1, <3>2, <3>3, MakerMoves
  <2>3. ASSUME NEW l \in Links, LinkExpires(l) PROVE LinkInv'
    <3>1. Steady
      BY <2>3 DEF LinkExpires, Steady, TypeOK
    <3>2. QED
      BY <2>3, <3>1, BystandersKeep DEF LinkExpires
  <2>4. CASE PruneLinks
    <3>1. Steady
      BY <2>4 DEF PruneLinks, Steady, TypeOK
    <3>2. QED
      BY <2>4, <3>1, BystandersKeep DEF PruneLinks
  <2>5. QED
    BY <1>3, <2>1, <2>2, <2>3, <2>4, LinkSent DEF LinkSteps
<1>4. CASE PasswordSteps
  <2>1. ASSUME NEW r \in Resets, NEW l \in ResetLinks, NEW p \in Passwords, ResetReads(r, l, p)
        PROVE  LinkInv'
    <3>1. r \in LinkUsers /\ l \in Links
      BY DEF LinkUsers, Links
    <3>2. /\ req'[r].link = l /\ req'[r].at = "read" /\ link[l] = "live"
          /\ \A q \in (Asks \cup LinkUsers) \ {r} : req'[q] = req[q]
      BY <2>1, <3>1, <1>a DEF ResetReads, TypeOK, Progress
    <3>3. Steady
      BY <2>1, <1>b DEF ResetReads
    <3>4. QED
      BY <3>1, <3>2, <3>3, UserMoves
  <2>2. ASSUME NEW r \in Resets, ResetCommits(r) \/ ResetRefused(r) PROVE LinkInv'
    <3>1. r \in LinkUsers
      BY DEF LinkUsers
    <3>2. /\ req'[r].link = req[r].link /\ req[r].at = "read"
          /\ \A q \in (Asks \cup LinkUsers) \ {r} : req'[q] = req[q]
      BY <2>2, <3>1, <1>a DEF ResetCommits, ResetRefused, Goes, TypeOK, Progress
    <3>3. req[r].link \in Links /\ link[req[r].link] # "none"
      BY <3>1, <3>2 DEF LinkInv, PresentedWasSent
    <3>4. CASE ResetCommits(r)
      <4>1. Steady
        BY <3>4, SpendIsSteady DEF ResetCommits, RevokeAll
      <4>2. Unused(req[r].link) /\ link'[req[r].link] = "used"
        BY <3>3, <3>4, SpendSpends DEF ResetCommits, RevokeAll, MayReset
      <4>3. QED
        BY <3>1, <3>2, <3>3, <4>1, <4>2, UserMoves
    <3>5. CASE ResetRefused(r)
      <4>1. Steady
        BY <3>5, <1>b DEF ResetRefused
      <4>2. req'[r].at = "refused"
        BY <3>5, <3>1, <1>a DEF ResetRefused, Goes, TypeOK, Progress
      <4>3. QED
        BY <3>1, <3>2, <3>3, <4>1, <4>2, UserMoves
    <3>6. QED
      BY <2>2, <3>4, <3>5
  <2>3. ASSUME NEW r \in Changes, ChangeReads(r) \/ ChangeRefused(r) PROVE LinkInv'
    <3>1. \A q \in Asks \cup LinkUsers : req'[q] = req[q]
      BY <2>3, <1>c DEF ChangeReads, ChangeRefused
    <3>2. QED
      BY <2>3, <3>1, <1>b, BystandersKeep DEF ChangeReads, ChangeRefused
  <2>4. ASSUME NEW r \in Changes, NEW p \in Passwords, ChangeCommits(r, p) PROVE LinkInv'
    <3>1. \A q \in Asks \cup LinkUsers : req'[q] = req[q]
      BY <2>4, <1>c DEF ChangeCommits
    <3>2. Steady
      BY <2>4, SpendIsSteady DEF ChangeCommits, RevokeAll
    <3>3. QED
      BY <3>1, <3>2, BystandersKeep
  <2>5. QED
    BY <1>4, <2>1, <2>2, <2>3, <2>4 DEF PasswordSteps
<1>5. CASE VerifySteps
  <2>1. ASSUME NEW r \in Verifications, NEW l \in VerifyLinks, VerifyReads(r, l) PROVE LinkInv'
    <3>1. r \in LinkUsers /\ l \in Links
      BY DEF LinkUsers, Links
    <3>2. /\ req'[r].link = l /\ req'[r].at = "read" /\ link[l] = "live"
          /\ \A q \in (Asks \cup LinkUsers) \ {r} : req'[q] = req[q]
      BY <2>1, <3>1, <1>a DEF VerifyReads, TypeOK, Progress
    <3>3. Steady
      BY <2>1, <1>b DEF VerifyReads
    <3>4. QED
      BY <3>1, <3>2, <3>3, UserMoves
  <2>2. ASSUME NEW r \in Verifications, VerifyClaims(r) PROVE LinkInv'
    <3>1. r \in LinkUsers
      BY DEF LinkUsers
    <3>2. /\ req'[r].link = req[r].link /\ req[r].at = "read"
          /\ \A q \in (Asks \cup LinkUsers) \ {r} : req'[q] = req[q]
      BY <2>2, <3>1, <1>a DEF VerifyClaims, Goes, TypeOK, Progress
    <3>3. req[r].link \in Links /\ link[req[r].link] # "none"
      BY <3>1, <3>2 DEF LinkInv, PresentedWasSent
    <3>4. Steady
      BY <2>2, SpendIsSteady DEF VerifyClaims
    <3>5. CASE Unused(req[r].link)
      <4>1. link'[req[r].link] = "used"
        BY <2>2, <3>3, <3>5, SpendSpends DEF VerifyClaims
      <4>2. QED
        BY <3>1, <3>2, <3>3, <3>4, <3>5, <4>1, UserMoves
    <3>6. CASE ~Unused(req[r].link)
      <4>1. req'[r].at = "refused"
        BY <2>2, <3>1, <3>6, <1>a DEF VerifyClaims, Goes, TypeOK, Progress
      <4>2. QED
        BY <3>1, <3>2, <3>3, <3>4, <4>1, UserMoves
    <3>7. QED
      BY <3>5, <3>6
  <2>3. ASSUME NEW r \in Verifications, VerifyWrites(r) PROVE LinkInv'
    <3>1. r \in LinkUsers
      BY DEF LinkUsers
    <3>2. /\ req'[r].link = req[r].link /\ req[r].at = "claimed"
          /\ \A q \in (Asks \cup LinkUsers) \ {r} : req'[q] = req[q]
      BY <2>3, <3>1, <1>a DEF VerifyWrites, Goes, TypeOK, Progress
    <3>3. req[r].link \in Links /\ link[req[r].link] # "none"
      BY <3>1, <3>2 DEF LinkInv, PresentedWasSent
    <3>4. Steady
      BY <2>3, <1>b DEF VerifyWrites
    <3>5. QED
      BY <3>1, <3>2, <3>3, <3>4, UserMoves
  <2>4. QED
    BY <1>5, <2>1, <2>2, <2>3 DEF VerifySteps
<1>6. CASE Disable
  <2>1. Steady
    BY <1>6, SpendIsSteady DEF Disable, RevokeAll
  <2>2. QED
    BY <1>6, <2>1, BystandersKeep DEF Disable
<1>7. CASE Reinstate
  BY <1>7, <1>b, BystandersKeep DEF Reinstate
<1>8. CASE UNCHANGED vars
  BY <1>8, <1>b, BystandersKeep DEF vars
<1>9. QED
  BY <1>1, <1>2, <1>3, <1>4, <1>5, <1>6, <1>7, <1>8 DEF Next

LEMMA LinkInit == Init => LinkInv
<1> SUFFICES ASSUME Init PROVE LinkInv
  OBVIOUS
<1>1. \A r \in Asks \cup LinkUsers : req[r].at = "new"
  BY DEF Init, Requests, LinkUsers
<1>2. QED
  BY <1>1 DEF LinkInv, MadeByOne, PresentedWasSent, LetThroughIsSpent, OneLetThrough

LEMMA LinkInvImplies == LinkInv => LinkWorksOnce
  BY DEF LinkInv, OneLetThrough, LinkWorksOnce, LetThroughBy, LinkUsers

-----------------------------------------------------------------------------
\* Every variable keeps its type, and what the state of a link says of the
\* requests that make or present it stays true.
THEOREM LinksAreTracked == Spec => [](TypeOK /\ LinkInv)
<1>1. Init => TypeOK /\ LinkInv
  BY TypeInit, LinkInit
<1>2. TypeOK /\ LinkInv /\ [Next]_vars => (TypeOK /\ LinkInv)'
  BY TypeStep, LinkStep
<1>3. QED
  BY <1>1, <1>2, PTL DEF Spec

\* The account, its links and its requests keep their types.
THEOREM AccountTypeCorrect == Spec => []TypeOK
  BY LinksAreTracked, PTL

\* resetPassword and verifyEmail: however many requests have read a link as
\* unused before one spends it, it lets one of them through.
THEOREM LinksWorkOnce == Spec => []LinkWorksOnce
  BY LinksAreTracked, LinkInvImplies, PTL

-----------------------------------------------------------------------------
\* Who wrote the stored hash has written it, a reset holds a hash of its own, and
\* a verification presents a verification link.
HashHasAuthor ==
    hash.by \in Resets \cup Changes => req[hash.by].at \in {"granted", "done"}
ResetsHoldTheirOwn ==
    \A r \in Resets : req[r].at = "read" => req[r].hash.by = r
VerificationsVerify ==
    \A r \in Verifications : req[r].at # "new" => req[r].link \in VerifyLinks

WriterInv == HashHasAuthor /\ ResetsHoldTheirOwn /\ VerificationsVerify

\* One request moves, and the hash stays or becomes its own.
LEMMA WriterMoves ==
    ASSUME TypeOK, WriterInv, NEW r \in Requests,
           \A q \in Requests \ {r} : req'[q] = req[q],
           r \in Resets /\ req'[r].at = "read" => req'[r].hash.by = r,
           r \in Verifications => req'[r].link \in VerifyLinks,
           req[r].at \in {"granted", "done"} => req'[r].at \in {"granted", "done"},
           \/ hash' = hash
           \/ hash'.by \in Logins
           \/ hash'.by = r /\ req'[r].at = "granted"
    PROVE  WriterInv'
<1>1. HashHasAuthor'
  <2>1. CASE hash' = hash
    BY <2>1 DEF WriterInv, HashHasAuthor, Requests
  <2>2. CASE hash'.by \in Logins
    BY <2>2, AccountAssumption DEF HashHasAuthor
  <2>3. CASE hash'.by = r /\ req'[r].at = "granted"
    BY <2>3 DEF HashHasAuthor
  <2>4. QED
    BY <2>1, <2>2, <2>3
<1>2. ResetsHoldTheirOwn'
  BY DEF WriterInv, ResetsHoldTheirOwn, Requests
<1>3. VerificationsVerify'
  BY DEF WriterInv, VerificationsVerify, Requests
<1>4. QED
  BY <1>1, <1>2, <1>3 DEF WriterInv

LEMMA WriterStays == ASSUME WriterInv, UNCHANGED <<hash, req>> PROVE WriterInv'
  BY DEF WriterInv, HashHasAuthor, ResetsHoldTheirOwn, VerificationsVerify

\* What Goes says of the requests.
LEMMA GoesMeans ==
    ASSUME TypeOK, NEW r \in Requests, NEW at, Goes(r, at)
    PROVE  /\ req'[r].at = at /\ req'[r].link = req[r].link /\ req'[r].hash = req[r].hash
           /\ \A q \in Requests \ {r} : req'[q] = req[q]
  BY DEF Goes, TypeOK, Progress

LEMMA WriterStep == ASSUME TypeOK, WriterInv, [Next]_vars PROVE WriterInv'
<1>a. \A r \in Verifications : req[r].at # "new" => req[r].link \in VerifyLinks
  BY DEF WriterInv, VerificationsVerify
<1>1. CASE LoginSteps
  <2>1. PICK r \in Logins : LoginReads(r) \/ LoginWrites(r)
    BY <1>1 DEF LoginSteps
  <2>2. r \in Requests /\ r \notin Resets /\ r \notin Verifications
    BY AccountAssumption DEF Requests
  <2>3. CASE LoginReads(r)
    <3>1. /\ \A q \in Requests \ {r} : req'[q] = req[q]
          /\ req[r].at = "new" /\ hash' = hash
      BY <2>2, <2>3 DEF LoginReads, TypeOK
    <3>2. QED
      BY <2>2, <3>1, WriterMoves
  <2>4. CASE LoginWrites(r)
    <3>1. hash' = hash \/ hash'.by \in Logins
      BY <2>2, <2>4 DEF LoginWrites, TypeOK, Progress, Hashes
    <3>2. Goes(r, "granted") /\ req[r].at = "read"
      BY <2>4 DEF LoginWrites
    <3>3. QED
      BY <2>2, <3>1, <3>2, GoesMeans, WriterMoves
  <2>5. QED
    BY <2>1, <2>3, <2>4
<1>2. CASE SessionSteps
  <2>1. ASSUME NEW r \in Logins \cup Resets \cup Changes, SignsIn(r) PROVE WriterInv'
    <3>1. r \in Requests /\ r \notin Verifications
      BY AccountAssumption DEF Requests
    <3>2. hash' = hash /\ Goes(r, "done")
      BY <2>1 DEF SignsIn
    <3>3. req'[r].at = "done" /\ \A q \in Requests \ {r} : req'[q] = req[q]
      BY <3>1, <3>2, GoesMeans
    <3>4. QED
      BY <3>1, <3>2, <3>3, WriterMoves
  <2>2. ASSUME NEW s \in Requests, SessionEnds(s) PROVE WriterInv'
    BY <2>2, WriterStays DEF SessionEnds
  <2>3. QED
    BY <1>2, <2>1, <2>2 DEF SessionSteps
<1>3. CASE LinkSteps
  <2>1. ASSUME NEW r \in Asks, NEW l \in Links, AskReads(r, l) PROVE WriterInv'
    <3>1. r \in Requests /\ r \notin Resets /\ r \notin Verifications
      BY AccountAssumption DEF Requests
    <3>2. /\ \A q \in Requests \ {r} : req'[q] = req[q]
          /\ req[r].at = "new" /\ hash' = hash
      BY <2>1, <3>1 DEF AskReads, TypeOK
    <3>3. QED
      BY <3>1, <3>2, WriterMoves
  <2>2. ASSUME NEW r \in Asks, AskSpends(r) \/ AskCreates(r) PROVE WriterInv'
    <3>1. r \in Requests /\ r \notin Resets /\ r \notin Verifications
      BY AccountAssumption DEF Requests
    <3>2. /\ \A q \in Requests \ {r} : req'[q] = req[q]
          /\ req[r].at \in {"read", "claimed"} /\ hash' = hash
      BY <2>2, <3>1 DEF AskSpends, AskCreates, Goes, TypeOK
    <3>3. QED
      BY <3>1, <3>2, WriterMoves
  <2>3. ASSUME NEW l \in Links, LinkExpires(l) PROVE WriterInv'
    BY <2>3, WriterStays DEF LinkExpires
  <2>4. CASE PruneLinks
    BY <2>4, WriterStays DEF PruneLinks
  <2>5. QED
    BY <1>3, <2>1, <2>2, <2>3, <2>4 DEF LinkSteps
<1>4. CASE PasswordSteps
  <2>1. ASSUME NEW r \in Resets, NEW l \in ResetLinks, NEW p \in Passwords, ResetReads(r, l, p)
        PROVE  WriterInv'
    <3>1. r \in Requests /\ r \notin Verifications
      BY AccountAssumption DEF Requests
    <3>2. /\ req'[r].hash.by = r /\ req[r].at = "new" /\ hash' = hash
          /\ \A q \in Requests \ {r} : req'[q] = req[q]
      BY <2>1, <3>1 DEF ResetReads, TypeOK, Progress
    <3>3. QED
      BY <3>1, <3>2, WriterMoves
  <2>2. ASSUME NEW r \in Resets, ResetCommits(r) PROVE WriterInv'
    <3>1. r \in Requests /\ r \notin Verifications
      BY AccountAssumption DEF Requests
    <3>2. hash' = req[r].hash /\ req[r].at = "read" /\ Goes(r, "granted")
      BY <2>2 DEF ResetCommits
    <3>3. hash'.by = r
      BY <3>2 DEF WriterInv, ResetsHoldTheirOwn
    <3>4. req'[r].at = "granted" /\ \A q \in Requests \ {r} : req'[q] = req[q]
      BY <3>1, <3>2, GoesMeans
    <3>5. QED
      BY <3>1, <3>2, <3>3, <3>4, WriterMoves
  <2>3. ASSUME NEW r \in Resets \cup Changes, ResetRefused(r) \/ ChangeRefused(r) PROVE WriterInv'
    <3>1. r \in Requests /\ r \notin Verifications
      BY AccountAssumption DEF Requests
    <3>2. hash' = hash /\ req[r].at = "read" /\ Goes(r, "refused")
      BY <2>3 DEF ResetRefused, ChangeRefused
    <3>3. req'[r].at = "refused" /\ \A q \in Requests \ {r} : req'[q] = req[q]
      BY <3>1, <3>2, GoesMeans
    <3>4. QED
      BY <3>1, <3>2, <3>3, WriterMoves
  <2>4. ASSUME NEW r \in Changes, ChangeReads(r) PROVE WriterInv'
    <3>1. r \in Requests /\ r \notin Verifications /\ r \notin Resets
      BY AccountAssumption DEF Requests
    <3>2. /\ req[r].at = "new" /\ hash' = hash
          /\ \A q \in Requests \ {r} : req'[q] = req[q]
      BY <2>4, <3>1 DEF ChangeReads, TypeOK
    <3>3. QED
      BY <3>1, <3>2, WriterMoves
  <2>5. ASSUME NEW r \in Changes, NEW p \in Passwords, ChangeCommits(r, p) PROVE WriterInv'
    <3>1. r \in Requests /\ r \notin Verifications /\ r \notin Resets
      BY AccountAssumption DEF Requests
    <3>2. /\ hash'.by = r /\ req'[r].at = "granted"
          /\ \A q \in Requests \ {r} : req'[q] = req[q]
      BY <2>5, <3>1 DEF ChangeCommits, TypeOK, Progress
    <3>3. QED
      BY <3>1, <3>2, WriterMoves
  <2>6. QED
    BY <1>4, <2>1, <2>2, <2>3, <2>4, <2>5 DEF PasswordSteps
<1>5. CASE VerifySteps
  <2>1. ASSUME NEW r \in Verifications, NEW l \in VerifyLinks, VerifyReads(r, l) PROVE WriterInv'
    <3>1. r \in Requests /\ r \notin Resets
      BY AccountAssumption DEF Requests
    <3>2. /\ req'[r].link = l /\ req[r].at = "new" /\ hash' = hash
          /\ \A q \in Requests \ {r} : req'[q] = req[q]
      BY <2>1, <3>1 DEF VerifyReads, TypeOK, Progress
    <3>3. QED
      BY <3>1, <3>2, WriterMoves
  <2>2. ASSUME NEW r \in Verifications, VerifyClaims(r) \/ VerifyWrites(r) PROVE WriterInv'
    <3>1. r \in Requests /\ r \notin Resets
      BY AccountAssumption DEF Requests
    <3>2. hash' = hash /\ req[r].at \in {"read", "claimed"} /\ \E at : Goes(r, at)
      BY <2>2 DEF VerifyClaims, VerifyWrites
    <3>3. req'[r].link = req[r].link /\ \A q \in Requests \ {r} : req'[q] = req[q]
      BY <3>1, <3>2, GoesMeans
    <3>4. QED
      BY <1>a, <3>1, <3>2, <3>3, WriterMoves
  <2>3. QED
    BY <1>5, <2>1, <2>2 DEF VerifySteps
<1>6. CASE Disable \/ Reinstate
  BY <1>6, WriterStays DEF Disable, Reinstate
<1>7. CASE UNCHANGED vars
  BY <1>7, WriterStays DEF vars
<1>8. QED
  BY <1>1, <1>2, <1>3, <1>4, <1>5, <1>6, <1>7 DEF Next

LEMMA WriterInit == Init => WriterInv
<1> SUFFICES ASSUME Init PROVE WriterInv
  OBVIOUS
<1>1. \A r \in Requests : req[r].at = "new"
  BY DEF Init
<1>2. hash.by \in {"registered", "old parameters"}
  <2>1. CASE hash \in [pw : Passwords, by : StoredUnder]
    BY <2>1, AccountAssumption
  <2>2. CASE hash = [pw |-> NoPassword, by |-> "registered"]
    BY <2>2
  <2>3. QED
    BY <2>1, <2>2 DEF Init
<1>3. hash.by \notin Resets \cup Changes
  BY <1>2, AccountAssumption DEF Requests
<1>4. QED
  BY <1>1, <1>3 DEF WriterInv, HashHasAuthor, ResetsHoldTheirOwn, VerificationsVerify, Requests

-----------------------------------------------------------------------------
\* A reset link is spent only with a step that uses it up for good.
LinkUsedUp ==
    \A l \in ResetLinks : (Unused(l) /\ link'[l] = "used") =>
        \/ hash' # hash
        \/ status # "disabled" /\ status' = "disabled"
        \/ \E r \in Asks : req[r].at = "read" /\ req'[r].at = "claimed"

LEMMA LinkUsedUpStep == ASSUME TypeOK, WriterInv, [Next]_vars PROVE LinkUsedUp
<1> SUFFICES ASSUME NEW l \in ResetLinks, Unused(l), link'[l] = "used", hash' = hash
             PROVE  \/ status # "disabled" /\ status' = "disabled"
                    \/ \E r \in Asks : req[r].at = "read" /\ req'[r].at = "claimed"
  BY DEF LinkUsedUp
<1>1. link[l] # "used" /\ l \in Links /\ link' # link
  BY DEF Unused, Links
<1>2. ASSUME NEW r \in Resets, ResetCommits(r) PROVE FALSE
  <2>1. req[r].at = "read" /\ req[r].hash.by = r /\ hash = req[r].hash
    BY <1>2 DEF ResetCommits, WriterInv, ResetsHoldTheirOwn
  <2>2. QED
    BY <2>1 DEF WriterInv, HashHasAuthor
<1>3. ASSUME NEW r \in Changes, NEW p \in Passwords, ChangeCommits(r, p) PROVE FALSE
  <2>1. req[r].at = "read" /\ hash.by = r
    BY <1>3 DEF ChangeCommits
  <2>2. QED
    BY <2>1 DEF WriterInv, HashHasAuthor
<1>4. ASSUME NEW r \in Verifications, VerifyClaims(r) PROVE FALSE
  <2>1. req[r].link # l
    BY <1>4, AccountAssumption DEF VerifyClaims, WriterInv, VerificationsVerify
  <2>2. QED
    BY <1>1, <1>4, <2>1 DEF VerifyClaims, Spend
<1>5. ASSUME NEW r \in Asks, AskSpends(r)
      PROVE  req[r].at = "read" /\ req'[r].at = "claimed"
  BY <1>5, GoesMeans DEF AskSpends, Requests
<1>6. ASSUME NEW r \in Asks, AskCreates(r) PROVE FALSE
  BY <1>1, <1>6 DEF AskCreates, TypeOK
<1>7. ASSUME NEW k \in Links, LinkExpires(k) PROVE FALSE
  BY <1>1, <1>7 DEF LinkExpires, TypeOK
<1>8. ~PruneLinks
  BY <1>1 DEF PruneLinks, TypeOK
<1>9. Disable => status # "disabled" /\ status' = "disabled"
  BY DEF Disable
<1>10. CASE LinkSteps
  BY <1>1, <1>5, <1>6, <1>7, <1>8, <1>10 DEF LinkSteps, AskReads
<1>11. CASE PasswordSteps
  BY <1>1, <1>2, <1>3, <1>11 DEF PasswordSteps, ResetReads, ResetRefused, ChangeReads,
                                 ChangeRefused
<1>12. CASE VerifySteps
  BY <1>1, <1>4, <1>12 DEF VerifySteps, VerifyReads, VerifyWrites
<1>13. CASE LoginSteps \/ SessionSteps
  BY <1>1, <1>13 DEF LoginSteps, LoginReads, LoginWrites, SessionSteps, SignsIn, SessionEnds
<1>14. CASE Reinstate \/ UNCHANGED vars
  BY <1>1, <1>14 DEF Reinstate, vars
<1>15. QED
  BY <1>9, <1>10, <1>11, <1>12, <1>13, <1>14 DEF Next

\* resetPassword: a reset that is rolled back leaves the link usable, for any
\* number of links and requests.
THEOREM ResetLinksSurviveRefusal == Spec => RefusedResetKeepsItsLink
<1>1. Init => TypeOK /\ WriterInv
  BY TypeInit, WriterInit
<1>2. TypeOK /\ WriterInv /\ [Next]_vars => (TypeOK /\ WriterInv)'
  BY TypeStep, WriterStep
<1>3. TypeOK /\ WriterInv /\ [Next]_vars => [LinkUsedUp]_vars
  BY LinkUsedUpStep
<1>4. RefusedResetKeepsItsLink <=> [][LinkUsedUp]_vars
  BY PTL DEF RefusedResetKeepsItsLink, LinkUsedUp
<1>5. QED
  BY <1>1, <1>2, <1>3, <1>4, PTL DEF Spec

-----------------------------------------------------------------------------
\* A step that replaces the password is one of the three.
ReplacedKnowingly ==
    hash'.pw # hash.pw =>
        \/ \E r \in Changes : Succeeds(r) /\ req[r].hash = hash
        \/ \E r \in Resets : Succeeds(r) /\ Unused(req[r].link)
        \/ \E r \in Logins : /\ Succeeds(r) /\ req[r].hash.by = "old parameters"
                             /\ hash'.pw = req[r].hash.pw

LEMMA ReplacedKnowinglyStep ==
    ASSUME TypeOK, [Next]_vars PROVE ReplacedKnowingly
<1> SUFFICES ASSUME hash'.pw # hash.pw
             PROVE  \/ \E r \in Changes : Succeeds(r) /\ req[r].hash = hash
                    \/ \E r \in Resets : Succeeds(r) /\ Unused(req[r].link)
                    \/ \E r \in Logins : /\ Succeeds(r) /\ req[r].hash.by = "old parameters"
                                         /\ hash'.pw = req[r].hash.pw
  BY DEF ReplacedKnowingly
<1>1. hash' # hash
  OBVIOUS
<1>2. ASSUME NEW r \in Logins, LoginWrites(r)
      PROVE  /\ Succeeds(r) /\ req[r].hash.by = "old parameters"
             /\ hash'.pw = req[r].hash.pw
  <2>1. r \in Requests /\ req[r].hash \in Hashes
    BY DEF Requests, TypeOK, Progress
  <2>2. req[r].hash.by = "old parameters" /\ hash' = [req[r].hash EXCEPT !.by = r]
    BY <1>1, <1>2 DEF LoginWrites
  <2>3. hash'.pw = req[r].hash.pw
    BY <2>1, <2>2 DEF Hashes
  <2>4. Succeeds(r)
    BY <1>2, <2>1, GoesMeans DEF LoginWrites, Succeeds
  <2>5. QED
    BY <2>2, <2>3, <2>4
<1>3. ASSUME NEW r \in Resets, ResetCommits(r)
      PROVE  Succeeds(r) /\ Unused(req[r].link)
  BY <1>3, GoesMeans DEF ResetCommits, MayReset, Succeeds, Requests
<1>4. ASSUME NEW r \in Changes, NEW p \in Passwords, ChangeCommits(r, p)
      PROVE  Succeeds(r) /\ req[r].hash = hash
  <2>1. r \in Requests
    BY DEF Requests
  <2>2. QED
    BY <1>4, <2>1 DEF ChangeCommits, MayChange, Succeeds, TypeOK, Progress
<1>5. CASE PasswordSteps
  BY <1>1, <1>3, <1>4, <1>5 DEF PasswordSteps, ResetReads, ResetRefused, ChangeReads,
                                ChangeRefused
<1>6. CASE LoginSteps \/ SessionSteps
  BY <1>1, <1>2, <1>6 DEF LoginSteps, LoginReads, SessionSteps, SignsIn, SessionEnds
<1>7. CASE LinkSteps \/ VerifySteps
  BY <1>1, <1>7 DEF LinkSteps, AskReads, AskSpends, AskCreates, LinkExpires, PruneLinks,
                    VerifySteps, VerifyReads, VerifyClaims, VerifyWrites
<1>8. CASE Disable \/ Reinstate \/ UNCHANGED vars
  BY <1>1, <1>8 DEF Disable, Reinstate, vars
<1>9. QED
  BY <1>5, <1>6, <1>7, <1>8 DEF Next

\* authenticate, changePassword and resetPassword: for any hash parameters, a password
\* changes only by a change that proved the one it replaces, by an unspent link, or by
\* the upgrade of a sign-in that had proved the password it stores.
THEOREM PasswordsChangeHandsKnowingly == Spec => PasswordReplacedKnowingly
<1>1. TypeOK /\ [Next]_vars => [ReplacedKnowingly]_vars
  BY ReplacedKnowinglyStep
<1>2. PasswordReplacedKnowingly <=> [][ReplacedKnowingly]_vars
  BY PTL DEF PasswordReplacedKnowingly, ReplacedKnowingly
<1>3. QED
  BY <1>1, <1>2, TypeInit, TypeStep, PTL DEF Spec
=============================================================================
