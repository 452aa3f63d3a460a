---------------------------- MODULE MeteredHashing ----------------------------
(***************************************************************************)
(* The rate limiter (middleware/rateLimit) in front of the hashing gate:   *)
(* POST /login, /register, /forgot-password and /reset-password are        *)
(* counted before they may reach scrypt.  The counter is a fixed window per*)
(* key, a key being a path with the caller's address or with the           *)
(* identifier in the body.  The table of rules is looked up by the path as *)
(* it is written, while the routes also match another case and a trailing  *)
(* slash: a request written so has no rule, and is let through uncounted.  *)
(***************************************************************************)
EXTENDS HashGate, Functions

CONSTANTS
    Keys,
    KeysOf,         \* KeysOf[r]: the keys of r's rule, the address' first; none
                    \* for a request without a rule
    Limit,          \* loginRateLimitPerMinute
    Window,         \* windowMs
    SweepAt,        \* SWEEP_AT
    MaxTime         \* bound: clock

ASSUME LimiterAssumption ==
    /\ KeysOf \in [Requests -> Seq(Keys)]
    /\ \A r \in Requests : Len(KeysOf[r]) \in {0, 1, 2}
    /\ Limit \in Nat \ {0} /\ Window \in Nat \ {0}
    /\ SweepAt \in Nat /\ MaxTime \in Nat

VARIABLES
    windows,        \* the Map: a key's count and resetAt, or NoEntry
    admitted,       \* requests let through that have not begun to hash
    passed,         \* ghost: passed[k][t], requests counted under k and let
                    \* through before t
    now

limiter == <<windows, admitted, passed, now>>

NoEntry == [count |-> 0, resetAt |-> 0]
Horizon == 0..(MaxTime + Window)

MeteredInit ==
    /\ Init
    /\ windows = [k \in Keys |-> NoEntry]
    /\ admitted = {}
    /\ passed = [k \in Keys |-> [t \in Horizon |-> 0]]
    /\ now = 0

-----------------------------------------------------------------------------
\* sweep, above SweepAt keys.  Mutant: live windows go too.
SweepAll(map) == [k \in Keys |-> NoEntry]
Sweep(map) == [k \in Keys |-> IF map[k].resetAt <= now THEN NoEntry ELSE map[k]]
Swept(map) ==
    IF Cardinality({k \in Keys : map[k] # NoEntry}) > SweepAt THEN Sweep(map) ELSE map

\* hit: counts above the limit are all alike.
Hit(map, k) ==
    LET kept == Swept(map)
        entry == kept[k]
    IN  [kept EXCEPT ![k] =
            IF entry.resetAt <= now
            THEN [count |-> 1, resetAt |-> now + Window]
            ELSE [count |-> IF entry.count > Limit THEN entry.count ELSE entry.count + 1,
                  resetAt |-> entry.resetAt]]

\* rateLimitMiddleware: "both keys are hit, not short-circuited".
HitAll(map, r) ==
    LET first == Hit(map, KeysOf[r][1])
    IN  CASE KeysOf[r] = <<>> -> map
          [] Len(KeysOf[r]) = 1 -> first
          [] Len(KeysOf[r]) = 2 -> Hit(first, KeysOf[r][2])

\* A request without a rule goes straight on: nothing is hit, nothing refuses it.
Arrive(r) ==
    LET map == HitAll(windows, r)
    IN  /\ pc[r] = "idle" /\ r \notin admitted
        /\ windows' = map
        /\ IF \A k \in Range(KeysOf[r]) : map[k].count <= Limit
           THEN /\ admitted' = admitted \cup {r}
                /\ passed' = [k \in Keys |-> [t \in Horizon |->
                        IF k \in Range(KeysOf[r]) /\ t > now
                        THEN passed[k][t] + 1 ELSE passed[k][t]]]
           ELSE UNCHANGED <<admitted, passed>>
        /\ UNCHANGED <<vars, now>>

\* The handler calls hashPassword or verifyPassword.
AcquireAdmitted(r) ==
    /\ r \in admitted
    /\ Acquire(r)
    /\ admitted' = admitted \ {r}
    /\ UNCHANGED <<windows, passed, now>>

Tick ==
    /\ now < MaxTime
    /\ now' = now + 1
    /\ UNCHANGED <<vars, windows, admitted, passed>>

MeteredNext ==
    \/ \E r \in Requests :
        \/ Arrive(r) \/ AcquireAdmitted(r)
        \/ (Start(r) \/ Finished(r) \/ Release(r) \/ Return(r)) /\ UNCHANGED limiter
    \/ Tick

MeteredSpec == MeteredInit /\ [][MeteredNext]_<<vars, limiter>> /\ Fairness

-----------------------------------------------------------------------------
\* Let through in the Window that begins at t.
PassedFrom(k, t) == passed[k][t + Window] - passed[k][t]

\* "The burst it permits at a window boundary -- up to 2x the limit across two
\* adjacent windows" (rateLimit.js:20): wherever a span of one window begins, and
\* whatever other keys and sweeps do to the map meanwhile, of the requests that have
\* a rule no more than twice the limit get through to the gate in it from one
\* address or for one identifier.  (Nothing bounds the requests without a rule but
\* the gate itself.)
BurstIsBounded ==
    \A k \in Keys, t \in 0..MaxTime : PassedFrom(k, t) <= 2 * Limit
=============================================================================
