------------------------------ MODULE KeyRing ------------------------------
(***************************************************************************)
(* Signing keys: the signing_keys table that the replicas share, the key   *)
(* ring each process loads once and caches, and the tokens signed with it  *)
(* (keyService, and createKeyRing, signJwt and verifyJwt of lib/jwt).      *)
(*                                                                         *)
(* ensureKeyRing and rotate await the database, and several of their calls *)
(* may run in one process: what a call read is kept in its task until the  *)
(* call goes on, and it then assigns the ring without looking again at the *)
(* table or at the ring.                                                   *)
(*                                                                         *)
(* Nothing in the program calls rotate: it is an operation of the service, *)
(* taken here as often as MaxRotations allows.  Key material, algorithms   *)
(* and claims are left out; a token is its key id and its expiry.          *)
(***************************************************************************)
EXTENDS Naturals, FiniteSets

CONSTANTS
    Replicas,       \* processes that share the database
    Calls,          \* calls of ensureKeyRing and rotate under way at one time
    Home,           \* the process a call runs in
    Keys,           \* key material; the key id is derived from it
    EnvKeySets,     \* what OAUTH_SIGNING_KEYS_JSON may hold, {} when it is unset
    TokenTtl,       \* life of a token
    Overlap,        \* rotate's overlapSeconds
    MaxTime,        \* bound: clock
    MaxRotations,   \* bound: calls of rotate
    MaxTokens,      \* bound: tokens remembered
    Nil

\* "24 hours" of overlap, and config/env caps the life of a token at that.
ASSUME ConstantsAssumption ==
    /\ Home \in [Calls -> Replicas]
    /\ TokenTtl \in Nat \ {0} /\ Overlap \in Nat /\ TokenTtl <= Overlap
    /\ MaxTime \in Nat /\ MaxRotations \in Nat /\ MaxTokens \in Nat
    /\ \A e \in EnvKeySets : e \subseteq Keys
    /\ Nil \notin Keys

VARIABLES
    env,        \* the key set in the environment, the same for every process
    table,      \* rows of signing_keys
    drawn,      \* keys generated so far, or made for the environment
    ring,       \* ring[p]: p's cached key ring, Nil before its first load
    source,     \* source[p]: where p's latest ring came from
    task,       \* task[c]: where a call is in ensureKeyRing or rotate
    tokens,     \* signed tokens
    now,
    rotations

vars == <<env, table, drawn, ring, source, task, tokens, now, rotations>>

Times == 0..(MaxTime + Overlap + TokenTtl)
\* `boot' is the fixed bootstrap id; other rows have random ids.
Row == [kid : Keys, boot : BOOLEAN, active : BOOLEAN, at : Times, expires : Times \cup {Nil}]
Ring == [keys : SUBSET Keys, active : Keys]
\* Ghost: whether the key was active in the table when it signed.
Token == [kid : Keys, expires : Times, current : BOOLEAN]

\* A call before its first read, before the upsert, before its second read, and
\* between the two statements of rotate and after them; `loaded' and `settled' hold
\* the rows that were read and, as a ghost, the tokens whose keys they have to hold.
Idle == [op |-> "idle"]
Tasks ==
    [op : {"idle", "loading", "bootstrap", "rotate", "rotated"}]
        \cup [op : {"loaded"}, rows : SUBSET Row, seen : SUBSET Token]
        \cup [op : {"settling"}, kid : Keys]
        \cup [op : {"settled"}, kid : Keys, rows : SUBSET Row, seen : SUBSET Token]

TypeOK ==
    /\ env \in EnvKeySets
    /\ table \in SUBSET Row
    /\ drawn \in SUBSET Keys
    /\ ring \in [Replicas -> Ring \cup {Nil}]
    /\ \A p \in Replicas : ring[p] # Nil => ring[p].active \in ring[p].keys
    /\ source \in [Replicas -> {"none", "environment", "database"}]
    /\ task \in [Calls -> Tasks]
    /\ tokens \in SUBSET Token
    /\ now \in 0..MaxTime
    /\ rotations \in 0..MaxRotations

Init ==
    /\ env \in EnvKeySets
    /\ table = {}
    /\ drawn = UNION EnvKeySets
    /\ ring = [p \in Replicas |-> Nil]
    /\ source = [p \in Replicas |-> "none"]
    /\ task = [c \in Calls |-> Idle]
    /\ tokens = {}
    /\ now = 0
    /\ rotations = 0

Doing(c, op) == task[c].op = op
Goto(c, t) == task' = [task EXCEPT ![c] = t]
Cache(p, r, from) ==
    /\ ring' = [ring EXCEPT ![p] = r]
    /\ source' = [source EXCEPT ![p] = from]

-----------------------------------------------------------------------------
(* ensureKeyRing *)

\* loadStoredKeys.  Mutant: only the active row.
LoadStoredActive(rows) == {r \in rows : r.active}
LoadStoredKeys(rows) ==
    {r \in rows : r.active \/ r.expires = Nil \/ r.expires > now}

Kids(rows) == {r.kid : r \in rows}

\* The first active row, or the first: rows are sorted newest first, and among
\* rows of one moment by a random id.
Newest(rows) == {r \in rows : \A q \in rows : q.at <= r.at}
FirstOf(rows) ==
    Newest(IF LoadStoredActive(rows) # {} THEN LoadStoredActive(rows) ELSE rows)

\* The keys of the environment win, at once; otherwise the table is asked.
Ensure(c) ==
    \/ /\ env # {}
       /\ \E k \in env : Cache(Home[c], [keys |-> env, active |-> k], "environment")
       /\ Goto(c, Idle)
    \/ /\ env = {}
       /\ ring' = [ring EXCEPT ![Home[c]] = Nil]
       /\ Goto(c, [op |-> "loading"])
       /\ UNCHANGED source
EnsureKeyRing(c) ==
    /\ Doing(c, "idle") /\ ring[Home[c]] = Nil
    /\ Ensure(c)
    /\ UNCHANGED <<env, table, drawn, tokens, now, rotations>>

\* The database answers the first read.
Read(c) ==
    /\ Doing(c, "loading")
    /\ Goto(c, [op |-> "loaded", rows |-> table, seen |-> {t \in tokens : t.current}])
    /\ UNCHANGED <<env, table, drawn, ring, source, tokens, now, rotations>>

\* Some time later the call goes on with those rows, filtered at this moment; if
\* none is needed any more it generates a key.
Load(c) ==
    LET stored == LoadStoredKeys(task[c].rows) IN
    /\ Doing(c, "loaded")
    /\ \/ /\ stored # {}
          /\ \E r \in FirstOf(stored) :
                Cache(Home[c], [keys |-> Kids(stored), active |-> r.kid], "database")
          /\ Goto(c, Idle)
       \/ /\ stored = {}
          /\ Goto(c, [op |-> "bootstrap"])
          /\ UNCHANGED <<ring, source>>
    /\ UNCHANGED <<env, table, drawn, tokens, now, rotations>>

NewRow(k, boot) ==
    [kid |-> k, boot |-> boot, active |-> TRUE, at |-> now, expires |-> Nil]
Fresh(k) == k \in Keys \ drawn /\ drawn' = drawn \cup {k}

\* persistBootstrapKey: the upsert on the fixed id returns the row that is there.
\* Mutant: a random id, so that every process stores its own key.
PersistOwnKey(c) ==
    \E k \in Keys :
        /\ Fresh(k)
        /\ table' = table \cup {NewRow(k, FALSE)}
        /\ Goto(c, [op |-> "settling", kid |-> k])
PersistBootstrapKey(c) ==
    \/ \E r \in table :
        /\ r.boot
        /\ Goto(c, [op |-> "settling", kid |-> r.kid])
        /\ UNCHANGED <<table, drawn>>
    \/ \E k \in Keys :
        /\ \A r \in table : ~r.boot
        /\ Fresh(k)
        /\ table' = table \cup {NewRow(k, TRUE)}
        /\ Goto(c, [op |-> "settling", kid |-> k])
Bootstrap(c) ==
    /\ Doing(c, "bootstrap")
    /\ PersistBootstrapKey(c)
    /\ UNCHANGED <<env, ring, source, tokens, now, rotations>>

\* The table is read once more.
ReadAgain(c) ==
    /\ Doing(c, "settling")
    /\ Goto(c, [op |-> "settled", kid |-> task[c].kid, rows |-> table, seen |-> {t \in tokens : t.current}])
    /\ UNCHANGED <<env, table, drawn, ring, source, tokens, now, rotations>>

\* createKeyRing refuses an active key that is not among the keys.
\* Mutant: it takes any.
AnyActiveKey(k, keys) == k \in Keys
ActiveKeyPresent(k, keys) == k \in keys

\* The call goes on.  When the ring is refused, the next request tries again.
Settle(c) ==
    LET settled == LoadStoredKeys(task[c].rows)
        keys == IF settled # {} THEN Kids(settled) ELSE {task[c].kid}
        active == IF LoadStoredActive(settled) # {}
                  THEN Kids(FirstOf(settled)) ELSE {task[c].kid}
    IN  /\ Doing(c, "settled")
        /\ \E k \in active :
            IF ActiveKeyPresent(k, keys)
            THEN Cache(Home[c], [keys |-> keys, active |-> k], "database")
            ELSE UNCHANGED <<ring, source>>
        /\ Goto(c, Idle)
        /\ UNCHANGED <<env, table, drawn, tokens, now, rotations>>

-----------------------------------------------------------------------------
(* rotate: two statements, no transaction.  The old ring serves meanwhile,  *)
(* and afterwards the call becomes one of ensureKeyRing.  Only a process    *)
(* that has loaded the environment's keys refuses.                          *)

\* The rows retire an overlap from the moment of the statement.
RotateRetires(c) ==
    /\ rotations < MaxRotations
    /\ Doing(c, "idle") /\ source[Home[c]] # "environment"
    /\ table' = {IF r.active
                 THEN [r EXCEPT !.active = FALSE, !.expires = now + Overlap] ELSE r : r \in table}
    /\ rotations' = rotations + 1
    /\ Goto(c, [op |-> "rotate"])
    /\ UNCHANGED <<env, drawn, ring, source, tokens, now>>

RotateCreates(c) ==
    /\ Doing(c, "rotate")
    /\ \E k \in Keys : Fresh(k) /\ table' = table \cup {NewRow(k, FALSE)}
    /\ Goto(c, [op |-> "rotated"])
    /\ UNCHANGED <<env, ring, source, tokens, now, rotations>>

RotateReloads(c) ==
    /\ Doing(c, "rotated")
    /\ Ensure(c)
    /\ UNCHANGED <<env, table, drawn, tokens, now, rotations>>

-----------------------------------------------------------------------------
\* A statement a call waits for fails.
StatementFails(c) ==
    /\ task[c].op \in {"loading", "bootstrap", "settling", "rotate"}
    /\ Goto(c, Idle)
    /\ UNCHANGED <<env, table, drawn, ring, source, tokens, now, rotations>>

Restart(p) ==
    /\ Cache(p, Nil, "none")
    /\ task' = [c \in Calls |-> IF Home[c] = p THEN Idle ELSE task[c]]
    /\ UNCHANGED <<env, table, drawn, tokens, now, rotations>>

\* pruneExpired
PruneExpired == table' = {r \in table : r.active \/ r.expires = Nil \/ r.expires >= now}
Prune ==
    /\ PruneExpired
    /\ table' # table
    /\ UNCHANGED <<env, drawn, ring, source, task, tokens, now, rotations>>

\* signJwt with the ring's active key.
SignJwt(p) ==
    /\ ring[p] # Nil
    /\ Cardinality(tokens) < MaxTokens
    /\ tokens' = tokens \cup
        {[kid |-> ring[p].active, expires |-> now + TokenTtl,
          current |-> env # {} \/ \E r \in table : r.active /\ r.kid = ring[p].active]}
    /\ UNCHANGED <<env, table, drawn, ring, source, task, now, rotations>>

\* verifyJwt against a ring: the key is known, the token has not expired.  Left out:
\* the clock tolerance and allowExpired, which accept a token a little or long after
\* its expiry; nothing is claimed of keys from then on.
VerifyJwt(t, keys) == t.kid \in keys /\ t.expires > now

Tick ==
    /\ now < MaxTime
    /\ now' = now + 1
    /\ tokens' = {t \in tokens : t.expires > now + 1}
    /\ UNCHANGED <<env, table, drawn, ring, source, task, rotations>>

Next ==
    \/ \E c \in Calls :
        \/ EnsureKeyRing(c) \/ Read(c) \/ Load(c)
        \/ Bootstrap(c) \/ ReadAgain(c) \/ Settle(c)
        \/ RotateRetires(c) \/ RotateCreates(c) \/ RotateReloads(c)
        \/ StatementFails(c)
    \/ \E p \in Replicas : Restart(p) \/ SignJwt(p)
    \/ Prune
    \/ Tick

Spec == Init /\ [][Next]_vars

-----------------------------------------------------------------------------
(* Properties *)

\* "every caller uses the row returned by that upsert rather than its locally
\* generated candidate": as long as nobody rotates, what one replica signs every
\* replica verifies, however their first boots and restarts interleave.
ReplicasAgree ==
    rotations = 0 =>
        \A p \in Replicas, t \in tokens : ring[p] # Nil => VerifyJwt(t, ring[p].keys)

\* rotate keeps the retired key "so tokens signed a moment ago still verify": a
\* ring knows the key of every living token that was signed, with the then active
\* key, before the ring's rows were read, whatever was rotated, pruned or assigned
\* by other calls between that read and the assignment.  (A token signed after the
\* read may have a key the ring never learns of.)
LoadedRingVerifies ==
    [][\A c \in Calls :
          LET kept == ring'[Home[c]] IN
          task[c].op \in {"loaded", "settled"} /\ kept \notin {ring[Home[c]], Nil}
              /\ task'[c] # task[c] =>
              \A t \in task[c].seen \cap tokens : t.current => VerifyJwt(t, kept.keys)]_vars
=============================================================================
