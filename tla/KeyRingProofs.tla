--------------------------- MODULE KeyRingProofs ---------------------------
(***************************************************************************)
(* Replicas agree on the first signing key, and a rotation keeps the keys  *)
(* of living tokens, for any number of replicas, concurrent calls, keys,   *)
(* tokens and rotations.  The first rests on the bootstrap row being one,  *)
(* the second on a retired row outliving every token signed while it was   *)
(* active, in the table and in whatever a call has read of it.             *)
(***************************************************************************)
EXTENDS KeyRing, TLAPS

\* The row of a token's key is active, or expires no sooner than the token.
Outlives(r, t) == r.active \/ (r.expires \in Times /\ r.expires >= t.expires)
Kept(rows, t) == \E r \in rows : r.kid = t.kid /\ Outlives(r, t)

\* With keys in the environment every ring has them; until somebody rotates a
\* ring has the one key of the table.
RingSound(r) ==
    /\ env # {} => r.keys = env
    /\ rotations = 0 /\ env = {} => \E q \in table : r.keys = {q.kid}
RingsSound == \A p \in Replicas : ring[p] # Nil => RingSound(ring[p])

\* A call that reads the table finds no keys in the environment.  Until somebody
\* rotates, what it read or was given is in the table; the rows it read keep the
\* tokens signed by then.
TaskSound(k) ==
    /\ env # {} => k.op \in {"idle", "rotate", "rotated"}
    /\ k.op \in {"rotate", "rotated"} => rotations # 0
    /\ rotations = 0 =>
        /\ k.op \in {"settling", "settled"} => \E r \in table : r.kid = k.kid
        /\ k.op \in {"loaded", "settled"} => k.rows \subseteq table
    /\ k.op \in {"loaded", "settled"} => \A t \in k.seen : Kept(k.rows, t)
TasksSound == \A c \in Calls : TaskSound(task[c])

\* Until somebody rotates there is one key.
OneBootstrapKey ==
    rotations = 0 /\ env = {} =>
        /\ \A q, r \in table : q.kid = r.kid
        /\ \A r \in table : r.boot /\ r.active
        /\ \A t \in tokens : \E r \in table : r.kid = t.kid

TokensLive ==
    /\ \A t \in tokens : t.expires > now /\ t.expires <= now + TokenTtl
    /\ env # {} => \A t \in tokens : t.kid \in env

KeysOutliveTokens == env = {} => \A t \in tokens : t.current => Kept(table, t)

IInv ==
    /\ TypeOK
    /\ RingsSound
    /\ TasksSound
    /\ OneBootstrapKey
    /\ TokensLive
    /\ KeysOutliveTokens

-----------------------------------------------------------------------------
LEMMA NowFits ==
    ASSUME TypeOK
    PROVE  now \in Nat /\ now \in Times /\ now + Overlap \in Times /\ now + TokenTtl \in Times
  BY ConstantsAssumption DEF TypeOK, Times

LEMMA IdleTask == Idle \in Tasks /\ Idle.op = "idle"
  BY DEF Idle, Tasks

\* Whatever is done next, the parts of a task have their types.
LEMMA TaskParts ==
    ASSUME TypeOK, NEW c \in Calls
    PROVE  /\ task[c].op \in {"settling", "settled"} => task[c].kid \in Keys
           /\ task[c].op \in {"loaded", "settled"} =>
                  task[c].rows \in SUBSET Row /\ task[c].seen \in SUBSET Token
<1>1. task[c] \in Tasks  BY DEF TypeOK
<1> QED  BY <1>1 DEF Tasks

\* What loadStoredKeys takes of rows that keep a living token knows its key.
LEMMA KeptVerifies ==
    ASSUME TypeOK, NEW rows, NEW t \in Token, t.expires > now, Kept(rows, t)
    PROVE  LoadStoredKeys(rows) # {} /\ VerifyJwt(t, Kids(LoadStoredKeys(rows)))
<1>1. PICK r \in rows : r.kid = t.kid /\ Outlives(r, t)
  BY DEF Kept
<1>2. t.expires \in Nat /\ now \in Nat
  BY NowFits, ConstantsAssumption DEF Token, Times
<1>3. r.active \/ r.expires > now
  <2>1. CASE r.active  BY <2>1
  <2>2. CASE r.expires \in Times /\ r.expires >= t.expires
    <3>1. r.expires \in Nat  BY <2>2, ConstantsAssumption DEF Times
    <3> QED  BY <2>2, <3>1, <1>2
  <2> QED  BY <2>1, <2>2, <1>1 DEF Outlives
<1>4. r \in LoadStoredKeys(rows)  BY <1>3 DEF LoadStoredKeys
<1> QED  BY <1>1, <1>2, <1>4 DEF VerifyJwt, Kids

LEMMA StoredKeysTyped ==
    ASSUME NEW rows \in SUBSET Row
    PROVE  /\ Kids(LoadStoredKeys(rows)) \subseteq Keys
           /\ Kids(FirstOf(LoadStoredKeys(rows))) \subseteq Kids(LoadStoredKeys(rows))
           /\ \A r \in FirstOf(LoadStoredKeys(rows)) : r.kid \in Kids(LoadStoredKeys(rows))
  BY DEF Row, LoadStoredKeys, LoadStoredActive, FirstOf, Newest, Kids

\* Before any rotation what was read of the table holds one key, or none.
LEMMA StoredKeysAreOne ==
    ASSUME OneBootstrapKey, rotations = 0, env = {}, NEW rows \in SUBSET table,
           LoadStoredKeys(rows) # {}
    PROVE  \E r \in table : Kids(LoadStoredKeys(rows)) = {r.kid}
<1>1. PICK r \in rows : r \in LoadStoredKeys(rows)  BY DEF LoadStoredKeys
<1>2. \A q \in LoadStoredKeys(rows) : q.kid = r.kid
  BY DEF LoadStoredKeys, OneBootstrapKey
<1> QED  BY <1>1, <1>2 DEF Kids

-----------------------------------------------------------------------------
(* The steps that touch only a call, or only a ring and a call *)

LEMMA CallMoves ==
    ASSUME IInv, NEW c \in Calls, NEW k \in Tasks, Goto(c, k), TaskSound(k),
           UNCHANGED <<env, table, drawn, ring, source, tokens, now, rotations>>
    PROVE  IInv'
<1>1. \A d \in Calls : task'[d] = IF d = c THEN k ELSE task[d]
  BY DEF Goto, IInv, TypeOK
<1>2. TypeOK'
  <2>1. task' \in [Calls -> Tasks]  BY DEF Goto, IInv, TypeOK
  <2> QED  BY <2>1 DEF IInv, TypeOK
<1>3. TasksSound'
  BY <1>1 DEF IInv, TasksSound, TaskSound, Kept, Outlives
<1> QED  BY <1>2, <1>3 DEF IInv, RingsSound, RingSound, OneBootstrapKey, TokensLive,
     KeysOutliveTokens, Kept, Outlives

LEMMA RingSet ==
    ASSUME IInv, NEW c \in Calls, NEW k \in Tasks, Goto(c, k), TaskSound(k),
           NEW p \in Replicas, NEW r \in Ring \cup {Nil},
           r # Nil => r.active \in r.keys /\ RingSound(r),
           ring' = [ring EXCEPT ![p] = r],
           source' \in [Replicas -> {"none", "environment", "database"}],
           UNCHANGED <<env, table, drawn, tokens, now, rotations>>
    PROVE  IInv'
<1>1. \A d \in Calls : task'[d] = IF d = c THEN k ELSE task[d]
  BY DEF Goto, IInv, TypeOK
<1>2. \A q \in Replicas : ring'[q] = IF q = p THEN r ELSE ring[q]
  BY DEF IInv, TypeOK
<1>3. TypeOK'
  <2>1. task' \in [Calls -> Tasks] /\ ring' \in [Replicas -> Ring \cup {Nil}]
    BY DEF Goto, IInv, TypeOK
  <2>2. \A q \in Replicas : ring'[q] # Nil => ring'[q].active \in ring'[q].keys
    BY <1>2 DEF IInv, TypeOK
  <2> QED  BY <2>1, <2>2 DEF IInv, TypeOK
<1>4. TasksSound'
  BY <1>1 DEF IInv, TasksSound, TaskSound, Kept, Outlives
<1>5. RingsSound'
  BY <1>2 DEF IInv, RingsSound, RingSound
<1> QED  BY <1>3, <1>4, <1>5 DEF IInv, OneBootstrapKey, TokensLive, KeysOutliveTokens, Kept, Outlives

LEMMA IdleSound == TaskSound(Idle)
  BY IdleTask DEF TaskSound

LEMMA EnsureKeeps ==
    ASSUME IInv, NEW c \in Calls, Ensure(c),
           UNCHANGED <<env, table, drawn, tokens, now, rotations>>
    PROVE  IInv'
<1>0. Home[c] \in Replicas  BY ConstantsAssumption
<1>1. ASSUME NEW k \in env, Cache(Home[c], [keys |-> env, active |-> k], "environment"),
             Goto(c, Idle)
      PROVE  IInv'
  <2> DEFINE r == [keys |-> env, active |-> k]
  <2>1. r \in Ring /\ r.keys = env /\ r.active \in r.keys
    BY ConstantsAssumption DEF IInv, TypeOK, Ring
  <2>2. ring' = [ring EXCEPT ![Home[c]] = r]
    BY <1>1 DEF Cache
  <2>3. source' \in [Replicas -> {"none", "environment", "database"}]
    BY <1>1 DEF Cache, IInv, TypeOK
  <2> HIDE DEF r
  <2>4. RingSound(r)  BY <2>1 DEF RingSound
  <2> QED  BY <1>0, <1>1, <2>1, <2>2, <2>3, <2>4, RingSet, IdleTask, IdleSound
<1>2. ASSUME env = {}, ring' = [ring EXCEPT ![Home[c]] = Nil], UNCHANGED source,
             Goto(c, [op |-> "loading"])
      PROVE  IInv'
  <2>1. [op |-> "loading"] \in Tasks /\ TaskSound([op |-> "loading"])
    BY <1>2 DEF Tasks, TaskSound
  <2>2. source' \in [Replicas -> {"none", "environment", "database"}]
    BY <1>2 DEF IInv, TypeOK
  <2> QED  BY <1>0, <1>2, <2>1, <2>2, RingSet
<1> QED  BY <1>1, <1>2 DEF Ensure

\* The tokens signed so far are kept by the table, so by what is read of it.
LEMMA ReadKeeps ==
    ASSUME IInv, NEW c \in Calls, Read(c) \/ ReadAgain(c)
    PROVE  IInv'
<1> DEFINE seen == {t \in tokens : t.current}
<1>0. env = {}
  BY DEF Read, ReadAgain, Doing, IInv, TasksSound, TaskSound
<1>1. /\ \A t \in seen : Kept(table, t)
      /\ seen \in SUBSET Token /\ table \in SUBSET Row
  BY <1>0 DEF IInv, KeysOutliveTokens, TypeOK
<1> HIDE DEF seen
<1>2. CASE Read(c)
  <2> DEFINE k == [op |-> "loaded", rows |-> table, seen |-> seen]
  <2>1. k \in Tasks  BY <1>1 DEF Tasks
  <2>2. k.op = "loaded" /\ k.rows = table /\ k.seen = seen  OBVIOUS
  <2>3. Goto(c, k)  BY <1>2 DEF Read, seen
  <2> HIDE DEF k
  <2>4. TaskSound(k)  BY <1>0, <1>1, <2>2 DEF TaskSound
  <2> QED  BY <1>2, <2>1, <2>3, <2>4, CallMoves DEF Read
<1>3. CASE ReadAgain(c)
  <2> DEFINE k == [op |-> "settled", kid |-> task[c].kid, rows |-> table, seen |-> seen]
  <2>1. task[c].op = "settling" /\ task[c].kid \in Keys
    BY <1>3, TaskParts DEF ReadAgain, Doing, IInv
  <2>2. k \in Tasks  BY <1>1, <2>1 DEF Tasks
  <2>3. k.op = "settled" /\ k.rows = table /\ k.seen = seen /\ k.kid = task[c].kid  OBVIOUS
  <2>4. Goto(c, k)  BY <1>3 DEF ReadAgain, seen
  <2> HIDE DEF k
  <2>5. TaskSound(k)
    BY <1>0, <1>1, <2>1, <2>3 DEF TaskSound, IInv, TasksSound
  <2> QED  BY <1>3, <2>2, <2>4, <2>5, CallMoves DEF ReadAgain
<1> QED  BY <1>2, <1>3

\* A ring made of rows that were read of the table.
LEMMA CachedKeeps ==
    ASSUME IInv, NEW c \in Calls, NEW keys \in SUBSET Keys, NEW k \in keys,
           env = {}, rotations = 0 => \E q \in table : keys = {q.kid},
           Cache(Home[c], [keys |-> keys, active |-> k], "database"), Goto(c, Idle),
           UNCHANGED <<env, table, drawn, tokens, now, rotations>>
    PROVE  IInv'
<1> DEFINE r == [keys |-> keys, active |-> k]
<1>1. r \in Ring /\ r.keys = keys /\ r.active \in r.keys
  BY DEF Ring
<1>2. ring' = [ring EXCEPT ![Home[c]] = r] /\ Home[c] \in Replicas
  BY ConstantsAssumption DEF Cache
<1>3. source' \in [Replicas -> {"none", "environment", "database"}]
  BY DEF Cache, IInv, TypeOK
<1> HIDE DEF r
<1>4. RingSound(r)  BY <1>1 DEF RingSound
<1> QED  BY <1>1, <1>2, <1>3, <1>4, RingSet, IdleTask, IdleSound

LEMMA LoadKeeps ==
    ASSUME IInv, NEW c \in Calls, Load(c)
    PROVE  IInv'
<1> DEFINE stored == LoadStoredKeys(task[c].rows)
<1>0. /\ task[c].op = "loaded" /\ env = {} /\ task[c].rows \in SUBSET Row
      /\ UNCHANGED <<env, table, drawn, tokens, now, rotations>>
  BY TaskParts DEF Load, Doing, IInv, TasksSound, TaskSound
<1>1. ASSUME NEW r \in FirstOf(stored), stored # {},
             Cache(Home[c], [keys |-> Kids(stored), active |-> r.kid], "database"),
             Goto(c, Idle)
      PROVE  IInv'
  <2>1. Kids(stored) \in SUBSET Keys /\ r.kid \in Kids(stored)
    BY <1>0, StoredKeysTyped
  <2>2. rotations = 0 => \E q \in table : Kids(stored) = {q.kid}
    <3>1. rotations = 0 => task[c].rows \in SUBSET table
      BY <1>0 DEF IInv, TasksSound, TaskSound
    <3> QED  BY <1>0, <1>1, <3>1, StoredKeysAreOne DEF IInv
  <2> HIDE DEF stored
  <2> QED  BY <1>0, <1>1, <2>1, <2>2, CachedKeeps
<1>2. ASSUME Goto(c, [op |-> "bootstrap"]), UNCHANGED <<ring, source>>
      PROVE  IInv'
  <2>1. [op |-> "bootstrap"] \in Tasks /\ TaskSound([op |-> "bootstrap"])
    BY <1>0 DEF Tasks, TaskSound
  <2> QED  BY <1>0, <1>2, <2>1, CallMoves
<1> QED  BY <1>1, <1>2 DEF Load

\* Before any rotation the call that settles has a key of the table.
LEMMA SettleKeeps ==
    ASSUME IInv, NEW c \in Calls, Settle(c)
    PROVE  IInv'
<1> DEFINE settled == LoadStoredKeys(task[c].rows)
           keys == IF settled # {} THEN Kids(settled) ELSE {task[c].kid}
           active == IF LoadStoredActive(settled) # {}
                     THEN Kids(FirstOf(settled)) ELSE {task[c].kid}
<1>0. /\ task[c].op = "settled" /\ env = {}
      /\ task[c].rows \in SUBSET Row /\ task[c].kid \in Keys
      /\ Goto(c, Idle)
      /\ UNCHANGED <<env, table, drawn, tokens, now, rotations>>
  BY TaskParts DEF Settle, Doing, IInv, TasksSound, TaskSound
<1>1. PICK k \in active : IF ActiveKeyPresent(k, keys)
                          THEN Cache(Home[c], [keys |-> keys, active |-> k], "database")
                          ELSE UNCHANGED <<ring, source>>
  BY DEF Settle
<1>2. keys \in SUBSET Keys  BY <1>0, StoredKeysTyped
<1>3. rotations = 0 => \E q \in table : keys = {q.kid}
  <2>1. rotations = 0 => task[c].rows \in SUBSET table /\ \E q \in table : q.kid = task[c].kid
    BY <1>0 DEF IInv, TasksSound, TaskSound
  <2> QED  BY <1>0, <2>1, StoredKeysAreOne DEF IInv
<1> HIDE DEF keys, active
<1>4. CASE k \in keys /\ Cache(Home[c], [keys |-> keys, active |-> k], "database")
  BY <1>0, <1>2, <1>3, <1>4, CachedKeeps
<1>5. CASE UNCHANGED <<ring, source>>
  BY <1>0, <1>5, IdleTask, IdleSound, CallMoves
<1> QED  BY <1>1, <1>4, <1>5 DEF ActiveKeyPresent

-----------------------------------------------------------------------------
(* The steps that write the table *)

\* A step that changes the table and one call, and keeps every row that matters.
LEMMA TableMoves ==
    ASSUME IInv, NEW c \in Calls, NEW k \in Tasks, Goto(c, k),
           table' \in SUBSET Row, drawn' \in SUBSET Keys, rotations' \in 0..MaxRotations,
           rotations' = 0 => rotations = 0,
           rotations' = 0 /\ env = {} =>
               /\ table \subseteq table'
               /\ \A q, r \in table' : q.kid = r.kid
               /\ \A r \in table' : r.boot /\ r.active,
           rotations' = 0 => env = {} \/ UNCHANGED table,
           \A t \in tokens : Kept(table, t) => Kept(table', t),
           TaskSound(k)',
           UNCHANGED <<env, ring, source, tokens, now>>
    PROVE  IInv'
<1>1. \A d \in Calls : task'[d] = IF d = c THEN k ELSE task[d]
  BY DEF Goto, IInv, TypeOK
<1>2. TypeOK'
  <2>1. task' \in [Calls -> Tasks]  BY DEF Goto, IInv, TypeOK
  <2> QED  BY <2>1 DEF IInv, TypeOK
<1>3. TasksSound'
  <2> SUFFICES ASSUME NEW d \in Calls PROVE TaskSound(task[d])'
    BY DEF TasksSound
  <2>1. CASE d = c
    <3>1. task'[d] = k  BY <1>1, <2>1
    <3> QED  BY <3>1 DEF TaskSound, Kept, Outlives
  <2>2. CASE d # c
    <3>1. task'[d] = task[d]  BY <1>1, <2>2
    <3>2. TaskSound(task[d])  BY DEF IInv, TasksSound
    <3>3. rotations' = 0 => table \subseteq table'  OBVIOUS
    <3>4. task[d].op \in {"rotate", "rotated"} => rotations' # 0
      BY <3>2 DEF TaskSound
    <3>5. rotations' = 0 =>
            /\ task[d].op \in {"settling", "settled"} => \E r \in table' : r.kid = task[d].kid
            /\ task[d].op \in {"loaded", "settled"} => task[d].rows \subseteq table'
      BY <3>2, <3>3 DEF TaskSound
    <3>6. env # {} => task[d].op \in {"idle", "rotate", "rotated"}  BY <3>2 DEF TaskSound
    <3>7. task[d].op \in {"loaded", "settled"} => \A t \in task[d].seen : Kept(task[d].rows, t)
      BY <3>2 DEF TaskSound
    <3> QED  BY <3>1, <3>4, <3>5, <3>6, <3>7 DEF TaskSound, Kept, Outlives
  <2> QED  BY <2>1, <2>2
<1>4. RingsSound'
  BY DEF IInv, RingsSound, RingSound
<1>5. OneBootstrapKey'
  BY DEF IInv, OneBootstrapKey
<1>6. KeysOutliveTokens'
  BY DEF IInv, KeysOutliveTokens
<1> QED  BY <1>2, <1>3, <1>4, <1>5, <1>6 DEF IInv, TokensLive

LEMMA NewRowTyped ==
    ASSUME TypeOK, NEW k \in Keys, NEW boot \in BOOLEAN
    PROVE  /\ NewRow(k, boot) \in Row
           /\ NewRow(k, boot).kid = k /\ NewRow(k, boot).active
           /\ NewRow(k, boot).boot = boot
  BY NowFits DEF NewRow, Row

\* The row on the fixed id is one: a process that finds it takes its key, and
\* one that creates it found no other row.
LEMMA BootstrapKeeps ==
    ASSUME IInv, NEW c \in Calls, Bootstrap(c)
    PROVE  IInv'
<1>0. /\ UNCHANGED <<env, ring, source, tokens, now, rotations>>
      /\ task[c].op = "bootstrap" /\ env = {}
  BY DEF Bootstrap, Doing, IInv, TasksSound, TaskSound
<1>1. rotations' \in 0..MaxRotations  BY <1>0 DEF IInv, TypeOK
<1>2. ASSUME NEW k \in Keys, Goto(c, [op |-> "settling", kid |-> k]),
             table \subseteq table', table' \in SUBSET Row, drawn' \in SUBSET Keys,
             rotations = 0 =>
                /\ \A q, r \in table' : q.kid = r.kid
                /\ \A r \in table' : r.boot /\ r.active,
             \E r \in table' : r.kid = k
      PROVE  IInv'
  <2> DEFINE m == [op |-> "settling", kid |-> k]
  <2>1. m \in Tasks /\ m.op = "settling" /\ m.kid = k  BY DEF Tasks
  <2>2. Goto(c, m)  BY <1>2
  <2> HIDE DEF m
  <2>3. TaskSound(m)'  BY <1>0, <1>2, <2>1 DEF TaskSound
  <2>4. \A t \in tokens : Kept(table, t) => Kept(table', t)  BY <1>2 DEF Kept
  <2> QED  BY <1>0, <1>1, <1>2, <2>1, <2>2, <2>3, <2>4, TableMoves
<1>3. ASSUME NEW r \in table, r.boot, Goto(c, [op |-> "settling", kid |-> r.kid]),
             UNCHANGED <<table, drawn>>
      PROVE  IInv'
  <2>1. r.kid \in Keys /\ table \in SUBSET Row /\ drawn \in SUBSET Keys
    BY DEF IInv, TypeOK, Row
  <2> QED  BY <1>0, <1>2, <1>3, <2>1 DEF IInv, OneBootstrapKey
<1>4. ASSUME NEW k \in Keys, \A r \in table : ~r.boot, Fresh(k),
             table' = table \cup {NewRow(k, TRUE)}, Goto(c, [op |-> "settling", kid |-> k])
      PROVE  IInv'
  <2> DEFINE new == NewRow(k, TRUE)
  <2>1. new \in Row /\ new.kid = k /\ new.active /\ new.boot
    BY NewRowTyped DEF IInv
  <2> HIDE DEF new
  <2>2. table' = table \cup {new}  BY <1>4 DEF new
  <2>3. rotations = 0 => table = {}  BY <1>0, <1>4 DEF IInv, OneBootstrapKey
  <2>4. table' \in SUBSET Row /\ drawn' \in SUBSET Keys
    BY <1>4, <2>1, <2>2 DEF IInv, TypeOK, Fresh
  <2> QED  BY <1>2, <1>4, <2>1, <2>2, <2>3, <2>4
<1> QED  BY <1>3, <1>4 DEF Bootstrap, PersistBootstrapKey

\* The retired rows expire an overlap from now, and no living token lives longer.
LEMMA RotateRetiresKeeps ==
    ASSUME IInv, NEW c \in Calls, RotateRetires(c)
    PROVE  IInv'
<1> DEFINE Retired(r) == IF r.active
                         THEN [r EXCEPT !.active = FALSE, !.expires = now + Overlap] ELSE r
           m == [op |-> "rotate"]
<1>0. /\ UNCHANGED <<env, drawn, ring, source, tokens, now>>
      /\ table' = {Retired(r) : r \in table}
      /\ Goto(c, m) /\ m \in Tasks /\ m.op = "rotate"
  BY DEF RotateRetires, Tasks
<1>1. rotations' \in 0..MaxRotations /\ rotations' # 0
  <2>1. rotations < MaxRotations /\ rotations' = rotations + 1  BY DEF RotateRetires
  <2>2. rotations \in 0..MaxRotations /\ MaxRotations \in Nat
    BY ConstantsAssumption DEF IInv, TypeOK
  <2> QED  BY <2>1, <2>2
<1>2. ASSUME NEW r \in table
      PROVE  Retired(r) \in Row /\ Retired(r).kid = r.kid
             /\ (\A t \in tokens : Outlives(r, t) => Outlives(Retired(r), t))
  <2>1. r \in Row  BY DEF IInv, TypeOK
  <2>2. CASE r.active
    <3>1. Retired(r) \in Row /\ Retired(r).kid = r.kid /\ Retired(r).expires = now + Overlap
      BY <2>1, <2>2, NowFits DEF Row, IInv
    <3>2. ASSUME NEW t \in tokens PROVE now + Overlap >= t.expires
      <4>1. t.expires <= now + TokenTtl /\ t.expires \in Nat /\ now \in Nat
        BY NowFits, ConstantsAssumption DEF IInv, TypeOK, TokensLive, Token, Times
      <4> QED  BY <4>1, ConstantsAssumption
    <3> HIDE DEF Retired
    <3> QED  BY <3>1, <3>2, NowFits DEF Outlives, IInv
  <2>3. CASE ~r.active  BY <2>1, <2>3
  <2> QED  BY <2>2, <2>3
<1> HIDE DEF Retired, m
<1>3. table' \in SUBSET Row /\ drawn' \in SUBSET Keys
  BY <1>0, <1>2 DEF IInv, TypeOK
<1>4. \A t \in tokens : Kept(table, t) => Kept(table', t)
  BY <1>0, <1>2 DEF Kept
<1>5. TaskSound(m)'  BY <1>0, <1>1 DEF TaskSound
<1> QED  BY <1>0, <1>1, <1>3, <1>4, <1>5, TableMoves

LEMMA RotateCreatesKeeps ==
    ASSUME IInv, NEW c \in Calls, RotateCreates(c)
    PROVE  IInv'
<1> DEFINE m == [op |-> "rotated"]
<1> PICK k \in Keys : Fresh(k) /\ table' = table \cup {NewRow(k, FALSE)}
  BY DEF RotateCreates
<1>0. /\ UNCHANGED <<env, ring, source, tokens, now, rotations>>
      /\ task[c].op = "rotate"
      /\ Goto(c, m) /\ m \in Tasks /\ m.op = "rotated"
  BY DEF RotateCreates, Doing, Tasks
<1>1. rotations' # 0 /\ rotations' \in 0..MaxRotations
  BY <1>0 DEF IInv, TasksSound, TaskSound, TypeOK
<1>2. NewRow(k, FALSE) \in Row  BY NewRowTyped DEF IInv
<1>3. table' \in SUBSET Row /\ drawn' \in SUBSET Keys
  BY <1>2 DEF IInv, TypeOK, Fresh
<1>4. \A t \in tokens : Kept(table, t) => Kept(table', t)  BY DEF Kept
<1> HIDE DEF m
<1>5. TaskSound(m)'  BY <1>0, <1>1 DEF TaskSound
<1> QED  BY <1>0, <1>1, <1>3, <1>4, <1>5, TableMoves

LEMMA StatementFailsKeeps ==
    ASSUME IInv, NEW c \in Calls, StatementFails(c)
    PROVE  IInv'
  BY IdleTask, IdleSound, CallMoves DEF StatementFails

LEMMA RestartKeeps ==
    ASSUME IInv, NEW p \in Replicas, Restart(p)
    PROVE  IInv'
<1>0. /\ UNCHANGED <<env, table, drawn, tokens, now, rotations>>
      /\ \A q \in Replicas : ring'[q] = IF q = p THEN Nil ELSE ring[q]
      /\ \A c \in Calls : task'[c] = Idle \/ task'[c] = task[c]
  BY DEF Restart, Cache, IInv, TypeOK
<1>1. TypeOK'
  <2>1. /\ ring' \in [Replicas -> Ring \cup {Nil}]
        /\ source' \in [Replicas -> {"none", "environment", "database"}]
        /\ task' \in [Calls -> Tasks]
    BY IdleTask DEF Restart, Cache, IInv, TypeOK
  <2> QED  BY <1>0, <2>1 DEF IInv, TypeOK
<1>2. RingsSound'  BY <1>0 DEF IInv, RingsSound, RingSound
<1>3. TasksSound'
  BY <1>0, IdleTask DEF IInv, TasksSound, TaskSound, Kept, Outlives
<1> QED  BY <1>0, <1>1, <1>2, <1>3
     DEF IInv, OneBootstrapKey, TokensLive, KeysOutliveTokens, Kept, Outlives

\* A row that is pruned has expired, and with it every token it served.
LEMMA PruneKeeps ==
    ASSUME IInv, Prune
    PROVE  IInv'
<1>0. /\ UNCHANGED <<env, drawn, ring, source, task, tokens, now, rotations>>
      /\ table' = {r \in table : r.active \/ r.expires = Nil \/ r.expires >= now}
  BY DEF Prune, PruneExpired
<1>1. TypeOK'  BY <1>0 DEF IInv, TypeOK
<1>2. rotations = 0 /\ env = {} => table' = table
  BY <1>0 DEF IInv, OneBootstrapKey
<1>3. TasksSound'
  <2> SUFFICES ASSUME NEW c \in Calls PROVE TaskSound(task[c])'
    BY DEF TasksSound
  <2>1. TaskSound(task[c])  BY DEF IInv, TasksSound
  <2>2. rotations = 0 =>
          /\ task[c].op \in {"settling", "settled"} => \E r \in table' : r.kid = task[c].kid
          /\ task[c].op \in {"loaded", "settled"} => task[c].rows \subseteq table'
    BY <1>2, <2>1 DEF TaskSound
  <2> QED  BY <1>0, <2>1, <2>2 DEF TaskSound, Kept, Outlives
<1>4. RingsSound' /\ OneBootstrapKey'
  BY <1>0, <1>2 DEF IInv, RingsSound, RingSound, OneBootstrapKey
<1>5. KeysOutliveTokens'
  <2> SUFFICES ASSUME env = {}, NEW t \in tokens, t.current
               PROVE  \E r \in table' : r.kid = t.kid /\ Outlives(r, t)
    BY <1>0 DEF KeysOutliveTokens, Kept, Outlives
  <2>1. PICK r \in table : r.kid = t.kid /\ Outlives(r, t)
    BY DEF IInv, KeysOutliveTokens, Kept
  <2>2. t.expires > now /\ t.expires \in Nat /\ now \in Nat
    BY NowFits, ConstantsAssumption DEF IInv, TokensLive, TypeOK, Token, Times
  <2>3. r.active \/ r.expires >= now
    <3>1. CASE r.expires \in Times /\ r.expires >= t.expires
      <4>1. r.expires \in Nat  BY <3>1, ConstantsAssumption DEF Times
      <4> QED  BY <3>1, <4>1, <2>2
    <3> QED  BY <2>1, <3>1 DEF Outlives
  <2> QED  BY <1>0, <2>1, <2>3
<1> QED  BY <1>0, <1>1, <1>3, <1>4, <1>5 DEF IInv, TokensLive

LEMMA SignJwtKeeps ==
    ASSUME IInv, NEW p \in Replicas, SignJwt(p)
    PROVE  IInv'
<1> DEFINE current == env # {} \/ \E r \in table : r.active /\ r.kid = ring[p].active
           new == [kid |-> ring[p].active, expires |-> now + TokenTtl, current |-> current]
<1>0. /\ UNCHANGED <<env, table, drawn, ring, source, task, now, rotations>>
      /\ tokens' = tokens \cup {new} /\ ring[p] # Nil
  BY DEF SignJwt
<1>1. ring[p] \in Ring /\ ring[p].active \in ring[p].keys /\ RingSound(ring[p])
  BY <1>0 DEF IInv, TypeOK, RingsSound
<1>2. /\ new \in Token /\ new.kid = ring[p].active /\ new.expires = now + TokenTtl
      /\ new.current => current
  <2>1. current \in BOOLEAN  OBVIOUS
  <2> HIDE DEF current
  <2> QED  BY <1>1, <2>1, NowFits DEF Token, Ring, IInv
<1>3. new.expires > now /\ new.expires <= now + TokenTtl
  BY <1>2, NowFits, ConstantsAssumption DEF IInv
<1> HIDE DEF new
<1>4. TypeOK'  BY <1>0, <1>2 DEF IInv, TypeOK
<1>5. OneBootstrapKey'
  <2>1. rotations = 0 /\ env = {} => \E r \in table : r.kid = new.kid
    BY <1>1, <1>2 DEF RingSound
  <2> QED  BY <1>0, <2>1 DEF IInv, OneBootstrapKey
<1>6. TokensLive'
  <2>1. env # {} => new.kid \in env  BY <1>1, <1>2 DEF RingSound
  <2> QED  BY <1>0, <1>3, <2>1 DEF IInv, TokensLive
<1>7. KeysOutliveTokens'
  <2>1. ASSUME env = {}, new.current
        PROVE  \E r \in table : r.kid = new.kid /\ Outlives(r, new)
    <3>1. PICK r \in table : r.active /\ r.kid = ring[p].active  BY <1>2, <2>1
    <3> QED  BY <1>2, <3>1 DEF Outlives
  <2> QED  BY <1>0, <2>1 DEF IInv, KeysOutliveTokens, Kept, Outlives
<1>8. RingsSound' /\ TasksSound'
  BY <1>0 DEF IInv, RingsSound, RingSound, TasksSound, TaskSound, Kept, Outlives
<1> QED  BY <1>4, <1>5, <1>6, <1>7, <1>8 DEF IInv

LEMMA TickKeeps ==
    ASSUME IInv, Tick
    PROVE  IInv'
<1>0. /\ UNCHANGED <<env, table, drawn, ring, source, task, rotations>>
      /\ now < MaxTime /\ now' = now + 1 /\ tokens' = {t \in tokens : t.expires > now + 1}
  BY DEF Tick
<1>1. TypeOK'  BY <1>0, ConstantsAssumption DEF IInv, TypeOK
<1>2. OneBootstrapKey'  BY <1>0 DEF IInv, OneBootstrapKey
<1>3. TokensLive'
  <2>1. ASSUME NEW t \in tokens' PROVE t.expires > now' /\ t.expires <= now' + TokenTtl
    <3>1. t.expires > now' /\ t.expires <= now + TokenTtl /\ t.expires \in Nat
      BY <1>0, ConstantsAssumption DEF IInv, TokensLive, TypeOK, Token, Times
    <3> QED  BY <1>0, <3>1, NowFits, ConstantsAssumption DEF IInv
  <2> QED  BY <1>0, <2>1 DEF IInv, TokensLive
<1>4. KeysOutliveTokens'  BY <1>0 DEF IInv, KeysOutliveTokens, Kept, Outlives
<1>5. RingsSound' /\ TasksSound'
  BY <1>0 DEF IInv, RingsSound, RingSound, TasksSound, TaskSound, Kept, Outlives
<1> QED  BY <1>1, <1>2, <1>3, <1>4, <1>5 DEF IInv

-----------------------------------------------------------------------------
LEMMA InitEstablishes == Init => IInv
<1> SUFFICES ASSUME Init PROVE IInv
  OBVIOUS
<1>1. TypeOK  BY ConstantsAssumption, IdleTask DEF Init, TypeOK
<1>2. TasksSound  BY IdleTask DEF Init, TasksSound, TaskSound
<1> QED  BY <1>1, <1>2 DEF Init, IInv, RingsSound, OneBootstrapKey, TokensLive, KeysOutliveTokens

LEMMA StepKeeps == IInv /\ [Next]_vars => IInv'
<1> SUFFICES ASSUME IInv, [Next]_vars PROVE IInv'
  OBVIOUS
<1>1. CASE UNCHANGED vars
  BY <1>1 DEF vars, IInv, TypeOK, RingsSound, RingSound, TasksSound, TaskSound,
     OneBootstrapKey, TokensLive, KeysOutliveTokens, Kept, Outlives
<1>2. ASSUME NEW c \in Calls, EnsureKeyRing(c) \/ RotateReloads(c) PROVE IInv'
  BY <1>2, EnsureKeeps DEF EnsureKeyRing, RotateReloads
<1>3. CASE Next
  BY <1>2, <1>3, ReadKeeps, LoadKeeps, BootstrapKeeps, SettleKeeps, RotateRetiresKeeps,
     RotateCreatesKeeps, StatementFailsKeeps, RestartKeeps, SignJwtKeeps, PruneKeeps, TickKeeps
     DEF Next
<1> QED  BY <1>1, <1>3

LEMMA Invariance == Spec => []IInv
  BY InitEstablishes, StepKeeps, PTL DEF Spec

\* Every reachable state is well formed, and every cached ring contains its
\* active key, for every number of replicas, calls, keys and tokens.
THEOREM TypeCorrect == Spec => []TypeOK
<1>1. IInv => TypeOK  BY DEF IInv
<1> QED  BY <1>1, Invariance, PTL

\* Until somebody rotates, what one replica signs every replica verifies: the
\* first boots meet on the fixed bootstrap row (keyService: "every caller uses
\* the row returned by that upsert").
THEOREM ReplicasAlwaysAgree == Spec => []ReplicasAgree
<1>1. IInv => ReplicasAgree
  <2> SUFFICES ASSUME IInv, rotations = 0, NEW p \in Replicas, NEW t \in tokens, ring[p] # Nil
               PROVE  VerifyJwt(t, ring[p].keys)
    BY DEF ReplicasAgree
  <2>1. t.expires > now /\ RingSound(ring[p])  BY DEF IInv, TokensLive, RingsSound
  <2>2. CASE env # {}  BY <2>1, <2>2 DEF IInv, TokensLive, RingSound, VerifyJwt
  <2>3. CASE env = {}
    <3>1. PICK q \in table : ring[p].keys = {q.kid}  BY <2>1, <2>3 DEF RingSound
    <3>2. PICK r \in table : r.kid = t.kid  BY <2>3 DEF IInv, OneBootstrapKey
    <3>3. q.kid = r.kid  BY <2>3 DEF IInv, OneBootstrapKey
    <3> QED  BY <2>1, <3>1, <3>2, <3>3 DEF VerifyJwt
  <2> QED  BY <2>2, <2>3
<1> QED  BY <1>1, Invariance, PTL

\* The ring a call assigns verifies every living token that had been signed with
\* the active key when the call read the table, whatever other calls rotate, prune
\* or assign in between (rotate: "so tokens signed a moment ago still verify").
THEOREM LoadedRingAlwaysVerifies == Spec => LoadedRingVerifies
<1> DEFINE Verifies(c) ==
        task[c].op \in {"loaded", "settled"} /\ ring'[Home[c]] \notin {ring[Home[c]], Nil}
            /\ task'[c] # task[c] =>
            \A t \in task[c].seen \cap tokens : t.current => VerifyJwt(t, ring'[Home[c]].keys)
<1>1. ASSUME IInv, Next, NEW c \in Calls PROVE Verifies(c)
  <2> SUFFICES ASSUME task[c].op \in {"loaded", "settled"}, task'[c] # task[c],
                      ring'[Home[c]] \notin {ring[Home[c]], Nil},
                      NEW t \in task[c].seen \cap tokens
               PROVE  VerifyJwt(t, ring'[Home[c]].keys)
    OBVIOUS
  <2> DEFINE stored == LoadStoredKeys(task[c].rows)
  <2>1. stored # {} /\ VerifyJwt(t, Kids(stored))
    <3>1. Kept(task[c].rows, t)  BY <1>1 DEF IInv, TasksSound, TaskSound
    <3>2. t.expires > now /\ t \in Token  BY <1>1 DEF IInv, TokensLive, TypeOK
    <3> QED  BY <1>1, <3>1, <3>2, KeptVerifies DEF IInv
  <2>2. Home[c] \in Replicas  BY ConstantsAssumption
  <2>3. ~\E p \in Replicas : Restart(p)
    BY <1>1, <2>2 DEF Restart, Cache, IInv, TypeOK
  <2>4. ASSUME NEW d \in Calls, d # c, \E k : Goto(d, k) PROVE FALSE
    BY <1>1, <2>4 DEF Goto, IInv, TypeOK
  <2>5. Load(c) \/ Settle(c)
    <3>1. ~(\E d \in Calls : Read(d) \/ ReadAgain(d) \/ StatementFails(d) \/ RotateRetires(d)
                \/ RotateCreates(d) \/ Bootstrap(d))
      BY <2>2 DEF Read, ReadAgain, StatementFails, RotateRetires, RotateCreates, Bootstrap
    <3>2. ~Prune /\ ~Tick /\ ~\E p \in Replicas : SignJwt(p)
      BY DEF Prune, Tick, SignJwt
    <3>3. PICK d \in Calls : EnsureKeyRing(d) \/ Load(d) \/ Settle(d) \/ RotateReloads(d)
      BY <1>1, <2>3, <3>1, <3>2 DEF Next
    <3>4. \E k : Goto(d, k)
      BY <3>3 DEF EnsureKeyRing, RotateReloads, Ensure, Load, Settle
    <3>5. d = c  BY <2>4, <3>4
    <3> QED  BY <3>3, <3>5 DEF EnsureKeyRing, RotateReloads, Doing
  <2>6. CASE Load(c)
    <3>1. PICK r \in FirstOf(stored) :
              Cache(Home[c], [keys |-> Kids(stored), active |-> r.kid], "database")
      BY <2>1, <2>6 DEF Load
    <3>2. ring'[Home[c]].keys = Kids(stored)  BY <1>1, <2>2, <3>1 DEF Cache, IInv, TypeOK
    <3> QED  BY <2>1, <3>2
  <2>7. CASE Settle(c)
    <3>1. ring'[Home[c]].keys = Kids(stored)
      BY <1>1, <2>1, <2>2, <2>7 DEF Settle, Cache, IInv, TypeOK
    <3> QED  BY <2>1, <3>1
  <2> QED  BY <2>5, <2>6, <2>7
<1>2. IInv /\ [Next]_vars => [\A c \in Calls : Verifies(c)]_vars
  BY <1>1
<1> QED  BY <1>2, Invariance, PTL DEF Spec, LoadedRingVerifies
=============================================================================
