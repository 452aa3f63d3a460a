---------------------- MODULE ClientRegistrationProofs ----------------------
(***************************************************************************)
(* A replaced secret stays dead, a client's method fits its type and its   *)
(* status is the one decided last, for any number of clients, documents,   *)
(* secrets and requests in progress.  None of the three is inductive: the  *)
(* induction carries what a request that has read a row still knows of it  *)
(* when it writes.                                                         *)
(***************************************************************************)
EXTENDS ClientRegistration, TLAPS

Issued == minted \cup ConfigSecrets \cup {Nil}

\* A stored row: a client the configuration does not own has a secret exactly
\* when it is confidential, one the issuer drew and has not replaced.
RowSound(c) ==
    Exists(c) =>
        /\ row[c].status = decided[c]
        /\ (row[c].type = "public") <=> (row[c].method = "none")
        /\ row[c].secret \in Issued
        /\ c \notin StaticClients =>
            /\ row[c].secret \notin retired[c] \cup ConfigSecrets
            /\ (row[c].type = "public") <=> (row[c].secret = Nil)

RetiredWereIssued == \A c \in Clients : retired[c] \subseteq minted \cup ConfigSecrets

\* A request in progress: the row it has read is there, and the type it read
\* is still the row's, unless the configuration may have rewritten it.
ItemSound(w) ==
    LET item == work[w]
    IN  /\ \A c \in Clients : OnRow(item, c) => Exists(c)
        /\ item.op = "register" => item.secret \in minted \cup {Nil}
        /\ item.op = "rotate" /\ item.client \notin StaticClients =>
            row[item.client].type = "confidential"
        /\ item.op = "approve" =>
            /\ item.before.secret \in Issued
            /\ item.client \notin StaticClients =>
                /\ item.before.type = row[item.client].type
                /\ item.before.type = "public" => item.before.secret = Nil
        /\ item.op = "update" =>
            /\ AuthMethodValid(item.data.method, item.data.type)
            /\ item.client \notin StaticClients => item.data.type = row[item.client].type
        /\ item.op = "sync" =>
            /\ DataValid(item.entry.doc, NoClient)
            /\ item.old # NoClient => item.old.secret \in Issued
        /\ item.op = "accepted" /\ item.client \notin StaticClients => ~item.late

IInv ==
    /\ TypeOK
    /\ \A c \in Clients : RowSound(c)
    /\ RetiredWereIssued
    /\ \A w \in Workers : ItemSound(w)

-----------------------------------------------------------------------------
(* Rows and metadata *)

LEMMA RowIsNotNoClient == \A r \in Rows : r # NoClient
<1> SUFFICES ASSUME NEW r \in Rows, r = NoClient PROVE FALSE
  OBVIOUS
<1>1. "secret" \in DOMAIN r  BY DEF Rows
<1>2. DOMAIN r = {"status"}  BY DEF NoClient
<1> QED  BY <1>1, <1>2

LEMMA ExistsIsRow ==
    ASSUME TypeOK, NEW c \in Clients, Exists(c)
    PROVE  row[c] \in Rows
  BY DEF TypeOK, Exists

\* What buildClientData returns for a document that passes its checks.
LEMMA BuildTyped ==
    ASSUME NEW d, d.type \in Types \cup {Absent}, d.method \in Methods \cup {Absent},
           NEW old \in Rows \cup {NoClient}, DataValid(d, old)
    PROVE  /\ BuildClientData(d, old) \in Data
           /\ BuildClientData(d, old).type = TypeOf(d, old)
           /\ AuthMethodValid(BuildClientData(d, old).method, BuildClientData(d, old).type)
<1> USE ConstantsAssumption
<1> DEFINE t == TypeOf(d, old)
           m == NormalizeAuthMethod(Given(d.method, old, "method"), t)
           s == NormalizeScopes(GivenSet(d.scopes, old, "scopes"))
           g == NormalizeGrantTypes(GivenSet(d.grants, old, "grants"))
<1>0. old # NoClient => /\ old["type"] \in Types /\ old["method"] \in Methods
                        /\ old["scopes"] \in SUBSET Scopes
                        /\ old["grants"] \in SUBSET GrantTypes
  BY DEF Rows
<1>1. t \in Types
  BY <1>0 DEF TypeOf, Given, Types
<1>2. m \in Methods
  BY <1>0, <1>1 DEF NormalizeAuthMethod, Given, Methods, Types
<1>3. s \in SUBSET Scopes
  <2>1. GivenSet(d.scopes, old, "scopes") \in SUBSET Scopes
    <3>1. CASE d.scopes = Unset  BY <3>1, <1>0 DEF GivenSet
    <3>2. CASE d.scopes # Unset  BY <3>2 DEF GivenSet, DataValid, ScopesValid
    <3> QED  BY <3>1, <3>2
  <2> QED  BY <2>1 DEF NormalizeScopes
<1>4. g \in SUBSET GrantTypes
  <2>1. GivenSet(d.grants, old, "grants") \in SUBSET GrantTypes
    <3>1. CASE d.grants = Unset  BY <3>1, <1>0 DEF GivenSet
    <3>2. CASE d.grants # Unset  BY <3>2 DEF GivenSet, DataValid, GrantTypesValid
    <3> QED  BY <3>1, <3>2
  <2> QED  BY <2>1 DEF NormalizeGrantTypes
<1>5. BuildClientData(d, old) = [type |-> t, method |-> m, scopes |-> s, grants |-> g]
  BY DEF BuildClientData
<1> HIDE DEF t, m, s, g
<1>6. BuildClientData(d, old) \in Data  BY <1>1, <1>2, <1>3, <1>4, <1>5 DEF Data
<1>7. BuildClientData(d, old).type = t  BY <1>5
<1> QED  BY <1>6, <1>7 DEF DataValid, t

\* A document whose type the handler sets keeps the rest.
LEMMA WireFields ==
    ASSUME NEW d \in Documents, NEW t
    PROVE  [d EXCEPT !.type = t].type = t /\ [d EXCEPT !.type = t].method = d.method
<1>1. "type" \in DOMAIN d /\ "method" \in DOMAIN d  BY ConstantsAssumption
<1> QED  BY <1>1

LEMMA WithTyped ==
    ASSUME NEW r \in Rows, NEW data \in Data, NEW consent \in BOOLEAN
    PROVE  /\ With(r, data, consent) \in Rows
           /\ With(r, data, consent).type = data.type
           /\ With(r, data, consent).method = data.method
           /\ With(r, data, consent).status = r.status
           /\ With(r, data, consent).secret = r.secret
  BY DEF With, Rows, Data

-----------------------------------------------------------------------------
(* What a request in progress is, by the name of its operation *)

LEMMA Items ==
    ASSUME NEW item \in WorkItems
    PROVE  /\ item.op \in {"register", "rotate", "approve", "update", "verify"} =>
                item.client \in Clients
           /\ item.op = "register" => item.secret \in Secrets \cup {Nil}
           /\ item.op = "approve" => item.before \in Rows
           /\ item.op = "update" => item.data \in Data /\ item.before \in Rows
           /\ item.op = "sync" => item.entry \in Entries /\ item.old \in Rows \cup {NoClient}
           /\ item.op = "accepted" => item.client \in Clients
  BY DEF WorkItems, Idle

LEMMA IdleSound ==
    ASSUME NEW w \in Workers, work'[w] = Idle
    PROVE  ItemSound(w)'
  BY DEF ItemSound, OnRow, Idle

LEMMA IdleIsItem == Idle \in WorkItems
  BY DEF WorkItems

\* A request that does not move keeps what it knows, as long as the row it has
\* read stays and keeps its type.
LEMMA ItemFrame ==
    ASSUME TypeOK, NEW w \in Workers, ItemSound(w), work'[w] = work[w],
           minted \subseteq minted',
           \A c \in Clients : OnRow(work[w], c) =>
               /\ row'[c] # NoClient
               /\ c \in StaticClients \/ row'[c].type = row[c].type
    PROVE  ItemSound(w)'
<1>1. work[w] \in WorkItems  BY DEF TypeOK
<1>2. Issued \subseteq Issued'  BY DEF Issued
<1>3. \A c \in Clients : OnRow(work[w], c) => Exists(c)'
  BY DEF Exists
<1>4. work[w].op \in {"rotate", "approve", "update"} =>
        /\ work[w].client \in Clients
        /\ work[w].client \in StaticClients \/
            row'[work[w].client].type = row[work[w].client].type
  BY <1>1, Items DEF OnRow
<1> QED  BY <1>2, <1>3, <1>4 DEF ItemSound

\* A row nobody touches stays sound.
LEMMA RowFrame ==
    ASSUME NEW c \in Clients, RowSound(c), minted \subseteq minted',
           row'[c] = row[c], decided'[c] = decided[c], retired'[c] = retired[c]
    PROVE  RowSound(c)'
  BY DEF RowSound, Exists, Issued

-----------------------------------------------------------------------------
LEMMA InitEstablishes == Init => IInv
<1> SUFFICES ASSUME Init PROVE IInv
  OBVIOUS
<1> USE ConstantsAssumption
<1>1. TypeOK  BY IdleIsItem DEF Init, TypeOK
<1>2. \A c \in Clients : RowSound(c)  BY DEF Init, RowSound, Exists
<1>3. RetiredWereIssued  BY DEF Init, RetiredWereIssued
<1>4. \A w \in Workers : ItemSound(w)  BY DEF Init, ItemSound, OnRow, Idle
<1> QED  BY <1>1, <1>2, <1>3, <1>4 DEF IInv

-----------------------------------------------------------------------------
(* The two kinds of step *)

\* A step that only reads: one request moves on, to a state that is sound.
LEMMA ReadStep ==
    ASSUME IInv, NEW w \in Workers, NEW item \in WorkItems, Later(w, item),
           UNCHANGED <<row, gone, minted, shown, retired, decided>>,
           boots' \in 0..MaxBoots, ItemSound(w)'
    PROVE  IInv'
<1>1. TypeOK'  BY DEF IInv, TypeOK, Later
<1>2. ASSUME NEW c \in Clients PROVE RowSound(c)'
  BY <1>2, RowFrame DEF IInv
<1>3. RetiredWereIssued'  BY DEF IInv, RetiredWereIssued
<1>4. ASSUME NEW v \in Workers PROVE ItemSound(v)'
  <2>1. CASE v = w  BY <2>1
  <2>2. CASE v # w
    <3>1. work'[v] = work[v]  BY <2>2 DEF Later, IInv, TypeOK
    <3>2. \A c \in Clients : OnRow(work[v], c) => row'[c] # NoClient /\ row'[c].type = row[c].type
      BY DEF IInv, ItemSound, Exists
    <3> QED  BY <3>1, <3>2, ItemFrame DEF IInv
  <2> QED  BY <2>1, <2>2
<1> QED  BY <1>1, <1>2, <1>3, <1>4 DEF IInv

\* A step that writes one row: it keeps the type of a row that was there,
\* unless the row is the configuration's.
LEMMA WriteStep ==
    ASSUME IInv, NEW c \in Clients, NEW r \in Rows, Write(c, r),
           ~Exists(c) \/ c \in StaticClients \/ r.type = row[c].type,
           minted \subseteq minted', minted' \subseteq Secrets, shown' \subseteq minted',
           gone' = gone, boots' = boots,
           decided' \in [Clients -> Statuses \cup {Nil}],
           retired' \in [Clients -> SUBSET (Secrets \cup ConfigSecrets)],
           \A x \in Clients \ {c} : decided'[x] = decided[x] /\ retired'[x] = retired[x],
           retired'[c] \subseteq minted' \cup ConfigSecrets, RowSound(c)',
           work' \in [Workers -> WorkItems],
           \A v \in Workers : work'[v] = work[v] \/ ItemSound(v)'
    PROVE  IInv'
<1>0. /\ row'[c] = r
      /\ \A x \in Clients \ {c} : row'[x] = row[x]
      /\ r # NoClient
  BY RowIsNotNoClient DEF Write, IInv, TypeOK
<1>1. TypeOK'  BY DEF IInv, TypeOK, Write
<1>2. ASSUME NEW x \in Clients PROVE RowSound(x)'
  <2>1. CASE x = c  BY <2>1
  <2>2. CASE x # c  BY <2>2, <1>0, RowFrame DEF IInv
  <2> QED  BY <2>1, <2>2
<1>3. RetiredWereIssued'  BY DEF IInv, RetiredWereIssued
<1>4. ASSUME NEW v \in Workers PROVE ItemSound(v)'
  <2>1. CASE work'[v] = work[v]
    <3>1. ASSUME NEW x \in Clients, OnRow(work[v], x)
          PROVE  row'[x] # NoClient /\ (x \in StaticClients \/ row'[x].type = row[x].type)
      <4>1. Exists(x)  BY <3>1 DEF IInv, ItemSound
      <4>2. CASE x = c  BY <4>1, <4>2, <1>0
      <4>3. CASE x # c  BY <4>1, <4>3, <1>0 DEF Exists
      <4> QED  BY <4>2, <4>3
    <3> QED  BY <2>1, <3>1, ItemFrame DEF IInv
  <2>2. CASE work'[v] # work[v]  BY <2>2
  <2> QED  BY <2>1, <2>2
<1> QED  BY <1>1, <1>2, <1>3, <1>4 DEF IInv

\* The secret a response shows was drawn.
LEMMA Drawn ==
    ASSUME NEW type \in Types, NEW s \in Secrets \cup {Nil}, minted \subseteq Secrets,
           shown \subseteq minted, DrawFor(type, s)
    PROVE  /\ minted \subseteq minted' /\ minted' \subseteq Secrets
           /\ s \in minted' \cup {Nil} /\ s \notin minted
           /\ shown \cup ({s} \ {Nil}) \subseteq minted'
           /\ (type = "public") <=> (s = Nil)
  BY ConstantsAssumption DEF DrawFor, Types

-----------------------------------------------------------------------------
(* The steps that read *)

LEMMA UpdateReadsKeeps ==
    ASSUME IInv, NEW w \in Workers, NEW c \in Clients, NEW d \in Documents, UpdateReads(w, c, d)
    PROVE  IInv'
<1> DEFINE wire == [d EXCEPT !.type = Absent]
           data == BuildClientData(wire, row[c])
           item == [op |-> "update", client |-> c, before |-> row[c], data |-> data]
<1>1. row[c] \in Rows  BY ExistsIsRow DEF UpdateReads, IInv
<1>2. wire.type = Absent /\ wire.method \in Methods \cup {Absent}
  BY WireFields, ConstantsAssumption
<1>3. data \in Data /\ data.type = TypeOf(wire, row[c]) /\ AuthMethodValid(data.method, data.type)
  BY <1>1, <1>2, BuildTyped DEF UpdateReads
<1>4. data.type = row[c].type
  <2>1. row[c]["type"] \in Types  BY <1>1 DEF Rows
  <2>2. row[c] # NoClient  BY <1>1, RowIsNotNoClient
  <2> QED  BY <2>1, <2>2, <1>2, <1>3 DEF TypeOf, Given, Types, Absent
<1>5. Later(w, item)  BY DEF UpdateReads
<1> HIDE DEF wire, data
<1>6. item \in WorkItems  BY <1>1, <1>3 DEF WorkItems
<1>7. work'[w] = item  BY <1>5 DEF Later, IInv, TypeOK
<1>8. row' = row /\ Exists(c)  BY DEF UpdateReads
<1>9. ItemSound(w)'  BY <1>3, <1>4, <1>7, <1>8 DEF ItemSound, OnRow, Exists
<1> QED  BY <1>5, <1>6, <1>9, ReadStep DEF UpdateReads, IInv, TypeOK

LEMMA RotateReadsKeeps ==
    ASSUME IInv, NEW w \in Workers, NEW c \in Clients, RotateReads(w, c)
    PROVE  IInv'
<1> DEFINE item == [op |-> "rotate", client |-> c]
<1>1. Later(w, item) /\ item \in WorkItems  BY DEF RotateReads, WorkItems
<1>2. work'[w] = item  BY <1>1 DEF Later, IInv, TypeOK
<1>3. ItemSound(w)'  BY <1>2 DEF ItemSound, OnRow, Exists, RotateReads
<1> QED  BY <1>1, <1>3, ReadStep DEF RotateReads, IInv, TypeOK

LEMMA ApproveReadsKeeps ==
    ASSUME IInv, NEW w \in Workers, NEW c \in Clients, ApproveReads(w, c)
    PROVE  IInv'
<1> DEFINE item == [op |-> "approve", client |-> c, before |-> row[c]]
<1>1. row[c] \in Rows  BY ExistsIsRow DEF ApproveReads, IInv
<1>2. Later(w, item) /\ item \in WorkItems  BY <1>1 DEF ApproveReads, WorkItems
<1>3. work'[w] = item  BY <1>2 DEF Later, IInv, TypeOK
<1>4. RowSound(c) /\ Exists(c)  BY DEF IInv, ApproveReads
<1>5. ItemSound(w)'
  BY <1>3, <1>4 DEF ItemSound, OnRow, Exists, ApproveReads, RowSound, Issued
<1> QED  BY <1>2, <1>5, ReadStep DEF ApproveReads, IInv, TypeOK

LEMMA SyncReadsKeeps ==
    ASSUME IInv, NEW w \in Workers, NEW e \in Entries, SyncReads(w, e)
    PROVE  IInv'
<1> DEFINE item == [op |-> "sync", entry |-> e, old |-> row[e.client]]
<1>1. e.client \in Clients  BY ConstantsAssumption
<1>2. Later(w, item) /\ item \in WorkItems
  BY <1>1 DEF SyncReads, WorkItems, IInv, TypeOK
<1>3. work'[w] = item  BY <1>2 DEF Later, IInv, TypeOK
<1>4. RowSound(e.client)  BY <1>1 DEF IInv
<1>5. ItemSound(w)'
  <2>1. \A c \in Clients : OnRow(item, c) => Exists(c)'  BY DEF OnRow, Exists, SyncReads
  <2>2. item.old # NoClient => item.old.secret \in Issued'
    BY <1>4 DEF RowSound, Exists, Issued, SyncReads
  <2> QED  BY <2>1, <2>2, <1>3 DEF ItemSound, SyncReads
<1>6. boots' \in 0..MaxBoots
  BY ConstantsAssumption DEF SyncReads, IInv, TypeOK
<1> QED  BY <1>2, <1>5, <1>6, ReadStep DEF SyncReads

LEMMA AuthReadsKeeps ==
    ASSUME IInv, NEW w \in Workers, NEW c \in Clients, NEW via \in Methods,
           NEW s \in minted \cup ConfigSecrets \cup {Nil}, AuthReads(w, c, via, s)
    PROVE  IInv'
<1>1. CASE via = "none"
  <2> DEFINE item == [op |-> "accepted", client |-> c, late |-> FALSE]
  <2>1. Later(w, item) /\ item \in WorkItems  BY <1>1 DEF AuthReads, WorkItems
  <2>2. work'[w] = item  BY <2>1 DEF Later, IInv, TypeOK
  <2>3. ItemSound(w)'  BY <2>2 DEF ItemSound, OnRow
  <2> QED  BY <2>1, <2>3, ReadStep DEF AuthReads, IInv, TypeOK
<1>2. CASE via # "none"
  <2> DEFINE item == [op |-> "verify", client |-> c, secret |-> s, before |-> row[c].secret]
  <2>1. row[c] \in Rows  BY ExistsIsRow DEF AuthReads, IInv
  <2>2. row[c].secret \in Secrets \cup ConfigSecrets \cup {Nil}  BY <2>1 DEF Rows
  <2>3. s \in Secrets \cup ConfigSecrets  BY <1>2 DEF AuthReads, IInv, TypeOK
  <2>4. Later(w, item)  BY <1>2 DEF AuthReads
  <2>5. item \in WorkItems  BY <2>2, <2>3 DEF WorkItems
  <2>6. work'[w] = item  BY <2>4 DEF Later, IInv, TypeOK
  <2>7. ItemSound(w)'  BY <2>6 DEF ItemSound, OnRow, Exists, AuthReads
  <2> QED  BY <2>4, <2>5, <2>7, ReadStep DEF AuthReads, IInv, TypeOK
<1> QED  BY <1>1, <1>2

\* The comparison is with the row as it is now: a secret it accepts is not a
\* retired one.
LEMMA AuthVerifiesKeeps ==
    ASSUME IInv, NEW w \in Workers, AuthVerifies(w)
    PROVE  IInv'
<1> DEFINE c == work[w].client
           late == work[w].secret \in retired[c]
<1>1. c \in Clients /\ Exists(c)
  <2>1. work[w] \in WorkItems /\ work[w].op = "verify"  BY DEF IInv, TypeOK, AuthVerifies
  <2>2. c \in Clients  BY <2>1, Items
  <2> QED  BY <2>1, <2>2 DEF IInv, ItemSound, OnRow
<1>2. CASE Matches(work[w])
  <2> DEFINE item == [op |-> "accepted", client |-> c, late |-> late]
  <2>1. Later(w, item)  BY <1>2 DEF AuthVerifies
  <2>2. item \in WorkItems
    <3>1. late \in BOOLEAN  OBVIOUS
    <3> HIDE DEF late
    <3> QED  BY <3>1, <1>1 DEF WorkItems
  <2>3. work'[w] = item  BY <2>1 DEF Later, IInv, TypeOK
  <2>4. c \notin StaticClients => ~late
    BY <1>1, <1>2 DEF Matches, IInv, RowSound
  <2> HIDE DEF late, c
  <2>5. ItemSound(w)'  BY <2>3, <2>4 DEF ItemSound, OnRow
  <2> QED  BY <2>1, <2>2, <2>5, ReadStep DEF AuthVerifies, IInv, TypeOK
<1>3. CASE ~Matches(work[w])
  <2>1. Later(w, Idle)  BY <1>3 DEF AuthVerifies
  <2>2. work'[w] = Idle  BY <2>1 DEF Later, IInv, TypeOK
  <2> QED  BY <2>1, <2>2, IdleSound, IdleIsItem, ReadStep DEF AuthVerifies, IInv, TypeOK
<1> QED  BY <1>2, <1>3

LEMMA LeaveKeeps ==
    ASSUME IInv, NEW w \in Workers, Leave(w)
    PROVE  IInv'
<1>1. Later(w, Idle)  BY DEF Leave, Done
<1>2. work'[w] = Idle  BY <1>1 DEF Later, IInv, TypeOK
<1> QED  BY <1>1, <1>2, IdleSound, IdleIsItem, ReadStep DEF Leave, IInv, TypeOK

-----------------------------------------------------------------------------
(* The steps that create a row *)

\* A fresh client's row.
LEMMA FreshRow ==
    ASSUME IInv, NEW c \in Clients, NEW r \in Rows, Write(c, r),
           NEW status, Decide(c, status), r.status = status, retired' = retired,
           (r.type = "public") <=> (r.method = "none"),
           (r.type = "public") <=> (r.secret = Nil),
           r.secret \in minted' \cup {Nil}, r.secret \notin minted, minted \subseteq minted',
           minted' \subseteq Secrets
    PROVE  /\ decided' \in [Clients -> Statuses \cup {Nil}]
           /\ \A x \in Clients \ {c} : decided'[x] = decided[x]
           /\ retired'[c] \subseteq minted' \cup ConfigSecrets
           /\ RowSound(c)'
<1>1. row'[c] = r /\ decided'[c] = status
  BY DEF Write, Decide, IInv, TypeOK
<1>2. retired'[c] \subseteq minted \cup ConfigSecrets
  BY DEF IInv, RetiredWereIssued
<1>3. r.secret \notin ConfigSecrets /\ r.secret \notin retired'[c]
  BY <1>2, ConstantsAssumption DEF IInv, TypeOK
<1>4. RowSound(c)'
  BY <1>1, <1>3 DEF RowSound, Issued
<1>5. r.status \in Statuses  BY DEF Rows
<1> QED  BY <1>2, <1>4, <1>5 DEF Decide, IInv, TypeOK

LEMMA SubmitKeeps ==
    ASSUME IInv, NEW w \in Workers, NEW c \in Clients, NEW d \in Documents,
           NEW s \in Secrets \cup {Nil}, Submit(w, c, d, s)
    PROVE  IInv'
<1> DEFINE data == BuildClientData(d, NoClient)
           r == NewRow(data, Submitted, s, TRUE, TRUE)
<1>1. data \in Data /\ AuthMethodValid(data.method, data.type)
  BY BuildTyped, ConstantsAssumption DEF Submit
<1>2. Submitted \in Statuses  BY DEF Submitted, Statuses
<1>3. /\ DrawFor(data.type, s) /\ Unregistered(c) /\ Write(c, r) /\ Decide(c, Submitted)
      /\ shown' = shown \cup ({s} \ {Nil})
      /\ UNCHANGED <<gone, work, retired, boots>>
  BY DEF Submit, Show
<1> HIDE DEF data
<1>4. r \in Rows /\ r.type = data.type /\ r.method = data.method
      /\ r.status = Submitted /\ r.secret = s
  BY <1>1, <1>2, <1>3 DEF NewRow, Rows, Data, DrawFor
<1>5. data.type \in Types  BY <1>1 DEF Data
<1> HIDE DEF r
<1>6. /\ minted \subseteq minted' /\ minted' \subseteq Secrets
      /\ s \in minted' \cup {Nil} /\ s \notin minted
      /\ shown' \subseteq minted'
      /\ (data.type = "public") <=> (s = Nil)
  BY <1>3, <1>5, Drawn DEF IInv, TypeOK
<1>7. /\ decided' \in [Clients -> Statuses \cup {Nil}]
      /\ \A x \in Clients \ {c} : decided'[x] = decided[x]
      /\ retired'[c] \subseteq minted' \cup ConfigSecrets
      /\ RowSound(c)'
  <2>1. (r.type = "public") <=> (r.method = "none")  BY <1>1, <1>4 DEF AuthMethodValid
  <2>2. (r.type = "public") <=> (r.secret = Nil)  BY <1>4, <1>6
  <2>3. r.secret \in minted' \cup {Nil} /\ r.secret \notin minted  BY <1>4, <1>6
  <2>4. retired' = retired  BY <1>3
  <2>5. r.status = Submitted /\ Decide(c, Submitted)  BY <1>3, <1>4
  <2> QED  BY <1>3, <1>4, <1>6, <2>1, <2>2, <2>3, <2>4, <2>5, FreshRow
<1>8. ~Exists(c)  BY <1>3 DEF Unregistered
<1> QED  BY <1>3, <1>4, <1>6, <1>7, <1>8, WriteStep DEF IInv, TypeOK

LEMMA RegisterKeeps ==
    ASSUME IInv, NEW w \in Workers, NEW c \in Clients, NEW d \in Documents,
           NEW s \in Secrets \cup {Nil}, Register(w, c, d, s)
    PROVE  IInv'
<1> DEFINE wire == [d EXCEPT !.type = IF d.method = "none" THEN "public" ELSE "confidential"]
           data == BuildClientData(wire, NoClient)
           r == NewRow(data, "APPROVED", s, FALSE, TRUE)
           item == [op |-> "register", client |-> c, secret |-> s]
<1>1. wire.type \in Types /\ wire.method \in Methods \cup {Absent}
  BY WireFields, ConstantsAssumption DEF Types
<1>2. /\ DrawFor(data.type, s) /\ Unregistered(c) /\ Write(c, r) /\ Decide(c, "APPROVED")
      /\ Later(w, item) /\ DataValid(wire, NoClient)
      /\ UNCHANGED <<gone, shown, retired, boots>>
  BY DEF Register
<1> HIDE DEF wire
<1>3. data \in Data /\ AuthMethodValid(data.method, data.type)
  BY <1>1, <1>2, BuildTyped
<1> HIDE DEF data
<1>4. r \in Rows /\ r.type = data.type /\ r.method = data.method
      /\ r.status = "APPROVED" /\ r.secret = s
  BY <1>3 DEF NewRow, Rows, Data, Statuses
<1>5. data.type \in Types  BY <1>3 DEF Data
<1> HIDE DEF r
<1>6. /\ minted \subseteq minted' /\ minted' \subseteq Secrets
      /\ s \in minted' \cup {Nil} /\ s \notin minted
      /\ shown' \subseteq minted'
      /\ (data.type = "public") <=> (s = Nil)
  BY <1>2, <1>5, Drawn DEF IInv, TypeOK
<1>7. /\ decided' \in [Clients -> Statuses \cup {Nil}]
      /\ \A x \in Clients \ {c} : decided'[x] = decided[x]
      /\ retired'[c] \subseteq minted' \cup ConfigSecrets
      /\ RowSound(c)'
  <2>1. (r.type = "public") <=> (r.method = "none")  BY <1>3, <1>4 DEF AuthMethodValid
  <2>2. (r.type = "public") <=> (r.secret = Nil)  BY <1>4, <1>6
  <2>3. r.secret \in minted' \cup {Nil} /\ r.secret \notin minted  BY <1>4, <1>6
  <2>4. retired' = retired  BY <1>2
  <2>5. r.status = "APPROVED" /\ Decide(c, "APPROVED")  BY <1>2, <1>4
  <2> QED  BY <1>2, <1>4, <1>6, <2>1, <2>2, <2>3, <2>4, <2>5, FreshRow
<1>8. ~Exists(c)  BY <1>2 DEF Unregistered
<1>9. /\ work' \in [Workers -> WorkItems]
      /\ \A v \in Workers : work'[v] = work[v] \/ ItemSound(v)'
  <2>1. item \in WorkItems  BY DEF WorkItems
  <2>2. work' \in [Workers -> WorkItems] /\ work'[w] = item
        /\ \A v \in Workers \ {w} : work'[v] = work[v]
    BY <2>1, <1>2 DEF Later, IInv, TypeOK
  <2>3. Exists(c)'
    BY <1>2, <1>4, RowIsNotNoClient DEF Exists, Write, IInv, TypeOK
  <2>4. ItemSound(w)'  BY <2>2, <2>3, <1>6 DEF ItemSound, OnRow
  <2> QED  BY <2>2, <2>4
<1> QED  BY <1>2, <1>4, <1>6, <1>7, <1>8, <1>9, WriteStep DEF IInv, TypeOK

-----------------------------------------------------------------------------
(* The steps that change a row *)

\* What a request that has read a row finds when it writes.
LEMMA AtTheWrite ==
    ASSUME IInv, NEW w \in Workers, work[w].op \in {"register", "rotate", "approve", "update"}
    PROVE  /\ work[w].client \in Clients /\ Exists(work[w].client)
           /\ row[work[w].client] \in Rows /\ RowSound(work[w].client)
<1>1. work[w] \in WorkItems  BY DEF IInv, TypeOK
<1>2. work[w].client \in Clients  BY <1>1, Items
<1>3. Exists(work[w].client)  BY <1>1, <1>2 DEF IInv, ItemSound, OnRow
<1> QED  BY <1>2, <1>3, ExistsIsRow DEF IInv

\* A request that is done leaves the others alone.
LEMMA OneDone ==
    ASSUME IInv, NEW w \in Workers, Done(w)
    PROVE  /\ work' \in [Workers -> WorkItems]
           /\ \A v \in Workers : work'[v] = work[v] \/ ItemSound(v)'
<1>1. work' \in [Workers -> WorkItems] /\ work'[w] = Idle
      /\ \A v \in Workers \ {w} : work'[v] = work[v]
  BY IdleIsItem DEF Done, Later, IInv, TypeOK
<1> QED  BY <1>1, IdleSound

LEMMA RegisterTokenKeeps ==
    ASSUME IInv, NEW w \in Workers, RegisterToken(w)
    PROVE  IInv'
<1> SUFFICES ASSUME NEW c \in Clients, c = work[w].client
             PROVE  IInv'
  BY AtTheWrite DEF RegisterToken
<1> DEFINE r == [row[c] EXCEPT !.token = TRUE]
<1>1. Exists(c) /\ row[c] \in Rows /\ RowSound(c)
  BY AtTheWrite DEF RegisterToken
<1>2. /\ r \in Rows /\ r.type = row[c].type /\ r.method = row[c].method
      /\ r.status = row[c].status /\ r.secret = row[c].secret
  BY <1>1 DEF Rows
<1>3. /\ Write(c, r) /\ Done(w)
      /\ shown' = shown \cup ({work[w].secret} \ {Nil})
      /\ UNCHANGED <<gone, minted, retired, decided, boots>>
  BY DEF RegisterToken, Show
<1>4. shown' \subseteq minted' /\ minted' \subseteq Secrets
  BY <1>3 DEF IInv, TypeOK, ItemSound, RegisterToken
<1> HIDE DEF r
<1>5. RowSound(c)'
  <2>1. row'[c] = r  BY <1>1, <1>3 DEF Write, IInv, TypeOK
  <2> QED  BY <1>1, <1>2, <1>3, <2>1 DEF RowSound, Issued
<1>6. retired'[c] \subseteq minted' \cup ConfigSecrets
  BY <1>1, <1>3 DEF IInv, RetiredWereIssued
<1> QED
  BY <1>1, <1>2, <1>3, <1>4, <1>5, <1>6, OneDone, WriteStep DEF IInv, TypeOK

LEMMA UpdateWritesKeeps ==
    ASSUME IInv, NEW w \in Workers, UpdateWrites(w)
    PROVE  IInv'
<1> SUFFICES ASSUME NEW c \in Clients, c = work[w].client
             PROVE  IInv'
  BY AtTheWrite DEF UpdateWrites
<1> DEFINE data == work[w].data
           consent == work[w].before.consent
           r == With(row[c], data, consent)
<1>1. Exists(c) /\ row[c] \in Rows /\ RowSound(c)
  BY AtTheWrite DEF UpdateWrites
<1>2. data \in Data /\ consent \in BOOLEAN
  <2>1. data \in Data /\ work[w].before \in Rows
    BY Items DEF UpdateWrites, IInv, TypeOK
  <2> QED  BY <2>1 DEF Rows
<1>3. /\ AuthMethodValid(data.method, data.type)
      /\ c \notin StaticClients => data.type = row[c].type
  BY DEF IInv, ItemSound, UpdateWrites
<1>4. Write(c, r) /\ Done(w) /\ UNCHANGED <<gone, minted, shown, retired, decided, boots>>
  BY DEF UpdateWrites
<1> HIDE DEF data, consent
<1>5. /\ r \in Rows /\ r.type = data.type /\ r.method = data.method
      /\ r.status = row[c].status /\ r.secret = row[c].secret
  BY <1>1, <1>2, WithTyped
<1> HIDE DEF r
<1>6. RowSound(c)'
  <2>1. row'[c] = r  BY <1>1, <1>4 DEF Write, IInv, TypeOK
  <2> QED  BY <1>1, <1>3, <1>4, <1>5, <2>1 DEF RowSound, Issued, AuthMethodValid
<1>7. retired'[c] \subseteq minted' \cup ConfigSecrets
  BY <1>1, <1>4 DEF IInv, RetiredWereIssued
<1> QED
  BY <1>1, <1>3, <1>4, <1>5, <1>6, <1>7, OneDone, WriteStep DEF IInv, TypeOK

\* A row whose secret is replaced by one that was never drawn.
LEMMA Replaced ==
    ASSUME IInv, NEW c \in Clients, Exists(c), NEW s \in Secrets \ minted,
           minted' = minted \cup {s}, Retire(c)
    PROVE  /\ retired' \in [Clients -> SUBSET (Secrets \cup ConfigSecrets)]
           /\ \A x \in Clients \ {c} : retired'[x] = retired[x]
           /\ retired'[c] \subseteq minted' \cup ConfigSecrets
           /\ s \notin retired'[c] /\ s \notin ConfigSecrets /\ s # Nil
<1>1. row[c].secret \in Issued  BY DEF IInv, RowSound
<1>2. retired[c] \subseteq minted \cup ConfigSecrets  BY DEF IInv, RetiredWereIssued
<1>3. retired' = [retired EXCEPT ![c] = retired[c] \cup ({row[c].secret} \ {Nil})]
  BY DEF Retire
<1>4. minted \subseteq Secrets /\ s \notin ConfigSecrets /\ s # Nil
  BY ConstantsAssumption DEF IInv, TypeOK
<1>5. retired \in [Clients -> SUBSET (Secrets \cup ConfigSecrets)]
  BY DEF IInv, TypeOK
<1>6. retired'[c] = retired[c] \cup ({row[c].secret} \ {Nil})  BY <1>3, <1>5
<1>7. retired'[c] \subseteq minted \cup ConfigSecrets  BY <1>1, <1>2, <1>6 DEF Issued
<1>8. retired'[c] \in SUBSET (Secrets \cup ConfigSecrets)  BY <1>4, <1>7
<1>9. retired' \in [Clients -> SUBSET (Secrets \cup ConfigSecrets)]
  BY <1>3, <1>5, <1>6, <1>8
<1> QED  BY <1>3, <1>4, <1>5, <1>7, <1>9

LEMMA RotateWritesKeeps ==
    ASSUME IInv, NEW w \in Workers, NEW s \in Secrets \cup {Nil}, RotateWrites(w, s)
    PROVE  IInv'
<1> SUFFICES ASSUME NEW c \in Clients, c = work[w].client
             PROVE  IInv'
  BY AtTheWrite DEF RotateWrites
<1> DEFINE r == [row[c] EXCEPT !.secret = s]
<1>1. Exists(c) /\ row[c] \in Rows /\ RowSound(c)
  BY AtTheWrite DEF RotateWrites
<1>2. c \notin StaticClients => row[c].type = "confidential"
  BY DEF IInv, ItemSound, RotateWrites
<1>3. /\ s \in Secrets \ minted /\ minted' = minted \cup {s} /\ Retire(c)
      /\ Write(c, r) /\ Done(w) /\ UNCHANGED <<gone, shown, decided, boots>>
  BY DEF RotateWrites, DrawFor
<1>4. /\ r \in Rows /\ r.type = row[c].type /\ r.method = row[c].method
      /\ r.status = row[c].status /\ r.secret = s
  BY <1>1, <1>3 DEF Rows
<1> HIDE DEF r
<1>5. /\ retired' \in [Clients -> SUBSET (Secrets \cup ConfigSecrets)]
      /\ \A x \in Clients \ {c} : retired'[x] = retired[x]
      /\ retired'[c] \subseteq minted' \cup ConfigSecrets
      /\ s \notin retired'[c] /\ s \notin ConfigSecrets /\ s # Nil
  BY <1>1, <1>3, Replaced
<1>6. RowSound(c)'
  <2>1. row'[c] = r  BY <1>1, <1>3 DEF Write, IInv, TypeOK
  <2> QED  BY <1>1, <1>2, <1>3, <1>4, <1>5, <2>1 DEF RowSound, Issued
<1>7. minted \subseteq minted' /\ minted' \subseteq Secrets /\ shown' \subseteq minted'
  BY <1>3 DEF IInv, TypeOK
<1> QED
  BY <1>1, <1>3, <1>4, <1>5, <1>6, <1>7, OneDone, WriteStep DEF IInv, TypeOK

\* An approval in flight draws a secret for the type it read, and gives a
\* public client the secret it read, which is none.
LEMMA ApproveWritesKeeps ==
    ASSUME IInv, NEW w \in Workers, NEW s \in Secrets \cup {Nil}, ApproveWrites(w, s)
    PROVE  IInv'
<1> SUFFICES ASSUME NEW c \in Clients, c = work[w].client
             PROVE  IInv'
  BY AtTheWrite DEF ApproveWrites
<1> DEFINE before == work[w].before
           secret == IF s = Nil THEN before.secret ELSE s
           r == [row[c] EXCEPT !.status = "APPROVED", !.secret = secret]
<1>1. Exists(c) /\ row[c] \in Rows /\ RowSound(c)
  BY AtTheWrite DEF ApproveWrites
<1>2. before \in Rows
  BY Items DEF ApproveWrites, IInv, TypeOK
<1>3. /\ before.secret \in Issued
      /\ c \notin StaticClients =>
            /\ before.type = row[c].type
            /\ before.type = "public" => before.secret = Nil
  BY DEF IInv, ItemSound, ApproveWrites
<1>4. /\ DrawFor(before.type, s) /\ Write(c, r) /\ Done(w) /\ Decide(c, "APPROVED")
      /\ shown' = shown \cup ({s} \ {Nil})
      /\ IF s = Nil THEN UNCHANGED retired ELSE Retire(c)
      /\ UNCHANGED <<gone, boots>>
  BY DEF ApproveWrites, Show
<1>5. before.type \in Types /\ before.secret \in Secrets \cup ConfigSecrets \cup {Nil}
  BY <1>2 DEF Rows
<1> HIDE DEF before
<1>6. /\ minted \subseteq minted' /\ minted' \subseteq Secrets
      /\ s \in minted' \cup {Nil} /\ s \notin minted
      /\ shown' \subseteq minted'
      /\ (before.type = "public") <=> (s = Nil)
  BY <1>4, <1>5, Drawn DEF IInv, TypeOK
<1>7. secret \in Secrets \cup ConfigSecrets \cup {Nil} /\ secret \in Issued'
  BY <1>3, <1>5, <1>6 DEF Issued
<1> HIDE DEF secret
<1>8. /\ r \in Rows /\ r.type = row[c].type /\ r.method = row[c].method
      /\ r.status = "APPROVED" /\ r.secret = secret
  BY <1>1, <1>7 DEF Rows, Statuses
<1> HIDE DEF r
<1>9. row'[c] = r /\ decided'[c] = "APPROVED"
      /\ decided' \in [Clients -> Statuses \cup {Nil}]
      /\ \A x \in Clients \ {c} : decided'[x] = decided[x]
  BY <1>4, <1>1 DEF Write, Decide, Statuses, IInv, TypeOK
<1>10. /\ retired' \in [Clients -> SUBSET (Secrets \cup ConfigSecrets)]
       /\ \A x \in Clients \ {c} : retired'[x] = retired[x]
       /\ retired'[c] \subseteq minted' \cup ConfigSecrets
       /\ c \notin StaticClients => secret \notin retired'[c] \cup ConfigSecrets
       /\ c \notin StaticClients => ((row[c].type = "public") <=> (secret = Nil))
  <2>1. CASE s = Nil
    <3>1. retired' = retired /\ secret = before.secret
      BY <2>1, <1>4 DEF secret
    <3>2. c \notin StaticClients => secret = Nil /\ row[c].type = "public"
      BY <2>1, <3>1, <1>3, <1>6
    <3>3. retired[c] \subseteq minted \cup ConfigSecrets /\ Nil \notin minted \cup ConfigSecrets
      BY ConstantsAssumption DEF IInv, TypeOK, RetiredWereIssued
    <3> QED  BY <3>1, <3>2, <3>3, <1>6 DEF IInv, TypeOK
  <2>2. CASE s # Nil
    <3>1. Retire(c) /\ secret = s  BY <2>2, <1>4 DEF secret
    <3>2. s \in Secrets \ minted /\ minted' = minted \cup {s}
      BY <2>2, <1>4, <1>5 DEF DrawFor
    <3> QED  BY <3>1, <3>2, <1>1, <1>3, <1>6, <2>2, Replaced
  <2> QED  BY <2>1, <2>2
<1>11. RowSound(c)'
  BY <1>1, <1>7, <1>8, <1>9, <1>10 DEF RowSound
<1> QED
  BY <1>1, <1>4, <1>6, <1>8, <1>9, <1>10, <1>11, OneDone, WriteStep DEF IInv, TypeOK

LEMMA SetStatusKeeps ==
    ASSUME IInv, NEW c \in Clients, NEW status \in Statuses, SetStatus(c, status)
    PROVE  IInv'
<1> DEFINE r == [row[c] EXCEPT !.status = status]
<1>1. Exists(c) /\ row[c] \in Rows /\ RowSound(c)
  BY ExistsIsRow DEF SetStatus, IInv
<1>2. /\ r \in Rows /\ r.type = row[c].type /\ r.method = row[c].method
      /\ r.status = status /\ r.secret = row[c].secret
  BY <1>1 DEF Rows
<1>3. Write(c, r) /\ Decide(c, status)
      /\ UNCHANGED <<gone, work, minted, shown, retired, boots>>
  BY DEF SetStatus
<1> HIDE DEF r
<1>4. /\ row'[c] = r /\ decided'[c] = status
      /\ decided' \in [Clients -> Statuses \cup {Nil}]
      /\ \A x \in Clients \ {c} : decided'[x] = decided[x]
  BY <1>3 DEF Write, Decide, IInv, TypeOK
<1>5. RowSound(c)'
  BY <1>1, <1>2, <1>3, <1>4 DEF RowSound, Issued
<1>6. retired'[c] \subseteq minted' \cup ConfigSecrets
  BY <1>3 DEF IInv, RetiredWereIssued
<1> QED  BY <1>2, <1>3, <1>4, <1>5, <1>6, WriteStep DEF IInv, TypeOK

\* A boot writes the configuration's own row: what it read may be stale, and
\* what must hold of such a row is only that its method fits its type and that
\* its status was decided by the boot.
LEMMA SyncWritesKeeps ==
    ASSUME IInv, NEW w \in Workers, SyncWrites(w)
    PROVE  IInv'
<1> SUFFICES ASSUME NEW e \in Entries, e = work[w].entry,
                    NEW old \in Rows \cup {NoClient}, old = work[w].old
             PROVE  IInv'
  BY Items DEF SyncWrites, IInv, TypeOK
<1> SUFFICES ASSUME NEW c \in StaticClients, c = e.client
             PROVE  IInv'
  BY ConstantsAssumption
<1>0. c \in Clients /\ e.secret \in ConfigSecrets \cup {Nil} /\ e.doc \in Documents
  BY ConstantsAssumption
<1> DEFINE data == BuildClientData(e.doc, NoClient)
           consent == ConsentAtBoot(e, old)
           secret == IF e.secret # Nil THEN e.secret
                     ELSE IF old = NoClient THEN Nil ELSE old.secret
           r == IF old = NoClient
                THEN NewRow(data, "APPROVED", secret, FALSE, consent)
                ELSE [With(row[c], data, consent) EXCEPT !.status = "APPROVED",
                                                         !.secret = secret]
<1>1. /\ DataValid(e.doc, NoClient)
      /\ old # NoClient => old.secret \in Issued
      /\ old # NoClient => Exists(c)
  BY <1>0 DEF IInv, ItemSound, OnRow, SyncWrites
<1>2. data \in Data /\ AuthMethodValid(data.method, data.type)
  BY <1>0, <1>1, BuildTyped, ConstantsAssumption
<1>3. secret \in Issued /\ secret \in Secrets \cup ConfigSecrets \cup {Nil}
  BY <1>0, <1>1 DEF Issued, IInv, TypeOK
<1>7. consent \in BOOLEAN
  BY DEF ConsentAtBoot
<1>4. Done(w) /\ UNCHANGED <<gone, minted, shown, boots>>
  BY DEF SyncWrites
<1>5. CASE old = NoClient /\ Exists(c)
  <2>1. UNCHANGED <<row, retired, decided>>  BY <1>5 DEF SyncWrites
  <2>2. Later(w, Idle)  BY <1>4 DEF Done
  <2>3. work'[w] = Idle  BY <2>2 DEF Later, IInv, TypeOK
  <2> QED  BY <1>4, <2>1, <2>2, <2>3, IdleSound, IdleIsItem, ReadStep DEF IInv, TypeOK
<1>6. CASE ~(old = NoClient /\ Exists(c))
  <2>1. /\ Write(c, r) /\ Decide(c, "APPROVED")
        /\ retired' = IF old # NoClient /\ secret # row[c].secret
                      THEN [retired EXCEPT ![c] = @ \cup ({row[c].secret} \ {Nil})]
                      ELSE retired
    BY <1>6 DEF SyncWrites
  <2> HIDE DEF data, secret, consent
  <2>2. /\ r \in Rows /\ r.type = data.type /\ r.method = data.method
        /\ r.status = "APPROVED" /\ r.secret = secret
    <3>1. CASE old = NoClient
      BY <3>1, <1>0, <1>2, <1>3, <1>7 DEF NewRow, Rows, Data, Statuses
    <3>2. CASE old # NoClient
      <4>1. row[c] \in Rows  BY <3>2, <1>0, <1>1, ExistsIsRow DEF IInv
      <4>2. With(row[c], data, consent) \in Rows
            /\ With(row[c], data, consent).type = data.type
            /\ With(row[c], data, consent).method = data.method
        BY <4>1, <1>2, <1>7, WithTyped
      <4> QED  BY <3>2, <4>2, <1>3 DEF Rows, Statuses
    <3> QED  BY <3>1, <3>2
  <2> HIDE DEF r
  <2>3. /\ row'[c] = r /\ decided'[c] = "APPROVED"
        /\ decided' \in [Clients -> Statuses \cup {Nil}]
        /\ \A x \in Clients \ {c} : decided'[x] = decided[x]
    BY <1>0, <2>1 DEF Write, Decide, Statuses, IInv, TypeOK
  <2>4. RowSound(c)'
    BY <1>2, <1>3, <1>4, <2>2, <2>3 DEF RowSound, AuthMethodValid, Issued
  <2>5. /\ retired' \in [Clients -> SUBSET (Secrets \cup ConfigSecrets)]
        /\ \A x \in Clients \ {c} : retired'[x] = retired[x]
        /\ retired'[c] \subseteq minted' \cup ConfigSecrets
    <3>1. retired[c] \subseteq minted \cup ConfigSecrets
      BY <1>0 DEF IInv, RetiredWereIssued
    <3>2. CASE old # NoClient /\ secret # row[c].secret
      <4>1. row[c].secret \in Issued  BY <3>2, <1>0, <1>1 DEF IInv, RowSound
      <4>2. retired' = [retired EXCEPT ![c] = retired[c] \cup ({row[c].secret} \ {Nil})]
        BY <3>2, <2>1
      <4>3. {row[c].secret} \ {Nil} \subseteq minted \cup ConfigSecrets
        BY <4>1 DEF Issued
      <4>4. retired \in [Clients -> SUBSET (Secrets \cup ConfigSecrets)] /\ minted \subseteq Secrets
        BY DEF IInv, TypeOK
      <4>5. retired'[c] = retired[c] \cup ({row[c].secret} \ {Nil})  BY <1>0, <4>2, <4>4
      <4> QED  BY <1>0, <1>4, <3>1, <4>2, <4>3, <4>4, <4>5
    <3>3. CASE ~(old # NoClient /\ secret # row[c].secret)
      BY <3>3, <3>1, <2>1, <1>4 DEF IInv, TypeOK
    <3> QED  BY <3>2, <3>3
  <2>6. minted \subseteq minted' /\ minted' \subseteq Secrets /\ shown' \subseteq minted'
    BY <1>4 DEF IInv, TypeOK
  <2> QED  BY <1>0, <1>4, <2>1, <2>2, <2>3, <2>4, <2>5, <2>6, OneDone, WriteStep
<1> QED  BY <1>5, <1>6

\* The requests that had read the row it deletes end with it.
LEMMA RemoveKeeps ==
    ASSUME IInv, NEW c \in Clients, Remove(c)
    PROVE  IInv'
<1>1. /\ row'[c] = NoClient /\ decided'[c] = Nil /\ retired'[c] = {}
      /\ \A x \in Clients \ {c} :
            row'[x] = row[x] /\ decided'[x] = decided[x] /\ retired'[x] = retired[x]
      /\ minted' = minted
  BY DEF Remove, Write, IInv, TypeOK
<1>2. TypeOK'
  <2>1. gone' \in SUBSET (Clients \ StaticClients)  BY DEF Remove, IInv, TypeOK
  <2>2. work' \in [Workers -> WorkItems]  BY IdleIsItem DEF Remove, IInv, TypeOK
  <2>3. row' \in [Clients -> Rows \cup {NoClient}]  BY DEF Remove, Write, IInv, TypeOK
  <2> QED  BY <2>1, <2>2, <2>3 DEF Remove, IInv, TypeOK
<1>3. ASSUME NEW x \in Clients PROVE RowSound(x)'
  <2>1. CASE x = c  BY <2>1, <1>1 DEF RowSound, Exists
  <2>2. CASE x # c  BY <2>2, <1>1, RowFrame DEF IInv
  <2> QED  BY <2>1, <2>2
<1>4. RetiredWereIssued'  BY <1>1 DEF IInv, RetiredWereIssued
<1>5. ASSUME NEW w \in Workers PROVE ItemSound(w)'
  <2>1. CASE OnRow(work[w], c)
    <3>1. work'[w] = Idle  BY <2>1 DEF Remove
    <3> QED  BY <3>1, IdleSound
  <2>2. CASE ~OnRow(work[w], c)
    <3>1. work'[w] = work[w]  BY <2>2 DEF Remove
    <3>2. \A x \in Clients : OnRow(work[w], x) => row'[x] # NoClient /\ row'[x].type = row[x].type
      BY <2>2, <1>1 DEF IInv, ItemSound, Exists
    <3> QED  BY <3>1, <3>2, <1>1, ItemFrame DEF IInv
  <2> QED  BY <2>1, <2>2
<1> QED  BY <1>2, <1>3, <1>4, <1>5 DEF IInv

-----------------------------------------------------------------------------
LEMMA StepKeeps == IInv /\ [Next]_vars => IInv'
<1> SUFFICES ASSUME IInv, [Next]_vars PROVE IInv'
  OBVIOUS
<1>1. CASE UNCHANGED vars
  BY <1>1 DEF vars, IInv, TypeOK, RowSound, Exists, Issued, RetiredWereIssued, ItemSound, OnRow
<1>2. ASSUME NEW w \in Workers, ClientStep(w) PROVE IInv'
  BY <1>2, SubmitKeeps, RegisterKeeps, UpdateReadsKeeps, RegisterTokenKeeps,
     UpdateWritesKeeps, AuthReadsKeeps, AuthVerifiesKeeps DEF ClientStep
<1>3. ASSUME NEW w \in Workers, ReviewStep(w) PROVE IInv'
  BY <1>3, RotateReadsKeeps, ApproveReadsKeeps, RotateWritesKeeps, ApproveWritesKeeps
     DEF ReviewStep
<1>4. ASSUME NEW w \in Workers, Leave(w) \/ SyncWrites(w) \/ \E e \in Entries : SyncReads(w, e)
      PROVE IInv'
  BY <1>4, LeaveKeeps, SyncReadsKeeps, SyncWritesKeeps
<1>5. ASSUME NEW c \in Clients, Remove(c) \/ \E status \in Statuses : SetStatus(c, status)
      PROVE IInv'
  BY <1>5, RemoveKeeps, SetStatusKeeps
<1> QED  BY <1>1, <1>2, <1>3, <1>4, <1>5 DEF Next

LEMMA Invariance == Spec => []IInv
  BY InitEstablishes, StepKeeps, PTL DEF Spec

\* Every reachable state is well formed, for every number of clients, metadata
\* documents, secrets and requests in progress.
THEOREM TypeCorrect == Spec => []TypeOK
<1>1. IInv => TypeOK  BY DEF IInv
<1> QED  BY <1>1, Invariance, PTL

\* A public client has no authentication method and a confidential one has one,
\* with a secret unless it is the configuration's (updateRegistration: "A
\* confidential client cannot become public").
THEOREM MethodAlwaysFitsType == Spec => []MethodFitsType
<1>1. IInv => MethodFitsType
  <2> SUFFICES ASSUME IInv, NEW c \in Clients, Exists(c)
               PROVE  /\ (row[c].type = "public") <=> (row[c].method = "none")
                      /\ row[c].type = "confidential" /\ c \notin StaticClients =>
                            row[c].secret # Nil
    BY DEF MethodFitsType
  <2> QED  BY DEF IInv, RowSound
<1> QED  BY <1>1, Invariance, PTL

\* Once rotated away, a secret is never stored again and lets no request in
\* (rotateSecret "invalidates the old one immediately").
THEOREM OldSecretStaysDead == Spec => []OldSecretIsDead
<1>1. IInv => OldSecretIsDead
  BY DEF IInv, RowSound, ItemSound, OldSecretIsDead
<1> QED  BY <1>1, Invariance, PTL

\* The stored status is the one somebody decided last: nothing a client does to
\* itself, and no rotation, approves it (adminController's review).
THEOREM StatusStaysAsDecided == Spec => []StatusIsAsDecided
<1>1. IInv => StatusIsAsDecided
  BY DEF IInv, RowSound, StatusIsAsDecided
<1> QED  BY <1>1, Invariance, PTL
=============================================================================
