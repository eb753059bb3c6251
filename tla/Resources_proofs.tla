-------------------------- MODULE Resources_proofs --------------------------
(***************************************************************************)
(* Proofs about the management API, for any clients, keys, batches, page   *)
(* size and number of rows.  Every step of every handler is of one of a    *)
(* few kinds (StepKinds): a request opens its transaction, a statement     *)
(* writes one row, a transaction ends, a list is paged, a client is told.  *)
(* What they keep is proved kind by kind: types, walks, images, and that   *)
(* what a transaction commits is what its request asked for (StoreInv),    *)
(* from which every step is one of Store's or none (StepMaps).             *)
(***************************************************************************)
EXTENDS Resources, TLAPS, Loops, FiniteSetTheorems

WriteOps == {"create", "upsert", "update", "batch", "upload"}

(* What a request that has opened its transaction asks for.                *)
Sound(r) ==
    /\ r.op \in WriteOps /\ r.code = 0
    /\ r.op \in {"create", "upsert"} => Len(r.items) = 1 /\ r.at = 1
    /\ r.op \in {"update", "upload"} => r.id \in Id
    /\ r.op = "update" =>
         /\ r.items = <<>> \/ (Len(r.items) = 1 /\ r.items[1] # {} /\ r.items[1] \subseteq Second)
         /\ subject # "template" => r.items = <<>> /\ ~r.bump
    /\ \A n \in 1..Len(r.items) : OneName(r.items[n])

Control(c) ==
    /\ req[c].phase = "idle" => req[c] = Idle
    /\ req[c].code = 0 <=> req[c].phase # "answered"
    /\ Open(c) => Sound(req[c])
    /\ req[c].phase \in InTx =>
         IF req[c].op = "batch" THEN req[c].at \in 1..Len(req[c].items)
         ELSE writes[c] = NoRows
    /\ req[c].phase = "put" => req[c].op = "upload"
    /\ req[c].phase \in {"put", "write"} /\ req[c].op = "upload" => req[c].id \in DOMAIN rows
    /\ req[c].phase = "write" /\ req[c].op = "upload" => c \in objects

TypeInv == ResourcesTypeOK /\ \A c \in Client : Control(c)

-----------------------------------------------------------------------------
(* Kinds of step.                                                          *)

(* A request opens its transaction.                                        *)
Begins(c) ==
    /\ req[c].phase = "idle" /\ UNCHANGED <<store, subject, objects>>
    /\ \E r \in Request :
         /\ Sound(r) /\ r.at = 1
         /\ r.phase = IF r.op = "batch" /\ r.items = <<>> THEN "commit" ELSE "run"
         /\ req' = [req EXCEPT ![c] = r]

(* A client is answered without a transaction.                             *)
Told(c) ==
    /\ req[c].phase \in {"idle", "walk"} /\ UNCHANGED <<store, subject, objects>>
    /\ \E code \in {200, 400, 403, 404, 422, 500} : Answer(c, code)

(* The row of a create or an upsert by url goes in.                        *)
Inserts(c) ==
    /\ req[c].phase \in {"run", "write"} /\ req[c].op \in {"create", "upsert"}
    /\ KeyAwaits(c, req[c].items[1]) = {}
    /\ Insert(c, req[c].items[1]) /\ Goto(c, "commit")
    /\ UNCHANGED <<subject, objects>>

NewName(c) == IF req[c].items = <<>> THEN {} ELSE req[c].items[1]

Edited(c) ==
    [rows[req[c].id] EXCEPT !.by = c,
        !.version = @ + IF req[c].bump THEN 1 ELSE 0,
        !.keys = IF req[c].items = <<>> THEN @ ELSE (@ \cap Ext) \cup req[c].items[1]]

(* The row of a PATCH is written.                                          *)
Edits(c) ==
    /\ req[c].phase = "run" /\ req[c].op = "update" /\ req[c].id \in DOMAIN rows
    /\ RowAwaits(c, req[c].id) = {} /\ KeyAwaits(c, NewName(c)) = {}
    /\ Update(c, req[c].id, Edited(c)) /\ Goto(c, "commit")
    /\ UNCHANGED <<subject, objects>>

(* The row of an upload is given its url.                                  *)
Illustrates(c) ==
    /\ req[c].phase = "write" /\ req[c].op = "upload"
    /\ RowAwaits(c, req[c].id) = {}
    /\ Update(c, req[c].id, [rows[req[c].id] EXCEPT !.image = c]) /\ Goto(c, "commit")
    /\ UNCHANGED <<subject, objects>>

Item(c) == req[c].items[req[c].at]
Mine(c) == {i \in DOMAIN Visible(c) : Visible(c)[i].keys \cap Item(c) \cap Ext # {}}

(* A row of a batch is written.                                            *)
Upserts(c) ==
    /\ req[c].phase = "run" /\ req[c].op = "batch"
    /\ KeyAwaits(c, Item(c)) = {}
    /\ \/ Mine(c) = {} /\ Insert(c, Item(c))
       \/ \E i \in Mine(c) :
             Update(c, i, [Visible(c)[i] EXCEPT !.keys = Item(c), !.by = c])
    /\ IF req[c].at = Len(req[c].items) THEN Goto(c, "commit")
       ELSE req' = [req EXCEPT ![c].at = @ + 1]
    /\ UNCHANGED <<subject, objects>>

(* A statement only reads, or the image store is given its object.         *)
Proceeds(c) ==
    /\ \/ /\ req[c].phase = "run" /\ req[c].op = "upsert"
          /\ Goto(c, "write") /\ objects' = objects
       \/ /\ req[c].phase = "run" /\ req[c].op = "upload" /\ req[c].id \in DOMAIN rows
          /\ Goto(c, "put") /\ objects' = objects
       \/ /\ req[c].phase = "put" /\ req[c].op = "upload"
          /\ Goto(c, "write") /\ objects' = objects \cup {c}
    /\ UNCHANGED <<store, subject>>

(* The transaction is dropped and the client told why.                     *)
Fails(c) ==
    /\ req[c].phase \in InTx
    /\ \E code \in {200, 400, 404, 409, 413, 415, 422, 500} :
         /\ Fail(c, code)
         /\ code = 200 => req[c].op = "upsert" /\ Clashing(c, req[c].items[1], {}) # {}
         /\ code = 409 => req[c].op = "create" /\ Clashing(c, req[c].items[1], {}) # {}
         /\ code = 404 => req[c].op \in {"update", "upload"} /\ req[c].id \notin DOMAIN rows

Steps(c) ==
    \/ Begins(c) \/ Told(c) \/ PageOf(c, subject)
    \/ Inserts(c) \/ Edits(c) \/ Illustrates(c) \/ Upserts(c) \/ Proceeds(c) \/ Fails(c)
    \/ Finish(c) \/ CommitFails(c) \/ HangUp(c) \/ Leave(c)

-----------------------------------------------------------------------------
(* Tables.                                                                 *)

LEMMA EmptyTable == IsTable(NoRows) /\ DOMAIN NoRows = {}
<1>1. DOMAIN NoRows = {}
  BY DEF NoRows
<1>2. NoRows \in [DOMAIN NoRows -> Row]
  BY DEF NoRows
<1> QED
  BY <1>1, <1>2, FS_EmptySet DEF IsTable

LEMMA OverDef ==
  ASSUME NEW s, NEW t
  PROVE  /\ DOMAIN Over(s, t) = DOMAIN s \cup DOMAIN t
         /\ \A i \in DOMAIN s : Over(s, t)[i] = s[i]
         /\ \A i \in DOMAIN t \ DOMAIN s : Over(s, t)[i] = t[i]
  BY DEF Over

LEMMA OverTable ==
  ASSUME NEW s, NEW t, IsTable(s), IsTable(t)
  PROVE  IsTable(Over(s, t))
<1>1. IsFiniteSet(DOMAIN s \cup DOMAIN t) /\ DOMAIN s \cup DOMAIN t \subseteq Id
  BY FS_Union DEF IsTable
<1>2. \A i \in DOMAIN s \cup DOMAIN t : Over(s, t)[i] \in Row
  <2>1. /\ \A i \in DOMAIN s : s[i] \in Row
        /\ \A i \in DOMAIN t : t[i] \in Row
    BY DEF IsTable
  <2>2. /\ \A j \in DOMAIN s : Over(s, t)[j] = s[j]
        /\ \A j \in DOMAIN t \ DOMAIN s : Over(s, t)[j] = t[j]
    BY OverDef, Zenon
  <2> QED
    BY <2>1, <2>2
<1>3. Over(s, t) \in [DOMAIN s \cup DOMAIN t -> Row]
  <2> DEFINE u == Over(s, t)
             D == DOMAIN s \cup DOMAIN t
  <2>1. u = [i \in D |-> u[i]] /\ \A i \in D : u[i] \in Row
    BY <1>2 DEF Over
  <2> HIDE DEF u, D
  <2>2. u \in [D -> Row]
    BY <2>1
  <2> QED
    BY <2>2 DEF u, D
<1> QED
  BY <1>1, <1>3, OverDef DEF IsTable

(* u is t in which i has been given a row.                                 *)
Given(t, i, row, u) ==
    /\ DOMAIN u = DOMAIN t \cup {i} /\ u[i] = row
    /\ \A j \in DOMAIN t \ {i} : u[j] = t[j]

LEMMA PutGiven ==
  ASSUME NEW t, NEW i, NEW row
  PROVE  Given(t, i, row, Put(t, i, row))
<1> DEFINE s == [j \in {i} |-> row]
           u == Over(s, t)
<1>1. DOMAIN s = {i} /\ s[i] = row /\ Put(t, i, row) = u
  BY DEF Put
<1> HIDE DEF s
<1>2. /\ DOMAIN u = DOMAIN s \cup DOMAIN t
      /\ \A j \in DOMAIN s : u[j] = s[j]
      /\ \A j \in DOMAIN t \ DOMAIN s : u[j] = t[j]
  BY OverDef, Zenon
<1> HIDE DEF u
<1>3. DOMAIN u = DOMAIN t \cup {i}
  BY <1>1, <1>2
<1> QED
  BY <1>1, <1>2, <1>3 DEF Given

LEMMA PutTable ==
  ASSUME NEW t, IsTable(t), NEW i \in Id, NEW row \in Row
  PROVE  IsTable(Put(t, i, row))
<1> DEFINE s == [j \in {i} |-> row]
<1>1. DOMAIN s = {i} /\ s \in [{i} -> Row] /\ IsFiniteSet({i})
  BY FS_Singleton
<1> HIDE DEF s
<1>2. IsTable(s)
  BY <1>1 DEF IsTable
<1> QED
  BY <1>2, OverTable DEF Put, s

LEMMA OverNone ==
  ASSUME NEW t, IsTable(t)
  PROVE  Over(NoRows, t) = t
<1>1. DOMAIN NoRows = {} /\ t = [i \in DOMAIN t |-> t[i]]
  BY EmptyTable DEF IsTable
<1> QED
  BY <1>1 DEF Over

(* A finite set of naturals has a greatest element.                         *)
LEMMA FiniteBound ==
  ASSUME NEW S, S \subseteq Nat, IsFiniteSet(S)
  PROVE  \E b \in Nat : \A x \in S : x =< b
<1> DEFINE n == Cardinality(S)
           T == {k \in 0..n : \A U \in SUBSET Nat :
                   IsFiniteSet(U) /\ Cardinality(U) = k => \E b \in Nat : \A x \in U : x =< b}
<1>0. n \in Nat
  BY FS_CardinalityType
<1>1. 0 \in T
  <2>1. \A U \in SUBSET Nat : IsFiniteSet(U) /\ Cardinality(U) = 0 => U = {}
    BY FS_EmptySet
  <2> QED
    BY <1>0, <2>1
<1>2. ASSUME NEW k \in 0..n, k \in T, k < n PROVE k + 1 \in T
  <2> SUFFICES ASSUME NEW U \in SUBSET Nat, IsFiniteSet(U), Cardinality(U) = k + 1
               PROVE  \E b \in Nat : \A x \in U : x =< b
    BY <1>0, <1>2
  <2>1. U # {}
    BY <1>0, FS_EmptySet
  <2>2. PICK y \in U : TRUE
    BY <2>1
  <2>3. IsFiniteSet(U \ {y}) /\ Cardinality(U \ {y}) = k
    <3>1. Cardinality(U \ {y}) = Cardinality(U) - 1 /\ IsFiniteSet(U \ {y})
      BY <2>2, FS_RemoveElement
    <3> QED
      BY <1>0, <3>1
  <2>4. PICK b \in Nat : \A x \in U \ {y} : x =< b
    BY <1>2, <2>3
  <2>5. CASE y =< b
    BY <2>4, <2>5
  <2>6. CASE ~(y =< b)
    <3>1. \A x \in U : x =< y
      BY <2>2, <2>4, <2>6
    <3> QED
      BY <2>2, <3>1
  <2> QED
    BY <2>5, <2>6
<1> HIDE DEF T
<1>3. 0..n \subseteq T
  BY <1>0, <1>1, <1>2, UpToInduction
<1>4. n \in T
  BY <1>0, <1>3
<1> QED
  BY <1>4 DEF T

LEMMA FiniteMax ==
  ASSUME NEW S, S \subseteq Nat, IsFiniteSet(S), S # {}
  PROVE  Max(S) \in S /\ \A x \in S : x =< Max(S)
<1> DEFINE B == {b \in Nat : \A x \in S : x =< b}
<1>1. B \subseteq Nat /\ B # {}
  BY FiniteBound
<1>2. PICK m \in B : \A b \in B : m =< b
  <2> HIDE DEF B
  <2> QED
    BY <1>1, NatMin
<1>3. m \in S
  <2> SUFFICES ASSUME m \notin S PROVE FALSE
    OBVIOUS
  <2>1. \A x \in S : x \in Nat /\ x < m
    BY <1>2
  <2>2. m - 1 \in B
    <3>0. PICK x \in S : TRUE
      OBVIOUS
    <3>1. m \in Nat /\ m # 0
      BY <1>2, <2>1, <3>0
    <3> QED
      BY <2>1, <3>1
  <2> QED
    BY <1>2, <2>2
<1>4. \A x \in S : x =< m
  BY <1>2
<1> QED
  BY <1>3, <1>4 DEF Max

-----------------------------------------------------------------------------
(* Every step of every handler is of one of the kinds.                     *)

Askable(r, op) == r \in Request /\ r.at = 1 /\ Sound([r EXCEPT !.op = op])

LEMMA IdleRequest == Idle \in Request
  BY TransactionsAssumption DEF Idle, Request, Phase, Op, Code, Keys, Id

LEMMA OpenedSound ==
  ASSUME NEW op \in WriteOps, NEW r, Askable(r, op), NEW q, q = Opened(r, op)
  PROVE  /\ q \in Request /\ Sound(q) /\ q.at = 1
         /\ q.phase = IF q.op = "batch" /\ q.items = <<>> THEN "commit" ELSE "run"
<1> DEFINE x == IF op = "batch" /\ r.items = <<>> THEN "commit" ELSE "run"
           p == [r EXCEPT !.op = op]
<1>1. r \in Request /\ r.at = 1 /\ Sound(p) /\ x \in Phase /\ op \in Op
  BY DEF Askable, Phase, Op, WriteOps
<1>2. q = [r EXCEPT !.op = op, !.phase = x]
  BY DEF Opened
<1> HIDE DEF x
<1>3. /\ p.op = op /\ p.items = r.items /\ p.at = r.at /\ p.id = r.id
      /\ p.bump = r.bump /\ p.code = r.code
  BY <1>1 DEF Request
<1>4. q \in Request
  BY <1>1, <1>2 DEF Request
<1>5. /\ q.op = op /\ q.items = r.items /\ q.at = r.at /\ q.id = r.id
      /\ q.bump = r.bump /\ q.code = r.code /\ q.phase = x
  BY <1>1, <1>2 DEF Request
<1> HIDE DEF p
<1>6. Sound(q)
  BY <1>1, <1>3, <1>5 DEF Sound
<1> QED
  BY <1>1, <1>4, <1>5, <1>6 DEF x

LEMMA ArriveKinds ==
  ASSUME NEW c, NEW kind, NEW op \in WriteOps, NEW asks, NEW early,
         early \subseteq {400, 422, 500}, \A r \in asks : Askable(r, op),
         Arrive(c, kind, op, asks, early)
  PROVE  Begins(c) \/ Told(c)
<1>1. req[c].phase = "idle" /\ UNCHANGED <<store, subject, objects>>
  BY DEF Arrive
<1>2. CASE \E code \in early \cup {403, 500} : Answer(c, code)
  <2>1. PICK code \in early \cup {403, 500} : Answer(c, code)
    BY <1>2
  <2>2. code \in {200, 400, 403, 404, 422, 500}
    OBVIOUS
  <2>3. \E x \in {200, 400, 403, 404, 422, 500} : Answer(c, x)
    BY <2>1, <2>2
  <2> QED
    BY <1>1, <2>3 DEF Told
<1>3. ASSUME NEW r \in asks, req' = [req EXCEPT ![c] = Opened(r, op)]
      PROVE  Begins(c)
  <2>1. PICK q : q = Opened(r, op)
    OBVIOUS
  <2>2. /\ q \in Request /\ Sound(q) /\ q.at = 1
        /\ q.phase = IF q.op = "batch" /\ q.items = <<>> THEN "commit" ELSE "run"
    <3>1. Askable(r, op)
      BY <1>3
    <3> QED
      BY <2>1, <3>1, OpenedSound
  <2>3. req' = [req EXCEPT ![c] = q]
    BY <1>3, <2>1
  <2>4. \E x \in Request :
           /\ Sound(x) /\ x.at = 1
           /\ x.phase = IF x.op = "batch" /\ x.items = <<>> THEN "commit" ELSE "run"
           /\ req' = [req EXCEPT ![c] = x]
    BY <2>2, <2>3
  <2> QED
    BY <1>1, <2>4 DEF Begins
<1>4. \/ \E code \in early \cup {403, 500} : Answer(c, code)
      \/ \E r \in asks : req' = [req EXCEPT ![c] = Opened(r, op)]
  BY DEF Arrive, OpenTx
<1> QED
  BY <1>2, <1>3, <1>4

LEMMA ArriveSteps ==
  ASSUME NEW c, NEW kind, NEW op \in WriteOps, NEW asks, NEW early,
         early \subseteq {400, 422, 500}, \A r \in asks : Askable(r, op),
         Arrive(c, kind, op, asks, early)
  PROVE  Steps(c)
  BY ArriveKinds DEF Steps

LEMMA AskItems ==
  ASSUME NEW b \in Seq(Keys), \A n \in 1..Len(b) : OneName(b[n]),
         NEW op \in {"create", "upsert", "batch"}, op # "batch" => Len(b) = 1
  PROVE  Askable([Idle EXCEPT !.items = b], op)
<1> DEFINE r == [Idle EXCEPT !.items = b]
           q == [r EXCEPT !.op = op]
<1>1. r \in Request /\ r.at = 1
  BY IdleRequest DEF Request, Idle
<1>2. q.op = op /\ q.items = b /\ q.at = 1 /\ q.code = 0
  BY DEF Idle
<1>3. Sound(q)
  <2> HIDE DEF q
  <2> QED
    BY <1>2 DEF Sound, WriteOps
<1> QED
  BY <1>1, <1>3 DEF Askable

LEMMA OneItem ==
  ASSUME NEW k \in Keys, OneName(k)
  PROVE  /\ <<k>> \in Seq(Keys) /\ Len(<<k>>) = 1
         /\ \A n \in 1..Len(<<k>>) : OneName(<<k>>[n])
  OBVIOUS

LEMMA ItemsNamed ==
  ASSUME NEW kind, NEW k \in ItemsOf(kind)
  PROVE  k \in Keys /\ OneName(k)
<1> DEFINE named == {{}} \cup {{e} : e \in Ext}
<1>1. \A e \in named : e \subseteq Ext /\ \A x, y \in e : x = y
  OBVIOUS
<1>2. CASE k \in named
  BY <1>1, <1>2 DEF Keys, OneName
<1>3. CASE \E e \in named, u \in Second : k = e \cup {u}
  <2>1. PICK e \in named, u \in Second : k = e \cup {u}
    BY <1>3
  <2>2. k \cap Ext = e
    BY <1>1, <2>1, TransactionsAssumption
  <2> QED
    BY <1>1, <2>1, <2>2 DEF Keys, OneName
<1> QED
  BY <1>2, <1>3 DEF ItemsOf

LEMMA AskTarget ==
  ASSUME NEW i \in 1..MaxId, NEW op \in {"update", "upload"}
  PROVE  Askable([Idle EXCEPT !.id = i], op)
<1> DEFINE r == [Idle EXCEPT !.id = i]
           q == [r EXCEPT !.op = op]
<1>0. i \in Id /\ i \in 0..MaxId
  BY TransactionsAssumption DEF Id
<1>1. r \in Request /\ r.at = 1
  BY <1>0, IdleRequest DEF Request, Idle
<1>2. q.op = op /\ q.items = <<>> /\ q.code = 0 /\ q.bump = FALSE /\ q.id = i
  BY DEF Idle
<1>3. Sound(q)
  <2> HIDE DEF q
  <2> QED
    BY <1>0, <1>2 DEF Sound, WriteOps
<1> QED
  BY <1>1, <1>3 DEF Askable

LEMMA CreateKinds ==
  ASSUME NEW c \in Client, TypeInv, NEW kind, NEW early, NEW breach,
         early \subseteq {400, 422, 500}, breach \subseteq {422}, Create(c, kind, early, breach)
  PROVE  Steps(c)
<1> DEFINE asks == {[Idle EXCEPT !.items = <<k>>] : k \in ItemsOf(kind)}
<1>1. CASE Arrive(c, kind, "create", asks, early)
  <2>1. ASSUME NEW k \in ItemsOf(kind)
        PROVE  Askable([Idle EXCEPT !.items = <<k>>], "create")
    <3>1. k \in Keys /\ OneName(k)
      BY ItemsNamed
    <3>2. PICK b : b = <<k>>
      OBVIOUS
    <3>3. b \in Seq(Keys) /\ Len(b) = 1 /\ \A n \in 1..Len(b) : OneName(b[n])
      BY <3>1, <3>2, OneItem
    <3>4. "create" \in {"create", "upsert", "batch"}
      OBVIOUS
    <3>5. Askable([Idle EXCEPT !.items = b], "create")
      BY <3>3, <3>4, AskItems
    <3> QED
      BY <3>2, <3>5
  <2>2. \A r \in asks : Askable(r, "create")
    BY <2>1
  <2> HIDE DEF asks
  <2>3. "create" \in WriteOps
    BY DEF WriteOps
  <2> QED
    BY <1>1, <2>2, <2>3, ArriveSteps
<1>2. CASE InsertRow(c, kind, breach)
  <2>1. req[c].op = "create" /\ req[c].phase = "run"
    BY <1>2 DEF InsertRow, Doing
  <2> QED
    BY <1>2, <2>1 DEF InsertRow, Inserts, Fails, Steps, InTx
<1> QED
  BY <1>1, <1>2 DEF Create

LEMMA PatchKinds ==
  ASSUME NEW c \in Client, TypeInv, NEW kind, kind # "template", Patch(c, kind)
  PROVE  Steps(c)
<1>1. CASE Arrive(c, kind, "update", Targets, {})
  <2>1. \A r \in Targets : Askable(r, "update")
    BY AskTarget DEF Targets
  <2> QED
    BY <1>1, <2>1, ArriveSteps DEF WriteOps
<1>2. CASE UpdateRow(c, kind)
  <2>1. req[c].op = "update" /\ req[c].phase = "run" /\ subject # "template"
    BY <1>2 DEF UpdateRow, Doing
  <2>2. req[c].items = <<>> /\ ~req[c].bump
    BY <2>1 DEF TypeInv, Control, Sound, Open, InTx
  <2>3. CASE req[c].id \in DOMAIN rows
    <3>1. rows[req[c].id] \in Row
      BY <2>3 DEF TypeInv, ResourcesTypeOK, IsTable
    <3>2. Edited(c) = [rows[req[c].id] EXCEPT !.by = c]
      <4> DEFINE row == rows[req[c].id]
      <4>1. row.version + (IF req[c].bump THEN 1 ELSE 0) = row.version
        BY <2>2, <3>1 DEF Row
      <4>2. Edited(c) = [row EXCEPT !.by = c, !.version = row.version, !.keys = row.keys]
        BY <2>2, <4>1 DEF Edited
      <4> QED
        BY <3>1, <4>2 DEF Row
    <3>3. KeyAwaits(c, NewName(c)) = {}
      BY <2>2 DEF KeyAwaits, NewName
    <3> QED
      BY <1>2, <2>1, <2>3, <3>2, <3>3 DEF UpdateRow, Edits, Steps
  <2>4. CASE req[c].id \notin DOMAIN rows
    BY <1>2, <2>1, <2>4 DEF UpdateRow, Fails, Steps, InTx
  <2> QED
    BY <2>3, <2>4
<1> QED
  BY <1>1, <1>2 DEF Patch

LEMMA BatchKinds ==
  ASSUME NEW c \in Client, TypeInv, NEW kind \in AllKinds, NEW early,
         early \subseteq {400, 422, 500}, Batch(c, kind, early)
  PROVE  Steps(c)
<1> DEFINE asks == {[Idle EXCEPT !.items = b] : b \in Batches[kind]}
<1>1. CASE Arrive(c, kind, "batch", asks, early)
  <2>1. ASSUME NEW b \in Batches[kind]
        PROVE  Askable([Idle EXCEPT !.items = b], "batch")
    <3>1. b \in Seq(Keys) /\ DOMAIN b = 1..Len(b)
      BY ResourcesAssumption
    <3>2. \A n \in 1..Len(b) : OneName(b[n])
      BY <3>1, ResourcesAssumption
    <3>3. "batch" \in {"create", "upsert", "batch"}
      OBVIOUS
    <3> QED
      BY <3>1, <3>2, <3>3, AskItems
  <2>2. \A r \in asks : Askable(r, "batch")
    BY <2>1
  <2> HIDE DEF asks
  <2> QED
    BY <1>1, <2>2, ArriveSteps DEF WriteOps
<1>2. CASE UpsertItem(c, kind)
  <2>1. req[c].op = "batch" /\ req[c].phase = "run"
    BY <1>2 DEF UpsertItem, Doing
  <2>2. CASE \E code \in {422} : Fail(c, code)
    BY <2>1, <2>2 DEF Fails, Steps, InTx
  <2>3. CASE ~ \E code \in {422} : Fail(c, code)
    <3>1. Upserts(c)
      BY <1>2, <2>1, <2>3 DEF UpsertItem, Upserts, Item, Mine
    <3> QED
      BY <3>1 DEF Steps
  <2> QED
    BY <2>2, <2>3
<1> QED
  BY <1>1, <1>2 DEF Batch

LEMMA UpsertKinds ==
  ASSUME NEW c \in Client, TypeInv, UpsertSiteByUrl(c)
  PROVE  Steps(c)
<1> DEFINE asks == {[Idle EXCEPT !.items = <<{u}>>] : u \in Second}
<1>1. CASE Arrive(c, "site", "upsert", asks, {})
  <2>1. ASSUME NEW u \in Second
        PROVE  Askable([Idle EXCEPT !.items = <<{u}>>], "upsert")
    <3>1. PICK b : b = <<{u}>>
      OBVIOUS
    <3>2. {u} \in Keys /\ OneName({u})
      BY TransactionsAssumption DEF Keys, OneName
    <3>3. b \in Seq(Keys) /\ Len(b) = 1 /\ \A n \in 1..Len(b) : OneName(b[n])
      BY <3>1, <3>2, OneItem
    <3>4. "upsert" \in {"create", "upsert", "batch"}
      OBVIOUS
    <3>5. Askable([Idle EXCEPT !.items = b], "upsert")
      BY <3>3, <3>4, AskItems
    <3> QED
      BY <3>1, <3>5
  <2>2. \A r \in asks : Askable(r, "upsert")
    BY <2>1
  <2> HIDE DEF asks
  <2> QED
    BY <1>1, <2>2, ArriveSteps DEF WriteOps
<1>2. CASE Doing(c, "site", "upsert", "run") /\ ~Arrive(c, "site", "upsert", asks, {})
  <2>1. req[c].op = "upsert" /\ req[c].phase = "run"
    BY <1>2 DEF Doing
  <2>2. CASE Clashing(c, req[c].items[1], {}) = {}
    BY <1>2, <2>1, <2>2 DEF UpsertSiteByUrl, Doing, Proceeds, Steps
  <2>3. CASE Clashing(c, req[c].items[1], {}) # {}
    BY <1>2, <2>1, <2>3 DEF UpsertSiteByUrl, Doing, Fails, Steps, InTx
  <2> QED
    BY <2>2, <2>3
<1>3. CASE Doing(c, "site", "upsert", "write") /\ ~Arrive(c, "site", "upsert", asks, {})
  <2>1. req[c].op = "upsert" /\ req[c].phase = "write"
    BY <1>3 DEF Doing
  <2> QED
    BY <1>3, <2>1 DEF UpsertSiteByUrl, Doing, Inserts, Fails, Steps, InTx
<1> QED
  BY <1>1, <1>2, <1>3 DEF UpsertSiteByUrl

LEMMA UploadKinds ==
  ASSUME NEW c \in Client, TypeInv, UploadImage(c)
  PROVE  Steps(c)
<1>1. CASE Arrive(c, "creative", "upload", Targets, {500})
  <2>1. \A r \in Targets : Askable(r, "upload")
    BY AskTarget DEF Targets
  <2> QED
    BY <1>1, <2>1, ArriveSteps DEF WriteOps
<1>2. CASE ~Arrive(c, "creative", "upload", Targets, {500})
  <2>1. req[c].op = "upload" /\ req[c].phase \in InTx
    BY <1>2 DEF UploadImage, Doing, InTx
  <2>2. CASE req[c].phase = "run"
    BY <1>2, <2>1, <2>2 DEF UploadImage, Doing, Proceeds, Fails, Steps
  <2>3. CASE req[c].phase = "put"
    BY <1>2, <2>1, <2>3 DEF UploadImage, Doing, Proceeds, Fails, Steps
  <2>4. CASE req[c].phase = "write"
    BY <1>2, <2>1, <2>4 DEF UploadImage, Doing, Illustrates, Steps
  <2> QED
    BY <2>1, <2>2, <2>3, <2>4 DEF InTx
<1> QED
  BY <1>1, <1>2

LEMMA TemplateKinds ==
  ASSUME NEW c \in Client, TypeInv, UpdateTemplate(c)
  PROVE  Steps(c)
<1>1. CASE Arrive(c, "template", "update", Revisions, {})
  <2>0. subject = "template"
    BY <1>1 DEF Arrive
  <2>1. ASSUME NEW j \in 1..MaxId
        PROVE  Askable([Idle EXCEPT !.id = j, !.bump = TRUE], "update")
    <3> DEFINE r == [Idle EXCEPT !.id = j, !.bump = TRUE]
               q == [r EXCEPT !.op = "update"]
    <3>0. j \in Id /\ j \in 0..MaxId
      BY TransactionsAssumption DEF Id
    <3>1. r \in Request /\ r.at = 1
      BY <3>0, IdleRequest DEF Request, Idle
    <3>2. q.op = "update" /\ q.items = <<>> /\ q.code = 0 /\ q.id = j
      BY DEF Idle
    <3>3. Sound(q)
      <4> HIDE DEF q
      <4> QED
        BY <2>0, <3>0, <3>2 DEF Sound, WriteOps
    <3> QED
      BY <3>1, <3>3 DEF Askable
  <2>2. ASSUME NEW j \in 1..MaxId, NEW n \in Second
        PROVE  Askable([Idle EXCEPT !.id = j, !.items = <<{n}>>], "update")
    <3> DEFINE b == <<{n}>>
               r == [Idle EXCEPT !.id = j, !.items = b]
               q == [r EXCEPT !.op = "update"]
    <3>0. j \in Id /\ j \in 0..MaxId
      BY TransactionsAssumption DEF Id
    <3>4. {n} \in Keys /\ OneName({n}) /\ {n} \subseteq Second /\ {n} # {}
      BY TransactionsAssumption DEF Keys, OneName
    <3>5. b \in Seq(Keys) /\ Len(b) = 1 /\ b[1] = {n} /\ \A k \in 1..Len(b) : OneName(b[k])
      BY <3>4
    <3> HIDE DEF b
    <3>1. r \in Request /\ r.at = 1
      BY <3>0, <3>5, IdleRequest DEF Request, Idle
    <3>2. q.op = "update" /\ q.items = b /\ q.code = 0 /\ q.id = j
      BY DEF Idle
    <3>3. Sound(q)
      <4> HIDE DEF q
      <4> QED
        BY <2>0, <3>0, <3>2, <3>4, <3>5 DEF Sound, WriteOps
    <3> QED
      BY <3>1, <3>3 DEF Askable, b
  <2>3. \A r \in Revisions : Askable(r, "update")
    <3> SUFFICES ASSUME NEW r \in Revisions PROVE Askable(r, "update")
      OBVIOUS
    <3>1. PICK i \in 1..MaxId :
             r \in {[Idle EXCEPT !.id = i, !.bump = TRUE]}
                   \cup {[Idle EXCEPT !.id = i, !.items = <<{n}>>] : n \in Second}
      BY DEF Revisions
    <3>2. CASE r = [Idle EXCEPT !.id = i, !.bump = TRUE]
      BY <2>1, <3>2
    <3>3. CASE r \in {[Idle EXCEPT !.id = i, !.items = <<{n}>>] : n \in Second}
      BY <2>2, <3>3
    <3> QED
      BY <3>1, <3>2, <3>3
  <2> QED
    BY <1>1, <2>3, ArriveSteps DEF WriteOps
<1>2. CASE ~Arrive(c, "template", "update", Revisions, {})
  <2>1. req[c].op = "update" /\ req[c].phase = "run" /\ subject = "template"
    BY <1>2 DEF UpdateTemplate, Doing
  <2>2. CASE \E code \in {404, 422, 500} : Fail(c, code) /\ (code = 404 => req[c].id \notin DOMAIN rows)
    BY <2>1, <2>2 DEF Fails, Steps, InTx
  <2>3. CASE ~ \E code \in {404, 422, 500} : Fail(c, code) /\ (code = 404 => req[c].id \notin DOMAIN rows)
    <3> DEFINE i == req[c].id
               name == NewName(c)
               row == [rows[i] EXCEPT !.by = c,
                         !.version = @ + IF req[c].bump THEN 1 ELSE 0,
                         !.keys = IF name = {} THEN @ ELSE (@ \cap Ext) \cup name]
    <3>1. /\ RowAwaits(c, i) \cup KeyAwaits(c, name) = {} /\ i \in DOMAIN rows
          /\ Update(c, i, row) /\ Goto(c, "commit") /\ UNCHANGED <<subject, objects>>
      BY <1>2, <2>3 DEF UpdateTemplate, NewName
    <3>2. rows[i] \in Row
      BY <3>1 DEF TypeInv, ResourcesTypeOK, IsTable
    <3>3. name = {} <=> req[c].items = <<>>
      BY <2>1 DEF TypeInv, Control, Sound, Open, InTx, NewName
    <3>4. row = Edited(c)
      BY <3>2, <3>3 DEF Edited, Row, NewName
    <3> QED
      BY <2>1, <3>1, <3>4 DEF Edits, Steps
  <2> QED
    BY <2>2, <2>3
<1> QED
  BY <1>1, <1>2

LEMMA ReadKinds ==
  ASSUME NEW c \in Client, Reads(c) \/ Pages(c)
  PROVE  Steps(c)
<1>1. ASSUME NEW kind, GetRow(c, kind) PROVE Told(c)
  BY <1>1 DEF GetRow, Told
<1>2. CASE ListLibrary(c)
  BY <1>2 DEF ListLibrary, Told, Steps
<1>3. ASSUME NEW kind, PageOf(c, kind) PROVE PageOf(c, subject)
  BY <1>3 DEF PageOf
<1>4. CASE Reads(c)
  BY <1>1, <1>2, <1>4 DEF Reads, Steps, GetAdvertiser, GetCampaign, GetFlight, GetAd, GetZone,
     GetSite, GetCreative, GetTemplate, GetLibraryItem
<1>5. CASE Pages(c)
  BY <1>3, <1>5 DEF Pages, Steps, ListAdvertisers, ListCampaigns, ListFlights, ListAds,
     ListZones, ListSites, ListCreatives, ListTemplates
<1> QED
  BY <1>4, <1>5

LEMMA WriteKinds ==
  ASSUME NEW c \in Client, TypeInv, Writes(c)
  PROVE  Steps(c)
<1>1. ASSUME NEW kind, NEW early \in {{}, {400}}, NEW breach \in {{}, {422}},
             Create(c, kind, early, breach)
      PROVE  Steps(c)
  BY <1>1, CreateKinds
<1>2. ASSUME NEW kind, kind # "template", Patch(c, kind) PROVE Steps(c)
  BY <1>2, PatchKinds
<1>3. ASSUME NEW kind \in AllKinds, NEW early \in {{}, {422}}, Batch(c, kind, early)
      PROVE  Steps(c)
  BY <1>3, BatchKinds
<1>4. CASE \/ CreateAdvertiser(c) \/ CreateCampaign(c) \/ CreateFlight(c) \/ CreateAd(c)
           \/ CreateZone(c) \/ CreateSite(c) \/ CreateCreative(c) \/ CreateTemplate(c)
           \/ CreateLibraryItem(c)
  BY <1>1, <1>4 DEF CreateAdvertiser, CreateCampaign, CreateFlight, CreateAd, CreateZone,
     CreateSite, CreateCreative, CreateTemplate, CreateLibraryItem
<1>5. CASE \/ UpdateAdvertiser(c) \/ UpdateCampaign(c) \/ UpdateFlight(c) \/ UpdateAd(c)
           \/ UpdateZone(c) \/ UpdateSite(c) \/ UpdateLibraryItem(c)
  BY <1>2, <1>5 DEF UpdateAdvertiser, UpdateCampaign, UpdateFlight, UpdateAd, UpdateZone,
     UpdateSite, UpdateLibraryItem
<1>6. CASE \/ BatchAdvertisers(c) \/ BatchCampaigns(c) \/ BatchFlights(c) \/ BatchAds(c)
           \/ BatchZones(c) \/ BatchSites(c)
  BY <1>3, <1>6 DEF BatchAdvertisers, BatchCampaigns, BatchFlights, BatchAds, BatchZones,
     BatchSites, AllKinds
<1> QED
  BY <1>4, <1>5, <1>6, UpsertKinds, UploadKinds, TemplateKinds DEF Writes

LEMMA StepKinds ==
  ASSUME TypeInv, [ResourcesNext]_vars
  PROVE  UNCHANGED vars \/ \E c \in Client : Steps(c)
<1>1. ASSUME NEW c \in Client, Fault(c) PROVE Steps(c)
  BY <1>1 DEF Fault, Fails, Steps
<1>2. ASSUME NEW c \in Client, Deadlock(c) PROVE Steps(c)
  BY <1>1, <1>2 DEF Deadlock
<1>3. ASSUME NEW c \in Client, Finish(c) \/ CommitFails(c) \/ HangUp(c) \/ Leave(c)
      PROVE  Steps(c)
  BY <1>3 DEF Steps
<1> QED
  BY <1>1, <1>2, <1>3, WriteKinds, ReadKinds DEF ResourcesNext

-----------------------------------------------------------------------------
(* Types.                                                                  *)

LEMMA Tables ==
  ASSUME TypeInv, NEW c \in Client
  PROVE  /\ IsTable(rows) /\ IsTable(writes[c]) /\ IsTable(Visible(c))
         /\ DOMAIN Visible(c) = DOMAIN writes[c] \cup DOMAIN rows
  BY OverTable, OverDef DEF TypeInv, ResourcesTypeOK, Visible

LEMMA FreshId ==
  ASSUME TypeInv
  PROVE  /\ NextId \in Id /\ NextId \notin DOMAIN rows
         /\ \A d \in Client : NextId \notin DOMAIN writes[d]
<1> DEFINE f == [d \in Client |-> DOMAIN writes[d]]
           W == {DOMAIN writes[d] : d \in Client}
           S == {0} \cup Drawn
<1>1. f \in Surjection(Client, W)
  BY DEF Surjection
<1>2. IsFiniteSet(W)
  <2> HIDE DEF f, W
  <2> QED
    BY <1>1, FS_Surjection, TransactionsAssumption
<1>3. \A d \in Client : DOMAIN writes[d] \subseteq Id /\ IsFiniteSet(DOMAIN writes[d])
  BY DEF TypeInv, ResourcesTypeOK, IsTable
<1>4. IsFiniteSet(UNION W)
  <2>1. \A T \in W : IsFiniteSet(T)
    BY <1>3
  <2> HIDE DEF W
  <2> QED
    BY <1>2, <2>1, FS_UNION
<1>5. DOMAIN rows \subseteq Id /\ IsFiniteSet(DOMAIN rows)
  BY DEF TypeInv, ResourcesTypeOK, IsTable
<1>6. UNION W \subseteq Id
  BY <1>3
<1>7. Drawn = DOMAIN rows \cup UNION W
  BY DEF Drawn
<1>8. IsFiniteSet(S)
  <2> HIDE DEF W
  <2>1. IsFiniteSet(Drawn)
    BY <1>4, <1>5, <1>7, FS_Union
  <2> QED
    BY <2>1, FS_Union, FS_Singleton
<1>9. S \subseteq Nat /\ S # {}
  BY <1>5, <1>6, <1>7 DEF Id
<1>10. Max(S) \in Nat /\ \A x \in S : x =< Max(S)
  <2> HIDE DEF S
  <2> QED
    BY <1>8, <1>9, FiniteMax
<1>11. NextId \in Id /\ NextId \notin Drawn
  <2>1. NextId = 1 + Max(S) /\ Drawn \subseteq S
    BY DEF NextId
  <2> HIDE DEF S
  <2> QED
    BY <1>10, <2>1 DEF Id
<1> QED
  BY <1>11 DEF Drawn

(* A step of c that keeps c's part keeps the invariant.                    *)
LEMMA Frame ==
  ASSUME TypeInv, NEW c \in Client,
         subject' = subject, req' \in [Client -> Request],
         IsTable(rows'), DOMAIN rows \subseteq DOMAIN rows',
         objects \subseteq objects', objects' \subseteq Client,
         DOMAIN writes' = Client, IsTable(writes'[c]),
         \A d \in Client \ {c} : req'[d] = req[d] /\ writes'[d] = writes[d],
         Control(c)', ~Open(c)' => writes'[c] = NoRows
  PROVE  TypeInv'
<1>1. ASSUME NEW d \in Client PROVE IsTable(writes'[d])
  BY <1>1 DEF TypeInv, ResourcesTypeOK
<1>2. ASSUME NEW d \in Client PROVE ~Open(d)' => writes'[d] = NoRows
  BY DEF TypeInv, ResourcesTypeOK, Open
<1>3. ASSUME NEW d \in Client \ {c} PROVE Control(d)'
  BY <1>3 DEF TypeInv, Control, Sound, Open
<1> QED
  BY <1>1, <1>2, <1>3 DEF TypeInv, ResourcesTypeOK

LEMMA SetReq ==
  ASSUME TypeInv, NEW c \in Client, NEW r \in Request, req' = [req EXCEPT ![c] = r]
  PROVE  /\ req' \in [Client -> Request] /\ req'[c] = r
         /\ \A d \in Client \ {c} : req'[d] = req[d]
  BY DEF TypeInv, ResourcesTypeOK

LEMMA AnswerReq ==
  ASSUME TypeInv, NEW c \in Client, NEW code \in Code \ {0}, Answer(c, code)
  PROVE  /\ req' \in [Client -> Request]
         /\ \A d \in Client \ {c} : req'[d] = req[d]
         /\ req'[c] = [Idle EXCEPT !.phase = "answered", !.code = code]
         /\ req'[c].phase = "answered" /\ req'[c].code = code
         /\ req'[c].start = {} /\ req'[c].seen = {}
<1> DEFINE r == [Idle EXCEPT !.phase = "answered", !.code = code]
<1>1. r.phase = "answered" /\ r.code = code /\ r.start = {} /\ r.seen = {}
  BY DEF Idle
<1>2. r \in Request
  BY IdleRequest DEF Request, Phase
<1>3. req' = [req EXCEPT ![c] = r]
  BY DEF Answer
<1> HIDE DEF r
<1>4. req' \in [Client -> Request] /\ req'[c] = r /\ \A d \in Client \ {c} : req'[d] = req[d]
  BY <1>2, <1>3, SetReq
<1> QED
  BY <1>1, <1>4 DEF r

LEMMA GotoReq ==
  ASSUME TypeInv, NEW c \in Client, NEW phase \in Phase, Goto(c, phase)
  PROVE  /\ req' \in [Client -> Request]
         /\ \A d \in Client \ {c} : req'[d] = req[d]
         /\ req'[c].phase = phase /\ req'[c].op = req[c].op /\ req'[c].items = req[c].items
         /\ req'[c].at = req[c].at /\ req'[c].id = req[c].id /\ req'[c].bump = req[c].bump
         /\ req'[c].code = req[c].code
<1> DEFINE r == [req[c] EXCEPT !.phase = phase]
<1>0. req[c] \in Request
  BY DEF TypeInv, ResourcesTypeOK
<1>1. /\ r \in Request
      /\ r.phase = phase /\ r.op = req[c].op /\ r.items = req[c].items
      /\ r.at = req[c].at /\ r.id = req[c].id /\ r.bump = req[c].bump
      /\ r.code = req[c].code
  BY <1>0 DEF Request
<1>2. req' = [req EXCEPT ![c] = r]
  BY DEF Goto, TypeInv, ResourcesTypeOK
<1> HIDE DEF r
<1>3. req' \in [Client -> Request] /\ req'[c] = r /\ \A d \in Client \ {c} : req'[d] = req[d]
  BY <1>1, <1>2, SetReq
<1> QED
  BY <1>1, <1>3

LEMMA WriteRow ==
  ASSUME TypeInv, NEW c \in Client, NEW i \in Id, NEW row \in Row, Write(c, i, row)
  PROVE  /\ rows' = rows /\ DOMAIN writes' = Client
         /\ writes'[c] = Put(writes[c], i, row) /\ IsTable(writes'[c])
         /\ \A d \in Client \ {c} : writes'[d] = writes[d]
<1>1. DOMAIN writes = Client /\ IsTable(writes[c])
  BY DEF TypeInv, ResourcesTypeOK
<1>2. IsTable(Put(writes[c], i, row))
  BY <1>1, PutTable
<1> QED
  BY <1>1, <1>2 DEF Write

LEMMA DropRows ==
  ASSUME TypeInv, NEW c \in Client, Rollback(c) \/ Commit(c)
  PROVE  /\ rows' = rows \/ rows' = Visible(c)
         /\ IsTable(rows') /\ DOMAIN rows \subseteq DOMAIN rows'
         /\ DOMAIN writes' = Client /\ writes'[c] = NoRows /\ IsTable(writes'[c])
         /\ \A d \in Client \ {c} : writes'[d] = writes[d]
<1>1. DOMAIN writes = Client
  BY DEF TypeInv, ResourcesTypeOK
<1>2. /\ rows' = rows \/ rows' = Visible(c)
      /\ writes' = [writes EXCEPT ![c] = NoRows]
  BY DEF Rollback, Commit
<1> QED
  BY <1>1, <1>2, Tables, EmptyTable

(* A transaction that ends leaves its client answered or idle.             *)
Ended(c) ==
    /\ req' \in [Client -> Request]
    /\ \A d \in Client \ {c} : req'[d] = req[d]
    /\ req'[c].start = {} /\ req'[c].seen = {}
    /\ \/ req'[c].phase = "answered" /\ req'[c].code # 0
       \/ req'[c] = Idle

LEMMA EndedAnswer ==
  ASSUME TypeInv, NEW c \in Client, NEW code \in Code \ {0}, Answer(c, code)
  PROVE  Ended(c)
  BY AnswerReq DEF Ended

LEMMA EndedIdle ==
  ASSUME TypeInv, NEW c \in Client, req' = [req EXCEPT ![c] = Idle]
  PROVE  Ended(c)
<1>1. Idle.start = {} /\ Idle.seen = {}
  BY DEF Idle
<1> QED
  BY <1>1, SetReq, IdleRequest DEF Ended

LEMMA EndedControl ==
  ASSUME NEW c \in Client, Ended(c)
  PROVE  Control(c)' /\ ~Open(c)'
<1>1. /\ req'[c].phase \in {"idle", "answered"}
      /\ req'[c].phase = "idle" => req'[c] = Idle
      /\ req'[c].code = 0 <=> req'[c].phase # "answered"
  BY DEF Ended, Idle
<1> QED
  BY <1>1 DEF Control, Open, InTx

LEMMA EndsKeep ==
  ASSUME TypeInv, NEW c \in Client, Ended(c), subject' = subject, objects' = objects,
         Rollback(c) \/ Commit(c) \/ (UNCHANGED store /\ ~Open(c))
  PROVE  TypeInv'
<1>1. Control(c)' /\ ~Open(c)'
  BY EndedControl
<1>2. CASE Rollback(c) \/ Commit(c)
  BY <1>1, <1>2, DropRows, Frame DEF Ended, TypeInv, ResourcesTypeOK
<1>3. CASE UNCHANGED store /\ ~Open(c)
  BY <1>1, <1>3, Frame DEF Ended, TypeInv, ResourcesTypeOK, store
<1> QED
  BY <1>2, <1>3

(* The rows of S that come before i in a list.                             *)
Above(S, i) == {j \in S : j > i}

LEMMA AboveShrinks ==
  ASSUME NEW S, S \subseteq Nat, IsFiniteSet(S), NEW i \in Nat, NEW k \in Nat, i =< k
  PROVE  /\ Cardinality(Above(S, i)) \in Nat /\ Cardinality(Above(S, k)) \in Nat
         /\ Cardinality(Above(S, k)) =< Cardinality(Above(S, i))
<1>1. Above(S, k) \subseteq Above(S, i)
  <2>1. ASSUME NEW j \in S, j > k PROVE j > i
    BY <2>1
  <2> QED
    BY <2>1 DEF Above
<1>2. Above(S, i) \subseteq S /\ Above(S, k) \subseteq S
  BY DEF Above
<1>3. IsFiniteSet(Above(S, i)) /\ IsFiniteSet(Above(S, k))
  BY <1>2, FS_Subset
<1>4. Cardinality(Above(S, k)) =< Cardinality(Above(S, i))
  BY <1>1, <1>3, FS_Subset
<1> QED
  BY <1>3, <1>4, FS_CardinalityType

(* The rows a page fetches, and those of them it shows.                    *)
Fetched(left) == {i \in left : Cardinality(Above(left, i)) =< PageSize}
Shown(page)   == {i \in page : Cardinality(Above(page, i)) < PageSize}

(* What a page shows, and what is left below it.                           *)
LEMMA Paging ==
  ASSUME NEW left, left \subseteq Nat, IsFiniteSet(left),
         NEW page, page = Fetched(left), NEW kept, kept = Shown(page)
  PROVE  /\ kept \subseteq left
         /\ page = kept => kept = left
         /\ page # kept => /\ Min(kept) \in kept
                           /\ \A i \in kept : Min(kept) =< i
                           /\ \A i \in left : i >= Min(kept) => i \in kept
<1>0. PageSize \in Nat /\ PageSize # 0
  BY ResourcesAssumption
<1> USE DEF Fetched, Shown
<1>1. /\ page \subseteq left /\ kept \subseteq page /\ page \subseteq Nat
      /\ IsFiniteSet(page)
  BY FS_Subset
<1>2. ASSUME NEW i \in kept, NEW k \in left, k >= i PROVE k \in kept
  <2>1. i \in Nat /\ k \in Nat /\ i =< k
    BY <1>1, <1>2
  <2>2. /\ Cardinality(Above(left, i)) \in Nat /\ Cardinality(Above(left, k)) \in Nat
        /\ Cardinality(Above(left, k)) =< Cardinality(Above(left, i))
    BY <2>1, AboveShrinks
  <2>3. Cardinality(Above(left, i)) =< PageSize
    BY <1>1
  <2>4. k \in page
    BY <1>0, <2>2, <2>3
  <2>5. /\ Cardinality(Above(page, i)) \in Nat /\ Cardinality(Above(page, k)) \in Nat
        /\ Cardinality(Above(page, k)) =< Cardinality(Above(page, i))
    BY <1>1, <2>1, AboveShrinks
  <2>6. Cardinality(Above(page, i)) < PageSize
    OBVIOUS
  <2> QED
    BY <1>0, <2>4, <2>5, <2>6
<1>3. CASE page # kept
  <2>1. page # {}
    BY <1>1, <1>3
  <2>2. Max(page) \in page /\ \A x \in page : x =< Max(page)
    BY <1>1, <2>1, FiniteMax
  <2>3. Above(page, Max(page)) = {}
    <3>1. Max(page) \in Nat
      BY <1>1, <2>2
    <3>2. ASSUME NEW x \in page PROVE ~(x > Max(page))
      <4>1. x \in Nat /\ x =< Max(page)
        BY <1>1, <2>2
      <4> QED
        BY <3>1, <4>1
    <3> QED
      BY <3>2 DEF Above
  <2>4. kept # {}
    <3>1. Cardinality({}) = 0
      BY FS_EmptySet
    <3>2. Cardinality(Above(page, Max(page))) < PageSize
      BY <1>0, <2>3, <3>1
    <3> QED
      BY <2>2, <3>2
  <2>5. kept \subseteq Nat
    BY <1>1
  <2>6. PICK m \in kept : \A i \in kept : m =< i
    BY <2>4, <2>5, NatMin
  <2>7. Min(kept) = m
    <3>1. ASSUME NEW x \in kept, \A y \in kept : x =< y PROVE x = m
      <4>1. x =< m /\ m =< x /\ x \in Nat /\ m \in Nat
        BY <2>5, <2>6, <3>1
      <4> QED
        BY <4>1
    <3>2. (CHOOSE x \in kept : \A y \in kept : x =< y) = m
      BY <2>6, <3>1
    <3> QED
      BY <3>2 DEF Min
  <2>8. \A i \in left : i >= m => i \in kept
    BY <1>2
  <2> QED
    BY <1>1, <1>3, <2>6, <2>7, <2>8
<1>4. CASE page = kept
  <2>1. ASSUME left # page PROVE FALSE
    <3>1. left \ page \subseteq Nat /\ left \ page # {} /\ IsFiniteSet(left \ page)
      BY <1>1, <2>1, FS_Difference
    <3>2. /\ Max(left \ page) \in left \ page
          /\ \A x \in left \ page : x =< Max(left \ page)
      BY <3>1, FiniteMax
    <3>3. PICK i \in left \ page : \A x \in left \ page : x =< i
      BY <3>2
    <3>4. i \in Nat /\ i \in left /\ i \notin page
      BY <3>1
    <3>5. Above(left, i) \subseteq page
      <4>1. ASSUME NEW j \in left, j > i, j \notin page PROVE FALSE
        <5>1. j =< i /\ j \in Nat
          BY <3>3, <4>1
        <5> QED
          BY <3>4, <4>1, <5>1
      <4> QED
        BY <4>1 DEF Above
    <3>6. Cardinality(Above(left, i)) \in Nat
      BY <3>4, i =< i, AboveShrinks
    <3>7. Cardinality(Above(left, i)) > PageSize
      <4>1. ~(Cardinality(Above(left, i)) =< PageSize)
        BY <3>4
      <4> QED
        BY <1>0, <3>6, <4>1
    <3>8. Cardinality(Above(left, i)) =< Cardinality(page) /\ Cardinality(page) \in Nat
      BY <1>1, <3>5, FS_Subset, FS_CardinalityType
    <3>9. Cardinality(page) > PageSize
      BY <1>0, <3>6, <3>7, <3>8
    <3>10. page # {}
      <4>1. Cardinality({}) = 0
        BY FS_EmptySet
      <4> QED
        BY <1>0, <3>9, <4>1
    <3>11. PICK m \in page : \A x \in page : m =< x
      BY <1>1, <3>10, NatMin
    <3>12. Above(page, m) = page \ {m}
      <4>1. ASSUME NEW x \in page PROVE x > m <=> x # m
        <5>1. m =< x /\ x \in Nat /\ m \in Nat
          BY <1>1, <3>11
        <5> QED
          BY <5>1
      <4> QED
        BY <4>1 DEF Above
    <3>13. Cardinality(page \ {m}) = Cardinality(page) - 1
      BY <1>1, <3>11, FS_RemoveElement
    <3>14. Cardinality(Above(page, m)) < PageSize
      BY <1>4, <3>11
    <3> QED
      BY <1>0, <3>8, <3>9, <3>12, <3>13, <3>14
  <2> QED
    BY <1>4, <2>1
<1> QED
  BY <1>1, <1>3, <1>4

LEMMA BeginsKeeps ==
  ASSUME TypeInv, NEW c \in Client, Begins(c)
  PROVE  TypeInv'
<1>1. PICK r \in Request :
         /\ Sound(r) /\ r.at = 1
         /\ r.phase = IF r.op = "batch" /\ r.items = <<>> THEN "commit" ELSE "run"
         /\ req' = [req EXCEPT ![c] = r]
  BY DEF Begins
<1>2. /\ req' \in [Client -> Request] /\ req'[c] = r
      /\ \A d \in Client \ {c} : req'[d] = req[d]
  BY <1>1, SetReq
<1>3. UNCHANGED <<store, subject, objects>> /\ req[c].phase = "idle"
  BY DEF Begins
<1>4. writes[c] = NoRows
  BY <1>3 DEF TypeInv, ResourcesTypeOK, Open, InTx
<1>5. r.items # <<>> => 1 \in 1..Len(r.items)
  <2>1. r.items \in Seq(Keys)
    BY DEF Request
  <2> QED
    BY <2>1
<1>6. Control(c)' /\ Open(c)'
  BY <1>1, <1>2, <1>3, <1>4, <1>5 DEF Control, Open, InTx, Sound, store
<1> QED
  BY <1>2, <1>3, <1>6, Frame DEF TypeInv, ResourcesTypeOK, store

LEMMA ToldKeeps ==
  ASSUME TypeInv, NEW c \in Client, Told(c)
  PROVE  TypeInv'
<1>1. PICK code \in {200, 400, 403, 404, 422, 500} : Answer(c, code)
  BY DEF Told
<1>2. code \in Code \ {0}
  BY DEF Code
<1> QED
  BY <1>1, <1>2, EndedAnswer, EndsKeep DEF Told, Open, InTx

(* The rows a page may show, and those the client's walk owes it.          *)
Left(c)  == {i \in DOMAIN rows : req[c].phase = "walk" => i < req[c].after}
Begun(c) == IF req[c].phase = "idle" THEN DOMAIN rows ELSE req[c].start

(* A page is the last of its walk and shows all that is left, or it shows  *)
(* the rows at or above the cursor it gives.                               *)
Turned(c, r, shown) ==
    /\ shown \subseteq Left(c)
    /\ r.seen = req[c].seen \cup shown /\ r.start = Begun(c)
    /\ \/ r.phase = "answered" /\ r.code = 200 /\ shown = Left(c)
       \/ /\ r.phase = "walk" /\ r.code = 0 /\ r.after \in shown
          /\ \A i \in shown : r.after =< i
          /\ \A i \in Left(c) : i >= r.after => i \in shown

LEMMA LeftFinite ==
  ASSUME TypeInv, NEW c \in Client
  PROVE  Left(c) \subseteq Id /\ Left(c) \subseteq Nat /\ IsFiniteSet(Left(c))
<1>1. DOMAIN rows \subseteq Id /\ IsFiniteSet(DOMAIN rows)
  BY DEF TypeInv, ResourcesTypeOK, IsTable
<1>2. Left(c) \subseteq DOMAIN rows
  BY DEF Left
<1> QED
  BY <1>1, <1>2, FS_Subset DEF Id

LEMMA PageTurns ==
  ASSUME TypeInv, NEW c \in Client, PageOf(c, subject)
  PROVE  \/ \E code \in {400, 403, 500} : Answer(c, code)
         \/ \E r \in Request : \E shown \in SUBSET Id :
              req' = [req EXCEPT ![c] = r] /\ Turned(c, r, shown)
<1> DEFINE page == {i \in Left(c) : Cardinality({j \in Left(c) : j > i}) <= PageSize}
           kept == {i \in page : Cardinality({j \in page : j > i}) < PageSize}
           walk == [req[c] EXCEPT !.op = "list", !.seen = @ \cup kept,
                      !.start = IF req[c].phase = "idle" THEN DOMAIN rows ELSE @]
           last == [walk EXCEPT !.after = 0, !.phase = "answered", !.code = 200]
           next == [walk EXCEPT !.phase = "walk", !.after = Min(kept)]
<1>1. req[c] \in Request /\ req[c].phase \in {"idle", "walk"} /\ req[c].code = 0
  BY DEF TypeInv, ResourcesTypeOK, PageOf, Control
<1>2. \/ \E code \in {400, 403, 500} : Answer(c, code)
      \/ page = kept /\ req' = [req EXCEPT ![c] = last]
      \/ page # kept /\ req' = [req EXCEPT ![c] = next]
  BY DEF PageOf, Left
<1>3. page = Fetched(Left(c)) /\ kept = Shown(page)
  BY DEF Above, Fetched, Shown
<1>4. walk = [req[c] EXCEPT !.op = "list", !.seen = req[c].seen \cup kept,
                            !.start = Begun(c)]
  BY DEF Begun
<1>5. Begun(c) \in SUBSET Id
  BY <1>1 DEF Begun, TypeInv, ResourcesTypeOK, IsTable, Request
<1> HIDE DEF page, kept
<1>6. /\ kept \subseteq Left(c)
      /\ page = kept => kept = Left(c)
      /\ page # kept => /\ Min(kept) \in kept
                        /\ \A i \in kept : Min(kept) =< i
                        /\ \A i \in Left(c) : i >= Min(kept) => i \in kept
  <2>1. Left(c) \subseteq Nat /\ IsFiniteSet(Left(c))
    BY LeftFinite
  <2> QED
    BY <1>3, <2>1, Paging
<1>7. kept \in SUBSET Id
  BY <1>6, LeftFinite
<1>8. req[c].seen \cup kept \in SUBSET Id
  BY <1>1, <1>7 DEF Request
<1> HIDE DEF walk
<1>9. /\ walk \in Request /\ walk.code = 0
      /\ walk.seen = req[c].seen \cup kept /\ walk.start = Begun(c)
  BY <1>1, <1>4, <1>5, <1>8 DEF Request, Op
<1>10. CASE page = kept /\ req' = [req EXCEPT ![c] = last]
  <2>1. last \in Request
    <3> DEFINE told == [walk EXCEPT !.after = 0, !.phase = "answered"]
    <3>1. told \in Request
      BY <1>9 DEF Request, Phase
    <3>2. last = [told EXCEPT !.code = 200]
      BY <1>9 DEF Request
    <3> HIDE DEF told, last
    <3>3. [told EXCEPT !.code = 200] \in Request
      <4>1. 200 \in Code
        BY DEF Code
      <4> QED
        BY <3>1, <4>1 DEF Request
    <3> QED
      BY <3>2, <3>3
  <2>2. /\ last.phase = "answered" /\ last.code = 200
        /\ last.seen = walk.seen /\ last.start = walk.start
    BY <1>9 DEF Request
  <2> HIDE DEF last
  <2>3. Turned(c, last, kept)
    BY <1>6, <1>9, <1>10, <2>2 DEF Turned
  <2> QED
    BY <1>7, <1>10, <2>1, <2>3
<1>11. CASE page # kept /\ req' = [req EXCEPT ![c] = next]
  <2>0. Min(kept) \in Nat
    BY <1>6, <1>7, <1>11 DEF Id
  <2>1. next \in Request
    BY <1>9, <2>0 DEF Request, Phase
  <2>2. /\ next.phase = "walk" /\ next.code = 0 /\ next.after = Min(kept)
        /\ next.seen = walk.seen /\ next.start = walk.start
    BY <1>9 DEF Request
  <2> HIDE DEF next
  <2>3. Turned(c, next, kept)
    BY <1>6, <1>9, <1>11, <2>2 DEF Turned
  <2> QED
    BY <1>7, <1>11, <2>1, <2>3
<1> QED
  BY <1>2, <1>10, <1>11

LEMMA PageKeeps ==
  ASSUME TypeInv, NEW c \in Client, PageOf(c, subject)
  PROVE  TypeInv'
<1>1. UNCHANGED <<store, subject, objects>> /\ ~Open(c)
  BY DEF PageOf, Open, InTx
<1>2. CASE \E code \in {400, 403, 500} : Answer(c, code)
  <2>1. PICK code \in {400, 403, 500} : Answer(c, code)
    BY <1>2
  <2>2. code \in Code \ {0}
    BY DEF Code
  <2> QED
    BY <1>1, <2>1, <2>2, EndedAnswer, EndsKeep
<1>3. ASSUME NEW r \in Request, NEW shown \in SUBSET Id,
             req' = [req EXCEPT ![c] = r], Turned(c, r, shown)
      PROVE  TypeInv'
  <2>1. /\ req' \in [Client -> Request] /\ req'[c] = r
        /\ \A d \in Client \ {c} : req'[d] = req[d]
    BY <1>3, SetReq
  <2>2. \/ r.phase = "answered" /\ r.code = 200
        \/ r.phase = "walk" /\ r.code = 0
    BY <1>3 DEF Turned
  <2>3. Control(c)' /\ ~Open(c)'
    BY <2>1, <2>2 DEF Control, Open, InTx
  <2> QED
    BY <1>1, <2>1, <2>3, Frame DEF TypeInv, ResourcesTypeOK, store
<1> QED
  BY <1>2, <1>3, PageTurns

LEMMA InsertedRow ==
  ASSUME TypeInv, NEW c \in Client, NEW keys \in Keys, Insert(c, keys)
  PROVE  \E row \in Row :
            /\ row.keys = keys /\ row.by = c /\ row.version = 1 /\ row.image = Seed
            /\ Write(c, NextId, row)
<1> DEFINE row == [keys |-> keys, by |-> c, version |-> 1, image |-> Seed]
<1>1. row \in Row
  BY DEF Row
<1> QED
  BY <1>1 DEF Insert

(* The last statement of a transaction but a batch's.                      *)
LEMMA StatementKeeps ==
  ASSUME TypeInv, NEW c \in Client, NEW i \in Id, NEW row \in Row, Write(c, i, row),
         req[c].phase \in InTx, Goto(c, "commit"), UNCHANGED <<subject, objects>>
  PROVE  TypeInv'
<1>1. /\ rows' = rows /\ DOMAIN writes' = Client /\ IsTable(writes'[c])
      /\ \A d \in Client \ {c} : writes'[d] = writes[d]
  BY WriteRow
<1>2. /\ req' \in [Client -> Request] /\ \A d \in Client \ {c} : req'[d] = req[d]
      /\ req'[c].phase = "commit" /\ req'[c].op = req[c].op /\ req'[c].items = req[c].items
      /\ req'[c].at = req[c].at /\ req'[c].id = req[c].id /\ req'[c].bump = req[c].bump
      /\ req'[c].code = req[c].code
  BY GotoReq DEF Phase
<1>3. Sound(req[c])
  BY DEF TypeInv, Control, Open
<1>4. Sound(req[c])'
  BY <1>2, <1>3 DEF Sound
<1>5. Control(c)' /\ Open(c)'
  BY <1>2, <1>3, <1>4 DEF Control, Open, InTx, Sound
<1> QED
  BY <1>1, <1>2, <1>5, Frame DEF TypeInv, ResourcesTypeOK

LEMMA InsertsKeep ==
  ASSUME TypeInv, NEW c \in Client, Inserts(c)
  PROVE  TypeInv'
<1>1. req[c].items \in Seq(Keys) /\ Len(req[c].items) = 1 /\ req[c].phase \in InTx
  BY DEF TypeInv, ResourcesTypeOK, Request, Control, Sound, Open, InTx, Inserts
<1>2. req[c].items[1] \in Keys
  BY <1>1
<1> QED
  BY <1>1, <1>2, InsertedRow, FreshId, StatementKeeps DEF Inserts

LEMMA EditedType ==
  ASSUME TypeInv, NEW c \in Client, req[c].op = "update", req[c].phase = "run",
         req[c].id \in DOMAIN rows
  PROVE  LET old == rows[req[c].id]
         IN  /\ Edited(c) \in Row /\ old \in Row /\ req[c].id \in Id
             /\ Edited(c).by = c /\ Edited(c).image = old.image
             /\ Edited(c).version = old.version + (IF req[c].bump THEN 1 ELSE 0)
             /\ Edited(c).keys = IF req[c].items = <<>> THEN old.keys
                                 ELSE (old.keys \cap Ext) \cup req[c].items[1]
<1> DEFINE old == rows[req[c].id]
           v == old.version + (IF req[c].bump THEN 1 ELSE 0)
           k == IF req[c].items = <<>> THEN old.keys ELSE (old.keys \cap Ext) \cup req[c].items[1]
<1>1. old \in Row /\ req[c].id \in Id
  BY DEF TypeInv, ResourcesTypeOK, IsTable
<1>2. req[c].items = <<>> \/ req[c].items[1] \subseteq Second
  BY DEF TypeInv, Control, Sound, Open, InTx
<1>3. v \in Nat /\ k \in Keys
  BY <1>1, <1>2 DEF Row, Keys
<1>4. Edited(c) = [old EXCEPT !.by = c, !.version = v, !.keys = k]
  BY DEF Edited
<1> HIDE DEF v, k
<1>5. /\ Edited(c) \in Row /\ Edited(c).by = c /\ Edited(c).image = old.image
      /\ Edited(c).version = v /\ Edited(c).keys = k
  BY <1>1, <1>3, <1>4 DEF Row
<1> QED
  BY <1>1, <1>5 DEF v, k

LEMMA EditsKeep ==
  ASSUME TypeInv, NEW c \in Client, Edits(c)
  PROVE  TypeInv'
<1>1. Edited(c) \in Row /\ req[c].id \in Id
  BY EditedType DEF Edits
<1> QED
  BY <1>1, StatementKeeps DEF Edits, Update, InTx

LEMMA IllustratedType ==
  ASSUME TypeInv, NEW c \in Client, req[c].op = "upload", req[c].phase = "write"
  PROVE  LET old == rows[req[c].id]
             row == [old EXCEPT !.image = c]
         IN  /\ row \in Row /\ old \in Row /\ req[c].id \in Id /\ req[c].id \in DOMAIN rows
             /\ row.keys = old.keys /\ row.image = c
<1>1. req[c].id \in DOMAIN rows
  BY DEF TypeInv, Control
<1>2. rows[req[c].id] \in Row /\ req[c].id \in Id
  BY <1>1 DEF TypeInv, ResourcesTypeOK, IsTable
<1> QED
  BY <1>1, <1>2 DEF Row

LEMMA IllustratesKeep ==
  ASSUME TypeInv, NEW c \in Client, Illustrates(c)
  PROVE  TypeInv'
<1>1. [rows[req[c].id] EXCEPT !.image = c] \in Row /\ req[c].id \in Id
  BY IllustratedType DEF Illustrates
<1> QED
  BY <1>1, StatementKeeps DEF Illustrates, Update, InTx

(* The row a batch writes.                                                 *)
LEMMA UpsertedRow ==
  ASSUME TypeInv, NEW c \in Client, Upserts(c)
  PROVE  \E i \in Id, row \in Row :
            /\ Write(c, i, row) /\ row.keys = Item(c) /\ row.by = c
            /\ \/ /\ i = NextId /\ Mine(c) = {} /\ Clashing(c, Item(c), {}) = {}
                  /\ row.image = Seed
               \/ /\ i \in Mine(c) /\ Clashing(c, Item(c), {i}) = {}
                  /\ row.image = Visible(c)[i].image
<1>1. Item(c) \in Keys
  <2>1. req[c].items \in Seq(Keys) /\ req[c].at \in 1..Len(req[c].items)
    BY DEF TypeInv, ResourcesTypeOK, Request, Control, InTx, Upserts
  <2> QED
    BY <2>1 DEF Item
<1>2. CASE Mine(c) = {} /\ Insert(c, Item(c))
  BY <1>1, <1>2, InsertedRow, FreshId DEF Insert
<1>3. ASSUME NEW i \in Mine(c),
             Update(c, i, [Visible(c)[i] EXCEPT !.keys = Item(c), !.by = c])
      PROVE  \E row \in Row :
                /\ Write(c, i, row) /\ row.keys = Item(c) /\ row.by = c
                /\ i \in Id /\ Clashing(c, Item(c), {i}) = {}
                /\ row.image = Visible(c)[i].image
  <2> DEFINE old == Visible(c)[i]
             row == [old EXCEPT !.keys = Item(c), !.by = c]
  <2>1. i \in DOMAIN Visible(c) /\ IsTable(Visible(c))
    BY Tables DEF Mine
  <2>2. old \in Row /\ i \in Id
    BY <2>1 DEF IsTable
  <2>3. row \in Row /\ row.keys = Item(c) /\ row.by = c /\ row.image = old.image
    BY <1>1, <2>2 DEF Row
  <2>4. Update(c, i, row)
    BY <1>3
  <2> HIDE DEF row
  <2> QED
    BY <2>2, <2>3, <2>4 DEF Update
<1> QED
  BY <1>2, <1>3 DEF Upserts

LEMMA NextItem ==
  ASSUME TypeInv, NEW c \in Client, req[c].phase = "run", req[c].op = "batch",
         req[c].at # Len(req[c].items), req' = [req EXCEPT ![c].at = @ + 1]
  PROVE  /\ req' \in [Client -> Request] /\ \A d \in Client \ {c} : req'[d] = req[d]
         /\ req'[c].phase = "run" /\ req'[c].op = req[c].op /\ req'[c].items = req[c].items
         /\ req'[c].at = req[c].at + 1 /\ req'[c].at \in 1..Len(req[c].items)
         /\ req'[c].id = req[c].id /\ req'[c].bump = req[c].bump
         /\ req'[c].code = req[c].code
<1> DEFINE n == req[c].at + 1
           r == [req[c] EXCEPT !.at = n]
<1>0. req[c] \in Request /\ req[c].at \in 1..Len(req[c].items) /\ req[c].items \in Seq(Keys)
  BY DEF TypeInv, ResourcesTypeOK, Control, InTx, Request
<1>1. n \in 1..Len(req[c].items) /\ n \in Nat
  BY <1>0
<1>2. req' = [req EXCEPT ![c] = r]
  BY DEF TypeInv, ResourcesTypeOK
<1> HIDE DEF n
<1>3. /\ r \in Request /\ r.phase = req[c].phase
      /\ r.op = req[c].op /\ r.items = req[c].items /\ r.at = n /\ r.id = req[c].id
      /\ r.bump = req[c].bump /\ r.code = req[c].code
  BY <1>0, <1>1 DEF Request
<1> HIDE DEF r
<1>4. req' \in [Client -> Request] /\ req'[c] = r /\ \A d \in Client \ {c} : req'[d] = req[d]
  BY <1>2, <1>3, SetReq
<1> QED
  BY <1>1, <1>3, <1>4 DEF n

LEMMA UpsertsKeep ==
  ASSUME TypeInv, NEW c \in Client, Upserts(c)
  PROVE  TypeInv'
<1>0. req[c].phase = "run" /\ req[c].op = "batch" /\ UNCHANGED <<subject, objects>>
  BY DEF Upserts
<1>1. PICK i \in Id, row \in Row : Write(c, i, row)
  BY UpsertedRow
<1>2. CASE Goto(c, "commit")
  BY <1>0, <1>1, <1>2, StatementKeeps DEF InTx
<1>3. CASE req[c].at # Len(req[c].items) /\ req' = [req EXCEPT ![c].at = @ + 1]
  <2>1. /\ rows' = rows /\ DOMAIN writes' = Client /\ IsTable(writes'[c])
        /\ \A d \in Client \ {c} : writes'[d] = writes[d]
    BY <1>1, WriteRow
  <2>2. /\ req' \in [Client -> Request] /\ \A d \in Client \ {c} : req'[d] = req[d]
        /\ req'[c].phase = "run" /\ req'[c].op = req[c].op /\ req'[c].items = req[c].items
        /\ req'[c].at \in 1..Len(req[c].items)
        /\ req'[c].id = req[c].id /\ req'[c].bump = req[c].bump
        /\ req'[c].code = req[c].code
    BY <1>0, <1>3, NextItem
  <2>3. Sound(req[c])
    BY <1>0 DEF TypeInv, Control, Open, InTx
  <2>4. Sound(req[c])'
    BY <1>0, <2>2, <2>3 DEF Sound
  <2>5. Control(c)' /\ Open(c)'
    BY <1>0, <2>2, <2>3, <2>4 DEF Control, Open, InTx, Sound
  <2> QED
    BY <1>0, <2>1, <2>2, <2>5, Frame DEF TypeInv, ResourcesTypeOK
<1> QED
  BY <1>2, <1>3 DEF Upserts

LEMMA ProceedsKeep ==
  ASSUME TypeInv, NEW c \in Client, Proceeds(c)
  PROVE  TypeInv'
<1>1. PICK phase \in {"put", "write"} : Goto(c, phase)
  BY DEF Proceeds
<1>2. /\ req[c].phase \in {"run", "put"} /\ req[c].op \in {"upsert", "upload"}
      /\ UNCHANGED <<store, subject>> /\ objects \subseteq objects' /\ objects' \subseteq Client
  BY DEF Proceeds, TypeInv, ResourcesTypeOK
<1>3. /\ req' \in [Client -> Request] /\ \A d \in Client \ {c} : req'[d] = req[d]
      /\ req'[c].phase = phase /\ req'[c].op = req[c].op /\ req'[c].items = req[c].items
      /\ req'[c].at = req[c].at /\ req'[c].id = req[c].id /\ req'[c].bump = req[c].bump
      /\ req'[c].code = req[c].code
  BY <1>1, GotoReq DEF Phase
<1>4. /\ phase = "put" => req[c].op = "upload"
      /\ req[c].op = "upload" => req[c].id \in DOMAIN rows
      /\ phase = "write" /\ req[c].op = "upload" => c \in objects'
  BY <1>1, <1>2, <1>3 DEF Proceeds, TypeInv, Control, Goto, ResourcesTypeOK, Request
<1>5. Sound(req[c]) /\ writes[c] = NoRows
  BY <1>2 DEF TypeInv, Control, Open, InTx
<1>6. Sound(req[c])'
  BY <1>2, <1>3, <1>5 DEF Sound
<1>7. Control(c)' /\ Open(c)'
  BY <1>1, <1>2, <1>3, <1>4, <1>5, <1>6 DEF Control, Open, InTx, Sound, store
<1> QED
  BY <1>2, <1>3, <1>7, Frame DEF TypeInv, ResourcesTypeOK, store

LEMMA EndingKeeps ==
  ASSUME TypeInv, NEW c \in Client,
         Fails(c) \/ Finish(c) \/ CommitFails(c) \/ HangUp(c) \/ Leave(c)
  PROVE  TypeInv'
<1>1. CASE Fails(c)
  <2>1. PICK code \in {200, 400, 404, 409, 413, 415, 422, 500} : Fail(c, code)
    BY <1>1 DEF Fails
  <2>2. code \in Code \ {0}
    BY DEF Code
  <2> QED
    BY <2>1, <2>2, EndedAnswer, EndsKeep DEF Fail
<1>2. CASE Finish(c)
  <2>1. PICK code \in {200, 201} : Answer(c, code)
    BY <1>2 DEF Finish
  <2>2. code \in Code \ {0}
    BY DEF Code
  <2> QED
    BY <1>2, <2>1, <2>2, EndedAnswer, EndsKeep DEF Finish
<1>3. CASE CommitFails(c)
  <2>1. 500 \in Code \ {0}
    BY DEF Code
  <2> QED
    BY <1>3, <2>1, EndedAnswer, EndsKeep DEF CommitFails
<1>4. CASE HangUp(c)
  BY <1>4, EndedIdle, EndsKeep DEF HangUp
<1>5. CASE Leave(c)
  BY <1>5, EndedIdle, EndsKeep DEF Leave, Open, InTx
<1> QED
  BY <1>1, <1>2, <1>3, <1>4, <1>5

LEMMA InitTypes == ResourcesInit => TypeInv
<1> SUFFICES ASSUME ResourcesInit PROVE TypeInv
  OBVIOUS
<1> DEFINE seed == [keys |-> Preload[subject], by |-> Seed, version |-> 1, image |-> Seed]
<1>1. subject \in Kind /\ subject \in AllKinds
  BY ResourcesAssumption DEF ResourcesInit
<1>2. seed \in Row /\ 1 \in Id
  BY <1>1, ResourcesAssumption DEF Row, Id
<1> HIDE DEF seed
<1>3. rows = Put(NoRows, 1, seed) /\ IsTable(rows)
  <2>1. rows = Put(NoRows, 1, seed)
    BY DEF ResourcesInit, seed
  <2> QED
    BY <1>2, <2>1, EmptyTable, PutTable
<1>4. /\ writes = [c \in Client |-> NoRows] /\ req = [c \in Client |-> Idle] /\ objects = {}
  BY DEF ResourcesInit
<1>5. Idle.phase = "idle" /\ Idle.code = 0
  BY DEF Idle
<1>6. ASSUME NEW c \in Client PROVE Control(c) /\ ~Open(c)
  BY <1>4, <1>5 DEF Control, Open, InTx
<1> QED
  BY <1>1, <1>3, <1>4, <1>6, EmptyTable, IdleRequest DEF TypeInv, ResourcesTypeOK

LEMMA NextTypes == TypeInv /\ [ResourcesNext]_vars => TypeInv'
<1> SUFFICES ASSUME TypeInv, [ResourcesNext]_vars PROVE TypeInv'
  OBVIOUS
<1>1. CASE UNCHANGED vars
  BY <1>1 DEF vars, TypeInv, ResourcesTypeOK, Control, Sound, Open
<1>2. ASSUME NEW c \in Client, Steps(c) PROVE TypeInv'
  BY <1>2, BeginsKeeps, ToldKeeps, PageKeeps, InsertsKeep, EditsKeep, IllustratesKeep,
     UpsertsKeep, ProceedsKeep, EndingKeeps DEF Steps
<1> QED
  BY <1>1, <1>2, StepKinds

LEMMA TypesSafe == ResourcesSpec => []TypeInv
  BY InitTypes, NextTypes, PTL DEF ResourcesSpec

(* Types; and rows that are not committed are those of an open transaction.*)
THEOREM ResourcesTypeCorrect == ResourcesSpec => []ResourcesTypeOK
<1>1. TypeInv => ResourcesTypeOK
  BY DEF TypeInv
<1> QED
  BY <1>1, TypesSafe, PTL

-----------------------------------------------------------------------------
(* Lists.                                                                  *)

(* What a walk has shown is at or above its cursor; what it owes and has   *)
(* not shown is below it, and still there: no request deletes a row.       *)
Owed(c) ==
    /\ req[c].phase = "walk" =>
         /\ req[c].start \subseteq DOMAIN rows
         /\ \A i \in req[c].start : i >= req[c].after => i \in req[c].seen
         /\ \A i \in req[c].seen : i >= req[c].after
    /\ req[c].phase = "answered" => req[c].start \subseteq req[c].seen

WalkInv == \A c \in Client : Owed(c)

LEMMA OpenKeepsNone ==
  ASSUME TypeInv, NEW c \in Client,
         \/ Begins(c) \/ Inserts(c) \/ Edits(c) \/ Illustrates(c) \/ Upserts(c) \/ Proceeds(c)
  PROVE  /\ req'[c].phase \notin {"walk", "answered"}
         /\ \A d \in Client \ {c} : req'[d] = req[d]
         /\ rows' = rows
<1>1. CASE Begins(c)
  <2>1. PICK r \in Request : /\ r.phase \in {"commit", "run"}
                             /\ req' = [req EXCEPT ![c] = r]
    BY <1>1 DEF Begins
  <2> QED
    BY <1>1, <2>1, SetReq DEF Begins, store
<1>2. CASE Inserts(c) \/ Edits(c) \/ Illustrates(c) \/ Proceeds(c)
  <2>1. PICK phase \in {"commit", "put", "write"} : Goto(c, phase)
    BY <1>2 DEF Inserts, Edits, Illustrates, Proceeds
  <2>2. rows' = rows
    BY <1>2 DEF Inserts, Edits, Illustrates, Proceeds, Insert, Update, Write, store
  <2> QED
    BY <2>1, <2>2, GotoReq DEF Phase
<1>3. CASE Upserts(c)
  <2>1. rows' = rows
    BY <1>3 DEF Upserts, Insert, Update, Write
  <2>2. CASE Goto(c, "commit")
    BY <2>1, <2>2, GotoReq DEF Phase
  <2>3. CASE req[c].at # Len(req[c].items) /\ req' = [req EXCEPT ![c].at = @ + 1]
    <3>1. req'[c].phase = "run" /\ \A d \in Client \ {c} : req'[d] = req[d]
      BY <1>3, <2>3, NextItem DEF Upserts
    <3> QED
      BY <2>1, <3>1
  <2> QED
    BY <1>3, <2>2, <2>3 DEF Upserts
<1> QED
  BY <1>1, <1>2, <1>3

LEMMA EndingRows ==
  ASSUME TypeInv, NEW c \in Client,
         Told(c) \/ Fails(c) \/ Finish(c) \/ CommitFails(c) \/ HangUp(c) \/ Leave(c)
  PROVE  Ended(c) /\ (rows' = rows \/ rows' = Visible(c))
<1>1. CASE Told(c) \/ Fails(c) \/ Finish(c) \/ CommitFails(c)
  <2>1. PICK code \in {200, 201, 400, 403, 404, 409, 413, 415, 422, 500} : Answer(c, code)
    BY <1>1 DEF Told, Fails, Fail, Finish, CommitFails
  <2>2. code \in Code \ {0}
    BY DEF Code
  <2>3. rows' = rows \/ rows' = Visible(c)
    BY <1>1 DEF Told, Fails, Fail, Finish, CommitFails, Commit, Rollback, store
  <2> QED
    BY <2>1, <2>2, <2>3, EndedAnswer
<1>2. CASE HangUp(c) \/ Leave(c)
  BY <1>2, EndedIdle DEF HangUp, Leave, Commit, Rollback, store
<1> QED
  BY <1>1, <1>2

LEMMA PageOwes ==
  ASSUME TypeInv, WalkInv, NEW c \in Client, PageOf(c, subject),
         NEW r \in Request, NEW shown \in SUBSET Id,
         req' = [req EXCEPT ![c] = r], Turned(c, r, shown)
  PROVE  Owed(c)'
<1>1. rows' = rows /\ req'[c] = r /\ req[c].phase \in {"idle", "walk"}
  <2>1. req'[c] = r
    BY SetReq
  <2> QED
    BY <2>1 DEF PageOf, store
<1>2. DOMAIN rows \subseteq Nat /\ r.after \in Nat /\ req[c].after \in Nat
  BY DEF TypeInv, ResourcesTypeOK, IsTable, Id, Request
<1>3. CASE req[c].phase = "idle"
  <2>1. r.start = DOMAIN rows /\ Left(c) = DOMAIN rows /\ r.seen = shown
    <3>1. req[c].seen = {}
      BY <1>3 DEF TypeInv, Control, Idle
    <3>2. Left(c) = DOMAIN rows
      BY <1>3 DEF Left
    <3> QED
      BY <1>3, <3>1, <3>2 DEF Turned, Begun
  <2>2. CASE r.phase = "answered"
    BY <1>1, <2>1, <2>2 DEF Turned, Owed
  <2>3. CASE r.phase = "walk"
    BY <1>1, <1>2, <2>1, <2>3 DEF Turned, Owed
  <2> QED
    BY <2>2, <2>3 DEF Turned
<1>4. CASE req[c].phase = "walk"
  <2>1. /\ r.start = req[c].start /\ r.seen = req[c].seen \cup shown
        /\ shown \subseteq Left(c)
    BY <1>4 DEF Turned, Begun
  <2>2. /\ r.start \subseteq DOMAIN rows
        /\ \A i \in r.start : i >= req[c].after => i \in req[c].seen
        /\ \A i \in req[c].seen : i >= req[c].after
    BY <1>4, <2>1 DEF WalkInv, Owed
  <2>3. ASSUME NEW i \in r.start PROVE i \in req[c].seen \/ i \in Left(c)
    <3>1. i \in DOMAIN rows /\ i \in Nat
      BY <1>2, <2>2
    <3> QED
      BY <1>2, <2>2, <3>1 DEF Left
  <2>4. CASE r.phase = "answered"
    BY <1>1, <2>1, <2>3, <2>4 DEF Turned, Owed
  <2>5. CASE r.phase = "walk"
    <3>1. /\ r.after \in Left(c)
          /\ \A i \in shown : r.after =< i
          /\ \A i \in Left(c) : i >= r.after => i \in shown
      BY <2>1, <2>5 DEF Turned
    <3>2. r.after < req[c].after
      BY <1>4, <3>1 DEF Left
    <3>3. ASSUME NEW i \in r.seen PROVE i >= r.after
      <4>1. i \in Nat
        BY DEF Request, Id
      <4>2. CASE i \in req[c].seen
        BY <1>2, <2>2, <3>2, <4>1, <4>2
      <4>3. CASE i \in shown
        BY <1>2, <3>1, <4>1, <4>3
      <4> QED
        BY <2>1, <4>2, <4>3
    <3>4. ASSUME NEW i \in r.start, i >= r.after PROVE i \in r.seen
      BY <2>1, <2>3, <3>1, <3>4
    <3> QED
      BY <1>1, <2>2, <2>5, <3>3, <3>4 DEF Owed
  <2> QED
    BY <2>4, <2>5 DEF Turned
<1> QED
  BY <1>1, <1>3, <1>4

LEMMA NextWalk == TypeInv /\ WalkInv /\ [ResourcesNext]_vars => WalkInv'
<1> SUFFICES ASSUME TypeInv, WalkInv, [ResourcesNext]_vars PROVE WalkInv'
  OBVIOUS
<1>1. CASE UNCHANGED vars
  BY <1>1 DEF vars, WalkInv, Owed
<1>2. ASSUME NEW c \in Client, Steps(c) PROVE WalkInv'
  <2>1. CASE \/ Begins(c) \/ Inserts(c) \/ Edits(c) \/ Illustrates(c) \/ Upserts(c)
             \/ Proceeds(c)
    <3>1. /\ req'[c].phase \notin {"walk", "answered"} /\ rows' = rows
          /\ \A d \in Client \ {c} : req'[d] = req[d]
      BY <2>1, OpenKeepsNone
    <3> QED
      BY <3>1 DEF WalkInv, Owed
  <2>2. CASE \/ Told(c) \/ Fails(c) \/ Finish(c) \/ CommitFails(c) \/ HangUp(c) \/ Leave(c)
             \/ PageOf(c, subject) /\ \E code \in {400, 403, 500} : Answer(c, code)
    <3>1. Ended(c) /\ DOMAIN rows \subseteq DOMAIN rows'
      <4>1. CASE PageOf(c, subject) /\ \E code \in {400, 403, 500} : Answer(c, code)
        <5>1. PICK code \in {400, 403, 500} : Answer(c, code)
          BY <4>1
        <5>2. code \in Code \ {0} /\ rows' = rows
          BY <4>1 DEF Code, PageOf, store
        <5> QED
          BY <5>1, <5>2, EndedAnswer
      <4>2. CASE ~(PageOf(c, subject) /\ \E code \in {400, 403, 500} : Answer(c, code))
        <5>1. \/ Told(c) \/ Fails(c) \/ Finish(c) \/ CommitFails(c) \/ HangUp(c)
              \/ Leave(c)
          BY <2>2, <4>2
        <5>2. Ended(c) /\ (rows' = rows \/ rows' = Visible(c))
          BY <5>1, EndingRows
        <5>3. DOMAIN rows \subseteq DOMAIN Visible(c)
          BY Tables
        <5> QED
          BY <5>2, <5>3
      <4> QED
        BY <4>1, <4>2
    <3>2. Owed(c)'
      BY <3>1 DEF Ended, Idle, Owed
    <3>3. ASSUME NEW d \in Client \ {c} PROVE Owed(d)'
      <4>1. req'[d] = req[d] /\ Owed(d)
        BY <3>1 DEF Ended, WalkInv
      <4> QED
        BY <3>1, <4>1 DEF Owed
    <3> QED
      BY <3>2, <3>3 DEF WalkInv
  <2>3. ASSUME PageOf(c, subject), NEW r \in Request, NEW shown \in SUBSET Id,
               req' = [req EXCEPT ![c] = r], Turned(c, r, shown)
        PROVE  WalkInv'
    <3>1. Owed(c)'
      BY <2>3, PageOwes
    <3>2. rows' = rows /\ \A d \in Client \ {c} : req'[d] = req[d]
      BY <2>3, SetReq DEF PageOf, store
    <3> QED
      BY <3>1, <3>2 DEF WalkInv, Owed
  <2> QED
    BY <1>2, <2>1, <2>2, <2>3, PageTurns DEF Steps
<1> QED
  BY <1>1, <1>2, StepKinds

(* A client that follows the cursors of a list is shown every row that was *)
(* there when it started, and none twice, whatever is written meanwhile.   *)
THEOREM WalksAreExact == ResourcesSpec => []WalkExact
<1>1. ResourcesInit => WalkInv
  BY DEF ResourcesInit, WalkInv, Owed, Idle
<1>2. WalkInv => WalkExact
  BY DEF WalkInv, Owed, WalkExact
<1> QED
  BY <1>1, <1>2, TypesSafe, NextWalk, PTL DEF ResourcesSpec

-----------------------------------------------------------------------------
(* Images.                                                                 *)

Pictured(t) == \A i \in DOMAIN t : t[i].image \in objects \cup {Seed}

(* A row that a transaction is about to give an image has one, too.        *)
ImageInv == Pictured(rows) /\ \A c \in Client : Pictured(writes[c])

LEMMA VisiblePictured ==
  ASSUME TypeInv, ImageInv, NEW c \in Client
  PROVE  Pictured(Visible(c))
<1> DEFINE own == writes[c]
           all == rows
<1> HIDE DEF own, all
<1>1. /\ DOMAIN Over(own, all) = DOMAIN own \cup DOMAIN all
      /\ \A i \in DOMAIN own : Over(own, all)[i] = own[i]
      /\ \A i \in DOMAIN all \ DOMAIN own : Over(own, all)[i] = all[i]
  BY OverDef, Zenon
<1>2. Pictured(own) /\ Pictured(all) /\ Visible(c) = Over(own, all)
  BY DEF ImageInv, Visible, own, all
<1> QED
  BY <1>1, <1>2 DEF Pictured

LEMMA WriteImage ==
  ASSUME TypeInv, ImageInv, NEW c \in Client, NEW i \in Id, NEW row \in Row,
         Write(c, i, row), row.image \in objects \cup {Seed}, objects' = objects
  PROVE  ImageInv'
<1>1. /\ rows' = rows /\ writes'[c] = Put(writes[c], i, row)
      /\ \A d \in Client \ {c} : writes'[d] = writes[d]
  BY WriteRow
<1>2. Pictured(Put(writes[c], i, row))
  <2>1. IsTable(writes[c]) /\ Pictured(writes[c])
    BY Tables DEF ImageInv
  <2>2. Given(writes[c], i, row, Put(writes[c], i, row))
    BY PutGiven
  <2> QED
    BY <2>1, <2>2 DEF Pictured, Given
<1> QED
  BY <1>1, <1>2 DEF ImageInv, Pictured

LEMMA NextImage == TypeInv /\ ImageInv /\ [ResourcesNext]_vars => ImageInv'
<1> SUFFICES ASSUME TypeInv, ImageInv, [ResourcesNext]_vars PROVE ImageInv'
  OBVIOUS
<1>1. CASE UNCHANGED vars
  BY <1>1 DEF vars, store, ImageInv, Pictured
<1>2. ASSUME NEW c \in Client, Steps(c) PROVE ImageInv'
  <2>1. CASE Begins(c) \/ Told(c) \/ PageOf(c, subject) \/ Leave(c)
    <3>1. UNCHANGED <<rows, writes, objects>>
      BY <2>1 DEF Begins, Told, PageOf, Leave, store
    <3> QED
      BY <3>1 DEF ImageInv, Pictured
  <2>2. CASE Proceeds(c)
    <3>1. UNCHANGED <<rows, writes>> /\ objects \subseteq objects'
      BY <2>2 DEF Proceeds, store
    <3> QED
      BY <3>1 DEF ImageInv, Pictured
  <2>3. CASE Inserts(c)
    <3>1. req[c].items \in Seq(Keys) /\ Len(req[c].items) = 1
      BY <2>3 DEF TypeInv, ResourcesTypeOK, Request, Control, Sound, Open, InTx, Inserts
    <3>2. PICK row \in Row : row.image = Seed /\ Write(c, NextId, row)
      BY <2>3, <3>1, InsertedRow DEF Inserts
    <3> QED
      BY <2>3, <3>2, FreshId, WriteImage DEF Inserts
  <2>4. CASE Edits(c)
    <3>1. /\ Edited(c) \in Row /\ req[c].id \in Id
          /\ Edited(c).image = rows[req[c].id].image
      BY <2>4, EditedType DEF Edits
    <3>2. rows[req[c].id].image \in objects \cup {Seed}
      BY <2>4 DEF Edits, ImageInv, Pictured
    <3> QED
      BY <2>4, <3>1, <3>2, WriteImage DEF Edits, Update
  <2>5. CASE Illustrates(c)
    <3> DEFINE row == [rows[req[c].id] EXCEPT !.image = c]
    <3>1. row \in Row /\ req[c].id \in Id /\ row.image = c
      BY <2>5, IllustratedType DEF Illustrates
    <3>2. c \in objects /\ Write(c, req[c].id, row) /\ objects' = objects
      BY <2>5 DEF Illustrates, Update, TypeInv, Control
    <3> HIDE DEF row
    <3> QED
      BY <3>1, <3>2, WriteImage
  <2>6. CASE Upserts(c)
    <3>1. PICK i \in Id, row \in Row :
             /\ Write(c, i, row) /\ row.keys = Item(c) /\ row.by = c
             /\ \/ /\ i = NextId /\ Mine(c) = {} /\ Clashing(c, Item(c), {}) = {}
                   /\ row.image = Seed
                \/ /\ i \in Mine(c) /\ Clashing(c, Item(c), {i}) = {}
                   /\ row.image = Visible(c)[i].image
      BY <2>6, UpsertedRow
    <3>2. row.image \in objects \cup {Seed}
      BY <3>1, VisiblePictured DEF Pictured, Mine
    <3> QED
      BY <2>6, <3>1, <3>2, WriteImage DEF Upserts
  <2>7. CASE Fails(c) \/ Finish(c) \/ CommitFails(c) \/ HangUp(c)
    <3>1. objects' = objects /\ (Rollback(c) \/ Commit(c))
      BY <2>7 DEF Fails, Fail, Finish, CommitFails, HangUp
    <3>2. /\ rows' = rows \/ rows' = Visible(c)
          /\ writes'[c] = NoRows /\ \A d \in Client \ {c} : writes'[d] = writes[d]
      BY <3>1, DropRows
    <3>3. Pictured(NoRows)
      BY EmptyTable DEF Pictured
    <3> QED
      BY <3>1, <3>2, <3>3, VisiblePictured DEF ImageInv, Pictured
  <2> QED
    BY <1>2, <2>1, <2>2, <2>3, <2>4, <2>5, <2>6, <2>7 DEF Steps
<1> QED
  BY <1>1, <1>2, StepKinds

(* A committed image_url names an object the image store has.              *)
THEOREM ImagesAreStored == ResourcesSpec => []ImagesStored
<1>1. ResourcesInit => ImageInv
  <2> SUFFICES ASSUME ResourcesInit PROVE ImageInv
    OBVIOUS
  <2> DEFINE row == [keys |-> Preload[subject], by |-> Seed, version |-> 1, image |-> Seed]
  <2>1. rows = Put(NoRows, 1, row) /\ writes = [c \in Client |-> NoRows] /\ row.image = Seed
    BY DEF ResourcesInit
  <2> HIDE DEF row
  <2>2. Pictured(NoRows) /\ IsTable(NoRows)
    BY EmptyTable DEF Pictured
  <2>3. Pictured(Put(NoRows, 1, row))
    <3>1. Given(NoRows, 1, row, Put(NoRows, 1, row))
      BY PutGiven
    <3> QED
      BY <2>1, <3>1, EmptyTable DEF Pictured, Given
  <2> QED
    BY <2>1, <2>2, <2>3 DEF ImageInv
<1>2. ImageInv => ImagesStored
  BY DEF ImageInv, Pictured, ImagesStored
<1> QED
  BY <1>1, <1>2, TypesSafe, NextImage, PTL DEF ResourcesSpec

-----------------------------------------------------------------------------
(* Keys and rows are those of one transaction at a time.                   *)

OneNames(t) == \A i \in DOMAIN t : OneName(t[i].keys)
Unique(t)   == \A i, j \in DOMAIN t : i # j => t[i].keys \cap t[j].keys = {}

Apart(c, d) == Holds(c) \cap Holds(d) = {} /\ DOMAIN writes[c] \cap DOMAIN writes[d] = {}

Locked ==
    /\ Unique(rows) /\ OneNames(rows)
    /\ \A c \in Client : Unique(Visible(c)) /\ OneNames(writes[c])
    /\ \A c, d \in Client : c # d => Apart(c, d)

-----------------------------------------------------------------------------
(* What a transaction has written.                                         *)

Only(c, i, row) == DOMAIN writes[c] = {i} /\ writes[c][i] = row

NewRow(c, keys) == [keys |-> keys, by |-> c, version |-> 1, image |-> Seed]

Nameless(c, k)   == {n \in 1..k : req[c].items[n] \cap Ext = {}}
NamelessRows(c)  == {i \in DOMAIN writes[c] \ DOMAIN rows : writes[c][i].keys \cap Ext = {}}

(* The first k items of c's batch.                                         *)
Batched(c, k) ==
    /\ \A i \in DOMAIN writes[c] :
         /\ writes[c][i].by = c
         /\ \E n \in 1..k : writes[c][i].keys = req[c].items[n]
    /\ \A i \in DOMAIN writes[c] \cap DOMAIN rows : \E n \in 1..k :
         rows[i].keys \cap Ext = req[c].items[n] \cap Ext /\ rows[i].keys \cap Ext # {}
    /\ \A n \in 1..k : req[c].items[n] \cap Ext # {} =>
         \E i \in DOMAIN writes[c] : writes[c][i].keys \cap Ext = req[c].items[n] \cap Ext
    /\ Cardinality(NamelessRows(c)) = Cardinality(Nameless(c, k))

Written(c) ==
    /\ req[c].phase = "commit" =>
         /\ req[c].op \in {"create", "upsert"} =>
              \E i \in Id \ DOMAIN rows : Only(c, i, NewRow(c, req[c].items[1]))
         /\ req[c].op = "update" =>
              req[c].id \in DOMAIN rows /\ Only(c, req[c].id, Edited(c))
         /\ req[c].op = "upload" =>
              /\ req[c].id \in DOMAIN rows
              /\ Only(c, req[c].id, [rows[req[c].id] EXCEPT !.image = c])
         /\ req[c].op = "batch" => Batched(c, Len(req[c].items))
    /\ req[c].phase = "run" /\ req[c].op = "batch" => Batched(c, req[c].at - 1)

StoreInv == Locked /\ \A c \in Client : Written(c)

-----------------------------------------------------------------------------
LEMMA VisibleRows ==
  ASSUME NEW c \in Client
  PROVE  /\ DOMAIN Visible(c) = DOMAIN writes[c] \cup DOMAIN rows
         /\ \A i \in DOMAIN writes[c] : Visible(c)[i] = writes[c][i]
         /\ \A i \in DOMAIN rows \ DOMAIN writes[c] : Visible(c)[i] = rows[i]
<1> DEFINE own == writes[c]
           all == rows
<1> HIDE DEF own, all
<1>1. /\ DOMAIN Over(own, all) = DOMAIN own \cup DOMAIN all
      /\ \A i \in DOMAIN own : Over(own, all)[i] = own[i]
      /\ \A i \in DOMAIN all \ DOMAIN own : Over(own, all)[i] = all[i]
  BY OverDef, Zenon
<1> QED
  BY <1>1 DEF Visible, own, all

(* What a transaction sees is its own writes and, besides them, the rows.  *)
LEMMA VisibleParts ==
  ASSUME NEW c \in Client, NEW j \in DOMAIN Visible(c)
  PROVE  \/ j \in DOMAIN rows \ DOMAIN writes[c] /\ Visible(c)[j] = rows[j]
         \/ j \in DOMAIN writes[c] /\ Visible(c)[j] = writes[c][j]
<1> DEFINE all == Visible(c)
<1>1. /\ DOMAIN all = DOMAIN writes[c] \cup DOMAIN rows
      /\ \A i \in DOMAIN writes[c] : all[i] = writes[c][i]
      /\ \A i \in DOMAIN rows \ DOMAIN writes[c] : all[i] = rows[i]
  BY VisibleRows
<1> HIDE DEF all
<1> QED
  BY <1>1 DEF all

LEMMA VisibleRowsNext ==
  ASSUME NEW c \in Client
  PROVE  /\ DOMAIN Visible(c)' = DOMAIN writes'[c] \cup DOMAIN rows'
         /\ \A i \in DOMAIN writes'[c] : Visible(c)'[i] = writes'[c][i]
         /\ \A i \in DOMAIN rows' \ DOMAIN writes'[c] : Visible(c)'[i] = rows'[i]
<1> DEFINE own == writes'[c]
           all == rows'
<1> HIDE DEF own, all
<1>1. /\ DOMAIN Over(own, all) = DOMAIN own \cup DOMAIN all
      /\ \A i \in DOMAIN own : Over(own, all)[i] = own[i]
      /\ \A i \in DOMAIN all \ DOMAIN own : Over(own, all)[i] = all[i]
  BY OverDef, Zenon
<1>2. Visible(c)' = Over(own, all)
  BY DEF Visible, own, all
<1>3. /\ DOMAIN Visible(c)' = DOMAIN own \cup DOMAIN all
      /\ \A i \in DOMAIN own : Visible(c)'[i] = own[i]
      /\ \A i \in DOMAIN all \ DOMAIN own : Visible(c)'[i] = all[i]
  BY <1>1, <1>2
<1> QED
  BY <1>3 DEF own, all

LEMMA HeldKeys ==
  ASSUME NEW c \in Client, NEW k
  PROVE  k \in Holds(c) <=>
           \/ \E i \in DOMAIN writes[c] : k \in writes[c][i].keys
           \/ \E i \in DOMAIN writes[c] \cap DOMAIN rows : k \in rows[i].keys
<1> DEFINE new == {writes[c][i].keys : i \in DOMAIN writes[c]}
           old == {rows[i].keys : i \in DOMAIN writes[c] \cap DOMAIN rows}
<1>1. Holds(c) = (UNION new) \cup (UNION old)
  BY DEF Holds
<1>2. k \in UNION new <=> \E i \in DOMAIN writes[c] : k \in writes[c][i].keys
  OBVIOUS
<1>3. k \in UNION old <=> \E i \in DOMAIN writes[c] \cap DOMAIN rows : k \in rows[i].keys
  OBVIOUS
<1> HIDE DEF new, old
<1> QED
  BY <1>1, <1>2, <1>3

LEMMA HeldKeysNext ==
  ASSUME NEW c \in Client, NEW k
  PROVE  k \in Holds(c)' <=>
           \/ \E i \in DOMAIN writes'[c] : k \in writes'[c][i].keys
           \/ \E i \in DOMAIN writes'[c] \cap DOMAIN rows' : k \in rows'[i].keys
<1> DEFINE new == {writes'[c][i].keys : i \in DOMAIN writes'[c]}
           old == {rows'[i].keys : i \in DOMAIN writes'[c] \cap DOMAIN rows'}
<1>1. Holds(c)' = (UNION new) \cup (UNION old)
  BY DEF Holds
<1>2. k \in UNION new <=> \E i \in DOMAIN writes'[c] : k \in writes'[c][i].keys
  OBVIOUS
<1>3. k \in UNION old <=> \E i \in DOMAIN writes'[c] \cap DOMAIN rows' : k \in rows'[i].keys
  OBVIOUS
<1> HIDE DEF new, old
<1> QED
  BY <1>1, <1>2, <1>3

LEMMA RowKeysFree ==
  ASSUME Locked, NEW c \in Client, NEW i \in DOMAIN rows, i \notin DOMAIN writes[c]
  PROVE  rows[i].keys \cap Holds(c) = {}
<1> SUFFICES ASSUME NEW k \in rows[i].keys, k \in Holds(c) PROVE FALSE
  OBVIOUS
<1>0. \/ \E j \in DOMAIN writes[c] : k \in writes[c][j].keys
      \/ \E j \in DOMAIN writes[c] \cap DOMAIN rows : k \in rows[j].keys
  BY HeldKeys
<1>1. CASE \E j \in DOMAIN writes[c] : k \in writes[c][j].keys
  <2>1. PICK j \in DOMAIN writes[c] : k \in writes[c][j].keys
    BY <1>1
  <2>2. /\ i \in DOMAIN Visible(c) /\ j \in DOMAIN Visible(c) /\ i # j
        /\ Visible(c)[j] = writes[c][j] /\ Visible(c)[i] = rows[i]
    BY VisibleRows
  <2> QED
    BY <2>1, <2>2 DEF Locked, Unique
<1>2. CASE \E j \in DOMAIN writes[c] \cap DOMAIN rows : k \in rows[j].keys
  BY <1>2 DEF Locked, Unique
<1> QED
  BY <1>0, <1>1, <1>2

(* What c holds when it has written one more row.                          *)
LEMMA WriteHolds ==
  ASSUME TypeInv, NEW c \in Client, NEW i \in Id, NEW row \in Row, Write(c, i, row)
  PROVE  /\ DOMAIN writes'[c] = DOMAIN writes[c] \cup {i} /\ writes'[c][i] = row
         /\ \A j \in DOMAIN writes[c] \ {i} : writes'[c][j] = writes[c][j]
         /\ \A k \in Holds(c)' : \/ k \in Holds(c)
                                 \/ k \in row.keys
                                 \/ i \in DOMAIN rows /\ k \in rows[i].keys
         /\ \A d \in Client \ {c} : Holds(d)' = Holds(d) /\ Visible(d)' = Visible(d)
         /\ rows' = rows /\ \A d \in Client \ {c} : writes'[d] = writes[d]
<1>1. /\ rows' = rows /\ writes'[c] = Put(writes[c], i, row)
      /\ \A d \in Client \ {c} : writes'[d] = writes[d]
  BY WriteRow
<1>2. /\ DOMAIN writes'[c] = DOMAIN writes[c] \cup {i} /\ writes'[c][i] = row
      /\ \A j \in DOMAIN writes[c] \ {i} : writes'[c][j] = writes[c][j]
  <2>1. Given(writes[c], i, row, writes'[c])
    BY <1>1, PutGiven
  <2> QED
    BY <2>1 DEF Given
<1>3. ASSUME NEW k \in Holds(c)'
      PROVE  \/ k \in Holds(c)
             \/ k \in row.keys
             \/ i \in DOMAIN rows /\ k \in rows[i].keys
  <2>1. ASSUME NEW j \in DOMAIN writes'[c], k \in writes'[c][j].keys, j # i
        PROVE  k \in Holds(c)
    BY <1>2, <2>1, HeldKeys
  <2>2. ASSUME NEW j \in DOMAIN writes'[c] \cap DOMAIN rows, k \in rows[j].keys, j # i
        PROVE  k \in Holds(c)
    BY <1>2, <2>2, HeldKeys
  <2>3. \/ \E j \in DOMAIN writes'[c] : k \in writes'[c][j].keys
        \/ \E j \in DOMAIN writes'[c] \cap DOMAIN rows' : k \in rows'[j].keys
    BY <1>3, HeldKeysNext
  <2> QED
    BY <1>1, <1>2, <2>1, <2>2, <2>3
<1>4. ASSUME NEW d \in Client \ {c} PROVE Holds(d)' = Holds(d) /\ Visible(d)' = Visible(d)
  BY <1>1, <1>4 DEF Holds, Visible
<1> QED
  BY <1>1, <1>2, <1>3, <1>4

LEMMA WriteLocks ==
  ASSUME TypeInv, Locked, NEW c \in Client, NEW i \in Id, NEW row \in Row, Write(c, i, row),
         Clashing(c, row.keys, {i}) = {}, OneName(row.keys),
         \A d \in Client \ {c} : row.keys \cap Holds(d) = {} /\ i \notin DOMAIN writes[d]
  PROVE  Locked'
<1>1. /\ DOMAIN writes'[c] = DOMAIN writes[c] \cup {i} /\ writes'[c][i] = row
      /\ \A j \in DOMAIN writes[c] \ {i} : writes'[c][j] = writes[c][j]
      /\ \A k \in Holds(c)' : \/ k \in Holds(c)
                              \/ k \in row.keys
                              \/ i \in DOMAIN rows /\ k \in rows[i].keys
      /\ \A d \in Client \ {c} : Holds(d)' = Holds(d) /\ Visible(d)' = Visible(d)
      /\ rows' = rows /\ \A d \in Client \ {c} : writes'[d] = writes[d]
  BY WriteHolds
<1>2. Unique(Visible(c))'
  <2> DEFINE V == Visible(c)
             W == Visible(c)'
  <2>1. /\ DOMAIN W = DOMAIN V \cup {i} /\ W[i] = row
        /\ \A j \in DOMAIN V \ {i} : W[j] = V[j]
    <3>1. /\ DOMAIN V = DOMAIN writes[c] \cup DOMAIN rows
          /\ \A j \in DOMAIN writes[c] : V[j] = writes[c][j]
          /\ \A j \in DOMAIN rows \ DOMAIN writes[c] : V[j] = rows[j]
      BY VisibleRows
    <3>2. /\ DOMAIN W = DOMAIN writes'[c] \cup DOMAIN rows'
          /\ \A j \in DOMAIN writes'[c] : W[j] = writes'[c][j]
          /\ \A j \in DOMAIN rows' \ DOMAIN writes'[c] : W[j] = rows'[j]
      BY VisibleRowsNext
    <3> HIDE DEF V, W
    <3> QED
      BY <1>1, <3>1, <3>2
  <2>2. \A j \in DOMAIN V \ {i} : V[j].keys \cap row.keys = {}
    BY DEF Clashing
  <2>3. \A j, l \in DOMAIN V : j # l => V[j].keys \cap V[l].keys = {}
    BY DEF Locked, Unique
  <2> HIDE DEF V, W
  <2>4. \A j, l \in DOMAIN W : j # l => W[j].keys \cap W[l].keys = {}
    BY <2>1, <2>2, <2>3
  <2> QED
    BY <2>4 DEF W, Unique
<1>3. OneNames(writes[c])'
  BY <1>1 DEF Locked, OneNames
<1>4. ASSUME NEW d \in Client \ {c} PROVE Apart(c, d)'
  <2>1. ASSUME NEW k \in Holds(c)', k \in Holds(d)' PROVE FALSE
    <3>1. k \in Holds(d)
      BY <1>1, <2>1
    <3>2. CASE k \in Holds(c) \/ k \in row.keys
      BY <3>1, <3>2 DEF Locked, Apart
    <3>3. CASE i \in DOMAIN rows /\ k \in rows[i].keys
      BY <3>1, <3>3, RowKeysFree
    <3> QED
      BY <1>1, <3>2, <3>3
  <2>2. (DOMAIN writes[c] \cap DOMAIN writes[d] = {})'
    BY <1>1 DEF Locked, Apart
  <2> QED
    BY <2>1, <2>2 DEF Apart
<1>5. ASSUME NEW d \in Client \ {c} PROVE Apart(d, c)'
  BY <1>4 DEF Apart
<1>6. ASSUME NEW d \in Client \ {c}, NEW e \in Client \ {c}, d # e PROVE Apart(d, e)'
  <2>1. Apart(d, e)
    BY <1>6 DEF Locked
  <2> QED
    BY <1>1, <2>1 DEF Apart
<1>7. ASSUME NEW d \in Client, NEW e \in Client, d # e PROVE Apart(d, e)'
  BY <1>4, <1>5, <1>6, <1>7
<1>8. ASSUME NEW d \in Client PROVE (Unique(Visible(d)) /\ OneNames(writes[d]))'
  <2>1. CASE d = c
    BY <1>2, <1>3, <2>1
  <2>2. CASE d # c
    BY <1>1, <2>2 DEF Locked, Unique, OneNames
  <2> QED
    BY <2>1, <2>2
<1>9. (Unique(rows) /\ OneNames(rows))'
  BY <1>1 DEF Locked, Unique, OneNames
<1> QED
  BY <1>7, <1>8, <1>9 DEF Locked

(* A transaction ends: another's view has changed where it has not written.*)
LEMMA EndLocks ==
  ASSUME TypeInv, Locked, NEW c \in Client, Rollback(c) \/ Commit(c)
  PROVE  Locked'
<1>1. /\ rows' = rows \/ rows' = Visible(c)
      /\ writes'[c] = NoRows /\ DOMAIN NoRows = {}
      /\ \A d \in Client \ {c} : writes'[d] = writes[d]
  BY DropRows, EmptyTable
<1>2. Unique(rows') /\ OneNames(rows')
  <2>1. Unique(Visible(c)) /\ Unique(rows)
    BY DEF Locked
  <2>2. OneNames(Visible(c)) /\ OneNames(rows)
    BY VisibleRows DEF Locked, OneNames
  <2> QED
    BY <1>1, <2>1, <2>2
<1>3. Unique(Visible(c)')
  <2>1. Visible(c)' = rows'
    <3>1. IsTable(rows')
      BY DropRows
    <3> QED
      BY <1>1, <3>1, OverNone DEF Visible
  <2> QED
    BY <1>2, <2>1
<1>4. ASSUME NEW d \in Client \ {c} PROVE Unique(Visible(d)')
  <2> DEFINE V == Visible(d)
             W == Visible(d)'
  <2>1. /\ DOMAIN W = DOMAIN writes[d] \cup DOMAIN rows'
        /\ \A j \in DOMAIN writes[d] : W[j] = writes[d][j]
        /\ \A j \in DOMAIN rows' \ DOMAIN writes[d] : W[j] = rows'[j]
    <3>1. /\ DOMAIN W = DOMAIN writes'[d] \cup DOMAIN rows'
          /\ \A j \in DOMAIN writes'[d] : W[j] = writes'[d][j]
          /\ \A j \in DOMAIN rows' \ DOMAIN writes'[d] : W[j] = rows'[j]
      BY VisibleRowsNext
    <3> HIDE DEF W
    <3> QED
      BY <1>1, <3>1
  <2>2. ASSUME NEW i \in DOMAIN writes[d], NEW j \in DOMAIN writes[d], i # j
        PROVE  writes[d][i].keys \cap writes[d][j].keys = {}
    BY <2>2, VisibleRows DEF Locked, Unique
  <2>3. ASSUME NEW i \in DOMAIN writes[d], NEW j \in DOMAIN rows' \ DOMAIN writes[d]
        PROVE  writes[d][i].keys \cap rows'[j].keys = {}
    <3>0. \/ j \in DOMAIN rows /\ rows'[j] = rows[j]
          \/ j \in DOMAIN writes[c] /\ rows'[j] = writes[c][j]
      BY <1>1, VisibleParts
    <3>1. CASE j \in DOMAIN rows /\ rows'[j] = rows[j]
      <4>1. writes[d][i].keys \subseteq Holds(d)
        BY DEF Holds
      <4> QED
        BY <3>1, <4>1, RowKeysFree
    <3>2. CASE j \in DOMAIN writes[c] /\ rows'[j] = writes[c][j]
      <4>1. writes[d][i].keys \subseteq Holds(d) /\ writes[c][j].keys \subseteq Holds(c)
        BY <3>2 DEF Holds
      <4>2. Holds(c) \cap Holds(d) = {}
        BY DEF Locked, Apart
      <4> QED
        BY <3>2, <4>1, <4>2
    <3> QED
      BY <3>0, <3>1, <3>2
  <2>4. ASSUME NEW i \in DOMAIN rows', NEW j \in DOMAIN rows', i # j
        PROVE  rows'[i].keys \cap rows'[j].keys = {}
    BY <1>2, <2>4 DEF Unique
  <2> HIDE DEF W
  <2>5. ASSUME NEW i \in DOMAIN W, NEW j \in DOMAIN W, i # j
        PROVE  W[i].keys \cap W[j].keys = {}
    <3>1. CASE i \in DOMAIN writes[d] /\ j \in DOMAIN writes[d]
      BY <2>1, <2>2, <2>5, <3>1
    <3>2. CASE i \in DOMAIN writes[d] /\ j \notin DOMAIN writes[d]
      BY <2>1, <2>3, <2>5, <3>2
    <3>3. CASE i \notin DOMAIN writes[d] /\ j \in DOMAIN writes[d]
      BY <2>1, <2>3, <2>5, <3>3
    <3>4. CASE i \notin DOMAIN writes[d] /\ j \notin DOMAIN writes[d]
      BY <2>1, <2>4, <2>5, <3>4
    <3> QED
      BY <3>1, <3>2, <3>3, <3>4
  <2> QED
    BY <2>5 DEF Unique, W
<1>5. Holds(c)' = {}
  BY <1>1 DEF Holds
<1>6. ASSUME NEW d \in Client \ {c}, NEW k \in Holds(d)' PROVE k \in Holds(d)
  <2>1. CASE \E j \in DOMAIN writes[d] : k \in writes[d][j].keys
    BY <2>1 DEF Holds
  <2>2. ASSUME NEW j \in DOMAIN writes[d] \cap DOMAIN rows', k \in rows'[j].keys
        PROVE  k \in Holds(d)
    <3>1. j \notin DOMAIN writes[c]
      BY DEF Locked, Apart
    <3>2. j \in DOMAIN rows /\ rows'[j] = rows[j]
      BY <1>1, <2>2, <3>1, VisibleParts
    <3> QED
      BY <2>2, <3>2, HeldKeys
  <2>3. \/ \E j \in DOMAIN writes[d] : k \in writes[d][j].keys
        \/ \E j \in DOMAIN writes[d] \cap DOMAIN rows' : k \in rows'[j].keys
    BY <1>1, <1>6, HeldKeysNext
  <2> QED
    BY <2>1, <2>2, <2>3
<1>7. ASSUME NEW d \in Client, NEW e \in Client, d # e PROVE Apart(d, e)'
  <2>1. Apart(d, e)
    BY <1>7 DEF Locked
  <2>2. CASE d = c \/ e = c
    BY <1>1, <1>5, <2>2 DEF Apart
  <2>3. CASE d # c /\ e # c
    BY <1>1, <1>6, <2>1, <2>3 DEF Apart
  <2> QED
    BY <2>2, <2>3
<1>8. ASSUME NEW d \in Client PROVE (Unique(Visible(d)) /\ OneNames(writes[d]))'
  <2>1. CASE d = c
    BY <1>1, <1>3, <2>1 DEF Unique, OneNames
  <2>2. CASE d # c
    BY <1>1, <1>4, <2>2 DEF Locked, Unique, OneNames
  <2> QED
    BY <2>1, <2>2
<1> QED
  BY <1>2, <1>7, <1>8 DEF Locked, Unique, OneNames

(* What the next statement of c may write, nobody else holds.              *)
LEMMA KeysFree ==
  ASSUME NEW c \in Client, NEW keys, KeyAwaits(c, keys) = {}, NEW d \in Client \ {c}
  PROVE  keys \cap Holds(d) = {}
  BY DEF KeyAwaits

LEMMA InsertsLock ==
  ASSUME TypeInv, Locked, NEW c \in Client, Inserts(c)
  PROVE  Locked'
<1> DEFINE keys == req[c].items[1]
<1>1. keys \in Keys /\ OneName(keys)
  BY DEF Inserts, TypeInv, ResourcesTypeOK, Request, Control, Sound, Open, InTx
<1>2. Insert(c, keys) /\ KeyAwaits(c, keys) = {} /\ Clashing(c, keys, {}) = {}
  BY DEF Inserts, Insert
<1> HIDE DEF keys
<1>3. PICK row \in Row : row.keys = keys /\ Write(c, NextId, row)
  BY <1>1, <1>2, InsertedRow
<1>4. Clashing(c, keys, {NextId}) = {}
  BY <1>2 DEF Clashing
<1> QED
  BY <1>1, <1>2, <1>3, <1>4, FreshId, KeysFree, WriteLocks

LEMMA EditsLock ==
  ASSUME TypeInv, Locked, NEW c \in Client, Edits(c)
  PROVE  Locked'
<1> DEFINE i == req[c].id
           old == rows[i]
           row == Edited(c)
<1>1. /\ i \in DOMAIN rows /\ i \in Id /\ row \in Row
      /\ row.keys = IF req[c].items = <<>> THEN old.keys
                    ELSE (old.keys \cap Ext) \cup req[c].items[1]
  BY EditedType DEF Edits
<1>2. Clashing(c, row.keys, {i}) = {} /\ Write(c, i, row)
  BY DEF Edits, Update
<1>3. req[c].items = <<>> \/ req[c].items[1] \subseteq Second
  BY DEF Edits, TypeInv, Control, Sound, Open, InTx
<1>4. OneName(row.keys)
  <2>1. OneName(old.keys)
    BY <1>1 DEF Locked, OneNames
  <2>2. row.keys \cap Ext \subseteq old.keys \cap Ext
    BY <1>1, <1>3, TransactionsAssumption
  <2> QED
    BY <2>1, <2>2 DEF OneName
<1>5. ASSUME NEW d \in Client \ {c}
      PROVE  row.keys \cap Holds(d) = {} /\ i \notin DOMAIN writes[d]
  <2>1. i \notin DOMAIN writes[d]
    BY <1>1 DEF Edits, RowAwaits
  <2>2. old.keys \cap Holds(d) = {}
    BY <1>1, <2>1, RowKeysFree
  <2>3. NewName(c) \cap Holds(d) = {}
    BY KeysFree DEF Edits
  <2>4. row.keys \subseteq old.keys \cup NewName(c)
    BY <1>1 DEF NewName
  <2> QED
    BY <2>1, <2>2, <2>3, <2>4
<1> HIDE DEF i, row, old
<1> QED
  BY <1>1, <1>2, <1>4, <1>5, WriteLocks

LEMMA IllustratesLock ==
  ASSUME TypeInv, Locked, NEW c \in Client, Illustrates(c)
  PROVE  Locked'
<1> DEFINE i == req[c].id
           row == [rows[i] EXCEPT !.image = c]
<1>1. row \in Row /\ i \in Id /\ i \in DOMAIN rows /\ row.keys = rows[i].keys
  BY IllustratedType DEF Illustrates
<1>2. Clashing(c, row.keys, {i}) = {} /\ Write(c, i, row) /\ RowAwaits(c, i) = {}
  BY DEF Illustrates, Update
<1> HIDE DEF i, row
<1>3. OneName(row.keys)
  BY <1>1 DEF Locked, OneNames
<1>4. ASSUME NEW d \in Client \ {c}
      PROVE  row.keys \cap Holds(d) = {} /\ i \notin DOMAIN writes[d]
  BY <1>1, <1>2, RowKeysFree DEF RowAwaits
<1> QED
  BY <1>1, <1>2, <1>3, <1>4, WriteLocks

(* A row of c's that has the item's name is no other's.                    *)
LEMMA MineFree ==
  ASSUME TypeInv, Locked, NEW c \in Client, KeyAwaits(c, Item(c)) = {}, NEW i \in Mine(c),
         NEW d \in Client \ {c}
  PROVE  i \notin DOMAIN writes[d]
<1>1. i \in DOMAIN Visible(c) /\ Visible(c)[i].keys \cap Item(c) \cap Ext # {}
  BY DEF Mine
<1>2. CASE i \in DOMAIN writes[c]
  BY <1>2 DEF Locked, Apart
<1>3. ASSUME i \notin DOMAIN writes[c], i \in DOMAIN writes[d] PROVE FALSE
  <2>1. i \in DOMAIN rows /\ Visible(c)[i] = rows[i]
    BY <1>1, <1>3, VisibleRows
  <2>2. PICK k \in rows[i].keys : k \in Item(c)
    BY <1>1, <2>1
  <2>3. k \in Holds(d)
    BY <1>3, <2>1, <2>2, HeldKeys
  <2> QED
    BY <2>2, <2>3, KeysFree
<1> QED
  BY <1>2, <1>3

LEMMA UpsertsLock ==
  ASSUME TypeInv, Locked, NEW c \in Client, Upserts(c)
  PROVE  Locked'
<1>1. PICK i \in Id, row \in Row :
         /\ Write(c, i, row) /\ row.keys = Item(c)
         /\ \/ i = NextId /\ Clashing(c, Item(c), {}) = {}
            \/ i \in Mine(c) /\ Clashing(c, Item(c), {i}) = {}
  BY UpsertedRow
<1>2. Clashing(c, row.keys, {i}) = {}
  BY <1>1 DEF Clashing
<1>3. OneName(Item(c))
  BY DEF Upserts, TypeInv, Control, Sound, Open, InTx, Item
<1>4. KeyAwaits(c, Item(c)) = {}
  BY DEF Upserts
<1>5. ASSUME NEW d \in Client \ {c}
      PROVE  row.keys \cap Holds(d) = {} /\ i \notin DOMAIN writes[d]
  BY <1>1, <1>4, FreshId, MineFree, KeysFree
<1> QED
  BY <1>1, <1>2, <1>3, <1>5, WriteLocks

LEMMA StepLocks ==
  ASSUME TypeInv, Locked, NEW c \in Client, Steps(c)
  PROVE  Locked'
<1>1. CASE UNCHANGED store
  <2>1. rows' = rows /\ writes' = writes
    BY <1>1 DEF store
  <2>2. \A d \in Client : Visible(d)' = Visible(d) /\ Holds(d)' = Holds(d)
    BY <2>1 DEF Visible, Holds
  <2> QED
    BY <2>1, <2>2 DEF Locked, Unique, OneNames, Apart
<1>2. CASE Begins(c) \/ Told(c) \/ PageOf(c, subject) \/ Proceeds(c) \/ Leave(c)
  BY <1>1, <1>2 DEF Begins, Told, PageOf, Proceeds, Leave
<1>3. CASE Fails(c) \/ Finish(c) \/ CommitFails(c) \/ HangUp(c)
  BY <1>3, EndLocks DEF Fails, Fail, Finish, CommitFails, HangUp
<1> QED
  BY <1>2, <1>3, InsertsLock, EditsLock, IllustratesLock, UpsertsLock DEF Steps

-----------------------------------------------------------------------------
(* Another's step leaves what a transaction has written as it was.         *)

LEMMA OthersRows ==
  ASSUME TypeInv, Locked, NEW c \in Client, NEW d \in Client \ {c},
         rows' = rows \/ rows' = Visible(c), NEW i \in DOMAIN writes[d]
  PROVE  /\ i \in DOMAIN rows' <=> i \in DOMAIN rows
         /\ i \in DOMAIN rows => rows'[i] = rows[i]
<1>1. i \notin DOMAIN writes[c]
  BY DEF Locked, Apart
<1> QED
  BY <1>1, VisibleRows

LEMMA BatchedStays ==
  ASSUME TypeInv, Locked, NEW c \in Client, NEW d \in Client \ {c},
         rows' = rows \/ rows' = Visible(c), writes'[d] = writes[d],
         req'[d].items = req[d].items, NEW k, Batched(d, k)
  PROVE  Batched(d, k)'
<1>1. \A i \in DOMAIN writes[d] : /\ i \in DOMAIN rows' <=> i \in DOMAIN rows
                                  /\ i \in DOMAIN rows => rows'[i] = rows[i]
  BY OthersRows
<1>2. NamelessRows(d)' = NamelessRows(d)
  BY <1>1 DEF NamelessRows
<1>3. Nameless(d, k)' = Nameless(d, k)
  BY DEF Nameless
<1>4. DOMAIN writes'[d] \cap DOMAIN rows' = DOMAIN writes[d] \cap DOMAIN rows
  BY <1>1
<1> QED
  BY <1>1, <1>2, <1>3, <1>4 DEF Batched

LEMMA WrittenStays ==
  ASSUME TypeInv, Locked, NEW c \in Client, NEW d \in Client \ {c},
         rows' = rows \/ rows' = Visible(c), writes'[d] = writes[d], req'[d] = req[d],
         Written(d)
  PROVE  Written(d)'
<1>1. \A i \in DOMAIN writes[d] : /\ i \in DOMAIN rows' <=> i \in DOMAIN rows
                                  /\ i \in DOMAIN rows => rows'[i] = rows[i]
  BY OthersRows
<1>2. ASSUME req[d].phase = "commit", req[d].op \in {"create", "upsert"}
      PROVE  \E i \in Id \ DOMAIN rows' : Only(d, i, NewRow(d, req[d].items[1]))'
  <2>1. PICK i \in Id \ DOMAIN rows : Only(d, i, NewRow(d, req[d].items[1]))
    BY <1>2 DEF Written
  <2> QED
    BY <1>1, <2>1 DEF Only, NewRow
<1>3. ASSUME req[d].phase = "commit", req[d].op = "update"
      PROVE  req[d].id \in DOMAIN rows' /\ Only(d, req[d].id, Edited(d))'
  <2>1. req[d].id \in DOMAIN rows /\ Only(d, req[d].id, Edited(d))
    BY <1>3 DEF Written
  <2>2. req[d].id \in DOMAIN rows' /\ rows'[req[d].id] = rows[req[d].id]
    BY <1>1, <2>1 DEF Only
  <2>3. Edited(d)' = Edited(d)
    BY <2>2 DEF Edited
  <2> QED
    BY <2>1, <2>2, <2>3 DEF Only
<1>4. ASSUME req[d].phase = "commit", req[d].op = "upload"
      PROVE  /\ req[d].id \in DOMAIN rows'
             /\ Only(d, req[d].id, [rows[req[d].id] EXCEPT !.image = d])'
  <2>1. /\ req[d].id \in DOMAIN rows
        /\ Only(d, req[d].id, [rows[req[d].id] EXCEPT !.image = d])
    BY <1>4 DEF Written
  <2>2. req[d].id \in DOMAIN rows' /\ rows'[req[d].id] = rows[req[d].id]
    BY <1>1, <2>1 DEF Only
  <2> QED
    BY <2>1, <2>2 DEF Only
<1>5. ASSUME req[d].phase = "commit", req[d].op = "batch"
      PROVE  Batched(d, Len(req[d].items))'
  <2>1. PICK k : k = Len(req[d].items)
    OBVIOUS
  <2>2. Batched(d, k)'
    BY <1>5, <2>1, BatchedStays DEF Written
  <2>3. (Len(req[d].items))' = k
    BY <2>1
  <2>4. Nameless(d, k)' = Nameless(d, Len(req[d].items))'
    BY <2>3 DEF Nameless
  <2> QED
    BY <2>2, <2>3, <2>4 DEF Batched
<1>6. ASSUME req[d].phase = "run", req[d].op = "batch"
      PROVE  Batched(d, req[d].at - 1)'
  <2>1. PICK k : k = req[d].at - 1
    OBVIOUS
  <2>2. Batched(d, k)'
    BY <1>6, <2>1, BatchedStays DEF Written
  <2>3. (req[d].at - 1)' = k
    BY <2>1
  <2>4. Nameless(d, k)' = Nameless(d, req[d].at - 1)'
    BY <2>3 DEF Nameless
  <2> QED
    BY <2>2, <2>3, <2>4 DEF Batched
<1> QED
  BY <1>2, <1>3, <1>4, <1>5, <1>6 DEF Written

-----------------------------------------------------------------------------
(* A step leaves what its own transaction has to have written.             *)

(* The first k items, of which the last is being written.                  *)
LEMMA NamelessGrows ==
  ASSUME TypeInv, NEW c \in Client, Upserts(c), req'[c].items = req[c].items,
         NEW k, k = req[c].at
  PROVE  /\ Nameless(c, k)' = IF Item(c) \cap Ext = {} THEN Nameless(c, k - 1) \cup {k}
                              ELSE Nameless(c, k - 1)
         /\ k \notin Nameless(c, k - 1) /\ IsFiniteSet(Nameless(c, k - 1))
<1>1. k \in 1..Len(req[c].items) /\ Item(c) = req[c].items[k]
  BY DEF Upserts, TypeInv, Control, InTx, Item
<1>2. k \in Nat /\ Len(req[c].items) \in Nat
  BY DEF TypeInv, ResourcesTypeOK, Request
<1>3. 1..k = (1..(k - 1)) \cup {k} /\ k \notin 1..(k - 1)
  BY <1>1, <1>2
<1>4. IsFiniteSet(1..(k - 1))
  <2>1. 1 \in Int /\ k - 1 \in Int
    BY <1>2
  <2> QED
    BY <2>1, FS_Interval
<1>5. IsFiniteSet(Nameless(c, k - 1))
  <2>1. Nameless(c, k - 1) \subseteq 1..(k - 1)
    BY DEF Nameless
  <2> QED
    BY <1>4, <2>1, FS_Subset
<1> QED
  BY <1>1, <1>3, <1>5 DEF Nameless

(* Two keys of one row that share an external id have the same.            *)
LEMMA SameName ==
  ASSUME NEW keys, NEW item, OneName(keys), OneName(item), keys \cap item \cap Ext # {}
  PROVE  keys \cap Ext = item \cap Ext
  BY DEF OneName

LEMMA MineNamed ==
  ASSUME TypeInv, Locked, NEW c \in Client, Upserts(c), NEW i \in Mine(c)
  PROVE  /\ i \in DOMAIN Visible(c) /\ Item(c) \cap Ext # {}
         /\ Visible(c)[i].keys \cap Ext = Item(c) \cap Ext
<1>1. i \in DOMAIN Visible(c) /\ Visible(c)[i].keys \cap Item(c) \cap Ext # {}
  BY DEF Mine
<1>2. OneName(Item(c))
  BY DEF Upserts, TypeInv, Control, Sound, Open, InTx, Item
<1>3. OneName(Visible(c)[i].keys)
  BY <1>1, VisibleRows DEF Locked, OneNames
<1> QED
  BY <1>1, <1>2, <1>3, SameName

LEMMA BatchGrows ==
  ASSUME TypeInv, Locked, NEW c \in Client, Upserts(c), req'[c].items = req[c].items,
         NEW k, k = req[c].at, Batched(c, k - 1)
  PROVE  Batched(c, k)'
<1> DEFINE item == Item(c)
           W == writes[c]
           U == writes'[c]
           B == req[c].items
<1>0. /\ k \in 1..Len(B) /\ item = B[k] /\ OneName(item) /\ k \in Nat
      /\ \A n \in 1..(k - 1) : n \in 1..k
      /\ \A n \in 1..k : n \in 1..(k - 1) \/ n = k
  <2>1. k \in 1..Len(B) /\ item = B[k]
    BY DEF Upserts, TypeInv, Control, InTx, Item
  <2>2. Len(B) \in Nat /\ k \in Nat
    BY DEF TypeInv, ResourcesTypeOK, Request
  <2>3. \A n \in 1..Len(B) : OneName(B[n])
    BY DEF Upserts, TypeInv, Control, Sound, Open, InTx
  <2> HIDE DEF B, item
  <2> QED
    BY <2>1, <2>2, <2>3
<1>1. PICK i \in Id, row \in Row :
         /\ Write(c, i, row) /\ row.keys = item /\ row.by = c
         /\ (i = NextId /\ Mine(c) = {}) \/ i \in Mine(c)
  BY UpsertedRow
<1>2. /\ rows' = rows /\ DOMAIN U = DOMAIN W \cup {i} /\ U[i] = row
      /\ \A j \in DOMAIN W \ {i} : U[j] = W[j]
  BY <1>1, WriteHolds
<1>3. i \in Mine(c) => item \cap Ext # {}
  BY MineNamed
<1>4. i \in Mine(c) => i \in DOMAIN W \cup DOMAIN rows
  BY MineNamed, VisibleRows
<1>5. i \in Mine(c) /\ i \in DOMAIN W => W[i].keys \cap Ext = item \cap Ext
  BY MineNamed, VisibleRows
<1>6. i \in Mine(c) /\ i \notin DOMAIN W => rows[i].keys \cap Ext = item \cap Ext
  BY MineNamed, VisibleRows
<1>7. i = NextId => i \notin DOMAIN W /\ i \notin DOMAIN rows
  BY FreshId
<1>8. (Mine(c) = {} /\ i = NextId) \/ i \in Mine(c)
  BY <1>1
<1>9. /\ \A j \in DOMAIN W : W[j].by = c /\ \E n \in 1..(k - 1) : W[j].keys = B[n]
      /\ \A j \in DOMAIN W \cap DOMAIN rows : \E n \in 1..(k - 1) :
           rows[j].keys \cap Ext = B[n] \cap Ext /\ rows[j].keys \cap Ext # {}
      /\ \A n \in 1..(k - 1) : B[n] \cap Ext # {} =>
           \E j \in DOMAIN W : W[j].keys \cap Ext = B[n] \cap Ext
      /\ Cardinality(NamelessRows(c)) = Cardinality(Nameless(c, k - 1))
  BY DEF Batched
<1>10. item \cap Ext = {} => i = NextId
  BY <1>3, <1>8
<1>11. Cardinality(NamelessRows(c)') = Cardinality(Nameless(c, k)')
  <2>1. /\ Nameless(c, k)' = IF item \cap Ext = {} THEN Nameless(c, k - 1) \cup {k}
                             ELSE Nameless(c, k - 1)
        /\ k \notin Nameless(c, k - 1) /\ IsFiniteSet(Nameless(c, k - 1))
    BY NamelessGrows
  <2>2. IsFiniteSet(NamelessRows(c))
    <3>1. NamelessRows(c) \subseteq DOMAIN W /\ IsFiniteSet(DOMAIN W)
      BY Tables DEF NamelessRows, IsTable
    <3> QED
      BY <3>1, FS_Subset
  <2>3. ASSUME NEW j \in Id
        PROVE  /\ j \in NamelessRows(c) <=>
                    j \in DOMAIN W /\ j \notin DOMAIN rows /\ W[j].keys \cap Ext = {}
               /\ j \in NamelessRows(c)' <=>
                    j \in DOMAIN U /\ j \notin DOMAIN rows /\ U[j].keys \cap Ext = {}
    BY <1>2 DEF NamelessRows
  <2>4. NamelessRows(c) \subseteq Id /\ NamelessRows(c)' \subseteq Id
    <3>1. DOMAIN W \subseteq Id
      BY Tables DEF IsTable
    <3>2. NamelessRows(c) \subseteq DOMAIN W /\ NamelessRows(c)' \subseteq DOMAIN U
      BY DEF NamelessRows
    <3> HIDE DEF W, U
    <3> QED
      BY <1>2, <3>1, <3>2
  <2>5. CASE item \cap Ext = {}
    <3>0. i \notin DOMAIN W /\ i \notin DOMAIN rows
      BY <1>7, <1>10, <2>5
    <3>1. NamelessRows(c)' = NamelessRows(c) \cup {i} /\ i \notin NamelessRows(c)
      <4> HIDE DEF W, U, item
      <4> QED
        BY <1>1, <1>2, <2>3, <2>4, <2>5, <3>0
    <3>2. /\ Cardinality(NamelessRows(c)') = Cardinality(NamelessRows(c)) + 1
          /\ Cardinality(Nameless(c, k)') = Cardinality(Nameless(c, k - 1)) + 1
      <4>1. \A S, x : IsFiniteSet(S) /\ x \notin S
                        => Cardinality(S \cup {x}) = Cardinality(S) + 1
        BY FS_AddElement
      <4>2. Nameless(c, k)' = Nameless(c, k - 1) \cup {k}
        BY <2>1, <2>5
      <4> QED
        BY <2>1, <2>2, <3>1, <4>1, <4>2
    <3> QED
      BY <1>9, <3>2
  <2>6. CASE item \cap Ext # {}
    <3>1. i \in DOMAIN W => W[i].keys \cap Ext # {}
      BY <1>5, <1>7, <1>8, <2>6
    <3>2. NamelessRows(c)' = NamelessRows(c)
      <4> HIDE DEF W, U, item
      <4> QED
        BY <1>1, <1>2, <2>3, <2>4, <2>6, <3>1
    <3> QED
      BY <1>9, <2>1, <2>6, <3>2
  <2> QED
    BY <2>5, <2>6
<1> HIDE DEF W, U, B, item
<1>12. ASSUME NEW j \in DOMAIN U
       PROVE  U[j].by = c /\ \E n \in 1..k : U[j].keys = B[n]
  BY <1>0, <1>1, <1>2, <1>9
<1>13. ASSUME NEW j \in DOMAIN U \cap DOMAIN rows
       PROVE  \E n \in 1..k : rows[j].keys \cap Ext = B[n] \cap Ext /\ rows[j].keys \cap Ext # {}
  <2>1. CASE j \in DOMAIN W
    BY <1>0, <1>9, <2>1
  <2>2. CASE j \notin DOMAIN W
    <3>1. j = i /\ i \in Mine(c)
      BY <1>2, <1>7, <1>8, <2>2
    <3> QED
      BY <1>0, <1>3, <1>6, <2>2, <3>1
  <2> QED
    BY <2>1, <2>2
<1>14. ASSUME NEW n \in 1..k, B[n] \cap Ext # {}
       PROVE  \E j \in DOMAIN U : U[j].keys \cap Ext = B[n] \cap Ext
  <2>1. CASE n = k
    BY <1>0, <1>1, <1>2, <2>1
  <2>2. CASE n # k
    <3>1. PICK j \in DOMAIN W : W[j].keys \cap Ext = B[n] \cap Ext
      BY <1>0, <1>9, <1>14, <2>2
    <3>2. CASE j = i
      <4>1. item \cap Ext = B[n] \cap Ext
        BY <1>5, <1>7, <1>8, <3>1, <3>2
      <4> QED
        BY <1>1, <1>2, <4>1
    <3>3. CASE j # i
      BY <1>2, <3>1, <3>3
    <3> QED
      BY <3>2, <3>3
  <2> QED
    BY <2>1, <2>2
<1>15. rows' = rows /\ U = writes'[c] /\ B = req'[c].items
  BY <1>2 DEF U, B
<1> QED
  BY <1>11, <1>12, <1>13, <1>14, <1>15 DEF Batched

LEMMA NothingBatched ==
  ASSUME NEW c \in Client, DOMAIN writes'[c] = {}, NEW k, k = 0
  PROVE  Batched(c, k)'
<1>1. 1..k = {}
  OBVIOUS
<1>2. NamelessRows(c)' = {} /\ Nameless(c, k)' = {}
  BY <1>1 DEF NamelessRows, Nameless
<1> QED
  BY <1>1, <1>2 DEF Batched

LEMMA BeginsWrites ==
  ASSUME TypeInv, NEW c \in Client, Begins(c)
  PROVE  Written(c)'
<1>1. PICK r \in Request :
         /\ r.at = 1 /\ req' = [req EXCEPT ![c] = r]
         /\ r.phase = IF r.op = "batch" /\ r.items = <<>> THEN "commit" ELSE "run"
  BY DEF Begins
<1>2. req'[c] = r
  BY <1>1, SetReq
<1>3. DOMAIN writes'[c] = {}
  <2>1. ~Open(c)
    BY DEF Begins, Open, InTx
  <2> QED
    BY <2>1, EmptyTable DEF Begins, store, TypeInv, ResourcesTypeOK
<1>4. PICK k : k = 0
  OBVIOUS
<1>5. Batched(c, k)'
  BY <1>3, <1>4, NothingBatched
<1>6. ASSUME r.op = "batch", r.items = <<>>
      PROVE  Batched(c, Len(req[c].items))'
  <2>1. Len(req[c].items)' = k
    BY <1>2, <1>4, <1>6
  <2>2. Nameless(c, k)' = Nameless(c, Len(req[c].items))'
    BY <2>1 DEF Nameless
  <2> QED
    BY <1>5, <2>1, <2>2 DEF Batched
<1>7. Batched(c, req[c].at - 1)'
  <2>1. (req[c].at - 1)' = k
    BY <1>1, <1>2, <1>4
  <2>2. Nameless(c, k)' = Nameless(c, req[c].at - 1)'
    BY <2>1 DEF Nameless
  <2> QED
    BY <1>5, <2>1, <2>2 DEF Batched
<1> QED
  BY <1>1, <1>2, <1>6, <1>7 DEF Written

(* The statement of a request that writes one row.                         *)
LEMMA OneRow ==
  ASSUME TypeInv, NEW c \in Client, req[c].phase \in InTx, req[c].op # "batch",
         NEW i \in Id, NEW row \in Row, Write(c, i, row)
  PROVE  DOMAIN writes'[c] = {i} /\ writes'[c][i] = row /\ rows' = rows
<1>1. writes[c] = NoRows
  BY DEF TypeInv, Control
<1> QED
  BY <1>1, EmptyTable, WriteHolds

LEMMA InsertsWrites ==
  ASSUME TypeInv, NEW c \in Client, Inserts(c)
  PROVE  Written(c)'
<1> DEFINE keys == req[c].items[1]
<1>1. keys \in Keys
  BY DEF Inserts, TypeInv, ResourcesTypeOK, Request, Control, Sound, Open, InTx
<1>2. NewRow(c, keys) \in Row /\ Write(c, NextId, NewRow(c, keys))
  BY <1>1 DEF Inserts, Insert, NewRow, Row
<1>3. NextId \in Id /\ NextId \notin DOMAIN rows
  BY FreshId
<1>4. req[c].phase \in InTx /\ req[c].op # "batch"
  BY DEF Inserts, InTx
<1>5. PICK i : i = NextId
  OBVIOUS
<1> HIDE DEF keys
<1>6. /\ i \in Id \ DOMAIN rows /\ DOMAIN writes'[c] = {i} /\ writes'[c][i] = NewRow(c, keys)
      /\ rows' = rows
  BY <1>2, <1>3, <1>4, <1>5, OneRow
<1>7. /\ req'[c].phase = "commit" /\ req'[c].op = req[c].op
      /\ req'[c].items = req[c].items /\ req[c].op \in {"create", "upsert"}
  BY GotoReq DEF Inserts, Phase
<1>8. Only(c, i, NewRow(c, req[c].items[1]))'
  BY <1>6, <1>7 DEF Only, NewRow, keys
<1> QED
  BY <1>6, <1>7, <1>8 DEF Written

LEMMA EditsWrites ==
  ASSUME TypeInv, NEW c \in Client, Edits(c)
  PROVE  Written(c)'
<1> DEFINE i == req[c].id
<1>1. /\ Edited(c) \in Row /\ i \in Id /\ i \in DOMAIN rows /\ Write(c, i, Edited(c))
  BY EditedType DEF Edits, Update
<1>2. req[c].phase \in InTx /\ req[c].op = "update"
  BY DEF Edits, InTx
<1>3. /\ req'[c].phase = "commit" /\ req'[c].op = req[c].op /\ req'[c].id = req[c].id
      /\ req'[c].items = req[c].items /\ req'[c].bump = req[c].bump
  BY GotoReq DEF Edits, Phase
<1>4. DOMAIN writes'[c] = {i} /\ writes'[c][i] = Edited(c) /\ rows' = rows
  <2> HIDE DEF i
  <2> QED
    BY <1>1, <1>2, OneRow
<1>5. Edited(c)' = Edited(c)
  BY <1>3, <1>4 DEF Edited
<1>6. Only(c, req[c].id, Edited(c))'
  BY <1>3, <1>4, <1>5 DEF Only
<1> QED
  BY <1>1, <1>2, <1>3, <1>4, <1>6 DEF Written

LEMMA IllustratesWrites ==
  ASSUME TypeInv, NEW c \in Client, Illustrates(c)
  PROVE  Written(c)'
<1> DEFINE i == req[c].id
           row == [rows[i] EXCEPT !.image = c]
<1>1. /\ row \in Row /\ i \in Id /\ i \in DOMAIN rows /\ Write(c, i, row)
  BY IllustratedType DEF Illustrates, Update
<1>2. req[c].phase \in InTx /\ req[c].op = "upload"
  BY DEF Illustrates, InTx
<1>3. req'[c].phase = "commit" /\ req'[c].op = req[c].op /\ req'[c].id = req[c].id
  BY GotoReq DEF Illustrates, Phase
<1>4. DOMAIN writes'[c] = {i} /\ writes'[c][i] = row /\ rows' = rows
  <2> HIDE DEF i, row
  <2> QED
    BY <1>1, <1>2, OneRow
<1>5. Only(c, req[c].id, [rows[req[c].id] EXCEPT !.image = c])'
  BY <1>3, <1>4 DEF Only
<1> QED
  BY <1>1, <1>2, <1>3, <1>4, <1>5 DEF Written

LEMMA UpsertsWrites ==
  ASSUME TypeInv, Locked, NEW c \in Client, Written(c), Upserts(c)
  PROVE  Written(c)'
<1>1. PICK k : k = req[c].at
  OBVIOUS
<1>2. Batched(c, k - 1) /\ k \in Nat
  BY <1>1 DEF Upserts, Written, TypeInv, ResourcesTypeOK, Request
<1>3. CASE req[c].at = Len(req[c].items) /\ Goto(c, "commit")
  <2>1. /\ req'[c].phase = "commit" /\ req'[c].op = "batch"
        /\ req'[c].items = req[c].items
    BY <1>3, GotoReq DEF Upserts, Phase
  <2>2. Batched(c, k)'
    BY <1>1, <1>2, <2>1, BatchGrows
  <2>3. Len(req[c].items)' = k
    BY <1>1, <1>3, <2>1
  <2>4. Nameless(c, k)' = Nameless(c, Len(req[c].items))'
    BY <2>3 DEF Nameless
  <2>5. Batched(c, Len(req[c].items))'
    BY <2>2, <2>3, <2>4 DEF Batched
  <2> QED
    BY <2>1, <2>5 DEF Written
<1>4. CASE req[c].at # Len(req[c].items) /\ req' = [req EXCEPT ![c].at = @ + 1]
  <2>1. /\ req'[c].phase = "run" /\ req'[c].op = "batch"
        /\ req'[c].items = req[c].items /\ req'[c].at = req[c].at + 1
    BY <1>4, NextItem DEF Upserts
  <2>2. Batched(c, k)'
    BY <1>1, <1>2, <2>1, BatchGrows
  <2>3. (req[c].at - 1)' = k
    BY <1>1, <1>2, <2>1
  <2>4. Nameless(c, k)' = Nameless(c, req[c].at - 1)'
    BY <2>3 DEF Nameless
  <2>5. Batched(c, req[c].at - 1)'
    BY <2>2, <2>3, <2>4 DEF Batched
  <2> QED
    BY <2>1, <2>5 DEF Written
<1> QED
  BY <1>3, <1>4 DEF Upserts

(* A client that has no transaction has nothing to have written.           *)
LEMMA NoneWritten ==
  ASSUME NEW c \in Client, req'[c].phase \notin {"run", "commit"}
  PROVE  Written(c)'
  BY DEF Written

LEMMA StepOwn ==
  ASSUME TypeInv, Locked, NEW c \in Client, Written(c), Steps(c)
  PROVE  Written(c)'
<1>1. CASE Told(c) \/ Fails(c) \/ Finish(c) \/ CommitFails(c) \/ HangUp(c) \/ Leave(c)
  BY <1>1, EndingRows, NoneWritten DEF Ended, Idle
<1>2. CASE PageOf(c, subject)
  <2>1. CASE \E code \in {400, 403, 500} : Answer(c, code)
    <3>1. PICK code \in {400, 403, 500} : Answer(c, code)
      BY <2>1
    <3>2. code \in Code \ {0}
      BY DEF Code
    <3>3. req'[c].phase = "answered"
      BY <3>1, <3>2, AnswerReq
    <3> QED
      BY <3>3, NoneWritten
  <2>2. ASSUME NEW r \in Request, NEW shown \in SUBSET Id,
               req' = [req EXCEPT ![c] = r], Turned(c, r, shown)
        PROVE  Written(c)'
    <3>1. req'[c] = r /\ r.phase \in {"walk", "answered"}
      BY <2>2, SetReq DEF Turned
    <3> QED
      BY <3>1, NoneWritten
  <2> QED
    BY <1>2, <2>1, <2>2, PageTurns
<1>3. CASE Proceeds(c)
  <2>1. PICK phase \in {"put", "write"} : Goto(c, phase)
    BY <1>3 DEF Proceeds
  <2>2. req'[c].phase = phase
    BY <2>1, GotoReq DEF Phase
  <2> QED
    BY <2>1, <2>2, NoneWritten
<1> QED
  BY <1>1, <1>2, <1>3, BeginsWrites, InsertsWrites, EditsWrites, IllustratesWrites,
     UpsertsWrites DEF Steps

LEMMA StepOthers ==
  ASSUME TypeInv, NEW c \in Client, Steps(c)
  PROVE  /\ rows' = rows \/ rows' = Visible(c)
         /\ \A d \in Client \ {c} : req'[d] = req[d] /\ writes'[d] = writes[d]
<1>1. CASE Told(c) \/ Fails(c) \/ Finish(c) \/ CommitFails(c) \/ HangUp(c) \/ Leave(c)
  <2>1. \A d \in Client \ {c} : writes'[d] = writes[d]
    BY <1>1, DropRows DEF Told, Fails, Fail, Finish, CommitFails, HangUp, Leave, store
  <2> QED
    BY <1>1, <2>1, EndingRows DEF Ended
<1>2. CASE PageOf(c, subject)
  <2>1. rows' = rows /\ writes' = writes
    BY <1>2 DEF PageOf, store
  <2>2. CASE \E code \in {400, 403, 500} : Answer(c, code)
    <3>1. PICK code \in {400, 403, 500} : Answer(c, code)
      BY <2>2
    <3>2. code \in Code \ {0}
      BY DEF Code
    <3>3. Ended(c)
      BY <3>1, <3>2, EndedAnswer
    <3> QED
      BY <2>1, <3>3 DEF Ended
  <2> QED
    BY <1>2, <2>1, <2>2, PageTurns, SetReq
<1>3. CASE \/ Begins(c) \/ Inserts(c) \/ Edits(c) \/ Illustrates(c) \/ Upserts(c)
           \/ Proceeds(c)
  <2>1. rows' = rows /\ \A d \in Client \ {c} : req'[d] = req[d]
    BY <1>3, OpenKeepsNone
  <2>2. \A d \in Client \ {c} : writes'[d] = writes[d]
    BY <1>3 DEF Begins, Inserts, Edits, Illustrates, Upserts, Proceeds, Insert, Update,
       Write, store, TypeInv, ResourcesTypeOK
  <2> QED
    BY <2>1, <2>2
<1> QED
  BY <1>1, <1>2, <1>3 DEF Steps

LEMMA NextStore == TypeInv /\ StoreInv /\ [ResourcesNext]_vars => StoreInv'
<1> SUFFICES ASSUME TypeInv, StoreInv, [ResourcesNext]_vars PROVE StoreInv'
  OBVIOUS
<1>1. CASE UNCHANGED vars
  <2>1. rows' = rows /\ writes' = writes /\ req' = req
    BY <1>1 DEF vars
  <2>2. \A d \in Client : Visible(d)' = Visible(d) /\ Holds(d)' = Holds(d)
    BY <2>1 DEF Visible, Holds
  <2>3. Locked'
    BY <2>1, <2>2 DEF StoreInv, Locked, Unique, OneNames, Apart
  <2>4. ASSUME NEW d \in Client PROVE Written(d)'
    <3>1. NamelessRows(d)' = NamelessRows(d)
      BY <2>1 DEF NamelessRows
    <3>2. Nameless(d, Len(req[d].items))' = Nameless(d, Len(req[d].items))
      BY <2>1 DEF Nameless
    <3>3. Nameless(d, req[d].at - 1)' = Nameless(d, req[d].at - 1)
      BY <2>1 DEF Nameless
    <3>4. Batched(d, Len(req[d].items))' <=> Batched(d, Len(req[d].items))
      BY <2>1, <3>1, <3>2 DEF Batched
    <3>5. Batched(d, req[d].at - 1)' <=> Batched(d, req[d].at - 1)
      BY <2>1, <3>1, <3>3 DEF Batched
    <3> QED
      BY <2>1, <3>4, <3>5 DEF StoreInv, Written, Only, NewRow, Edited
  <2> QED
    BY <2>3, <2>4 DEF StoreInv
<1>2. ASSUME NEW c \in Client, Steps(c) PROVE StoreInv'
  <2>1. Locked'
    BY <1>2, StepLocks DEF StoreInv
  <2>2. Written(c)'
    BY <1>2, StepOwn DEF StoreInv
  <2>3. ASSUME NEW d \in Client \ {c} PROVE Written(d)'
    BY <1>2, StepOthers, WrittenStays DEF StoreInv
  <2> QED
    BY <2>1, <2>2, <2>3 DEF StoreInv
<1> QED
  BY <1>1, <1>2, StepKinds

LEMMA InitStoreInv == ResourcesInit => StoreInv
<1> SUFFICES ASSUME ResourcesInit PROVE StoreInv
  OBVIOUS
<1> DEFINE row == [keys |-> Preload[subject], by |-> Seed, version |-> 1, image |-> Seed]
<1>1. rows = Put(NoRows, 1, row) /\ row.keys = Preload[subject] /\ subject \in AllKinds
  BY ResourcesAssumption DEF ResourcesInit
<1> HIDE DEF row
<1>2. DOMAIN rows = {1} /\ rows[1] = row /\ OneName(row.keys)
  <2>1. Given(NoRows, 1, row, Put(NoRows, 1, row))
    BY PutGiven
  <2> QED
    BY <1>1, <2>1, EmptyTable, ResourcesAssumption DEF Given
<1>3. \A c \in Client : writes[c] = NoRows /\ req[c] = Idle
  BY DEF ResourcesInit
<1>4. Unique(rows) /\ OneNames(rows)
  BY <1>2 DEF Unique, OneNames
<1>5. ASSUME NEW c \in Client
      PROVE  Unique(Visible(c)) /\ OneNames(writes[c]) /\ DOMAIN writes[c] = {} /\ Holds(c) = {}
  <2>1. DOMAIN writes[c] = {}
    BY <1>3, EmptyTable
  <2>2. Visible(c) = rows
    BY <1>3, InitTypes, OverNone DEF Visible, TypeInv, ResourcesTypeOK
  <2> QED
    BY <1>4, <2>1, <2>2 DEF OneNames, Holds
<1>6. ASSUME NEW c \in Client PROVE Written(c)
  BY <1>3 DEF Written, Idle
<1> QED
  BY <1>4, <1>5, <1>6 DEF StoreInv, Locked, Apart

(* No two rows of a table ever share a unique key, and no two open         *)
(* transactions a row or a key: it is the waits that see to it, since a    *)
(* statement checks the keys of the rows it sees only.                     *)
THEOREM RowsStayUnique ==
  ResourcesSpec => [](Unique(rows) /\ \A c, d \in Client : c # d => Apart(c, d))
<1>1. StoreInv => Unique(rows) /\ \A c, d \in Client : c # d => Apart(c, d)
  BY DEF StoreInv, Locked
<1> QED
  BY <1>1, TypesSafe, InitStoreInv, NextStore, PTL DEF ResourcesSpec

-----------------------------------------------------------------------------
(* The promise of Store is kept.                                           *)

LEMMA SameCardinality ==
  ASSUME NEW S
  PROVE  Promise!Cardinality(S) = Cardinality(S)
  BY DEF Cardinality, Promise!Cardinality

LEMMA VisibleFunction ==
  ASSUME TypeInv, NEW c \in Client
  PROVE  Visible(c) = [i \in DOMAIN writes[c] \cup DOMAIN rows |->
                         IF i \in DOMAIN writes[c] THEN writes[c][i] ELSE rows[i]]
  BY DEF Visible, Over

LEMMA CreatedEffect ==
  ASSUME TypeInv, StoreInv, NEW c \in Client, NEW keys, NEW i \in Id \ DOMAIN rows,
         Only(c, i, NewRow(c, keys))
  PROVE  Promise!Created(c, keys, rows, Visible(c))
<1> DEFINE V == Visible(c)
           row == NewRow(c, keys)
<1>1. /\ DOMAIN writes[c] = {i} /\ writes[c][i] = row
      /\ V = [j \in DOMAIN rows \cup {i} |-> IF j = i THEN row ELSE rows[j]]
  BY VisibleFunction DEF Only
<1>2. Unique(V)
  BY DEF StoreInv, Locked
<1>3. row.keys = keys
  BY DEF NewRow
<1> HIDE DEF V, row
<1>4. DOMAIN V = DOMAIN rows \cup {i} /\ V[i] = row /\ \A j \in DOMAIN rows : V[j] = rows[j]
  BY <1>1
<1>5. \A j \in DOMAIN rows : rows[j].keys \cap keys = {}
  BY <1>2, <1>3, <1>4 DEF Unique
<1>6. Promise!Holder(rows, keys) = {}
  BY <1>5 DEF Promise!Holder
<1>7. i \in DOMAIN V \ DOMAIN rows
  BY <1>4
<1>8. V = [j \in DOMAIN rows \cup {i} |->
             IF j = i THEN [keys |-> keys, by |-> c, version |-> 1, image |-> Promise!Seed]
             ELSE rows[j]]
  BY <1>1 DEF row, NewRow, Seed, Promise!Seed
<1>9. Promise!Created(c, keys, rows, V)
  BY <1>6, <1>7, <1>8 DEF Promise!Created
<1> QED
  BY <1>9 DEF V

LEMMA IllustratedEffect ==
  ASSUME TypeInv, StoreInv, NEW c \in Client, NEW i \in DOMAIN rows,
         Only(c, i, [rows[i] EXCEPT !.image = c])
  PROVE  Promise!Illustrated(c, i, rows, Visible(c))
<1> DEFINE row == [rows[i] EXCEPT !.image = c]
<1>1. Visible(c) = [j \in DOMAIN rows |-> IF j = i THEN row ELSE rows[j]]
  <2> HIDE DEF row
  <2>1. DOMAIN writes[c] = {i} /\ DOMAIN writes[c] \cup DOMAIN rows = DOMAIN rows
        /\ writes[c][i] = row
    BY DEF Only, row
  <2> QED
    BY <2>1, VisibleFunction
<1>2. rows = [j \in DOMAIN rows |-> rows[j]]
  BY Tables DEF IsTable
<1>3. Visible(c) = [rows EXCEPT ![i].image = c]
  BY <1>1, <1>2
<1> QED
  BY <1>3 DEF Promise!Illustrated

LEMMA PatchedEffect ==
  ASSUME TypeInv, StoreInv, NEW c \in Client, req[c].id \in DOMAIN rows,
         Only(c, req[c].id, Edited(c)), NEW a,
         a.id = req[c].id, a.items = req[c].items, a.bump = req[c].bump
  PROVE  Promise!Patched(c, a, rows, Visible(c))
<1> DEFINE i == a.id
           new == [rows EXCEPT ![i].by = c,
                               ![i].version = @ + IF a.bump THEN 1 ELSE 0,
                               ![i].keys = IF a.items = <<>> THEN @
                                           ELSE (@ \cap Ext) \cup a.items[1]]
<1>1. Visible(c) = [j \in DOMAIN rows |-> IF j = i THEN Edited(c) ELSE rows[j]]
  <2>1. DOMAIN writes[c] = {i} /\ DOMAIN writes[c] \cup DOMAIN rows = DOMAIN rows
    BY DEF Only
  <2> QED
    BY <2>1, VisibleFunction DEF Only
<1>2. rows = [j \in DOMAIN rows |-> rows[j]] /\ i \in DOMAIN rows
  BY Tables DEF IsTable
<1>3. new = [j \in DOMAIN rows |->
               IF j = i THEN [rows[i] EXCEPT !.by = c,
                                !.version = @ + IF a.bump THEN 1 ELSE 0,
                                !.keys = IF a.items = <<>> THEN @
                                         ELSE (@ \cap Ext) \cup a.items[1]]
               ELSE rows[j]]
  BY <1>2
<1>4. Visible(c) = new
  BY <1>1, <1>3 DEF Edited
<1>5. Promise!Unique(Visible(c))
  BY DEF StoreInv, Locked, Unique, Promise!Unique
<1> QED
  BY <1>2, <1>4, <1>5 DEF Promise!Patched

LEMMA UpsertedEffect ==
  ASSUME TypeInv, StoreInv, NEW c \in Client, Batched(c, Len(req[c].items)),
         NEW items, items = req[c].items
  PROVE  Promise!Upserted(c, items, rows, Visible(c))
<1> DEFINE V == Visible(c)
           W == writes[c]
           named == {it \cap Ext : it \in Promise!Range(items)} \ {{}}
           fresh == DOMAIN V \ DOMAIN rows
<1>0. items \in Seq(Keys) /\ DOMAIN items = 1..Len(items)
  BY DEF TypeInv, ResourcesTypeOK, Request
<1>1. Promise!Range(items) = {items[n] : n \in 1..Len(items)}
  BY <1>0 DEF Promise!Range
<1>2. \A e : e \in named <=> e # {} /\ \E n \in 1..Len(items) : e = items[n] \cap Ext
  BY <1>1
<1>3. /\ DOMAIN V = DOMAIN W \cup DOMAIN rows
      /\ \A i \in DOMAIN W : V[i] = W[i]
      /\ \A i \in DOMAIN rows \ DOMAIN W : V[i] = rows[i]
  BY VisibleRows
<1>4. Unique(V) /\ Promise!Unique(V)
  BY DEF StoreInv, Locked, Unique, Promise!Unique
<1>5. /\ \A i \in DOMAIN W : W[i].by = c /\ W[i].keys \in Promise!Range(items)
      /\ \A i \in DOMAIN W \cap DOMAIN rows : rows[i].keys \cap Ext \in named
      /\ \A n \in 1..Len(items) : items[n] \cap Ext # {} =>
           \E i \in DOMAIN W : W[i].keys \cap Ext = items[n] \cap Ext
      /\ Cardinality(NamelessRows(c)) = Cardinality(Nameless(c, Len(items)))
  <2>1. /\ \A i \in DOMAIN W : W[i].by = c /\ \E n \in 1..Len(items) : W[i].keys = items[n]
        /\ \A i \in DOMAIN W \cap DOMAIN rows : \E n \in 1..Len(items) :
             rows[i].keys \cap Ext = items[n] \cap Ext /\ rows[i].keys \cap Ext # {}
        /\ \A n \in 1..Len(items) : items[n] \cap Ext # {} =>
             \E i \in DOMAIN W : W[i].keys \cap Ext = items[n] \cap Ext
        /\ Cardinality(NamelessRows(c)) = Cardinality(Nameless(c, Len(req[c].items)))
    BY DEF Batched
  <2> HIDE DEF W, named
  <2>2. \A i \in DOMAIN W : W[i].by = c /\ W[i].keys \in Promise!Range(items)
    BY <1>1, <2>1
  <2>3. ASSUME NEW i \in DOMAIN W \cap DOMAIN rows PROVE rows[i].keys \cap Ext \in named
    <3>1. PICK n \in 1..Len(items) :
             rows[i].keys \cap Ext = items[n] \cap Ext /\ rows[i].keys \cap Ext # {}
      BY <2>1
    <3> QED
      BY <1>2, <3>1
  <2> QED
    BY <2>1, <2>2, <2>3
<1>6. NamelessRows(c) = {i \in fresh : V[i].keys \cap Ext = {}}
  BY <1>3 DEF NamelessRows
<1>7. Nameless(c, Len(items)) = {n \in DOMAIN items : items[n] \cap Ext = {}}
  BY <1>0 DEF Nameless
<1> HIDE DEF V, W, named, fresh
<1>8. ASSUME NEW i \in DOMAIN rows
      PROVE  IF rows[i].keys \cap Ext \in named
             THEN V[i].by = c /\ V[i].keys \in Promise!Range(items)
             ELSE V[i] = rows[i]
  <2>1. CASE i \in DOMAIN W
    BY <1>3, <1>5, <2>1
  <2>2. ASSUME i \notin DOMAIN W, rows[i].keys \cap Ext \in named PROVE FALSE
    <3>1. PICK n \in 1..Len(items) :
             rows[i].keys \cap Ext = items[n] \cap Ext /\ items[n] \cap Ext # {}
      BY <1>2, <2>2
    <3>2. PICK j \in DOMAIN W : W[j].keys \cap Ext = items[n] \cap Ext
      BY <1>5, <3>1
    <3>3. V[i] = rows[i] /\ V[j] = W[j] /\ i \in DOMAIN V /\ j \in DOMAIN V /\ i # j
      BY <1>3, <2>2
    <3>4. V[i].keys \cap V[j].keys = {}
      BY <1>4, <3>3 DEF Unique
    <3> QED
      BY <3>1, <3>2, <3>3, <3>4
  <2> QED
    BY <1>3, <2>1, <2>2
<1>9. ASSUME NEW i \in fresh PROVE V[i].by = c /\ V[i].keys \in Promise!Range(items)
  <2>1. i \in DOMAIN W
    BY <1>3 DEF fresh
  <2> QED
    BY <1>3, <1>5, <2>1
<1>10. ASSUME NEW e \in named PROVE \E i \in DOMAIN V : V[i].keys \cap Ext = e
  BY <1>2, <1>3, <1>5
<1>11. DOMAIN rows \subseteq DOMAIN V
  BY <1>3
<1>12. Cardinality({i \in fresh : V[i].keys \cap Ext = {}})
          = Cardinality({n \in DOMAIN items : items[n] \cap Ext = {}})
  BY <1>5, <1>6, <1>7
<1>13. Promise!Upserted(c, items, rows, V)
  BY <1>4, <1>8, <1>9, <1>10, <1>11, <1>12, SameCardinality DEF Promise!Upserted, named, fresh
<1> QED
  BY <1>13 DEF V

-----------------------------------------------------------------------------
(* Every step is one of Store's, or nothing that Store knows of.           *)

LEMMA View ==
  ASSUME TypeInv, NEW c \in Client
  PROVE  /\ Asked[c] = Ask(c) /\ DOMAIN Asked = Client /\ DOMAIN Answered = Client
         /\ Open(c) => /\ Answered[c] = Promise!Pending /\ Promise!Pending = 100
                       /\ Asked[c].op = req[c].op /\ Asked[c].items = req[c].items
                       /\ Asked[c].id = req[c].id /\ Asked[c].bump = req[c].bump
         /\ ~Open(c) => Answered[c] = req[c].code /\ Asked[c] = Promise!NoAsk
  BY DEF Asked, Answered, Ask, Promise!Pending, Promise!NoAsk

LEMMA AnswerCode ==
  ASSUME TypeInv, NEW c \in Client, NEW code \in Code \ {0}, Answer(c, code)
  PROVE  req'[c].code = code
<1>1. req'[c].phase = "answered" /\ req'[c].code = code
  BY AnswerReq, Zenon
<1> QED
  BY <1>1

LEMMA AnswerMaps ==
  ASSUME TypeInv, NEW c \in Client, \A d \in Client \ {c} : req'[d] = req[d], ~Open(c)'
  PROVE  Promise!Answer(c, req'[c].code)
<1>1. ASSUME NEW d \in Client \ {c} PROVE (Open(d)' <=> Open(d)) /\ Ask(d)' = Ask(d)
  BY <1>1 DEF Open, Ask
<1>2. Ask(c)' = Promise!NoAsk
  BY DEF Ask, Promise!NoAsk
<1>3. Asked' = [Asked EXCEPT ![c] = Promise!NoAsk]
  BY <1>1, <1>2 DEF Asked
<1>4. Answered' = [Answered EXCEPT ![c] = req'[c].code]
  BY <1>1 DEF Answered
<1> QED
  BY <1>3, <1>4 DEF Promise!Answer

LEMMA EndedMaps ==
  ASSUME TypeInv, NEW c \in Client, Ended(c)
  PROVE  /\ Promise!Answer(c, req'[c].code)
         /\ req'[c].phase = "answered" \/ req'[c].code = 0
<1>1. ~Open(c)' /\ (req'[c].phase = "answered" \/ req'[c].code = 0)
  BY DEF Ended, Idle, Open, InTx
<1> QED
  BY <1>1, AnswerMaps DEF Ended

(* A step within a transaction, or between two pages of a list.            *)
LEMMA StutterMaps ==
  ASSUME TypeInv, NEW c \in Client, \A d \in Client \ {c} : req'[d] = req[d],
         \/ /\ Open(c) /\ Open(c)' /\ req'[c].op = req[c].op /\ req'[c].items = req[c].items
            /\ req'[c].id = req[c].id /\ req'[c].bump = req[c].bump
         \/ ~Open(c) /\ ~Open(c)' /\ req'[c].code = req[c].code
  PROVE  UNCHANGED <<Asked, Answered>>
<1>1. ASSUME NEW d \in Client \ {c} PROVE (Open(d)' <=> Open(d)) /\ Ask(d)' = Ask(d)
  BY <1>1 DEF Open, Ask
<1>2. Ask(c)' = Ask(c)
  BY DEF Ask
<1> QED
  BY <1>1, <1>2 DEF Asked, Answered

LEMMA BeginsMaps ==
  ASSUME TypeInv, NEW c \in Client, Begins(c)
  PROVE  Promise!Ask(c)
<1>1. PICK r \in Request :
         /\ Sound(r) /\ req' = [req EXCEPT ![c] = r]
         /\ r.phase = IF r.op = "batch" /\ r.items = <<>> THEN "commit" ELSE "run"
  BY DEF Begins
<1>2. req'[c] = r /\ \A d \in Client \ {c} : req'[d] = req[d]
  BY <1>1, SetReq
<1>3. ~Open(c) /\ Open(c)' /\ req[c].code = 0 /\ rows' = rows
  BY <1>1, <1>2 DEF Begins, Open, InTx, TypeInv, Control, store
<1>4. ASSUME NEW d \in Client \ {c} PROVE (Open(d)' <=> Open(d)) /\ Ask(d)' = Ask(d)
  BY <1>2, <1>4 DEF Open, Ask
<1>5. Answered[c] = 0 /\ Answered' = [Answered EXCEPT ![c] = 100]
  BY <1>2, <1>3, <1>4 DEF Answered
<1>6. Asked'[c].op # "none"
  BY <1>1, <1>2, <1>3 DEF Asked, Ask, Sound, WriteOps
<1>7. \A d \in Client \ {c} : Asked'[d] = Asked[d]
  BY <1>4 DEF Asked
<1> QED
  BY <1>3, <1>5, <1>6, <1>7 DEF Promise!Ask, Promise!NoAnswer, Promise!Pending

LEMMA ToldMaps ==
  ASSUME TypeInv, NEW c \in Client, req[c].phase \in {"idle", "walk"}, rows' = rows,
         NEW code \in {200, 400, 403, 404, 422, 500}, Answer(c, code)
  PROVE  Promise!Read(c) \/ Promise!Refuse(c)
<1>1. code \in Code \ {0}
  BY DEF Code
<1>2. Ended(c) /\ req'[c].code = code
  <2>1. Ended(c)
    BY <1>1, EndedAnswer
  <2>2. req'[c].code = code
    BY <1>1, AnswerCode
  <2> QED
    BY <2>1, <2>2
<1>3. Promise!Answer(c, code)
  BY <1>2, EndedMaps
<1>4. Answered[c] = Promise!NoAnswer
  <2>1. ~Open(c) /\ req[c].code = 0
    BY DEF Open, InTx, TypeInv, Control
  <2> QED
    BY <2>1, View DEF Promise!NoAnswer
<1> QED
  BY <1>3, <1>4 DEF Promise!Read, Promise!Refuse

LEMMA PageMaps ==
  ASSUME TypeInv, NEW c \in Client, PageOf(c, subject)
  PROVE  \/ Promise!Read(c) \/ Promise!Refuse(c)
         \/ UNCHANGED <<rows, Asked, Answered>>
<1>0. req[c].phase \in {"idle", "walk"} /\ rows' = rows
  BY DEF PageOf, store
<1>1. ~Open(c) /\ req[c].code = 0
  BY <1>0 DEF Open, InTx, TypeInv, Control
<1>2. CASE \E code \in {400, 403, 500} : Answer(c, code)
  <2>1. PICK code \in {400, 403, 500} : Answer(c, code)
    BY <1>2
  <2> QED
    BY <1>0, <2>1, ToldMaps
<1>3. ASSUME NEW r \in Request, NEW shown \in SUBSET Id,
             req' = [req EXCEPT ![c] = r], Turned(c, r, shown)
      PROVE  Promise!Read(c) \/ UNCHANGED <<rows, Asked, Answered>>
  <2>1. req'[c] = r /\ \A d \in Client \ {c} : req'[d] = req[d]
    BY <1>3, SetReq
  <2>2. CASE r.phase = "walk"
    <3>1. ~Open(c)' /\ req'[c].code = 0
      BY <1>3, <2>1, <2>2 DEF Open, InTx, Turned
    <3> QED
      BY <1>0, <1>1, <2>1, <3>1, StutterMaps
  <2>3. CASE r.phase = "answered"
    <3>1. ~Open(c)' /\ req'[c].code = 200
      BY <1>3, <2>1, <2>3 DEF Open, InTx, Turned
    <3>2. Promise!Answer(c, 200)
      BY <2>1, <3>1, AnswerMaps
    <3>3. Answered[c] = Promise!NoAnswer
      BY <1>1, View DEF Promise!NoAnswer
    <3> QED
      BY <1>0, <3>2, <3>3 DEF Promise!Read
  <2> QED
    BY <1>3, <2>2, <2>3 DEF Turned
<1> QED
  BY <1>2, <1>3, PageTurns

LEMMA StatementMaps ==
  ASSUME TypeInv, NEW c \in Client,
         Inserts(c) \/ Edits(c) \/ Illustrates(c) \/ Upserts(c) \/ Proceeds(c)
  PROVE  UNCHANGED <<rows, Asked, Answered>>
<1>1. Open(c)
  BY DEF Inserts, Edits, Illustrates, Upserts, Proceeds, Open, InTx
<1>2. rows' = rows /\ \A d \in Client \ {c} : req'[d] = req[d]
  BY OpenKeepsNone
<1>3. CASE \E phase \in {"commit", "put", "write"} : Goto(c, phase)
  <2>1. PICK phase \in {"commit", "put", "write"} : Goto(c, phase)
    BY <1>3
  <2>2. /\ req'[c].phase = phase /\ req'[c].op = req[c].op /\ req'[c].items = req[c].items
        /\ req'[c].id = req[c].id /\ req'[c].bump = req[c].bump
    BY <2>1, GotoReq DEF Phase
  <2>3. Open(c)'
    BY <2>1, <2>2 DEF Open, InTx
  <2> QED
    BY <1>1, <1>2, <2>2, <2>3, StutterMaps
<1>4. CASE /\ req[c].phase = "run" /\ req[c].op = "batch"
           /\ req[c].at # Len(req[c].items) /\ req' = [req EXCEPT ![c].at = @ + 1]
  <2>1. /\ req'[c].phase = "run" /\ req'[c].op = req[c].op /\ req'[c].items = req[c].items
        /\ req'[c].id = req[c].id /\ req'[c].bump = req[c].bump
    BY <1>4, NextItem
  <2>2. Open(c)'
    BY <2>1 DEF Open, InTx
  <2> QED
    BY <1>1, <1>2, <2>1, <2>2, StutterMaps
<1> QED
  BY <1>3, <1>4 DEF Inserts, Edits, Illustrates, Upserts, Proceeds

(* A row that refuses c's is committed: c has written none.                *)
LEMMA ClashHolder ==
  ASSUME TypeInv, NEW c \in Client, req[c].phase \in InTx, req[c].op # "batch", NEW keys,
         Clashing(c, keys, {}) # {}
  PROVE  Promise!Holder(rows, keys) # {}
<1>1. writes[c] = NoRows
  BY DEF TypeInv, Control
<1>2. Visible(c) = rows
  BY <1>1, OverNone, Tables DEF Visible
<1> QED
  BY <1>2 DEF Clashing, Promise!Holder

LEMMA FailsMaps ==
  ASSUME TypeInv, NEW c \in Client, Fails(c)
  PROVE  Promise!Find(c) \/ Promise!Clash(c) \/ Promise!Miss(c) \/ Promise!Refuse(c)
<1>1. PICK code \in {200, 400, 404, 409, 413, 415, 422, 500} :
         /\ Fail(c, code)
         /\ code = 200 => req[c].op = "upsert" /\ Clashing(c, req[c].items[1], {}) # {}
         /\ code = 409 => req[c].op = "create" /\ Clashing(c, req[c].items[1], {}) # {}
         /\ code = 404 => req[c].op \in {"update", "upload"} /\ req[c].id \notin DOMAIN rows
  BY DEF Fails
<1>2. Open(c) /\ req[c].phase \in InTx
  BY DEF Fails, Open
<1>3. /\ Answered[c] = Promise!Pending
      /\ Asked[c].op = req[c].op /\ Asked[c].items = req[c].items /\ Asked[c].id = req[c].id
  BY <1>2, View
<1>4. code \in Code \ {0} /\ Answer(c, code) /\ rows' = rows
  BY <1>1 DEF Code, Fail, Rollback
<1>5. req'[c].code = code
  BY <1>4, AnswerCode
<1>6. Ended(c)
  BY <1>4, EndedAnswer
<1>7. Promise!Answer(c, code)
  BY <1>5, <1>6, EndedMaps
<1>8. CASE code = 200
  <2>1. Promise!Holder(rows, Asked[c].items[1]) # {}
    BY <1>1, <1>2, <1>3, <1>8, ClashHolder
  <2> QED
    BY <1>1, <1>3, <1>4, <1>7, <1>8, <2>1 DEF Promise!Find
<1>9. CASE code = 409
  <2>1. Promise!Holder(rows, Asked[c].items[1]) # {}
    BY <1>1, <1>2, <1>3, <1>9, ClashHolder
  <2> QED
    BY <1>1, <1>3, <1>4, <1>7, <1>9, <2>1 DEF Promise!Clash
<1>10. CASE code = 404
  BY <1>1, <1>3, <1>4, <1>7, <1>10 DEF Promise!Miss
<1>11. CASE code \in {400, 413, 415, 422, 500}
  BY <1>3, <1>4, <1>7, <1>11 DEF Promise!Refuse
<1> QED
  BY <1>8, <1>9, <1>10, <1>11

(* What a transaction commits is the effect its request asked for.         *)
LEMMA CommitEffect ==
  ASSUME TypeInv, StoreInv, NEW c \in Client, req[c].phase = "commit"
  PROVE  Promise!Effect(c, rows, Visible(c))
<1>1. Open(c) /\ Written(c)
  BY DEF Open, StoreInv
<1>2. /\ Asked[c].op = req[c].op /\ Asked[c].items = req[c].items
      /\ Asked[c].id = req[c].id /\ Asked[c].bump = req[c].bump
  BY <1>1, View
<1>3. CASE req[c].op \in {"create", "upsert"}
  <2>1. PICK i \in Id \ DOMAIN rows : Only(c, i, NewRow(c, req[c].items[1]))
    BY <1>1, <1>3 DEF Written
  <2>2. Promise!Created(c, req[c].items[1], rows, Visible(c))
    BY <2>1, CreatedEffect
  <2> QED
    BY <1>2, <1>3, <2>2 DEF Promise!Effect
<1>4. CASE req[c].op = "update"
  <2>1. req[c].id \in DOMAIN rows /\ Only(c, req[c].id, Edited(c))
    BY <1>1, <1>4 DEF Written
  <2>2. PICK a : a = Asked[c]
    OBVIOUS
  <2>3. Promise!Patched(c, a, rows, Visible(c))
    BY <1>2, <2>1, <2>2, PatchedEffect
  <2> QED
    BY <1>2, <1>4, <2>2, <2>3 DEF Promise!Effect
<1>5. CASE req[c].op = "upload"
  <2>1. PICK i : i = req[c].id
    OBVIOUS
  <2>2. i \in DOMAIN rows /\ Only(c, i, [rows[i] EXCEPT !.image = c])
    BY <1>1, <1>5, <2>1 DEF Written
  <2>3. Promise!Illustrated(c, i, rows, Visible(c))
    BY <2>2, IllustratedEffect
  <2> QED
    BY <1>2, <1>5, <2>1, <2>3 DEF Promise!Effect
<1>6. CASE req[c].op = "batch"
  <2>1. Batched(c, Len(req[c].items))
    BY <1>1, <1>6 DEF Written
  <2>2. PICK items : items = req[c].items
    OBVIOUS
  <2>3. Promise!Upserted(c, items, rows, Visible(c))
    BY <2>1, <2>2, UpsertedEffect
  <2> QED
    BY <1>2, <1>6, <2>2, <2>3 DEF Promise!Effect
<1>7. req[c].op \in WriteOps
  BY <1>1 DEF TypeInv, Control, Sound
<1> QED
  BY <1>3, <1>4, <1>5, <1>6, <1>7 DEF WriteOps

LEMMA EndMaps ==
  ASSUME TypeInv, StoreInv, NEW c \in Client,
         Finish(c) \/ CommitFails(c) \/ HangUp(c) \/ Leave(c)
  PROVE  \/ Promise!Succeed(c) \/ Promise!Lose(c) \/ Promise!Leave(c)
         \/ UNCHANGED <<rows, Asked, Answered>>
<1>1. Ended(c) /\ Promise!Answer(c, req'[c].code)
  BY EndingRows, EndedMaps
<1>2. CASE Finish(c)
  <2>1. PICK code \in {200, 201} : Answer(c, code)
    BY <1>2 DEF Finish
  <2>2. code \in Code \ {0}
    BY DEF Code
  <2>3. req'[c].code = code
    BY <2>1, <2>2, AnswerCode
  <2>4. Open(c) /\ rows' = Visible(c) /\ req[c].phase = "commit"
    BY <1>2 DEF Finish, Commit, Open
  <2>5. Promise!Effect(c, rows, rows')
    BY <2>4, CommitEffect
  <2> QED
    BY <1>1, <2>3, <2>4, <2>5, View DEF Promise!Succeed
<1>3. CASE CommitFails(c) \/ (HangUp(c) /\ Open(c))
  <2>1. req'[c].code \in {0, 500}
    <3>1. CASE CommitFails(c)
      <4>1. 500 \in Code \ {0} /\ Answer(c, 500)
        BY <3>1 DEF Code, CommitFails
      <4> QED
        BY <4>1, AnswerCode
    <3>2. CASE HangUp(c)
      <4>1. req' = [req EXCEPT ![c] = Idle] /\ Idle.code = 0
        BY <3>2 DEF HangUp, Idle
      <4>2. req'[c] = Idle
        BY <4>1, SetReq, IdleRequest
      <4> QED
        BY <4>1, <4>2
    <3> QED
      BY <1>3, <3>1, <3>2
  <2>2. Open(c)
    BY <1>3 DEF CommitFails, Open
  <2>3. rows' = rows \/ (req[c].phase = "commit" /\ rows' = Visible(c))
    BY <1>3 DEF CommitFails, HangUp, Rollback, Commit
  <2>4. rows' = rows \/ Promise!Effect(c, rows, rows')
    BY <2>3, CommitEffect
  <2> QED
    BY <1>1, <2>1, <2>2, <2>4, View DEF Promise!Lose, Promise!NoAnswer
<1>4. CASE HangUp(c) /\ ~Open(c)
  <2>1. req[c].phase = "walk" /\ rows' = rows
    BY <1>4 DEF HangUp, Open, Rollback
  <2>2. req' = [req EXCEPT ![c] = Idle] /\ Idle.code = 0 /\ Idle.phase = "idle"
    BY <1>4 DEF HangUp, Idle
  <2>3. req'[c] = Idle /\ \A d \in Client \ {c} : req'[d] = req[d]
    BY <2>2, SetReq, IdleRequest
  <2>4. req[c].code = 0
    BY <2>1 DEF TypeInv, Control
  <2>5. ~Open(c)'
    BY <2>2, <2>3 DEF Open, InTx
  <2> QED
    BY <1>4, <2>1, <2>2, <2>3, <2>4, <2>5, StutterMaps
<1>5. CASE Leave(c)
  <2>1. req' = [req EXCEPT ![c] = Idle] /\ Idle.code = 0 /\ rows' = rows
    BY <1>5 DEF Leave, Idle, store
  <2>2. req'[c].code = 0
    <3>1. req'[c] = Idle
      BY <2>1, SetReq, IdleRequest
    <3> QED
      BY <2>1, <3>1
  <2>3. ~Open(c) /\ req[c].code # 0 /\ req[c].code # 100
    <3>1. ~Open(c) /\ req[c].code # 0
      BY <1>5 DEF Leave, Open, InTx, TypeInv, Control
    <3>2. req[c].code \in Code
      BY DEF TypeInv, ResourcesTypeOK, Request
    <3> QED
      BY <3>1, <3>2 DEF Code
  <2> QED
    BY <1>1, <2>1, <2>2, <2>3, View DEF Promise!Leave, Promise!NoAnswer, Promise!Pending
<1> QED
  BY <1>2, <1>3, <1>4, <1>5

LEMMA StepMaps ==
  ASSUME TypeInv, StoreInv, NEW c \in Client, Steps(c)
  PROVE  Promise!StoreNext \/ UNCHANGED <<rows, Asked, Answered>>
<1>1. CASE Told(c)
  <2>1. PICK code \in {200, 400, 403, 404, 422, 500} : Answer(c, code)
    BY <1>1 DEF Told
  <2>2. req[c].phase \in {"idle", "walk"} /\ rows' = rows
    BY <1>1 DEF Told, store
  <2>3. Promise!Read(c) \/ Promise!Refuse(c)
    BY <2>1, <2>2, ToldMaps
  <2> QED
    BY <2>3 DEF Promise!StoreNext
<1>2. CASE Begins(c)
  BY <1>2, BeginsMaps DEF Promise!StoreNext
<1>3. CASE PageOf(c, subject)
  BY <1>3, PageMaps DEF Promise!StoreNext
<1>4. CASE Inserts(c) \/ Edits(c) \/ Illustrates(c) \/ Upserts(c) \/ Proceeds(c)
  BY <1>4, StatementMaps
<1>5. CASE Fails(c)
  BY <1>5, FailsMaps DEF Promise!StoreNext
<1>6. CASE Finish(c) \/ CommitFails(c) \/ HangUp(c) \/ Leave(c)
  BY <1>6, EndMaps DEF Promise!StoreNext
<1> QED
  BY <1>1, <1>2, <1>3, <1>4, <1>5, <1>6 DEF Steps

LEMMA InitPromise == ResourcesInit => Promise!StoreInit
<1> SUFFICES ASSUME ResourcesInit PROVE Promise!StoreInit
  OBVIOUS
<1> DEFINE row == [keys |-> Preload[subject], by |-> Seed, version |-> 1, image |-> Seed]
<1>1. rows = Put(NoRows, 1, row) /\ row.by = Seed
  BY DEF ResourcesInit
<1> HIDE DEF row
<1>2. DOMAIN rows = {1} /\ rows[1] = row
  <2>1. Given(NoRows, 1, row, Put(NoRows, 1, row))
    BY PutGiven
  <2> QED
    BY <1>1, <2>1, EmptyTable DEF Given
<1>3. \A i \in DOMAIN rows : rows[i].by = Promise!Seed
  BY <1>1, <1>2 DEF Seed, Promise!Seed
<1>4. \A c \in Client : ~Open(c) /\ req[c].code = 0
  BY DEF ResourcesInit, Idle, Open, InTx
<1>5. Asked = [c \in Client |-> Promise!NoAsk]
  BY <1>4 DEF Asked, Ask, Promise!NoAsk
<1>6. Answered = [c \in Client |-> Promise!NoAnswer]
  BY <1>4 DEF Answered, Promise!NoAnswer
<1> QED
  BY <1>3, <1>5, <1>6 DEF Promise!StoreInit

LEMMA NextPromise ==
  TypeInv /\ StoreInv /\ [ResourcesNext]_vars
    => [Promise!StoreNext]_<<rows, Asked, Answered>>
<1> SUFFICES ASSUME TypeInv, StoreInv, [ResourcesNext]_vars
             PROVE  Promise!StoreNext \/ UNCHANGED <<rows, Asked, Answered>>
  OBVIOUS
<1>1. CASE UNCHANGED vars
  BY <1>1 DEF vars, Asked, Answered, Ask, Open
<1>2. ASSUME NEW c \in Client, Steps(c)
      PROVE  Promise!StoreNext \/ UNCHANGED <<rows, Asked, Answered>>
  BY <1>2, StepMaps
<1> QED
  BY <1>1, <1>2, StepKinds

(* Whatever clients ask at once, statements wait for, deadlocks fail and   *)
(* commits lose, the management API behaves like Store: a write takes      *)
(* effect at one moment and wholly, or not at all, and its answer is true. *)
THEOREM ResourcesRefineStore == ResourcesSpec => ImplementsStore
  BY TypesSafe, InitStoreInv, NextStore, InitPromise, NextPromise, PTL
  DEF ResourcesSpec, ImplementsStore, Promise!StoreSpec

=============================================================================
