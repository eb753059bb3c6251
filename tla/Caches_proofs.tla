---------------------------- MODULE Caches_proofs ---------------------------
(***************************************************************************)
(* Proofs about the two caches a replica answers from: the snapshot and the*)
(* issuer's keys.                                                          *)
(*                                                                         *)
(* Proofs about the snapshot loader, for any number of tables, mutations   *)
(* and versions.  That the sequence is read before the tables is what the  *)
(* argument turns on: a table read after the version is at least as new as *)
(* it was when the version was first shown (BumpsPast).                    *)
(*                                                                         *)
(* Proofs about the JWKS cache, for any number of keys and requests and    *)
(* any TTL and timeout.  What turns the argument: a set the issuer answered*)
(* is dated when it is inserted, and the insert is at most a fetch timeout *)
(* later than the answer, so the age of an entry understates how long ago  *)
(* its keys were published by no more than that (CacheDated).              *)
(***************************************************************************)
EXTENDS Snapshot, Jwks, TLAPS

\* What a version stands for has been committed; what is served has, too.
BumpsPast ==
    \A t \in Table :
        /\ store.rev[t] =< rev[t]
        /\ \A v \in Version : v =< last => revAtBump[v][t] =< rev[t]

\* A snapshot under construction is no older than the one that is served, and
\* not ahead of the tables.
LoadingBetween ==
    pc = "tables" =>
        /\ store.version =< loading.version
        /\ \A t \in Table : t < next => /\ store.rev[t] =< loading.rev[t]
                                       /\ loading.rev[t] =< rev[t]

SnapshotInv ==
    /\ SnapshotTypeOK
    /\ BumpsPast
    /\ LoadingBacksData
    /\ LoadingBetween
    /\ VersionBacksData

-----------------------------------------------------------------------------
(* Types.                                                                  *)

LEMMA InitType == SnapshotInit => SnapshotTypeOK
<1> SUFFICES ASSUME SnapshotInit
             PROVE  SnapshotTypeOK
  OBVIOUS
<1>1. rev \in Tables /\ Empty \in Contents /\ Empty.version = 0
  BY DEF SnapshotInit, Tables, Contents, Empty
<1>2. revAtBump \in [Version -> Tables]
  BY <1>1 DEF SnapshotInit
<1>3. last \in Version /\ last = 1 /\ 1 \in 1..(NumTables + 1) /\ 0 \in 0..MaxFaults
  BY SnapshotAssumption DEF SnapshotInit, Version
<1>4. store.version =< last /\ loading.version =< last
  BY <1>1, <1>3 DEF SnapshotInit
<1>5. /\ called \in BOOLEAN /\ pc \in PC /\ faults \in 0..MaxFaults
      /\ store \in Contents /\ loading \in Contents /\ next \in 1..(NumTables + 1)
  BY <1>1, <1>3 DEF SnapshotInit, PC
<1> QED
  BY <1>1, <1>2, <1>3, <1>4, <1>5 DEF SnapshotTypeOK

LEMMA ReadTableEffect ==
  ASSUME SnapshotTypeOK, ReadTable
  PROVE  /\ loading' \in Contents
         /\ loading'.version = loading.version
         /\ loading'.rev[next] = rev[next]
         /\ \A t \in Table \ {next} : loading'.rev[t] = loading.rev[t]
<1>1. loading.version \in Nat /\ loading.rev \in Tables /\ next \in Table /\ rev[next] \in Nat
  BY DEF SnapshotTypeOK, ReadTable, Contents, Tables
<1>2. loading = [version |-> loading.version, rev |-> loading.rev]
  BY DEF SnapshotTypeOK, Contents
<1> DEFINE r == [loading.rev EXCEPT ![next] = rev[next]]
<1>3. loading' = [version |-> loading.version, rev |-> r]
  BY <1>2 DEF ReadTable
<1>4. r \in Tables /\ r[next] = rev[next] /\ \A t \in Table \ {next} : r[t] = loading.rev[t]
  BY <1>1 DEF Tables
<1> HIDE DEF r
<1> QED
  BY <1>1, <1>3, <1>4 DEF Contents

LEMMA ReadVersionEffect ==
  ASSUME SnapshotTypeOK, ReadVersion
  PROVE  loading' \in Contents /\ loading'.version = last
<1>1. last \in Nat
  BY SnapshotAssumption DEF SnapshotTypeOK, Version
<1>2. loading' = [version |-> last, rev |-> [t \in Table |-> 0]]
  BY DEF ReadVersion, Empty
<1> QED
  BY <1>1, <1>2 DEF Contents, Tables

LEMMA BumpEffect ==
  ASSUME SnapshotTypeOK, Bump
  PROVE  /\ last' \in Version /\ last =< last'
         /\ revAtBump' \in [Version -> Tables]
         /\ \A v \in Version : v =< last => revAtBump'[v] = revAtBump[v]
         /\ last' # last => revAtBump'[last'] = rev /\ last' = last + 1
<1>1. last \in Version /\ last + 1 \in Version /\ last \in Nat
  BY SnapshotAssumption DEF SnapshotTypeOK, Bump, Version
<1>2. rev \in Tables /\ revAtBump \in [Version -> Tables] /\ called \in BOOLEAN
  BY DEF SnapshotTypeOK
<1>3. CASE called
  <2>1. last' = last + 1 /\ revAtBump' = [revAtBump EXCEPT ![last + 1] = rev]
    BY <1>3 DEF Bump
  <2>2. \A v \in Version : v =< last => v # last + 1
    BY <1>1 DEF Version
  <2>3. revAtBump'[last + 1] = rev /\ revAtBump' \in [Version -> Tables]
    BY <1>1, <1>2, <2>1
  <2>4. \A v \in Version : v =< last => revAtBump'[v] = revAtBump[v]
    BY <1>2, <2>1, <2>2
  <2> QED
    BY <1>1, <2>1, <2>3, <2>4
<1>4. CASE ~called
  BY <1>1, <1>2, <1>4 DEF Bump
<1> QED
  BY <1>3, <1>4

LEMMA TypeStep == SnapshotTypeOK /\ [SnapshotNext]_vars => SnapshotTypeOK'
<1> SUFFICES ASSUME SnapshotTypeOK, [SnapshotNext]_vars
             PROVE  SnapshotTypeOK'
  OBVIOUS
<1>0. last \in Nat /\ store.version \in Nat /\ loading.version \in Nat
  BY SnapshotAssumption DEF SnapshotTypeOK, Version, Contents
<1>1. ASSUME NEW t \in Table, Mutate(t)
      PROVE  SnapshotTypeOK'
  <2>1. rev' \in Tables
    BY <1>1 DEF Mutate, SnapshotTypeOK, Tables
  <2> QED
    BY <1>1, <2>1 DEF Mutate, SnapshotTypeOK
<1>2. CASE Bump
  <2>1. called' = TRUE /\ UNCHANGED <<rev, store, pc, loading, next, faults>>
    BY <1>2 DEF Bump
  <2>2. last' \in Nat
    BY <1>2, BumpEffect, SnapshotAssumption DEF Version
  <2>3. store'.version =< last' /\ loading'.version =< last'
    BY <1>0, <1>2, <2>1, <2>2, BumpEffect DEF SnapshotTypeOK
  <2> QED
    BY <1>2, <2>1, <2>3, BumpEffect DEF SnapshotTypeOK
<1>3. CASE PollMoved
  BY <1>3 DEF PollMoved, SnapshotTypeOK, PC
<1>4. CASE ReadVersion
  <2>1. loading' \in Contents /\ loading'.version =< last /\ 1 \in 1..(NumTables + 1)
    BY <1>0, <1>4, ReadVersionEffect, SnapshotAssumption
  <2> QED
    BY <1>4, <2>1 DEF ReadVersion, SnapshotTypeOK, PC
<1>5. CASE ReadTable
  <2>1. next' \in 1..(NumTables + 1)
    BY <1>5, SnapshotAssumption DEF ReadTable, Table
  <2> QED
    BY <1>5, <2>1, ReadTableEffect DEF ReadTable, SnapshotTypeOK
<1>6. CASE Swap \/ LoadFails
  <2>1. Empty \in Contents /\ Empty.version = 0 /\ 1 \in 1..(NumTables + 1)
    BY SnapshotAssumption DEF Empty, Contents, Tables
  <2>2. faults' \in 0..MaxFaults
    BY <1>6, SnapshotAssumption DEF Swap, LoadFails, Fault, SnapshotTypeOK
  <2> QED
    BY <1>0, <1>6, <2>1, <2>2 DEF Swap, LoadFails, SnapshotTypeOK, PC
<1>7. CASE UNCHANGED vars
  BY <1>7 DEF vars, SnapshotTypeOK
<1> QED
  BY <1>1, <1>2, <1>3, <1>4, <1>5, <1>6, <1>7 DEF SnapshotNext, Loader

\* Type correctness of the loader; no snapshot is ahead of the sequence.
THEOREM SnapshotTypeCorrect == SnapshotSpec => []SnapshotTypeOK
  BY InitType, TypeStep, PTL DEF SnapshotSpec

-----------------------------------------------------------------------------
(* Versions and data.                                                      *)

LEMMA InitSnapshot == SnapshotInit => SnapshotInv
<1> SUFFICES ASSUME SnapshotInit
             PROVE  SnapshotInv
  OBVIOUS
<1>1. SnapshotTypeOK
  BY InitType
<1>2. /\ pc = "begin" /\ store.version = 0
      /\ \A t \in Table : store.rev[t] = 0 /\ rev[t] = 0
      /\ \A v \in Version, t \in Table : revAtBump[v][t] = 0
  BY DEF SnapshotInit, Empty
<1> QED
  BY <1>1, <1>2 DEF SnapshotInv, BumpsPast, LoadingBacksData, LoadingBetween,
                    VersionBacksData

LEMMA Numbers ==
  ASSUME SnapshotTypeOK, NEW t \in Table
  PROVE  /\ rev[t] \in Nat /\ store.rev[t] \in Nat /\ loading.rev[t] \in Nat
         /\ \A v \in Version : revAtBump[v][t] \in Nat
         /\ store.version \in Nat /\ loading.version \in Nat /\ last \in Nat
         /\ next \in Nat
  BY SnapshotAssumption DEF SnapshotTypeOK, Contents, Tables, Version

LEMMA MutateStep ==
  ASSUME SnapshotInv, NEW t \in Table, Mutate(t)
  PROVE  BumpsPast' /\ LoadingBacksData' /\ LoadingBetween' /\ VersionBacksData'
<1>1. UNCHANGED <<last, store, pc, loading, next, revAtBump>>
  BY DEF Mutate
<1>2. \A u \in Table : rev[u] \in Nat /\ rev'[u] \in Nat /\ rev[u] =< rev'[u]
  BY DEF Mutate, SnapshotInv, SnapshotTypeOK, Tables
<1>3. BumpsPast'
  <2> SUFFICES ASSUME NEW u \in Table
               PROVE  /\ store.rev[u] =< rev'[u]
                      /\ \A v \in Version : v =< last => revAtBump[v][u] =< rev'[u]
    BY <1>1 DEF BumpsPast
  <2>1. /\ store.rev[u] \in Nat /\ store.rev[u] =< rev[u]
        /\ \A v \in Version : /\ revAtBump[v][u] \in Nat
                              /\ v =< last => revAtBump[v][u] =< rev[u]
    BY Numbers DEF SnapshotInv, BumpsPast
  <2> QED
    BY <1>2, <2>1
<1>4. LoadingBetween'
  <2> SUFFICES ASSUME pc = "tables", NEW u \in Table, u < next
               PROVE  loading.rev[u] =< rev'[u]
    BY <1>1 DEF LoadingBetween, SnapshotInv
  <2>1. loading.rev[u] \in Nat /\ loading.rev[u] =< rev[u]
    BY Numbers DEF SnapshotInv, LoadingBetween
  <2> QED
    BY <1>2, <2>1
<1> QED
  BY <1>1, <1>3, <1>4 DEF SnapshotInv, LoadingBacksData, VersionBacksData

LEMMA BumpStep ==
  ASSUME SnapshotInv, Bump
  PROVE  BumpsPast' /\ LoadingBacksData' /\ LoadingBetween' /\ VersionBacksData'
<1>0. SnapshotTypeOK
  BY DEF SnapshotInv
<1>1. UNCHANGED <<rev, store, pc, loading, next>>
  BY DEF Bump
<1>2. \A v \in Version : v =< last => revAtBump'[v] = revAtBump[v]
  BY <1>0, BumpEffect
<1>3. last \in Nat /\ last' \in Nat /\ \A v \in Version : v \in Nat
  BY <1>0, BumpEffect, SnapshotAssumption DEF SnapshotTypeOK, Version
<1>4. BumpsPast'
  <2> SUFFICES ASSUME NEW u \in Table, NEW v \in Version, v =< last'
               PROVE  revAtBump'[v][u] =< rev[u]
    BY <1>1 DEF BumpsPast, SnapshotInv
  <2>1. CASE v =< last
    BY <1>2, <2>1 DEF SnapshotInv, BumpsPast
  <2>2. CASE ~(v =< last)
    <3>1. last' # last /\ last' = last + 1
      BY <1>0, <1>3, <2>2, BumpEffect
    <3>2. v = last'
      BY <1>3, <2>2, <3>1
    <3>3. revAtBump'[v] = rev
      BY <1>0, <3>1, <3>2, BumpEffect
    <3> QED
      BY <1>0, <3>3, Numbers
  <2> QED
    BY <2>1, <2>2
<1>5. LoadingBacksData'
  <2>1. loading.version =< last
    BY <1>0 DEF SnapshotTypeOK
  <2> QED
    BY <1>1, <1>2, <2>1 DEF LoadingBacksData, SnapshotInv
<1>6. VersionBacksData'
  <2>1. store.version > 0 => store.version \in Version
    BY <1>0, SnapshotAssumption DEF SnapshotTypeOK, Contents, Version
  <2>2. store.version =< last
    BY <1>0 DEF SnapshotTypeOK
  <2> QED
    BY <1>1, <1>2, <2>1, <2>2 DEF VersionBacksData, SnapshotInv
<1> QED
  BY <1>1, <1>4, <1>5, <1>6 DEF LoadingBetween, SnapshotInv

LEMMA LoadStep ==
  ASSUME SnapshotInv, ReadVersion \/ ReadTable
  PROVE  BumpsPast' /\ LoadingBacksData' /\ LoadingBetween' /\ VersionBacksData'
<1>0. SnapshotTypeOK
  BY DEF SnapshotInv
<1>1. UNCHANGED <<rev, last, store, revAtBump>>
  BY DEF ReadVersion, ReadTable
<1>2. CASE ReadVersion
  <2>1. loading'.version = last /\ next' = 1 /\ last \in Version
    BY <1>0, <1>2, ReadVersionEffect DEF ReadVersion, SnapshotTypeOK
  <2>2. \A t \in Table : ~(t < next')
    BY <2>1, SnapshotAssumption DEF Table
  <2>3. LoadingBacksData'
    BY <2>1, <2>2 DEF LoadingBacksData
  <2>4. LoadingBetween'
    BY <1>0, <1>1, <2>1, <2>2 DEF LoadingBetween, SnapshotTypeOK
  <2> QED
    BY <1>1, <2>3, <2>4 DEF SnapshotInv, BumpsPast, VersionBacksData
<1>3. CASE ReadTable
  <2>1. /\ loading'.version = loading.version
        /\ loading'.rev[next] = rev[next]
        /\ \A t \in Table \ {next} : loading'.rev[t] = loading.rev[t]
    BY <1>0, <1>3, ReadTableEffect
  <2>2. pc = "tables" /\ next \in Table /\ next' = next + 1
    BY <1>3 DEF ReadTable
  <2>3. \A t \in Table : t < next' => t < next \/ t = next
    BY <2>2, SnapshotAssumption DEF Table
  <2>4. loading.version \in Version /\ loading.version =< last
    BY <1>0, <2>2 DEF SnapshotInv, LoadingBacksData, SnapshotTypeOK
  <2>5. LoadingBacksData'
    <3> SUFFICES ASSUME NEW t \in Table, t < next'
                 PROVE  loading'.rev[t] >= revAtBump[loading.version][t]
      BY <1>1, <2>1, <2>4 DEF LoadingBacksData
    <3>1. CASE t < next /\ t # next
      BY <2>1, <2>2, <3>1 DEF SnapshotInv, LoadingBacksData
    <3>2. CASE t = next
      <4>1. revAtBump[loading.version][t] =< rev[t]
        BY <2>4 DEF SnapshotInv, BumpsPast
      <4>2. loading'.rev[t] = rev[t]
        BY <2>1, <3>2
      <4> QED
        BY <1>0, <2>4, <4>1, <4>2, Numbers
    <3> QED
      BY <2>3, <3>1, <3>2
  <2>6. LoadingBetween'
    <3> SUFFICES ASSUME NEW t \in Table, t < next'
                 PROVE  store.rev[t] =< loading'.rev[t] /\ loading'.rev[t] =< rev[t]
      BY <1>1, <2>1, <2>2 DEF LoadingBetween, SnapshotInv
    <3>1. CASE t < next /\ t # next
      BY <2>1, <2>2, <3>1 DEF SnapshotInv, LoadingBetween
    <3>2. CASE t = next
      <4>1. loading'.rev[t] = rev[t]
        BY <2>1, <3>2
      <4> QED
        BY <1>0, <4>1, Numbers DEF SnapshotInv, BumpsPast
    <3> QED
      BY <2>3, <3>1, <3>2
  <2> QED
    BY <1>1, <2>5, <2>6 DEF SnapshotInv, BumpsPast, VersionBacksData
<1> QED
  BY <1>2, <1>3

\* What Swap is about to show.
LEMMA SwapEffect ==
  ASSUME SnapshotInv, Swap
  PROVE  /\ store'.version \in Version /\ store'.version =< last
         /\ store.version =< store'.version
         /\ \A t \in Table :
               /\ revAtBump[store'.version][t] =< store'.rev[t]
               /\ store.rev[t] =< store'.rev[t]
               /\ store'.rev[t] =< rev[t]
<1>1. pc = "tables" /\ store' = loading /\ \A t \in Table : t < next
  BY SnapshotAssumption DEF Swap, Table
<1>2. loading.version =< last
  BY DEF SnapshotInv, SnapshotTypeOK
<1>3. /\ loading.version \in Version
      /\ \A t \in Table : loading.rev[t] >= revAtBump[loading.version][t]
  BY <1>1 DEF SnapshotInv, LoadingBacksData
<1>4. \A t \in Table : revAtBump[loading.version][t] =< loading.rev[t]
  BY <1>3, Numbers DEF SnapshotInv
<1>5. /\ store.version =< loading.version
      /\ \A t \in Table : store.rev[t] =< loading.rev[t] /\ loading.rev[t] =< rev[t]
  BY <1>1 DEF SnapshotInv, LoadingBetween
<1> QED
  BY <1>1, <1>2, <1>3, <1>4, <1>5

LEMMA DataStep == SnapshotInv /\ [SnapshotNext]_vars => SnapshotInv'
<1> SUFFICES ASSUME SnapshotInv, [SnapshotNext]_vars
             PROVE  SnapshotInv'
  OBVIOUS
<1>1. SnapshotTypeOK /\ SnapshotTypeOK'
  BY TypeStep DEF SnapshotInv
<1>2. BumpsPast' /\ LoadingBacksData' /\ LoadingBetween' /\ VersionBacksData'
  <2>1. CASE Swap
    <3>1. UNCHANGED <<rev, last, revAtBump>> /\ pc' = "poll"
      BY <2>1 DEF Swap
    <3> QED
      BY <1>1, <2>1, <3>1, SwapEffect, Numbers
      DEF SnapshotInv, BumpsPast, LoadingBacksData, LoadingBetween, VersionBacksData
  <2>2. CASE PollMoved \/ LoadFails
    <3>1. UNCHANGED <<rev, last, store, revAtBump>> /\ pc' # "tables"
      BY <2>2 DEF PollMoved, LoadFails
    <3> QED
      BY <3>1 DEF SnapshotInv, BumpsPast, LoadingBacksData, LoadingBetween, VersionBacksData
  <2>3. CASE UNCHANGED vars
    BY <2>3 DEF vars, SnapshotInv, BumpsPast, LoadingBacksData, LoadingBetween,
                VersionBacksData
  <2> QED
    BY <2>1, <2>2, <2>3, MutateStep, BumpStep, LoadStep DEF SnapshotNext, Loader
<1> QED
  BY <1>1, <1>2 DEF SnapshotInv

\* A served version stands for every mutation committed before it was shown.
THEOREM SnapshotVersionSafe == SnapshotSpec => []VersionBacksData
<1>1. SnapshotInv => VersionBacksData
  BY DEF SnapshotInv
<1> QED
  BY <1>1, InitSnapshot, DataStep, PTL DEF SnapshotSpec

\* A load in progress reads tables at least as new as its version.
THEOREM SnapshotLoadSafe == SnapshotSpec => []LoadingBacksData
<1>1. SnapshotInv => LoadingBacksData
  BY DEF SnapshotInv
<1> QED
  BY <1>1, InitSnapshot, DataStep, PTL DEF SnapshotSpec

\* Readers never see an older version or an older table than before.
THEOREM SnapshotMonotone == SnapshotSpec => ReadersNeverGoBack
<1>1. SnapshotInv /\ [SnapshotNext]_vars =>
         [/\ store'.version >= store.version
          /\ \A t \in Table : store'.rev[t] >= store.rev[t]]_vars
  <2> SUFFICES ASSUME SnapshotInv, SnapshotNext
               PROVE  /\ store'.version >= store.version
                      /\ \A t \in Table : store'.rev[t] >= store.rev[t]
    OBVIOUS
  <2>0. /\ store.version \in Nat /\ store'.version \in Nat
        /\ \A t \in Table : store.rev[t] \in Nat /\ store'.rev[t] \in Nat
    BY TypeStep DEF SnapshotInv, SnapshotTypeOK, Contents, Tables
  <2>1. CASE Swap
    BY <2>0, <2>1, SwapEffect
  <2>2. CASE UNCHANGED store
    BY <2>0, <2>2
  <2> QED
    BY <2>1, <2>2 DEF SnapshotNext, Loader, Mutate, Bump, PollMoved, ReadVersion,
                      ReadTable, LoadFails
<1> QED
  BY <1>1, InitSnapshot, DataStep, PTL DEF SnapshotSpec, ReadersNeverGoBack

-----------------------------------------------------------------------------
\* A key of a fresh entry was published no earlier than a fetch before it.
CacheDated ==
    cache.age =< TTL => \A k \in cache.keys : gone[k] =< cache.age + FetchTimeout

\* A key the issuer answered was published after the request went out.
AnswerDated ==
    \A r \in Request : req[r].phase = "receive" =>
        \A k \in req[r].keys : gone[k] =< req[r].age

\* An answer has the request's key if that was published all along.
AnswerHasSteadyKey ==
    \A r \in Request :
        req[r].steady => /\ req[r].kid \in published
                         /\ req[r].phase = "receive" => req[r].kid \in req[r].keys

PublishedNow == \A k \in published : gone[k] = 0

JwksInv ==
    /\ JwksTypeOK /\ PublishedNow
    /\ CacheDated /\ AnswerDated
    /\ AnswerHasSteadyKey /\ RotationWithoutDowntime

-----------------------------------------------------------------------------
LEMMA Constants ==
  /\ TTL \in Nat /\ FetchTimeout \in Nat
  /\ Forgotten \in Nat /\ Forgotten = TTL + FetchTimeout + 1
  /\ Expired \in Nat /\ Expired = TTL + 1
  BY JwksAssumption DEF Forgotten, Expired

LEMMA OlderBounds ==
  ASSUME NEW limit \in Nat, NEW age \in 0..limit
  PROVE  /\ Older(age, limit) \in 0..limit /\ Older(age, limit) =< age + 1
         /\ age =< Older(age, limit)
         /\ Older(age, limit) = age + 1 \/ (Older(age, limit) = limit /\ age = limit)
  BY DEF Older

LEMMA AtType ==
  ASSUME NEW phase \in Phase, NEW k \in Key, NEW steady \in BOOLEAN
  PROVE  /\ At(phase, k, steady) \in Verification
         /\ At(phase, k, steady).phase = phase /\ At(phase, k, steady).kid = k
         /\ At(phase, k, steady).steady = steady
<1>1. 0 \in 0..FetchTimeout
  BY Constants
<1> QED
  BY <1>1 DEF At, Verification

LEMMA RequestFields ==
  ASSUME JwksTypeOK, NEW r \in Request
  PROVE  /\ req[r] \in Verification
         /\ req[r].phase \in Phase /\ req[r].kid \in Key
         /\ req[r].age \in 0..FetchTimeout /\ req[r].keys \subseteq Key
         /\ req[r].steady \in BOOLEAN
<1>1. req[r] \in Verification
  BY DEF JwksTypeOK
<1> QED
  BY <1>1 DEF Verification

-----------------------------------------------------------------------------
(* The initial state.                                                      *)

LEMMA InitJwks == JwksInit => JwksInv
<1> SUFFICES ASSUME JwksInit PROVE JwksInv
  OBVIOUS
<1>1. PICK k \in Key : req = [r \in Request |-> At("idle", k, FALSE)]
  BY DEF JwksInit
<1>2. At("idle", k, FALSE) \in Verification /\ At("idle", k, FALSE).phase = "idle"
      /\ At("idle", k, FALSE).steady = FALSE
  <2>1. "idle" \in Phase
    BY DEF Phase
  <2>2. FALSE \in BOOLEAN
    OBVIOUS
  <2> QED
    BY <2>1, <2>2, AtType, Zenon
<1>3. cache \in Entry /\ cache.keys = {}
  <2>1. cache = [keys |-> {}, age |-> Expired]
    BY DEF JwksInit
  <2>2. Expired \in 0..Expired
    BY Constants
  <2> QED
    BY <2>1, <2>2 DEF Entry
<1>4. gone \in [Key -> 0..Forgotten] /\ \A j \in published : gone[j] = 0
  <2>1. 0 \in 0..Forgotten /\ Forgotten \in 0..Forgotten
    BY Constants
  <2> QED
    BY <2>1 DEF JwksInit
<1>5. JwksTypeOK
  BY <1>1, <1>2, <1>3, <1>4 DEF JwksInit, JwksTypeOK
<1>6. \A r \in Request : req[r].phase = "idle" /\ req[r].steady = FALSE
  BY <1>1, <1>2
<1> QED
  BY <1>3, <1>4, <1>5, <1>6
  DEF JwksInv, PublishedNow, CacheDated, AnswerDated, AnswerHasSteadyKey, RotationWithoutDowntime

-----------------------------------------------------------------------------
(* Steps of one request: what it may become, and what it may put in the    *)
(* cache.                                                                  *)

RequestStep(r) == Arrive(r) \/ Fetch(r) \/ Leave(r)

LEMMA StepEffect ==
  ASSUME JwksInv, NEW r \in Request, RequestStep(r)
  PROVE  /\ published' = published /\ gone' = gone
         /\ req' = [req EXCEPT ![r] = req'[r]]
         /\ req'[r] \in Verification
         /\ req'[r].phase = "receive" => \A k \in req'[r].keys : gone[k] =< req'[r].age
         /\ req'[r].steady => /\ req'[r].kid \in published
                              /\ req'[r].phase = "receive" => req'[r].kid \in req'[r].keys
                              /\ req'[r].phase # "unknown_key"
         /\ \/ cache' = cache
            \/ /\ cache' = [keys |-> req[r].keys, age |-> 0] /\ req[r].phase = "receive"
               /\ req[r].kid \in req[r].keys
<1>0. /\ req \in [Request -> Verification] /\ req[r] \in Verification
      /\ req[r].phase \in Phase /\ req[r].kid \in Key
      /\ req[r].age \in 0..FetchTimeout /\ req[r].keys \subseteq Key
      /\ req[r].steady \in BOOLEAN /\ published \subseteq Key
      /\ PublishedNow /\ AnswerDated /\ AnswerHasSteadyKey /\ RotationWithoutDowntime
  BY RequestFields DEF JwksInv, JwksTypeOK
<1>1. ASSUME NEW phase \in {"discover", "accepted", "rejected", "idle", "unknown_key"},
             NEW k \in Key, NEW steady \in BOOLEAN, req' = [req EXCEPT ![r] = At(phase, k, steady)],
             steady => k \in published /\ phase # "unknown_key"
      PROVE  /\ req' = [req EXCEPT ![r] = req'[r]] /\ req'[r] \in Verification
             /\ req'[r].phase # "receive"
             /\ req'[r].steady => req'[r].kid \in published /\ req'[r].phase # "unknown_key"
  <2>1. req'[r] = At(phase, k, steady)
    BY <1>0, <1>1
  <2>2. At(phase, k, steady) \in Verification /\ At(phase, k, steady).phase = phase
        /\ At(phase, k, steady).kid = k /\ At(phase, k, steady).steady = steady
    BY AtType DEF Phase
  <2> QED
    BY <1>1, <2>1, <2>2
<1>2. CASE Arrive(r)
  <2>1. ASSUME NEW k \in Key, NEW phase \in {"accepted", "rejected"},
               req' = [req EXCEPT ![r] = At(phase, k, FALSE)]
        PROVE  /\ req' = [req EXCEPT ![r] = req'[r]] /\ req'[r] \in Verification
               /\ req'[r].phase # "receive"
               /\ req'[r].steady => req'[r].kid \in published /\ req'[r].phase # "unknown_key"
    BY <1>1, <2>1
  <2>2. ASSUME NEW k \in Key, req' = [req EXCEPT ![r] = At("discover", k, k \in published)]
        PROVE  /\ req' = [req EXCEPT ![r] = req'[r]] /\ req'[r] \in Verification
               /\ req'[r].phase # "receive"
               /\ req'[r].steady => req'[r].kid \in published /\ req'[r].phase # "unknown_key"
    <3>1. (k \in published) \in BOOLEAN
      OBVIOUS
    <3>2. (k \in published) => k \in published /\ "discover" # "unknown_key"
      OBVIOUS
    <3> QED
      BY <1>1, <2>2, <3>1, <3>2
  <2> QED
    BY <1>2, <2>1, <2>2 DEF Arrive
<1>3. CASE Discover(r)
  <2>1. req'[r] = [req[r] EXCEPT !.phase = "fetch"] /\ req' = [req EXCEPT ![r] = req'[r]]
    BY <1>0, <1>3 DEF Discover
  <2>2. /\ req'[r] \in Verification /\ req'[r].phase = "fetch"
        /\ req'[r].steady = req[r].steady /\ req'[r].kid = req[r].kid
    BY <1>0, <2>1 DEF Verification, Phase
  <2> QED
    BY <1>0, <1>3, <2>1, <2>2 DEF Discover, AnswerHasSteadyKey
<1>4. CASE IssuerAnswers(r)
  <2>1. /\ req'[r] = [req[r] EXCEPT !.phase = "receive", !.keys = published]
        /\ req' = [req EXCEPT ![r] = req'[r]]
    BY <1>0, <1>4 DEF IssuerAnswers
  <2>2. /\ req'[r] \in Verification /\ req'[r].keys = published
        /\ req'[r].steady = req[r].steady /\ req'[r].kid = req[r].kid
        /\ req'[r].age = req[r].age /\ req'[r].phase = "receive"
    BY <1>0, <2>1 DEF Verification, Phase
  <2>3. \A k \in published : gone[k] =< req[r].age
    BY <1>0 DEF PublishedNow
  <2> QED
    BY <1>0, <1>4, <2>1, <2>2, <2>3 DEF IssuerAnswers, AnswerHasSteadyKey
<1>5. CASE Receive(r)
  <2>1. CASE req[r].kid \in req[r].keys
    <3>1. PICK phase \in {"accepted", "rejected"} :
                 req' = [req EXCEPT ![r] = At(phase, req[r].kid, FALSE)]
      BY <1>5, <2>1 DEF Receive
    <3>2. /\ req' = [req EXCEPT ![r] = req'[r]] /\ req'[r] \in Verification
          /\ req'[r].phase # "receive"
          /\ req'[r].steady => req'[r].kid \in published /\ req'[r].phase # "unknown_key"
      BY <1>0, <1>1, <3>1
    <3> QED
      BY <1>5, <2>1, <3>2 DEF Receive
  <2>2. CASE req[r].kid \notin req[r].keys
    <3>1. req[r].steady = FALSE
      BY <1>0, <1>5, <2>2 DEF Receive, AnswerHasSteadyKey
    <3>2. /\ req' = [req EXCEPT ![r] = At("unknown_key", req[r].kid, FALSE)]
          /\ UNCHANGED <<cache, published, gone>>
      BY <1>5, <2>2, <3>1 DEF Receive
    <3> QED
      BY <1>0, <1>1, <3>2
  <2> QED
    BY <2>1, <2>2
<1>6. CASE FetchFails(r)
  BY <1>0, <1>1, <1>6 DEF FetchFails
<1>7. CASE Leave(r)
  BY <1>0, <1>1, <1>7 DEF Leave
<1> QED
  BY <1>2, <1>3, <1>4, <1>5, <1>6, <1>7 DEF RequestStep, Fetch

LEMMA StepInv ==
  ASSUME JwksInv, NEW r \in Request, RequestStep(r)
  PROVE  JwksInv'
<1>0. /\ published' = published /\ gone' = gone
      /\ req' = [req EXCEPT ![r] = req'[r]]
      /\ req'[r] \in Verification
      /\ req'[r].phase = "receive" => \A k \in req'[r].keys : gone[k] =< req'[r].age
      /\ req'[r].steady => /\ req'[r].kid \in published
                           /\ req'[r].phase = "receive" => req'[r].kid \in req'[r].keys
                           /\ req'[r].phase # "unknown_key"
  BY StepEffect
<1>1. req \in [Request -> Verification] /\ req' \in [Request -> Verification]
      /\ \A q \in Request : q # r => req'[q] = req[q]
  BY <1>0 DEF JwksInv, JwksTypeOK
<1>2. cache' \in Entry /\ CacheDated'
  <2>1. CASE cache' = cache
    BY <1>0, <2>1 DEF JwksInv, JwksTypeOK, CacheDated
  <2>2. CASE /\ cache' = [keys |-> req[r].keys, age |-> 0] /\ req[r].phase = "receive"
             /\ req[r].kid \in req[r].keys
    <3>1. req[r].keys \subseteq Key /\ req[r].age \in 0..FetchTimeout
      BY RequestFields DEF JwksInv
    <3>2. \A k \in req[r].keys : gone[k] =< req[r].age /\ gone[k] \in Nat
      BY <2>2, <3>1, Constants DEF JwksInv, JwksTypeOK, AnswerDated
    <3>3. \A k \in req[r].keys : gone[k] =< 0 + FetchTimeout
      BY <3>1, <3>2, Constants
    <3>4. cache' \in Entry
      BY <2>2, <3>1, Constants DEF Entry
    <3> QED
      BY <1>0, <2>2, <3>3, <3>4 DEF CacheDated
  <2> QED
    BY <2>1, <2>2, StepEffect
<1>3. JwksTypeOK'
  BY <1>0, <1>1, <1>2 DEF JwksInv, JwksTypeOK
<1>4. AnswerDated'
  BY <1>0, <1>1 DEF JwksInv, AnswerDated
<1>5. AnswerHasSteadyKey' /\ RotationWithoutDowntime'
  BY <1>0, <1>1 DEF JwksInv, AnswerHasSteadyKey, RotationWithoutDowntime
<1>6. PublishedNow'
  BY <1>0 DEF JwksInv, PublishedNow
<1> QED
  BY <1>2, <1>3, <1>4, <1>5, <1>6 DEF JwksInv

-----------------------------------------------------------------------------
(* Steps of the issuer and the clock.                                      *)

LEMMA PublishInv ==
  ASSUME JwksInv, NEW k \in Key, Publish(k)
  PROVE  JwksInv'
<1>1. /\ gone \in [Key -> 0..Forgotten] /\ gone' = [gone EXCEPT ![k] = 0]
      /\ published' = published \cup {k} /\ published \subseteq Key
      /\ cache' = cache /\ req' = req /\ cache.keys \subseteq Key /\ cache.age \in Nat
  BY Constants DEF Publish, JwksInv, JwksTypeOK, Entry
<1>2. gone' \in [Key -> 0..Forgotten]
  BY <1>1, Constants
<1>3. \A j \in Key : gone'[j] =< gone[j] /\ gone'[j] \in Nat /\ gone[j] \in Nat
  BY <1>1, <1>2, Constants
<1>4. JwksTypeOK' /\ PublishedNow'
  BY <1>1, <1>2 DEF JwksInv, JwksTypeOK, PublishedNow
<1>5. CacheDated'
  BY <1>1, <1>3, Constants DEF JwksInv, CacheDated
<1>6. AnswerDated'
  <2> SUFFICES ASSUME NEW r \in Request, req[r].phase = "receive", NEW j \in req[r].keys
               PROVE  gone'[j] =< req[r].age
    BY <1>1 DEF AnswerDated
  <2>1. j \in Key /\ req[r].age \in Nat /\ gone[j] =< req[r].age
    BY RequestFields, Constants DEF JwksInv, AnswerDated
  <2> QED
    BY <1>3, <2>1
<1>7. AnswerHasSteadyKey' /\ RotationWithoutDowntime'
  BY <1>1 DEF JwksInv, AnswerHasSteadyKey, RotationWithoutDowntime
<1> QED
  BY <1>4, <1>5, <1>6, <1>7 DEF JwksInv

LEMMA WithdrawInv ==
  ASSUME JwksInv, NEW k \in Key, Withdraw(k)
  PROVE  JwksInv'
<1>1. /\ gone' = gone /\ cache' = cache /\ published' = published \ {k}
      /\ published \subseteq Key /\ req \in [Request -> Verification]
  BY DEF Withdraw, JwksInv, JwksTypeOK
<1>2. ASSUME NEW r \in Request
      PROVE  /\ req'[r] \in Verification
             /\ req'[r].phase = req[r].phase /\ req'[r].kid = req[r].kid
             /\ req'[r].age = req[r].age /\ req'[r].keys = req[r].keys
             /\ req'[r].steady => req[r].steady /\ req[r].kid # k
  <2>1. req'[r] = [req[r] EXCEPT !.steady = req[r].steady /\ req[r].kid # k]
    BY DEF Withdraw
  <2>2. req[r] \in Verification /\ (req[r].steady /\ req[r].kid # k) \in BOOLEAN
    BY <1>1
  <2> QED
    BY <2>1, <2>2 DEF Verification
<1>3. req' \in [Request -> Verification]
  <2>1. DOMAIN req' = Request /\ req' = [r \in Request |-> req'[r]]
    BY DEF Withdraw
  <2> QED
    BY <1>2, <2>1
<1>4. JwksTypeOK' /\ PublishedNow' /\ CacheDated'
  BY <1>1, <1>3 DEF JwksInv, JwksTypeOK, PublishedNow, CacheDated
<1>5. AnswerDated'
  BY <1>1, <1>2 DEF JwksInv, AnswerDated
<1>6. AnswerHasSteadyKey' /\ RotationWithoutDowntime'
  BY <1>1, <1>2 DEF JwksInv, AnswerHasSteadyKey, RotationWithoutDowntime
<1> QED
  BY <1>4, <1>5, <1>6 DEF JwksInv

LEMMA TickInv ==
  ASSUME JwksInv, Tick
  PROVE  JwksInv'
<1>0. /\ published' = published /\ published \subseteq Key
      /\ gone \in [Key -> 0..Forgotten] /\ cache \in Entry /\ cache.age \in 0..Expired
      /\ cache.keys \subseteq Key /\ req \in [Request -> Verification]
  BY DEF Tick, JwksInv, JwksTypeOK, Entry
<1>1. ASSUME NEW j \in Key
      PROVE  /\ gone'[j] \in 0..Forgotten /\ gone'[j] =< gone[j] + 1 /\ gone[j] \in Nat
             /\ j \in published => gone'[j] = 0
  <2>1. gone[j] \in 0..Forgotten
    BY <1>0
  <2>2. Older(gone[j], Forgotten) \in 0..Forgotten /\ Older(gone[j], Forgotten) =< gone[j] + 1
    BY <2>1, OlderBounds, Constants
  <2>3. gone'[j] = IF j \in published THEN 0 ELSE Older(gone[j], Forgotten)
    BY DEF Tick
  <2> QED
    BY <2>1, <2>2, <2>3, Constants
<1>2. gone' \in [Key -> 0..Forgotten]
  <2>1. gone' = [j \in Key |-> gone'[j]]
    BY DEF Tick
  <2> QED
    BY <1>1, <2>1
<1>3. /\ cache' \in Entry /\ cache'.keys = cache.keys /\ cache'.age \in 0..Expired
      /\ cache'.age =< TTL => cache'.age = cache.age + 1
  <2>1. cache' = [cache EXCEPT !.age = Older(cache.age, Expired)]
    BY DEF Tick
  <2>2. /\ Older(cache.age, Expired) \in 0..Expired
        /\ \/ Older(cache.age, Expired) = cache.age + 1
           \/ Older(cache.age, Expired) = Expired
    BY <1>0, OlderBounds, Constants
  <2>3. cache'.keys = cache.keys /\ cache'.age = Older(cache.age, Expired) /\ cache' \in Entry
    BY <1>0, <2>1, <2>2 DEF Entry
  <2> QED
    BY <2>2, <2>3, Constants
<1>4. ASSUME NEW r \in Request
      PROVE  /\ req'[r] \in Verification
             /\ req'[r].phase = req[r].phase /\ req'[r].kid = req[r].kid
             /\ req'[r].keys = req[r].keys /\ req'[r].steady = req[r].steady
             /\ req[r].phase = "receive" => req'[r].age = req[r].age + 1
  <2>1. CASE req[r].phase \in InFlight
    <3>1. req'[r] = [req[r] EXCEPT !.age = req[r].age + 1] /\ req[r].age < FetchTimeout
      BY <2>1 DEF Tick
    <3>2. req[r] \in Verification /\ req[r].age + 1 \in 0..FetchTimeout
      BY <3>1, RequestFields, Constants DEF JwksInv
    <3> QED
      BY <3>1, <3>2 DEF Verification
  <2>2. CASE req[r].phase \notin InFlight
    <3>1. req'[r] = req[r] /\ req[r].phase # "receive"
      BY <2>2 DEF Tick, InFlight
    <3> QED
      BY <1>0, <3>1
  <2> QED
    BY <2>1, <2>2
<1>5. req' \in [Request -> Verification]
  <2>1. req' = [r \in Request |-> req'[r]]
    BY DEF Tick
  <2> QED
    BY <1>4, <2>1
<1>6. JwksTypeOK' /\ PublishedNow'
  BY <1>0, <1>1, <1>2, <1>3, <1>5 DEF JwksTypeOK, PublishedNow
<1>7. CacheDated'
  <2> SUFFICES ASSUME cache'.age =< TTL, NEW j \in cache.keys
               PROVE  gone'[j] =< cache'.age + FetchTimeout
    BY <1>3 DEF CacheDated
  <2>1. cache'.age = cache.age + 1 /\ cache.age \in Nat /\ cache.age =< TTL
    BY <1>0, <1>3, Constants
  <2>2. j \in Key /\ gone[j] =< cache.age + FetchTimeout
    BY <1>0, <2>1 DEF JwksInv, CacheDated
  <2> QED
    BY <1>1, <2>1, <2>2, Constants
<1>8. AnswerDated'
  <2> SUFFICES ASSUME NEW r \in Request, req[r].phase = "receive", NEW j \in req[r].keys
               PROVE  gone'[j] =< req'[r].age
    BY <1>4 DEF AnswerDated
  <2>1. /\ j \in Key /\ gone[j] =< req[r].age /\ req[r].age \in Nat
        /\ req'[r].age = req[r].age + 1
    BY <1>4, RequestFields, Constants DEF JwksInv, AnswerDated
  <2> QED
    BY <1>1, <2>1, Constants
<1>9. AnswerHasSteadyKey' /\ RotationWithoutDowntime'
  BY <1>0, <1>4 DEF JwksInv, AnswerHasSteadyKey, RotationWithoutDowntime
<1> QED
  BY <1>6, <1>7, <1>8, <1>9 DEF JwksInv

-----------------------------------------------------------------------------
LEMMA NextInv == JwksInv /\ [JwksNext]_jwksVars => JwksInv'
<1> SUFFICES ASSUME JwksInv, [JwksNext]_jwksVars
             PROVE  JwksInv'
  OBVIOUS
<1>1. CASE UNCHANGED jwksVars
  BY <1>1 DEF jwksVars, JwksInv, JwksTypeOK, PublishedNow, CacheDated, AnswerDated,
              AnswerHasSteadyKey, RotationWithoutDowntime
<1>2. CASE JwksNext
  BY <1>2, StepInv, PublishInv, WithdrawInv, TickInv DEF JwksNext, RequestStep
<1> QED
  BY <1>1, <1>2

(* Every key, age and phase stays of its type.                             *)
THEOREM JwksTypeCorrect == JwksSpec => []JwksTypeOK
<1>1. JwksInv => JwksTypeOK
  BY DEF JwksInv
<1> QED
  BY <1>1, InitJwks, NextInv, PTL DEF JwksSpec

(* A key published since the request arrived is never unknown, however     *)
(* lookups, fetches and inserts interleave (jwt.rs:515-536).               *)
THEOREM RotationSafe == JwksSpec => []RotationWithoutDowntime
<1>1. JwksInv => RotationWithoutDowntime
  BY DEF JwksInv
<1> QED
  BY <1>1, InitJwks, NextInv, PTL DEF JwksSpec

(* What a step that accepts relies on: a cached key, or the issuer's       *)
(* answer.                                                                 *)
LEMMA AcceptedIsRecent ==
  ASSUME JwksInv, [JwksNext]_jwksVars, NEW r \in Request,
         req'[r].phase = "accepted", req[r].phase # "accepted"
  PROVE  gone[req'[r].kid] =< TTL + FetchTimeout
<1>0. /\ req \in [Request -> Verification] /\ gone \in [Key -> 0..Forgotten]
      /\ cache.age \in Nat /\ cache.keys \subseteq Key /\ TTL \in Nat /\ FetchTimeout \in Nat
  BY Constants DEF JwksInv, JwksTypeOK, Entry
<1>1. Arrive(r) \/ Receive(r)
  <2>1. CASE UNCHANGED jwksVars
    BY <2>1 DEF jwksVars
  <2>2. CASE Tick \/ \E k \in Key : Publish(k) \/ Withdraw(k)
    <3>1. req'[r].phase = req[r].phase
      BY <1>0, <2>2 DEF Tick, Publish, Withdraw, Verification
    <3> QED
      BY <3>1
  <2>3. ASSUME NEW q \in Request, q # r, RequestStep(q)
        PROVE  FALSE
    BY <1>0, <2>3, StepEffect
  <2>4. CASE Discover(r) \/ IssuerAnswers(r) \/ FetchFails(r) \/ Leave(r)
    <3>1. CASE Discover(r) \/ IssuerAnswers(r)
      BY <1>0, <3>1 DEF Discover, IssuerAnswers, Verification
    <3>2. CASE FetchFails(r) \/ Leave(r)
      BY <1>0, <3>2 DEF FetchFails, Leave, At
    <3> QED
      BY <2>4, <3>1, <3>2
  <2> QED
    BY <2>1, <2>2, <2>3, <2>4 DEF JwksNext, Fetch, RequestStep
<1>2. CASE Arrive(r)
  <2>1. PICK k \in Key :
           \/ /\ k \in Cached
              /\ \E phase \in {"accepted", "rejected"} :
                   req' = [req EXCEPT ![r] = At(phase, k, FALSE)]
           \/ req' = [req EXCEPT ![r] = At("discover", k, k \in published)]
    BY <1>2 DEF Arrive
  <2>2. k \in Cached /\ req'[r].kid = k
    <3>1. CASE req' = [req EXCEPT ![r] = At("discover", k, k \in published)]
      <4>1. req'[r] = At("discover", k, k \in published)
        BY <1>0, <3>1
      <4>2. req'[r].phase = "discover"
        BY <4>1 DEF At
      <4> QED
        BY <4>2
    <3>2. ASSUME k \in Cached, NEW phase \in {"accepted", "rejected"},
                 req' = [req EXCEPT ![r] = At(phase, k, FALSE)]
          PROVE  k \in Cached /\ req'[r].kid = k
      <4>1. req'[r] = At(phase, k, FALSE)
        BY <1>0, <3>2
      <4> QED
        BY <3>2, <4>1 DEF At
    <3> QED
      BY <2>1, <3>1, <3>2
  <2>3. cache.age =< TTL /\ k \in cache.keys
    BY <1>0, <2>2 DEF Cached
  <2>4. gone[k] =< cache.age + FetchTimeout /\ gone[k] \in Nat
    BY <1>0, <2>3, Constants DEF JwksInv, CacheDated
  <2>5. gone[k] =< TTL + FetchTimeout
    BY <1>0, <2>3, <2>4
  <2> QED
    BY <2>2, <2>5
<1>3. CASE Receive(r)
  <2>0. req[r].phase = "receive"
    BY <1>3 DEF Receive
  <2>1. /\ req[r].kid \in req[r].keys /\ req'[r].kid = req[r].kid
        /\ req[r].phase = "receive"
    <3>1. CASE req[r].kid \in req[r].keys
      <4> PICK phase \in {"accepted", "rejected"} :
                 req' = [req EXCEPT ![r] = At(phase, req[r].kid, FALSE)]
        BY <1>3, <3>1 DEF Receive
      <4>1. req'[r] = At(phase, req[r].kid, FALSE)
        BY <1>0
      <4> QED
        BY <2>0, <3>1, <4>1 DEF At
    <3>2. CASE req[r].kid \notin req[r].keys
      <4>1. req'[r] = At("unknown_key", req[r].kid, req[r].steady)
        BY <1>0, <1>3, <3>2 DEF Receive
      <4>2. req'[r].phase = "unknown_key"
        BY <4>1 DEF At
      <4> QED
        BY <4>2
    <3> QED
      BY <3>1, <3>2
  <2>2. /\ gone[req[r].kid] =< req[r].age /\ req[r].age \in 0..FetchTimeout
        /\ gone[req[r].kid] \in Nat
    BY <1>0, <2>1, RequestFields, Constants DEF JwksInv, AnswerDated
  <2> QED
    BY <1>0, <2>1, <2>2
<1> QED
  BY <1>1, <1>2, <1>3

(* A withdrawn key is accepted for TTL and the time of a fetch at most,    *)
(* whatever slow answers overwrite newer sets (jwt.rs:120-141, 515-536).   *)
THEOREM RetiredSafe == JwksSpec => RetiredKeysFallOut
<1>1. JwksInv /\ [JwksNext]_jwksVars =>
        [\A r \in Request :
           (req'[r].phase = "accepted" /\ req[r].phase # "accepted") =>
               gone[req'[r].kid] =< TTL + FetchTimeout]_jwksVars
  BY AcceptedIsRecent
<1> QED
  BY <1>1, InitJwks, NextInv, PTL DEF JwksSpec, RetiredKeysFallOut

=============================================================================
