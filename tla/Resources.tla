----------------------------- MODULE Resources ------------------------------
(***************************************************************************)
(* The management API of the project's resources and of the org's ad       *)
(* library: every handler of advertisers, campaigns, flights, ads, sites,  *)
(* zones, creatives, creative templates and library items, run by several  *)
(* clients at once against one table.  A behaviour is about one kind of    *)
(* resource; the tables it refers to are external, so a reference is found *)
(* or not.                                                                 *)
(*                                                                         *)
(* A handler is its arrival, where it may refuse before a transaction, the *)
(* statements of its transaction, one a step, and the commit.  A step that *)
(* fails drops the transaction.                                            *)
(***************************************************************************)
EXTENDS Transactions, Functions, Sequences

CONSTANTS Kind,      \* kinds of resource to model, a subset of AllKinds
          Preload,   \* the keys of the row its table starts with, by kind
          Batches,   \* the lists of items a batch may bring, by kind
          Capacity,  \* bound on the rows its table may get, by kind
          PageSize,  \* the limit of a list request
          MaxVersion \* edits of a template's source

AllKinds == {"advertiser", "campaign", "flight", "ad", "site", "zone",
             "creative", "template", "library"}

(* A row has one external id or none.                                      *)
OneName(keys) == \A e, f \in keys \cap Ext : e = f

ASSUME ResourcesAssumption ==
    /\ Kind \subseteq AllKinds
    /\ Preload \in [AllKinds -> Keys]
    /\ Batches \in [AllKinds -> SUBSET Seq(Keys)]
    /\ \A k \in AllKinds : OneName(Preload[k])
    /\ \A k \in AllKinds : \A b \in Batches[k] : \A n \in DOMAIN b : OneName(b[n])
    /\ Capacity \in [AllKinds -> Nat]
    /\ PageSize \in Nat \ {0} /\ MaxVersion \in Nat \ {0}

VARIABLES subject,  \* the kind this behaviour is about
          req,      \* each client's request, or its walk through a list
          objects   \* whose uploads the image store holds

vars == <<rows, writes, subject, req, objects>>

(* "run", "put", "write": the next statement, of which upload has three    *)
(* and the rest one or one per item.  "walk": between two pages of a list. *)
Phase == {"idle", "run", "put", "write", "commit", "walk", "answered"}
InTx  == {"run", "put", "write"}
Op    == {"none", "create", "upsert", "update", "batch", "upload", "list"}
Code  == {0, 200, 201, 400, 403, 404, 409, 413, 415, 422, 500}

Request == [phase : Phase, op : Op, items : Seq(Keys), at : Nat,
            id : 0..MaxId, bump : BOOLEAN, code : Code,
            start : SUBSET Id, seen : SUBSET Id, after : Nat]

Idle == [phase |-> "idle", op |-> "none", items |-> <<>>, at |-> 1, id |-> 0,
         bump |-> FALSE, code |-> 0, start |-> {}, seen |-> {}, after |-> 0]

\* A transaction is open.
Open(c) == req[c].phase \in InTx \cup {"commit"}

(* Types; and rows that are not committed are those of an open transaction.*)
ResourcesTypeOK ==
    /\ IsTable(rows)
    /\ DOMAIN writes = Client /\ \A c \in Client : IsTable(writes[c])
    /\ subject \in Kind
    /\ req \in [Client -> Request]
    /\ objects \subseteq Client
    /\ \A c \in Client : ~Open(c) => writes[c] = NoRows

(* Kinds whose table has a second unique column.                           *)
HasSecond == {"site", "template"}

ItemsOf(kind) ==
    LET named == {{}} \cup {{e} : e \in Ext} IN
    IF kind \in HasSecond THEN {e \cup {k} : e \in named, k \in Second} ELSE named

ResourcesInit ==
    /\ subject \in Kind
    /\ rows = Put(NoRows, 1, [keys |-> Preload[subject], by |-> Seed,
                              version |-> 1, image |-> Seed])
    /\ writes = [c \in Client |-> NoRows]
    /\ req = [c \in Client |-> Idle]
    /\ objects = {}

-----------------------------------------------------------------------------
Doing(c, kind, op, phase) ==
    subject = kind /\ req[c].op = op /\ req[c].phase = phase

Answer(c, code) ==
    req' = [req EXCEPT ![c] = [Idle EXCEPT !.phase = "answered", !.code = code]]

(* The transaction is dropped and the client is told.                      *)
Fail(c, code) == Answer(c, code) /\ Rollback(c) /\ UNCHANGED <<subject, objects>>

Goto(c, phase) == req' = [req EXCEPT ![c].phase = phase]

(* A bound: c may bring items while the rows they would all add fit        *)
(* Capacity.                                                               *)
Due(c) ==
    IF req[c].phase \in InTx /\ req[c].op \in {"create", "upsert", "batch"}
    THEN SubSeq(req[c].items, req[c].at, Len(req[c].items)) ELSE <<>>
Room(items) ==
    LET all     == FoldFunction(\o, items, [c \in Client |-> Due(c)])
        named   == {e \in Ext \cap UNION Range(all) :
                      \A i \in DOMAIN rows : e \notin rows[i].keys}
        unnamed == {n \in DOMAIN all : all[n] \cap Ext = {}}
    IN  NextId + Cardinality(named) + Cardinality(unnamed) <= Capacity[subject] + 1

(* open_project_tx: the role, the token's project, BEGIN, the project's    *)
(* org.  open_org_tx and org_authz refuse with the same codes.             *)
OpenTx(c, request) ==
    \/ req' = [req EXCEPT ![c] = request]
    \/ \E code \in {403, 500} : Answer(c, code)

(* A batch without rows has nothing to do but commit.                      *)
Opened(r, op) ==
    [r EXCEPT !.op = op,
              !.phase = IF op = "batch" /\ r.items = <<>> THEN "commit" ELSE "run"]

(* A write arrives: what the handler checks before it opens a transaction  *)
(* (early: the codes it may refuse with), then the opening.                *)
Arrive(c, kind, op, asks, early) ==
    /\ subject = kind /\ req[c].phase = "idle"
    /\ \/ \E r \in asks :
            /\ op \in {"create", "upsert", "batch"} => Room(r.items)
            /\ OpenTx(c, Opened(r, op))
       \/ \E code \in early : Answer(c, code)
    /\ UNCHANGED <<store, subject, objects>>

-----------------------------------------------------------------------------
(* Statements.                                                             *)

(* INSERT ... RETURNING.  breach: the codes for a row the table refuses    *)
(* for another reason than a unique key.                                   *)
InsertRow(c, kind, breach) ==
    /\ Doing(c, kind, "create", "run")
    /\ KeyAwaits(c, req[c].items[1]) = {}
    /\ \/ /\ Insert(c, req[c].items[1]) /\ Goto(c, "commit")
          /\ UNCHANGED <<subject, objects>>
       \/ /\ Clashing(c, req[c].items[1], {}) # {} /\ Fail(c, 409)
       \/ \E code \in breach : Fail(c, code)

(* UPDATE ... WHERE id = $1 RETURNING.                                     *)
UpdateRow(c, kind) ==
    LET i == req[c].id IN
    /\ Doing(c, kind, "update", "run")
    /\ RowAwaits(c, i) = {}
    /\ IF i \in DOMAIN rows
       THEN /\ Update(c, i, [rows[i] EXCEPT !.by = c])
            /\ Goto(c, "commit") /\ UNCHANGED <<subject, objects>>
       ELSE Fail(c, 404)

\* Mutant: the failing row ends the loop, and the rest is committed.
UpsertItemKept(c, kind) ==
    LET item == req[c].items[req[c].at]
        mine == {i \in DOMAIN Visible(c) :
                   Visible(c)[i].keys \cap item \cap Ext # {}}
        next == IF req[c].at = Len(req[c].items) THEN Goto(c, "commit")
                ELSE req' = [req EXCEPT ![c].at = @ + 1]
    IN  /\ Doing(c, kind, "batch", "run")
        /\ KeyAwaits(c, item) = {}
        /\ \/ /\ mine = {} /\ Insert(c, item) /\ next
           \/ /\ \E i \in mine :
                   Update(c, i, [Visible(c)[i] EXCEPT !.keys = item, !.by = c])
              /\ next
           \/ Clashing(c, item, mine) # {} /\ Goto(c, "commit") /\ UNCHANGED store
        /\ UNCHANGED <<subject, objects>>

(* One row of a batch: INSERT ... ON CONFLICT (project_id, external_id) DO *)
(* UPDATE.  A row that another unique column refuses ends the batch; so do *)
(* a reference that is not found and any other error (Fault).              *)
UpsertItem(c, kind) ==
    LET item == req[c].items[req[c].at]
        mine == {i \in DOMAIN Visible(c) :
                   Visible(c)[i].keys \cap item \cap Ext # {}}
        next == /\ IF req[c].at = Len(req[c].items) THEN Goto(c, "commit")
                   ELSE req' = [req EXCEPT ![c].at = @ + 1]
                /\ UNCHANGED <<subject, objects>>
    IN  /\ Doing(c, kind, "batch", "run")
        /\ KeyAwaits(c, item) = {}
        /\ \/ /\ mine = {} /\ Insert(c, item) /\ next
           \/ /\ \E i \in mine :
                   Update(c, i, [Visible(c)[i] EXCEPT !.keys = item, !.by = c])
              /\ next
           \/ Clashing(c, item, mine) # {} /\ Fail(c, 422)

(* SELECT ... WHERE id = $1: one statement, and nothing is written.        *)
GetRow(c, kind) ==
    /\ subject = kind /\ req[c].phase = "idle"
    /\ \/ \E i \in 1..MaxId : Answer(c, IF i \in DOMAIN rows THEN 200 ELSE 404)
       \/ \E code \in {403, 500} : Answer(c, code)
    /\ UNCHANGED <<store, subject, objects>>

\* Mutant: the cursor names the row that was fetched to see whether there is a next page.
PageOfPeek(c, kind) ==
    LET left == {i \in DOMAIN rows : req[c].phase = "walk" => i < req[c].after}
        page == {i \in left : Cardinality({j \in left : j > i}) <= PageSize}
        kept == {i \in page : Cardinality({j \in page : j > i}) < PageSize}
        walk == [req[c] EXCEPT !.seen = @ \cup kept,
                   !.start = IF req[c].phase = "idle" THEN DOMAIN rows ELSE @]
    IN  /\ subject = kind /\ req[c].phase \in {"idle", "walk"}
        /\ \/ /\ Cardinality(page) <= PageSize
              /\ req' = [req EXCEPT ![c] = [walk EXCEPT !.op = "list", !.after = 0,
                                                        !.phase = "answered", !.code = 200]]
           \/ /\ Cardinality(page) > PageSize
              /\ req' = [req EXCEPT ![c] = [walk EXCEPT !.op = "list", !.phase = "walk",
                                                        !.after = Min(page)]]
        /\ UNCHANGED <<store, subject, objects>>

(* A page of a list: ORDER BY id DESC LIMIT limit + 1, below the cursor's  *)
(* id if there is a cursor.  The extra row says whether there is a next    *)
(* page; the cursor names the last row of this one.  The client starts     *)
(* over, or walks on with the cursor it was given.                         *)
PageOf(c, kind) ==
    LET left == {i \in DOMAIN rows : req[c].phase = "walk" => i < req[c].after}
        page == {i \in left : Cardinality({j \in left : j > i}) <= PageSize}
        kept == {i \in page : Cardinality({j \in page : j > i}) < PageSize}
        walk == [req[c] EXCEPT !.op = "list", !.seen = @ \cup kept,
                   !.start = IF req[c].phase = "idle" THEN DOMAIN rows ELSE @]
    IN  /\ subject = kind /\ req[c].phase \in {"idle", "walk"}
        /\ \/ /\ page = kept
              /\ req' = [req EXCEPT ![c] = [walk EXCEPT !.after = 0, !.phase = "answered",
                                                        !.code = 200]]
           \/ /\ page # kept
              /\ req' = [req EXCEPT ![c] = [walk EXCEPT !.phase = "walk",
                                                        !.after = Min(kept)]]
           \/ \E code \in {400, 403, 500} : Answer(c, code)
        /\ UNCHANGED <<store, subject, objects>>

-----------------------------------------------------------------------------
(* The handlers.                                                           *)

Targets == {[Idle EXCEPT !.id = i] : i \in 1..MaxId}

Create(c, kind, early, breach) ==
    \/ Arrive(c, kind, "create", {[Idle EXCEPT !.items = <<k>>] : k \in ItemsOf(kind)}, early)
    \/ InsertRow(c, kind, breach)

Patch(c, kind) == Arrive(c, kind, "update", Targets, {}) \/ UpdateRow(c, kind)

Batch(c, kind, early) ==
    \/ Arrive(c, kind, "batch", {[Idle EXCEPT !.items = b] : b \in Batches[kind]}, early)
    \/ UpsertItem(c, kind)

(* A row that refers to another answers 422 when that one is not there.    *)

CreateAdvertiser(c) == Create(c, "advertiser", {}, {})
UpdateAdvertiser(c) == Patch(c, "advertiser")
BatchAdvertisers(c) == Batch(c, "advertiser", {})
GetAdvertiser(c)   == GetRow(c, "advertiser")
ListAdvertisers(c) == PageOf(c, "advertiser")

CreateCampaign(c) == Create(c, "campaign", {}, {422})
UpdateCampaign(c) == Patch(c, "campaign")
BatchCampaigns(c) == Batch(c, "campaign", {})
GetCampaign(c)   == GetRow(c, "campaign")
ListCampaigns(c) == PageOf(c, "campaign")

(* No ad_types: 400 on its own, and 422 for the batch that has such a row. *)
CreateFlight(c) == Create(c, "flight", {400}, {422})
UpdateFlight(c) == Patch(c, "flight")
BatchFlights(c) == Batch(c, "flight", {422})
GetFlight(c)   == GetRow(c, "flight")
ListFlights(c) == PageOf(c, "flight")

CreateAd(c) == Create(c, "ad", {}, {422})
UpdateAd(c) == Patch(c, "ad")
BatchAds(c) == Batch(c, "ad", {})
GetAd(c)   == GetRow(c, "ad")
ListAds(c) == PageOf(c, "ad")

CreateZone(c) == Create(c, "zone", {}, {422})
UpdateZone(c) == Patch(c, "zone")
BatchZones(c) == Batch(c, "zone", {})
GetZone(c)   == GetRow(c, "zone")
ListZones(c) == PageOf(c, "zone")

(* Either unique column answers 409.                                       *)
CreateSite(c) == Create(c, "site", {}, {})
UpdateSite(c) == Patch(c, "site")
BatchSites(c) == Batch(c, "site", {})
GetSite(c)   == GetRow(c, "site")
ListSites(c) == PageOf(c, "site")

(* SELECT by url, then INSERT without an external id: two statements, and  *)
(* the url may be taken between them.                                      *)
UpsertSiteByUrl(c) ==
    \/ Arrive(c, "site", "upsert", {[Idle EXCEPT !.items = <<{u}>>] : u \in Second}, {})
    \/ /\ Doing(c, "site", "upsert", "run")
       /\ IF Clashing(c, req[c].items[1], {}) = {}
          THEN Goto(c, "write") /\ UNCHANGED <<store, subject, objects>>
          ELSE Fail(c, 200)
    \/ /\ Doing(c, "site", "upsert", "write")
       /\ KeyAwaits(c, req[c].items[1]) = {}
       /\ \/ /\ Insert(c, req[c].items[1]) /\ Goto(c, "commit")
             /\ UNCHANGED <<subject, objects>>
          \/ Clashing(c, req[c].items[1], {}) # {} /\ Fail(c, 500)

(* The kind, and what the kind needs: 400.  A template that is missing or  *)
(* has no source, and a reference not found: 422.                          *)
CreateCreative(c) == Create(c, "creative", {400}, {422})
GetCreative(c)   == GetRow(c, "creative")
ListCreatives(c) == PageOf(c, "creative")

(* The template and its engine must go together and parse: 422.            *)
CreateTemplate(c) == Create(c, "template", {}, {422})
GetTemplate(c)   == GetRow(c, "template")
ListTemplates(c) == PageOf(c, "template")

CreateLibraryItem(c) == Create(c, "library", {400}, {})
UpdateLibraryItem(c) == Patch(c, "library")
GetLibraryItem(c) == GetRow(c, "library")

(* The newest 500, without a cursor.                                       *)
ListLibrary(c) ==
    /\ subject = "library" /\ req[c].phase = "idle"
    /\ \E code \in {200, 403, 500} : Answer(c, code)
    /\ UNCHANGED <<store, subject, objects>>

(* A new source, or a new name.                                            *)
Revisions ==
    UNION {{[Idle EXCEPT !.id = i, !.bump = TRUE]}
           \cup {[Idle EXCEPT !.id = i, !.items = <<{n}>>] : n \in Second} : i \in 1..MaxId}

(* COALESCE keeps what the request leaves out.  A new schema or source     *)
(* adds 1 to the version, in the statement; a name that is taken is an     *)
(* error like any other.                                                   *)
UpdateTemplate(c) ==
    LET i    == req[c].id
        name == IF req[c].items = <<>> THEN {} ELSE req[c].items[1]
        row  == [rows[i] EXCEPT !.by = c,
                   !.version = @ + IF req[c].bump THEN 1 ELSE 0,
                   !.keys = IF name = {} THEN @ ELSE (@ \cap Ext) \cup name]
    IN  \/ Arrive(c, "template", "update", Revisions, {})
        \/ /\ Doing(c, "template", "update", "run")
           /\ \/ Fail(c, 422)
              \/ /\ RowAwaits(c, i) \cup KeyAwaits(c, name) = {}
                 /\ \/ i \notin DOMAIN rows /\ Fail(c, 404)
                    \/ /\ i \in DOMAIN rows
                       /\ req[c].bump => rows[i].version < MaxVersion
                       /\ \/ /\ Update(c, i, row) /\ Goto(c, "commit")
                             /\ UNCHANGED <<subject, objects>>
                          \/ Clashing(c, row.keys, {i}) # {} /\ Fail(c, 500)

\* Mutant: the row names the image before the store has it.
UploadImageLate(c) ==
    LET i == req[c].id IN
    \/ Arrive(c, "creative", "upload", Targets, {500})
    \/ /\ Doing(c, "creative", "upload", "run")
       /\ IF i \in DOMAIN rows
          THEN Goto(c, "write") /\ UNCHANGED <<store, subject, objects>>
          ELSE Fail(c, 404)
    \/ /\ Doing(c, "creative", "upload", "write")
       /\ RowAwaits(c, i) = {}
       /\ Update(c, i, [rows[i] EXCEPT !.image = c]) /\ Goto(c, "commit")
       /\ UNCHANGED <<subject, objects>>

(* No image store: 500.  In the transaction: SELECT the creative; read and *)
(* check the body and put it in the image store under a fresh name; then   *)
(* the row is given the url, and neither a new etag nor a new updated_at.  *)
UploadImage(c) ==
    LET i == req[c].id IN
    \/ Arrive(c, "creative", "upload", Targets, {500})
    \/ /\ Doing(c, "creative", "upload", "run")
       /\ IF i \in DOMAIN rows
          THEN Goto(c, "put") /\ UNCHANGED <<store, subject, objects>>
          ELSE Fail(c, 404)
    \/ /\ Doing(c, "creative", "upload", "put")
       /\ \/ /\ objects' = objects \cup {c}
             /\ Goto(c, "write") /\ UNCHANGED <<store, subject>>
          \/ \E code \in {400, 413, 415} : Fail(c, code)
    \/ /\ Doing(c, "creative", "upload", "write")
       /\ RowAwaits(c, i) = {}
       /\ Update(c, i, [rows[i] EXCEPT !.image = c]) /\ Goto(c, "commit")
       /\ UNCHANGED <<subject, objects>>

-----------------------------------------------------------------------------
(* tx.commit() returns.                                                    *)
Finish(c) ==
    /\ req[c].phase = "commit"
    /\ Commit(c) /\ UNCHANGED <<subject, objects>>
    /\ Answer(c, IF req[c].op \in {"create", "upsert"} THEN 201 ELSE 200)

(* tx.commit() fails, before or after the server committed.                *)
CommitFails(c) ==
    /\ req[c].phase = "commit"
    /\ Commit(c) \/ Rollback(c)
    /\ Answer(c, 500) /\ UNCHANGED <<subject, objects>>

(* A statement fails: the connection, a timeout, a constraint of the batch.*)
(* Batches answer 422 whatever the error was.                              *)
Fault(c) ==
    /\ req[c].phase \in InTx
    /\ Fail(c, IF req[c].op = "batch" THEN 422 ELSE 500)

(* Whom c's next statement waits for.                                      *)
Awaits(c) ==
    LET r == req[c] IN
    IF r.phase \notin InTx THEN {}
    ELSE CASE r.op \in {"create", "batch"} -> KeyAwaits(c, r.items[r.at])
           [] r.op = "upsert" -> IF r.phase = "write" THEN KeyAwaits(c, r.items[1]) ELSE {}
           [] r.op = "update" -> RowAwaits(c, r.id)
                \cup UNION {KeyAwaits(c, r.items[n]) : n \in DOMAIN r.items}
           [] OTHER -> IF r.phase = "write" THEN RowAwaits(c, r.id) ELSE {}

InCircle(c) == \E circle \in SUBSET Client :
    /\ c \in circle
    /\ \A d \in circle : \E e, f \in circle : e \in Awaits(d) /\ d \in Awaits(f)

\* Mutant: the victim's batch starts over in a new transaction.
DeadlockRetried(c) ==
    /\ InCircle(c)
    /\ Rollback(c) /\ req' = [req EXCEPT ![c].at = 1]
    /\ UNCHANGED <<subject, objects>>

(* PostgreSQL fails one of a circle of transactions that wait for each     *)
(* other.                                                                  *)
Deadlock(c) == InCircle(c) /\ Fault(c)

\* Mutant: the transaction of a client that went away is never dropped.
HangUpInTx(c) ==
    /\ req[c].phase \in InTx \cup {"commit", "walk"}
    /\ UNCHANGED store \/ (req[c].phase = "commit" /\ Commit(c))
    /\ req' = [req EXCEPT ![c] = Idle]
    /\ UNCHANGED <<subject, objects>>

(* The client goes away, and with it the handler's future: the transaction *)
(* is dropped, unless COMMIT is already on its way.                        *)
HangUp(c) ==
    /\ req[c].phase \in InTx \cup {"commit", "walk"}
    /\ Rollback(c) \/ (req[c].phase = "commit" /\ Commit(c))
    /\ req' = [req EXCEPT ![c] = Idle]
    /\ UNCHANGED <<subject, objects>>

Leave(c) ==
    /\ req[c].phase = "answered"
    /\ req' = [req EXCEPT ![c] = Idle]
    /\ UNCHANGED <<store, subject, objects>>

Writes(c) ==
    \/ CreateAdvertiser(c) \/ UpdateAdvertiser(c) \/ BatchAdvertisers(c)
    \/ CreateCampaign(c) \/ UpdateCampaign(c) \/ BatchCampaigns(c)
    \/ CreateFlight(c) \/ UpdateFlight(c) \/ BatchFlights(c)
    \/ CreateAd(c) \/ UpdateAd(c) \/ BatchAds(c)
    \/ CreateZone(c) \/ UpdateZone(c) \/ BatchZones(c)
    \/ CreateSite(c) \/ UpdateSite(c) \/ BatchSites(c) \/ UpsertSiteByUrl(c)
    \/ CreateCreative(c) \/ UploadImage(c)
    \/ CreateTemplate(c) \/ UpdateTemplate(c)
    \/ CreateLibraryItem(c) \/ UpdateLibraryItem(c)

Reads(c) ==
    \/ GetAdvertiser(c) \/ GetCampaign(c) \/ GetFlight(c) \/ GetAd(c) \/ GetZone(c)
    \/ GetSite(c) \/ GetCreative(c) \/ GetTemplate(c) \/ GetLibraryItem(c)
    \/ ListLibrary(c)

Pages(c) ==
    \/ ListAdvertisers(c) \/ ListCampaigns(c) \/ ListFlights(c) \/ ListAds(c)
    \/ ListZones(c) \/ ListSites(c) \/ ListCreatives(c) \/ ListTemplates(c)

ResourcesNext == \E c \in Client :
    \/ Writes(c) \/ Reads(c) \/ Pages(c) \/ Finish(c) \/ CommitFails(c)
    \/ Fault(c) \/ Deadlock(c) \/ HangUp(c) \/ Leave(c)

ResourcesSpec == ResourcesInit /\ [][ResourcesNext]_vars

(* A statement that need not wait returns, a commit returns, and of those  *)
(* who wait in a circle one is failed.  Strong fairness: PostgreSQL queues *)
(* those who wait for a row, so that one whose row is freed again and again*)
(* gets it.                                                                *)
Serve(c) == Open(c) /\ (Writes(c) \/ Finish(c) \/ Deadlock(c))

ResourcesFairSpec == ResourcesSpec /\ \A c \in Client : SF_vars(Serve(c))

-----------------------------------------------------------------------------
(* The management API keeps the promise of Store.                          *)
Ask(c) == IF Open(c) THEN [op |-> req[c].op, items |-> req[c].items,
                           id |-> req[c].id, bump |-> req[c].bump]
                     ELSE [op |-> "none", items |-> <<>>, id |-> 0, bump |-> FALSE]

Asked    == [c \in Client |-> Ask(c)]
Answered == [c \in Client |-> IF Open(c) THEN 100 ELSE req[c].code]

Promise == INSTANCE Store WITH ask <- Asked, answer <- Answered

(* Every write is serializable and its answer truthful: what the handlers  *)
(* do with transactions, waits and failed commits is a behaviour of Store. *)
ImplementsStore == Promise!StoreSpec

(* Keyset pagination: whatever is written meanwhile, a client that follows *)
(* the cursors has been shown, at each moment, every row at or above its   *)
(* cursor that was there when it started, and no row twice: the rows it    *)
(* still has to be shown are those below.                                  *)
WalkExact == \A c \in Client :
    /\ req[c].phase = "walk" =>
         /\ {i \in req[c].start : i >= req[c].after} \subseteq req[c].seen
         /\ \A i \in req[c].seen : i >= req[c].after
    /\ req[c].phase = "answered" => req[c].start \subseteq req[c].seen

(* A committed image_url names an object the image store has: the handler  *)
(* puts the object before it writes the row.                               *)
ImagesStored == \A i \in DOMAIN rows : rows[i].image \in objects \cup {Seed}

(* A write that has opened its transaction is answered, though statements  *)
(* wait for each other's rows, or its client gives up.                     *)
WritesEnd == \A c \in Client : Open(c) ~> ~Open(c)

=============================================================================
