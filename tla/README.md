# knievel, verified

TLA+ modules, TLC configurations and TLAPS proofs for knievel, a multi-tenant ad-decision
server (Rust, Postgres). Paths below are relative to the repository root, which the modules
call `src/`; the Rust code is in `src/src/`.

## 1. The system

One binary runs in any number of processes against one Postgres database. Each process has an
HTTP server (poem), one sqlx pool, and background tokio tasks: the leader task, the snapshot
loader, the event flusher, the partition job and the rollup job.

| Component | State it keeps | Operations | Talks to | What makes it correct |
|---|---|---|---|---|
| Leader election, `leader.rs` | `is_leader`, `last_tick`; a pool connection; a session-level advisory lock in Postgres | `run_one_session` (acquire, poll, lead, 30 s check, watchdog), `spawn` (retry), `record_tick` | pool, Postgres, the two jobs | grants exclude each other; of two raised flags one at most is a live lease; leadership comes back |
| Rollup compute, `rollup.rs` | `events_rollup`, `events_rollup_watermark` | `run_once`: watermark, clock, cold-start probe or jump, one transaction per hour | leader flag, `events_raw`, reporters | counts behind the watermark are exact and never change; every hour is published |
| Event pipeline, `events.rs`, `event_endpoints.rs`, end of `decisions.rs` | bounded channel, the flusher's batch, `events_raw` | `try_send`, `flusher_loop`, `flush_batch`, impressions, clicks, decisions | partitions, rollup, shutdown | accepted events are consumed in order and at most once; decisions always count; nothing waits for ever |
| Snapshot loader, `snapshot.rs` | one immutable snapshot behind a swap, its `config_version` | `run_loader` (cold load, 5 s poll), `load_snapshot`, `swap` | management tables, the decision path | a version stands for everything committed before it; readers never go back; every version is served |
| Partition manager, `partitions.rs` | daily leaves of `events_raw`, the seed leaf | `run_once`: premake, row-level security, detach aged leaves | leader flag, the flusher | retention keeps what it must; every day gets its leaf; the days ahead have theirs |
| Decision endpoint and selection, `decisions.rs`, `selection.rs` | none (the snapshot) | `decisions`, `explain`, `decide_pure`, `filter`, `priority`, `weighted_random` | snapshot, channel, audit log | only eligible ads; force is gated and audited; the response and the events agree |
| Authentication, `auth/` | the JWKS cache | `verify_bearer`: JWT with key lookup and fetch, opaque token with a lookup in `api_tokens` | issuers, every handler | rotation without downtime; retired keys and revoked tokens stay out |
| API tokens, `tokens.rs` | `api_tokens`, `audit_log` | mint, list, revoke | every handler | tokens and audit log agree |
| Projects and idempotency, `orgs.rs`, `idempotency.rs`, `taxonomy.rs` | `projects`, `idempotency_keys`, the default taxonomy | `create_project` with check and store, reads | clients that retry | a project is whole; a replay names a committed project |
| Management resources, `advertisers.rs` ... `zones.rs`, `library.rs` | nine tenant tables | create, get, list, update, batch, upsert by URL, image upload | snapshot loader, image store | a write takes effect at one moment, wholly or not at all, and its answer says which |
| Request conventions, `handlers.rs`, `pagination.rs`, `sql.rs`, `db.rs`, `audit.rs`, `etag.rs` | cursors | `open_project_tx`, `next_cursor`, error classification | handlers | walks neither skip nor repeat a row |
| Server lifecycle, `server.rs`, `migrate.rs`, `state.rs` | the state of the process | boot, `run`, `shutdown_signal` | everything | a shutdown keeps the order of what is stored |
| Image store, URL signing, rendering, request log, CLI, web UI, xtask, charts | - | - | - | see section 7 |

How they interact: the leader's flag gates the two jobs; the jobs' ticks feed the leader's
watchdog. The event pipeline fills `events_raw`, which needs the partition manager's leaves and
is read by the rollup. The management API fills the tables the snapshot loader reads; the
decision path reads only the snapshot and writes only the channel and, for a forced request, one
audit row. Every handler begins with authentication.

The behaviours that are hard to test, each with its line and the properties about it, are the
`hazards` of `PROJECT.json`: stale leadership and re-entrant locks on pooled connections, two
catch-up loops at once, torn snapshot loads, poisoned batches, replayed URLs, shutdown with
events in memory, a snapshot swapped or a channel filled in the middle of a decision, passes of a
stale leader, slow answers of an old key set, concurrent requests with one idempotency key,
batches that deadlock, commits whose outcome is unknown, lists walked while rows are added.

## 2. Modules

| Module | What it is |
|---|---|
| `Lease` | abstract lease: at most one process is granted it, a flag rises only after a grant and may outlive it |
| `Leader` | `leader.rs` with its environment (Postgres sessions, network, sqlx pool, crashes); implements `Lease` |
| `Ledger` | abstract ledger: what reporters are promised of hourly counts |
| `Rollup` | `rollup.rs` over `Lease` (an INSTANCE) and the flusher's rows; implements `Ledger` |
| `Delivery` | abstract delivery: accepted events are resolved in order, each stored at most once |
| `EventPipeline` | `events.rs`, the senders, shutdown and crash; implements `Delivery` |
| `Snapshot` | `snapshot.rs` against management transactions |
| `WeightedDraw` | what the weighted draw promises: up to n distinct ads of positive weight, all if there are no more |
| `Selection` | `weighted_random` of `selection.rs`, roll by roll, against `WeightedDraw` |
| `Decision` | the `decisions` handler, `decide_pure` and the explainer, with the filters of `selection.rs` and any draw of `WeightedDraw` |
| `Calendar` | `ymd_from_epoch`, by which leaves are named and compared, against the Gregorian calendar |
| `Partitions` | `partitions.rs`, statement by statement, under stale leaders |
| `Jwks` | the JWT path of `auth/jwt.rs`: cache, discovery, fetch, rotation |
| `Transactions` | one table under READ COMMITTED as sqlx uses it: uncommitted rows, waits, commit, rollback |
| `Store` | abstract write API: a request takes effect at one moment or not at all, and is answered accordingly |
| `Resources` | every handler of the nine kinds of resource over `Transactions`; implements `Store` |
| `Tenancy` | projects, idempotency keys, taxonomy, API tokens, audit rows |
| `*MC` | the instances TLC checks, one for each model; `DecisionMC` has `Decision` and `Selection` |
| `Loops` | induction for the loops of the models: lemmas only |
| `*_proofs` | theorems and proofs: `Jobs_proofs` for `Leader` and `Partitions`, `Caches_proofs` for `Snapshot` and `Jwks`, `Decision_proofs` for `Decision` and `Selection`, and `Rollup_proofs`, `EventPipeline_proofs`, `Tenancy_proofs`, `Resources_proofs` for the model of that name |

Composition. `Rollup` is composed with the abstract lease and not with `Leader`:
`ImplementsLease` (run `leader`, theorem `LeaderRefinesLease`) is what makes that sound, so what
holds of two rollup runs over `Lease` holds of them over `leader.rs`. `Decision` uses the promise
`WeightedDraw` of the draw, which `Selection` is checked against (`ReturnsADraw`). `Resources`
extends `Transactions`. `Partitions` assumes less of leadership than `Lease` gives: any number of
processes may believe they lead at any time.

### Leader

`pc` is where the leader task is between two awaits of `run_one_session` and `spawn`. A
connection has two ends: `link` says what client and server believe (`cut`: the network is
gone and neither knows; `stale`: the server ended the session; `orphan`: the client is gone).
The advisory lock belongs to a server session, `lockHolder`, and counts its grants,
`lockDepth`, because `pg_try_advisory_lock` is re-entrant and a pooled connection can come
back to the task with the lock on it. `WatchdogRelease` and `WatchdogStepDown` are two actions
because the code awaits the unlock before it stores `is_leader = false`. `age` is `last_tick`
in hours. The jobs appear as `JobStart`, `JobOk`, `JobErr`: all they do to the handle.

### Rollup

Hours are integers, counts are the two numbers the SQL tells apart (rows, and rows with
`is_duplicate`). `run_once` is five steps: the watermark (`ReadWatermark`), the clock
(`ReadClock`, target = previous hour), the cold-start probe (`ProbeEarliest`), the jump
(`JumpToTarget`) and one transaction per hour (`AggregateHour`). A run never rereads the flag,
so `LoseLease`, `NoticeLoss`, `GiveUp` leave it running. `Fresh` is an assumption: an event row
lands in `events_raw` in its own hour or the next one. The code justifies it by the flusher's
one second tick and by a rollup target one hour back; a database outage of more than an hour
is outside it. At `MaxHour` the event clock stops but ticks go on, so liveness is about runs
and not about the end of the model.

### EventPipeline

`chan` is the mpsc channel, `batch` the flusher's vector, `flusher` its place in the select
loop; `log` and `stored` are history variables. A request is a hit of a signed URL (one event,
dropped if the channel is full) or a decision (several events, 503 at the first that does not
fit, the earlier ones stay queued). `FlushCommit` is one transaction with
`ON CONFLICT (project_id, kind, dedup_key, ts) DO UPDATE`; decision events carry no dedup key
(NULLs never conflict). `FlushFail` covers a database error and a row without a leaf: the batch
is gone either way. `Sigterm`, `ServerStops`, `Exit` follow `server.rs`, which drops the
flusher's handle. Verification of a signature is abstracted to whether the hit arrives; a
click's and an impression's kind is part of the key.

### Snapshot

A table's content is the number of mutations committed to it; that is what tells an old load
from a new one. `ReadVersion` and `ReadTable` are separate because `load_snapshot` runs under
READ COMMITTED. `Bump` is `nextval`, which no code path calls (see the finding); the first call
leaves `last_value` at 1. `revAtBump` is a history variable.

### Selection

One behaviour is one call of `weighted_random`: the weights clipped at zero (`InitialPool`), the
walk over the pool (`Before`, `Hits`), a turn of the loop (`Draw`) for every roll, the ways out
(`Return`). The seed is left open: every sequence of rolls is explored. The function has a
`break` for a roll that falls in no slot; `RollsProportional` shows there is no such roll.

### Decision

`Catalog` gives the project's slice of each snapshot version; version 0 is the cold store. A
request is a record of `req`: its phase is where the handler is, `version` the snapshot it
grabbed, `at` its `now_ms`, `answer` and `events` what `decide_pure` has composed, `sent` what is
in the channel. Handlers interleave at every step, finer than the code, whose only awaits are
the transaction's: what holds here holds there. `Grab` is validation, snapshot read and force
gate, in that order and without an await between them. `Commit` can report an error although the
row is there. `HangUp` is the server dropping a handler's future at an await. `Fills` is one
placement of `decide_pure`, as the set of the answers it may give; `DecidePure` depends on
snapshot, request and time only, which is the code's own claim (`decisions.rs:209-219`).
`Place` runs the loop one placement at a time because a later placement can still refuse the
request (`PlaceRefused`, after a forced request is audited). Which of a request's events is sent
first is left open.

A body's `call` says which of the two endpoints it is sent to. `Explain` is one step: after
`open_project_tx` the explainer drops its transaction and awaits nothing more. It looks at the
store before the placements, answers a placement without ad types with nothing instead of
refusing the request, does not render, and keeps the last answer of placements with one id
(`Reported`). `Passes` is the conjunction of the rules it lists for a candidate.

`force.*` other than `ad_id` and `site_external_id` change nothing in the code, so they are not
in the bodies. An unforced call of `forced_candidate` cannot happen: the gate turns away every
request with a `force` member that it does not honor.

### Partitions, Calendar

Days are counted from 2026-01-01. A leaf of a day is that number and the seed leaf of migration
0010 is -1, because its name sorts before those of all the days it covers. `Calendar` has what
the rest of that abstraction rests on, the date arithmetic and the order of names: TLC evaluates
both over three stretches of days (an assumption of `PartitionsMC`), and `NamesSortAsDays` proves
them for every day up to 9999-12-31, the last of a four-digit year. Days before 1970 are left
out: a clock does not show them.

A pass (`pass[p]`) reads today once (`Tick`), then makes a leaf (`CreateLeaf`, which fails as
`Overlap` on a day the attached seed covers), alters it, goes on to the next day, lists, and
detaches one leaf a step. `PassFails` and `Die` end it anywhere.

The two `ALTER`s of a leaf go to Postgres in one `sqlx::query`, hence as one prepared statement,
which Postgres refuses. `AlterAnswers` says what the model lets it answer: `"refused"` is the
program as it is (`RefuseAlter` ends the pass behind its first leaf), `"run"` the program as it
was meant (`AlterLeaf` goes on). `partitions` allows both, at every `ALTER` anew, so that what it
shows is about the code and stays true once the statements are sent one by one.
`partitions_premake` allows the refusal only, and `UndisturbedSpec` takes every other excuse away:
no crash, no accidental error, and each process's passes go on.

### Jwks

One process, one issuer. `cache` is the entry and its age; `Cached` is `JwksCache::get`. A
request that misses goes through discovery, fetch and the answer, `Receive` inserts the whole set
if it has the key, and nothing is locked between, so answers may arrive late and out of order.
`FetchFails` is a timeout or an error. A token is the key it names; whether signature, audience,
times and claims are in order is one choice of the environment, made after the insert as in the
code. `gone` and `steady` are history.

### Transactions, Store, Resources

`rows` is what is committed, `writes[c]` the rows c's open transaction has written. A statement
sees its own writes over the committed rows, and waits (its guard is false) for whoever else has
written the row or a unique key it needs. A behaviour is about one kind of resource, chosen at
the start (`subject`); each handler is a named action that instantiates a common shape with what
is particular to its kind: the codes it refuses with early, the constraints that may fail, its
second unique column, its version, its image. `Arrive` is everything up to the open transaction,
then one statement a step (`InsertRow`, `UpdateRow`, `UpsertItem` once per item), then `Finish`
or `CommitFails`, after which the row may be there or not. `PageOf` is one page of a keyset walk.
`Fault`, `Deadlock` and `HangUp` end a transaction at any statement.

`Store` is refined by mapping a request to pending while its transaction is open; the effect
happens at the commit. Its `Succeed` says what a 2xx stands for, `Clash` a 409, `Miss` a 404;
other refusals stand for no effect, a 500 for either.

### Tenancy

A request carries its bearer token; `Authenticate` reads the token in a transaction of its own
and the handler does not look again. What an open transaction has written is in the request
(`of`, `seeded`, `keeps`, the phase of a mint or revoke) and becomes visible in `Commit`.
`CheckKey` is a plain SELECT; `StoreKey` waits for another transaction that holds the key and
then leaves a row that is there alone. `Expire` is the end of the 24 hours: the row stays, since
nothing deletes it, and `store` never replaces it. `dead`, `made`, `expired` are history.

## 3. Runs

| Run | Instance | Question | Result |
|---|---|---|---|
| `leader` | 2 processes, 2 connections each, 1 job, budget 1 h, 1 fault | live leases, refinement of `Lease`, leadership recovers | holds |
| `rollup` | 2 processes, hours 0..5, cold start at hour 3, 1 row per hour, 1 fault | exact counts under two interleaved runs, refinement of `Ledger`, every hour published | holds |
| `pipeline` | 2 hits of one URL and a two-ad decision, channel and batch of 2, 2 milliseconds of which one has a leaf, 1 fault | order, bounds, refinement of `Delivery`, nothing waits for ever | holds |
| `snapshot` | 2 tables, 2 mutations each, sequence to 3, 2 faults | versions back their data, monotone readers, every version served | holds |
| `decision` | 2 concurrent requests out of 14 bodies (10 decisions, 4 explanations), 2 loaded versions and the cold one, 2 times, up to 2 placements and 2 ads, channel of 2; beside them one draw from every vector of up to 4 weights from -1, 0, 1, 3, counts to 4 | one snapshot and one time per answer, force and audit, events and answer, every request ends; a proportional draw without replacement, of which the loop returns no other kind | holds |
| `partitions` | 2 processes, days 1 to 4 with the seed's end at 2, window of 3 days, retention 1, `ALTER` run or refused | retained leaves stay, every day gets its leaf | holds |
| `jwks` | 2 keys, 2 requests, TTL 2, fetch timeout 1 | rotation without downtime, retired keys fall out | holds |
| `resources` | 2 clients, each of the nine kinds, up to 3 rows, batches of up to 2 items | refinement of `Store`, exact walks, images before rows, writes end | holds |
| `tenancy` | 2 clients, 2 live tokens and one to mint, 1 key, 2 bodies, 2 projects, 1 expiry | revoked tokens stay out, audit agrees, projects are whole | holds |
| `snapshot_staleness` | 2 tables, 1 mutation each, no fault | a committed mutation is served | violated: finding |
| `partitions_premake` | as `partitions`, `ALTER` refused, nothing else amiss | the days of the window get their leaves ahead | violated: finding |
| `tenancy_replay` | 2 clients, 1 key, 2 bodies, 2 projects | a key creates one project | violated: finding |

### Why the bounds are enough

Two processes show every conflict over one lock; two connections per process let one session
return to the pool with the lock while the task gets another. One fault in `leader` starts every
path that leaves the lock or the flag behind; the proofs cover any number. Six hours hold a cold
start, a jump, a catch-up of two hours and a stale run behind it. A channel of two and three or
four events overflow it, fill a batch exactly, and split a decision. Two tables are one read
before and one after a concurrent commit.

In `decision` the two loaded versions differ in everything a request could mix up: which tier is
first, targeting, dates, whether a creative renders, whether force is allowed. The bodies hold a
served and a refused placement in both orders, one id twice, blocks, forced ads that exist and do
not, an unknown site, too many and no placements, and the explainer's answers where it differs
from the decision. Two requests of up to three events meet at a channel of two. The draw is a
model of its own: a behaviour of `DecisionMC` is either one of requests or one of a draw
(`Drawing`), never a product of both, and fairness is of the handlers in the former. Three
candidates are the fewest that tell a draw without replacement from one with; the fourth puts zero
weights on either side of them.

In `partitions` the clock runs from within the seed leaf past its end, and retention is shorter
than the window, so that a stale pass has leaves to detach that a newer one has made; in
`partitions_premake` today is past the seed and a window of two days would do. In `jwks` two keys
are the old and the new one, two requests a slow fetch and a fast one, and the TTL is longer than
the timeout as in the code. In `resources` two clients are a circle of waits; a kind with one
unique column, one with two (sites), one with a version (templates) and one with an image
(creatives) are all there, with a batch that brings two keys in either order or one key twice;
three rows and pages of one are a walk of three pages with room for an insert at its end. In
`tenancy` two clients are two requests with one key or two revocations of one token, and a single
expiry starts the key's second life.

Counters that grow are bounded by a named constant in a guard (`MaxFaults`, `MaxHour`, `MaxRows`,
`MaxTime`, `MaxRev`, `MaxVersion`, `LastDay`, `MaxProjects`, `Expiries`, `Capacity` of a table,
`MaxId` of the ids a request may name).

`CHECK_DEADLOCK FALSE` is in the configurations of `Snapshot` and `Decision`: with the mutations
used up, a loader whose snapshot is current has nothing to do; answered requests leave nothing to
do once time and versions are used up, and a draw that has returned is over.

### Fairness

Weak fairness of what the runtime does by itself: a tokio task is polled, a query returns, a
sleep ends, Postgres notices a dead client, the pool retires idle connections (`idle_timeout`,
`max_lifetime`), the orchestrator restarts a process, time passes where a property is about time
passing, a handler's next step is taken (per request, so that no other request can keep it
waiting). Faults, requests, mutations and bumps are never fair, nor is a job in `Leader` (it may
hang: that is what the watchdog is for). In `Rollup` a lease goes of itself only when no flag is
up on it, as an idle connection does; one in use is lost by a fault, or never.

Strong fairness in two places. `Partitions`: some leader keeps ticking, a pass that started goes
on, and `CREATE TABLE` does not fail for ever although passes that try it are again and again
ended by errors; nothing is assumed of `ALTER`, the listing or `DETACH` (`partitions_premake` is
weakly fair: nothing ends its passes but their own statements). `Resources`: a request's statement
or commit, because Postgres queues those who wait for a row and fails one of those who wait in a
circle. `Selection`, `Jwks` and `Tenancy` are checked for safety only, without fairness.

### Mutants

Every property of a passing run has a mutant: a definition of the module with a plausible slip
(a lost guard, a swapped order, a missing reset, an off-by-one), written above the one it
replaces and marked `Mutant:`. Under it TLC finds the property violated. Mutants are in no
behaviour of the specifications.

## 4. Findings

- **Mutations are not served** (`snapshot_staleness`). `REQUIREMENTS.md:509-511` bounds the
  staleness by the poll interval; nothing moves `config_version`.
- **No day is premade, no leaf detached** (`partitions_premake`). `REQUIREMENTS.md:545-546` says
  that maintenance always ensures 4 days of future partitions, `partitions.rs:3` and
  `TESTING.md:156` say as much. The two `ALTER TABLE`s of `partitions.rs:84-91` are one prepared
  statement, which Postgres refuses ("cannot insert multiple commands into a prepared statement"),
  and the `?` ends every pass there. Each day past the seed gets its leaf on the day itself, at the
  first pass (`EveryDayGetsItsLeaf`); until then its events find no leaf and their batches are
  dropped. No pass comes to the listing, so retention is never applied, none returns Ok, and the
  partition job never records a tick: only the rollup's keep the watchdog quiet.
  `RefusalStopsPremake` proves for all constants that no leaf is made ahead or detached.
- **One key, two projects** (`tenancy_replay`). `API.md:46` and `:119-121` promise a replay
  within 24 hours; two requests under way at once both find no row and both commit a project.

Met on the way, read off the code, and not the subject of a run:

- Leadership. Two processes run jobs for up to 30 s after a lost session (`leader.rs:113-118`;
  `REQUIREMENTS.md:592-593` says there is no split brain); `rollup` and `partitions` show that
  counts and leaves survive it. One job that ticks keeps the watchdog quiet while the other fails.
- Rollup. The watermark can go back (`rollup.rs:149`; `:258-259` says it never does): hours are
  aggregated again, no count is lost.
- Events. First-hit dedup is per millisecond, since `ts` is part of the conflict target
  (`events.rs:170`, `API.md:916`). Shutdown drops what is in memory: the flusher's handle goes at
  `server.rs:424`, where `TESTING.md:155` says it drains.
- Partitions. While the seed leaf is attached no daily leaf it covers can be made, so the window
  that `partitions.rs:20-22` promises would not be there on the seed's last days even if the
  `ALTER`s ran; nor would it hold today + 4, as it ends at today + 3; and the seed would be
  detached whole at the first Ok pass of 2027, whatever the retention (`REQUIREMENTS.md:565-567`).
- Decisions. `block.creative_ids` is compared with nothing (`API.md:272`, `decisions.rs:721`);
  `force.campaign_id`, `flight_id`, `creative_id`, `site_external_id` are ignored (`:268`,
  `:748`); a placement is answered empty although ads are eligible when all weights of its first
  tier are zero or nothing drawn renders (`API.md:320`); two placements of one id share an entry
  of the answer while both have events; nonces repeat within a millisecond (`:771`), though
  `REPORTING.md:116` calls them a useful unique key.
- Explainer. An ad can pass every rule listed and not be a candidate: zones, flight dates, weight
  and tier are not listed. It draws with a seed of its own, so its pick need not be the one a
  decision in the same millisecond makes (`decisions.rs:1029-1030`).
- Management. A batch stops at its first bad row where `API.md` lists all of them
  (`run_batch_with_savepoints` has no caller), re-activates paused rows, and answers a deadlock
  with 422. Two concurrent `upsertByUrl` of one URL answer one of them 500. An image upload
  leaves etag and `updated_at` alone and may leave an object without a row. `etag.rs` has no
  caller; a PATCH may empty a flight's ad types; the library and the token list end at 500 rows.
- Tenancy. An expired idempotency row keeps its place in the unique index, so its key never
  replays again (`idempotency.rs:113`). Only `create_project` honors the header and only tokens
  and forced decisions are audited. `create_token` never binds `expires_at`. The JWKS TTL is one
  hour whatever `cache_ttl_seconds` says.

## 5. What is proved

For every value of the constants (any number of processes, connections, hours, tables, clients,
keys, faults), from the named assumptions in the modules. These say that bounds are natural
numbers, that values that stand for none are not in the sets they extend, that the cold version
of a catalog is not loaded, that hits have keys and decisions have none, that a row or an item has
one external id at most (it is one column), and the like; `Fresh` is part of `Rollup`'s actions.

- **`Jobs_proofs`, the leader**: `LeaderTypeCorrect`, `FlagSafe`, `LockSafe`, `LeaseSafe`,
  `LeaderRefinesLease`. `LiveLeaderHoldsLock` is not inductive: a granted task keeps the lock only
  because no other session can have been granted it, because the pool does not retire the
  connection the task holds, and because a session the server ended is never `open` again. The
  invariant `IInv` carries these: types, a flag only in a session, the lock with every live
  session past the grant. `LeaseSafe` follows from it (two live leases would be one `lockHolder`),
  and each step maps to `Grant`, `Raise`, `Lose`, `Clear` of `Lease` or a stutter.
- **`Jobs_proofs`, the partitions**: `PartitionsTypeCorrect`, `RetentionSafe`,
  `RefusalStopsPremake`. Every pass read its today in the past, so what it lists is aged by now
  (`ListedAreAged`), whoever else leads. Where Postgres never runs the two `ALTER`s no pass gets
  behind its first day (`FirstDayOnly`), which is today or past: no leaf is made ahead and none is
  detached. This needs that assumption on `AlterAnswers` and no other; liveness is not needed.
- **`Jobs_proofs`, the names of leaves**: `DatesAreGregorian`, `NamesSortAsDays`. The code counts
  years from March within eras of 400 years. Its division by 365 with three corrections finds the
  year a day of the era falls into (`YearOfEra`); that a day has one era, year and place in it
  (`OneDate`) then turns "the next day" into the next place of that year or the first of the next
  one (`NextDate`), month by month. Dates of all days, and the order of any two, follow day by
  day with `UpToInduction` of `Loops`.
- **`Rollup_proofs`**: `RollupTypeCorrect`, `RollupSettled`, `WatermarkVouches`, `RunsVouch`,
  `RollupRefinesLedger`. The heart is that a stale run is harmless: `AggregatedBelowLocal` says
  the hours below a run's own position are right, so writing that position to the watermark is
  right too, however old it is. The inductive invariant adds the bounds (`SettledOnly`: no run
  reaches an hour that events still land in) that keep counted hours unchanged.
- **`EventPipeline_proofs`**: `PipelineTypeCorrect`, `MemoryOrdered`, `DecisionsCounted`,
  `PipelineRefinesDelivery`. The types bound the channel by its capacity and the batch by
  `DRAIN_BATCH`, with room whenever the flusher asks for more (`BatchFits`): `recv_many` for none
  would answer 0, which the loop takes for a closed channel. `MemoryInPlace` says of each position
  of batch and channel which event of the log it holds; it is inductive with the types of what it
  touches. The suffix property follows by extensionality of sequences, and from it that a flush, a
  dropped batch or the death of the process resolves the next stretch of the log, which is a step
  of `Delivery`. That decisions always count is about the rows: `StandsFor` relates them to the
  positions of the log that are stored, and `InsertedStands` carries it through the loop of a
  flush, row by row; rows without a dedup key are never marked because no such row ever conflicts.
- **`Caches_proofs`, the snapshot**: `SnapshotTypeCorrect`, `SnapshotVersionSafe`,
  `SnapshotLoadSafe`, `SnapshotMonotone`. A load that read version `v` saw the sequence at `v`
  before it read any table; mutation counts only grow.
- **`Caches_proofs`, the key sets**: `JwksTypeCorrect`, `RotationSafe`, `RetiredSafe`. A set is
  dated when it is inserted, at most a fetch timeout after the issuer answered, so an entry's age
  understates how long ago its keys were published by no more than that (`CacheDated`), however
  answers overtake each other.
- **`Decision_proofs`, the endpoint**: `DecisionTypeCorrect`, `AnswersAreEligible`,
  `ForceIsAudited`, `EventsAreTheAnswer`. A handler changes its own record and its own audit row
  only, so the invariant is `HandlerInv` of every request: `OthersKeep` carries it over the steps
  of the others, one lemma per action over its own. Its parts are what the properties lack to be
  inductive: nothing is decided before the clock is read (`FreshInv`), a row is preceded by the
  gate on the snapshot the handler keeps (`AuditInv`), an answer has gone through all placements
  (`ControlInv`), the explainer never leaves its phases (`ExplainInv`), every ad comes from
  `DecidePure` or the explanation of a placement with that id (`AnswerInv`), events belong to the
  placements decided so far (`EventsInv`). `PicksRight` is the only lemma that looks into the
  filters: it shows they imply the requirement as `MayServe` states it and the explainer's rules.
- **`Decision_proofs`, the draw**: `DrawsInProportion`, `DrawReturned`. The running sums of the pool
  increase with a slot's weight, so the walk stops at one slot for every roll below the total, and
  the rolls that stop there are an interval as long as the weight (`HitsFirst`): hence the
  proportion, and that no roll is wasted. `PoolInv` says a slot has its weight until it is drawn and
  nothing after, so that what is returned is a draw without replacement. Its picks are as many as
  were asked for, or as many as there are slots of positive weight (`IsDraw`): the promise
  `WeightedDraw`, which `Decision` builds on, is kept for all weights and counts.
- **`Tenancy_proofs`**: `TenancyTypeCorrect`, `RevocationHolds`, `AuditAgrees`, `CreationsWhole`,
  all from `TenancySafe`. The properties speak of committed rows. What makes them inductive is
  that a row an open transaction is about is still as it found it (`Sound`), because no other open
  transaction is about that row (`Apart`): the unique index and the row lock in one formula.
- **`Resources_proofs`**: `ResourcesTypeCorrect`, `WalksAreExact`, `ImagesAreStored`,
  `RowsStayUnique`, `ResourcesRefineStore`. Some sixty handler steps come down to thirteen kinds
  (`StepKinds`), and everything is proved kind by kind.
  - *Walks* (`WalkInv`): what a client is owed and has not been shown lies below its cursor and is
    still there. The step is `Paging`: the page is an upper part of what is left, whatever the set,
    and its least row is the cursor.
  - *Images* (`ImageInv`): also a row that is not committed yet names an object that is there.
  - *Uniqueness* (`Locked`): a statement compares its keys with the rows it sees, which are not
    those of the other transactions. That the table after a commit is still unique for everyone
    rests on the waits: no two open transactions hold a key (old or new) or a row in common, and a
    committed row that a transaction has not touched has none of the keys it holds
    (`RowKeysFree`). `WriteLocks` and `EndLocks` are the two ways this could break.
  - *Refinement of `Store`* (`StoreInv`): what a transaction has written when it comes to its
    commit is what its request asked for (`Written`; `Batched` for the items of a batch so far, with
    the number of rows that have no external id counted). Another's commit leaves it so, as it
    touches other rows (`WrittenStays`); so the committed table changes by exactly the effect
    `Store` speaks of (`CommitEffect`), and 409, 404 and the 200 of `upsertByUrl` are answered by a
    transaction that has written nothing, from what is committed (`ClashHolder`). `StepMaps` maps
    each kind to a step of `Store` or to a stutter.

**Induction over data.** Sums over a pool, the rows a flush inserts and the greatest id of a table
are loops over data of any size, and so is a calendar, day after day. The models write them as
recursive functions, as a maximum or as a formula, and `Loops` has what the proofs need: a
non-empty set of naturals has a least element (`NatMin`, from the well-foundedness of `<`), hence
induction up to a bound over a *set* of indices (`UpToInduction`), hence the existence of a
function that a loop computes (`LoopExists`). None of these takes an operator as a parameter, so
they can be cited.

Only model-checked: liveness (`LeadershipRecovers`, `EveryHourPublished`, `AcceptedEventsResolve`,
`VersionServed`, `AllAnswered`, `EveryDayGetsItsLeaf`, `WritesEnd`), since fairness and ENABLED are
beyond the prover. The three violated properties are findings.

## 6. Reading the names

Names are the code's where TLA+ allows it (`run_once`'s `wm` and `target`, `lookup`s by the
column). `PROJECT.json` maps every definition to its lines. `external` entries are Postgres,
sqlx, the network, the clock, the issuers and the orchestrator, as the code uses them.

## 7. Not modelled

- URL signing (`hmac.rs`): packing, HMAC, base64 and the expiry test are pure functions of one
  value; a hit whose URL does not verify does not arrive. Nonces are left out, the effect of
  equal keys is in `EventPipeline`.
- Signatures, argon2, claims, roles and scopes: data that decides between going on and 401 or
  403, which the models leave to the environment.
- Columns of the management tables other than unique keys, a template's version and a creative's
  image; references between tables are found or not. The uniqueness of site aliases is not
  modelled.
- What the image store keeps. `objects` loses nothing, whereas `server.rs:333` injects a store in
  memory that forgets at a restart and is not shared between processes. `ImagesStored` is about
  the order of a handler's two writes, not about what a store retains.
- Boot and migrations: they run once, in order, before anything can interleave; their effect is
  in the initial states (the cold snapshot, the seed leaf, no leader). Configuration parsing.
- `etag.rs` and `run_batch_with_savepoints`: nothing calls them.
- Rendering, request log, metrics, static routes, CLI, demo data, web UI, charts and build
  tooling: they keep no state that another part reads, or are plain data. Byte layouts (cursors,
  image sniffing) are abstracted to what the properties tell apart.
- LISTEN/NOTIFY, which the documents mention, is not in the code.
