---------------------------- MODULE EventPipeline ---------------------------
(***************************************************************************)
(* The event path of one process (src/src/events.rs, event_endpoints.rs,   *)
(* decisions.rs, server.rs): handlers put events into a bounded channel    *)
(* without blocking, one flusher task drains it in batches and writes each *)
(* batch to events_raw in one transaction, dropping it when that fails.    *)
(* The process can be asked to stop, can die, and is started again.        *)
(*                                                                         *)
(* An event is its dedup key (NoKey for the events of a decision) and the  *)
(* time its handler read.                                                  *)
(***************************************************************************)
EXTENDS Naturals, FiniteSets, Sequences

CONSTANTS Ping,       \* impression and click hits
          Decision,   \* decision requests
          KeyOf,      \* [Ping -> dedup key]: replays of a URL share it
          NumEvents,  \* [Decision -> Nat], ads the decision selects
          NoKey,
          Capacity,   \* events.channel_capacity
          DrainBatch, \* DRAIN_BATCH
          MaxTime,    \* bound on the clock
          LeafTimes,  \* the times some partition of events_raw covers
          MaxFaults   \* bound on crashes and database errors

Request == Ping \cup Decision

ASSUME PipelineAssumption ==
    /\ Ping \cap Decision = {}
    /\ NumEvents \in [Decision -> Nat]
    /\ \A p \in Ping : KeyOf[p] # NoKey
    /\ Capacity \in Nat \ {0}
    /\ DrainBatch \in Nat \ {0}
    /\ MaxTime \in Nat /\ MaxFaults \in Nat

VARIABLES
    now,      \* the clock, coarse enough for two hits to share a value
    phase,    \* the process, see Phase
    req,      \* [Request -> ReqState]
    stamp,    \* [Request -> 0..MaxTime], the time the handler read
    sent,     \* [Request -> Nat], events put into the channel
    chan,     \* the channel
    batch,    \* flusher_loop's batch
    flusher,  \* where the flusher is, see Flusher
    rows,     \* events_raw
    log,      \* history: the events accepted by try_send, in order
    stored,   \* history: the positions of log whose INSERT committed
    faults

requestVars == <<req, stamp, sent>>
vars == <<now, phase, requestVars, chan, batch, flusher, rows, log, stored, faults>>

(* "running"; "draining": SIGTERM, no new requests; "closed": the server   *)
(* is gone and with it every sender; "exited": main returned; "crashed".   *)
Phase == {"running", "draining", "closed", "exited", "crashed"}

ReqState == {"idle", "sending", "ok", "unavailable", "cut"}

(* "select": in tokio::select.  "flushing": in flush_batch.  "final": in   *)
(* the flush before exiting.  "down": the task has ended.                  *)
Flusher == {"select", "flushing", "final", "down"}

Keys  == {KeyOf[p] : p \in Ping} \cup {NoKey}
Event == [key : Keys, ts : 0..MaxTime]
Row   == [id : Nat, key : Keys, ts : 0..MaxTime, dup : BOOLEAN]

(* The batch has room whenever the flusher asks for more: recv_many with a *)
(* limit of 0 would answer 0, as if all senders were gone.                 *)
BatchFits ==
    /\ Len(batch) =< DrainBatch
    /\ flusher = "select" => Len(batch) < DrainBatch

PipelineTypeOK ==
    /\ now \in 0..MaxTime
    /\ phase \in Phase
    /\ req \in [Request -> ReqState]
    /\ stamp \in [Request -> 0..MaxTime]
    /\ sent \in [Request -> Nat]
    /\ chan \in Seq(Event) /\ batch \in Seq(Event) /\ log \in Seq(Event)
    /\ Len(chan) =< Capacity /\ BatchFits
    /\ flusher \in Flusher
    /\ rows \in SUBSET Row
    /\ stored \in SUBSET Nat
    /\ faults \in 0..MaxFaults

Alive == phase \in {"running", "draining", "closed"}

Fault == faults < MaxFaults /\ faults' = faults + 1

PipelineInit ==
    /\ now = 0
    /\ phase = "running"
    /\ req = [r \in Request |-> "idle"]
    /\ stamp = [r \in Request |-> 0]
    /\ sent = [r \in Request |-> 0]
    /\ chan = <<>>
    /\ batch = <<>>
    /\ flusher = "select"
    /\ rows = {}
    /\ log = <<>>
    /\ stored = {}
    /\ faults = 0

-----------------------------------------------------------------------------
(* Handlers.                                                               *)

\* How many events the handler wants to send.
Wanted(r) == IF r \in Ping THEN 1 ELSE NumEvents[r]

\* A request is verified or decided, and its timestamp read.
Arrive(r) ==
    /\ phase = "running"
    /\ req[r] = "idle"
    /\ req' = [req EXCEPT ![r] = "sending"]
    /\ stamp' = [stamp EXCEPT ![r] = now]
    /\ UNCHANGED <<now, phase, sent, chan, batch, flusher, rows, log, stored, faults>>

EventOf(r) == [key |-> IF r \in Ping THEN KeyOf[r] ELSE NoKey,
               ts  |-> stamp[r]]

Saturated == Len(chan) >= Capacity \/ flusher = "down"

\* Mutant: the channel is unbounded.
SendEventUnbounded(r) ==
    /\ Alive
    /\ req[r] = "sending"
    /\ sent[r] < Wanted(r)
    /\ chan' = Append(chan, EventOf(r))
    /\ log' = Append(log, EventOf(r))
    /\ sent' = [sent EXCEPT ![r] = @ + 1]
    /\ UNCHANGED <<now, phase, req, stamp, batch, flusher, rows, stored, faults>>

\* try_send succeeds.
SendEvent(r) ==
    /\ Alive
    /\ req[r] = "sending"
    /\ sent[r] < Wanted(r)
    /\ ~Saturated
    /\ chan' = Append(chan, EventOf(r))
    /\ log' = Append(log, EventOf(r))
    /\ sent' = [sent EXCEPT ![r] = @ + 1]
    /\ UNCHANGED <<now, phase, req, stamp, batch, flusher, rows, stored, faults>>

\* try_send fails: a ping is answered all the same, a decision stops at its
\* first failure and is answered 503; events already sent stay sent.
RefuseEvent(r) ==
    /\ Alive
    /\ req[r] = "sending"
    /\ sent[r] < Wanted(r)
    /\ Saturated
    /\ req' = [req EXCEPT ![r] = IF r \in Ping THEN "ok" ELSE "unavailable"]
    /\ UNCHANGED <<now, phase, stamp, sent, chan, batch, flusher, rows, log, stored, faults>>

Answer(r) ==
    /\ Alive
    /\ req[r] = "sending"
    /\ sent[r] = Wanted(r)
    /\ req' = [req EXCEPT ![r] = "ok"]
    /\ UNCHANGED <<now, phase, stamp, sent, chan, batch, flusher, rows, log, stored, faults>>

-----------------------------------------------------------------------------
(* The flusher.                                                            *)

\* How many of the accepted events are no longer in memory.
Done == Len(log) - Len(chan) - Len(batch)

\* Mutant: what is received goes in front of what is in the batch.
ReceiveInFront ==
    /\ Alive
    /\ flusher = "select"
    /\ \E n \in 1..Len(chan) :
          /\ n =< DrainBatch - Len(batch)
          /\ batch' = SubSeq(chan, 1, n) \o batch
          /\ chan' = SubSeq(chan, n + 1, Len(chan))
    /\ flusher' = IF Len(batch') >= DrainBatch THEN "flushing" ELSE "select"
    /\ UNCHANGED <<now, phase, requestVars, rows, log, stored, faults>>

\* recv_many returns some of the queued events, up to the room in the batch;
\* a full batch is flushed at once.
Receive ==
    /\ Alive
    /\ flusher = "select"
    /\ \E n \in 1..Len(chan) :
          /\ n =< DrainBatch - Len(batch)
          /\ batch' = batch \o SubSeq(chan, 1, n)
          /\ chan' = SubSeq(chan, n + 1, Len(chan))
    /\ flusher' = IF Len(batch') >= DrainBatch THEN "flushing" ELSE "select"
    /\ UNCHANGED <<now, phase, requestVars, rows, log, stored, faults>>

\* Mutant: no interval arm, only full batches are flushed.
TickFlushNever == flusher = "select" /\ FALSE

\* The interval fires with something in the batch.  (select! is biased to
\* recv_many, which may still be pending while the channel is not empty.)
TickFlush ==
    /\ Alive
    /\ flusher = "select"
    /\ batch # <<>>
    /\ flusher' = "flushing"
    /\ UNCHANGED <<now, phase, requestVars, chan, batch, rows, log, stored, faults>>

\* recv_many returns 0: every sender is gone and the channel is empty.
SendersGone ==
    /\ phase = "closed"
    /\ flusher = "select"
    /\ chan = <<>>
    /\ flusher' = IF batch = <<>> THEN "down" ELSE "final"
    /\ UNCHANGED <<now, phase, requestVars, chan, batch, rows, log, stored, faults>>

AfterFlush == IF flusher = "final" THEN "down" ELSE "select"

\* Mutant: the unique constraint treats NULL keys as equal.
InsertRowNullsEqual(R, i) ==
    LET e == log[i]
        hit == {r \in R : r.key = e.key /\ r.ts = e.ts}
    IN  IF hit = {}
        THEN R \cup {[id |-> i, key |-> e.key, ts |-> e.ts, dup |-> FALSE]}
        ELSE (R \ hit) \cup {[r EXCEPT !.dup = TRUE] : r \in hit}

\* INSERT ... ON CONFLICT (project_id, kind, dedup_key, ts) DO UPDATE SET
\* is_duplicate = true.  NULL keys never conflict.
InsertRow(R, i) ==
    LET e == log[i]
        hit == {r \in R : e.key # NoKey /\ r.key = e.key /\ r.ts = e.ts}
    IN  IF hit = {}
        THEN R \cup {[id |-> i, key |-> e.key, ts |-> e.ts, dup |-> FALSE]}
        ELSE (R \ hit) \cup {[r EXCEPT !.dup = TRUE] : r \in hit}

\* The rows after flush_batch's loop, event k of the batch being Done + k of the log.
Inserted ==
    LET after[k \in 0..Len(batch)] ==
            IF k = 0 THEN rows ELSE InsertRow(after[k - 1], Done + k)
    IN  after[Len(batch)]

HasLeaf(e) == e.ts \in LeafTimes

\* Mutant: the batch is not cleared after a flush that worked.
FlushCommitKeepsBatch ==
    /\ Alive
    /\ flusher \in {"flushing", "final"}
    /\ \A k \in 1..Len(batch) : HasLeaf(batch[k])
    /\ rows' = Inserted
    /\ stored' = stored \cup ((Done + 1)..(Done + Len(batch)))
    /\ flusher' = AfterFlush
    /\ UNCHANGED <<now, phase, requestVars, chan, batch, log, faults>>

\* The batch's transaction commits.  (Whether the flusher learns of it makes
\* no difference: the batch is cleared either way.)
FlushCommit ==
    /\ Alive
    /\ flusher \in {"flushing", "final"}
    /\ \A k \in 1..Len(batch) : HasLeaf(batch[k])
    /\ rows' = Inserted
    /\ stored' = stored \cup ((Done + 1)..(Done + Len(batch)))
    /\ batch' = <<>>
    /\ flusher' = AfterFlush
    /\ UNCHANGED <<now, phase, requestVars, chan, log, faults>>

\* The transaction fails: a row without a partition poisons its whole batch,
\* or the database fails.  The batch is dropped.
FlushFail ==
    /\ Alive
    /\ flusher \in {"flushing", "final"}
    /\ \/ Fault
       \/ /\ \E k \in 1..Len(batch) : ~HasLeaf(batch[k])
          /\ UNCHANGED faults
    /\ batch' = <<>>
    /\ flusher' = AfterFlush
    /\ UNCHANGED <<now, phase, requestVars, chan, rows, log, stored>>

-----------------------------------------------------------------------------
(* The process and time.                                                   *)

Sigterm ==
    /\ phase = "running"
    /\ phase' = "draining"
    /\ UNCHANGED <<now, requestVars, chan, batch, flusher, rows, log, stored, faults>>

\* run_with_graceful_shutdown returns: the in-flight requests are answered or
\* shutdown_drain_timeout cuts them; the app and its senders are dropped.
ServerStops ==
    /\ phase = "draining"
    /\ phase' = "closed"
    /\ req' = [r \in Request |-> IF req[r] = "sending" THEN "cut" ELSE req[r]]
    /\ UNCHANGED <<now, stamp, sent, chan, batch, flusher, rows, log, stored, faults>>

\* main returns and the runtime drops its tasks; nobody awaits the flusher.
Exit ==
    /\ phase = "closed"
    /\ phase' = "exited"
    /\ UNCHANGED <<now, requestVars, chan, batch, flusher, rows, log, stored, faults>>

Crash ==
    /\ Alive
    /\ Fault
    /\ phase' = "crashed"
    /\ req' = [r \in Request |-> IF req[r] = "sending" THEN "cut" ELSE req[r]]
    /\ UNCHANGED <<now, stamp, sent, chan, batch, flusher, rows, log, stored>>

\* The next process starts with nothing in memory.
Restart ==
    /\ phase \in {"exited", "crashed"}
    /\ phase' = "running"
    /\ chan' = <<>>
    /\ batch' = <<>>
    /\ flusher' = "select"
    /\ UNCHANGED <<now, requestVars, rows, log, stored, faults>>

TimePasses ==
    /\ now < MaxTime
    /\ now' = now + 1
    /\ UNCHANGED <<phase, requestVars, chan, batch, flusher, rows, log, stored, faults>>

Handle(r) == SendEvent(r) \/ RefuseEvent(r) \/ Answer(r)

FlusherStep == Receive \/ TickFlush \/ SendersGone \/ FlushCommit \/ FlushFail

PipelineNext ==
    \/ \E r \in Request : Arrive(r) \/ Handle(r)
    \/ FlusherStep
    \/ Sigterm \/ ServerStops \/ Exit \/ Crash \/ Restart
    \/ TimePasses

PipelineSpec == PipelineInit /\ [][PipelineNext]_vars

(* Fairness: handlers run to their answer; the flusher is polled and its   *)
(* transactions return; an exited process is started again.  Requests need *)
(* not come and time need not pass.                                        *)
PipelineFairSpec ==
    /\ PipelineSpec
    /\ \A r \in Request : WF_vars(Handle(r))
    /\ WF_vars(FlusherStep)
    /\ WF_vars(ServerStops) /\ WF_vars(Exit) /\ WF_vars(Restart)

-----------------------------------------------------------------------------
(* Properties.                                                             *)

\* The batch and the channel, in this order, are exactly the accepted events
\* not yet resolved: nothing is reordered, doubled or skipped in memory.
MemoryIsLogSuffix ==
    /\ Done >= 0
    /\ batch \o chan = SubSeq(log, Done + 1, Len(log))

\* The pipeline implements the abstract delivery: at most once, in order,
\* batch by batch, for every accepted event, whatever fails or restarts.
DeliveryView == INSTANCE Delivery WITH done <- Done

ImplementsDelivery == DeliveryView!DeliverySpec

\* A stored decision event is always countable: only replayed hits are ever
\* marked duplicate, and no two decision events collapse into one row.
Stored(key) == {i \in stored : log[i].key = key}

DecisionsAlwaysCount ==
    {r.id : r \in {x \in rows : x.key = NoKey /\ ~x.dup}} = Stored(NoKey)

\* Every accepted event leaves memory: flushed, dropped with its batch, or
\* dead with its process.
Resolved == Done = Len(log)
AcceptedEventsResolve == []<>Resolved

=============================================================================
