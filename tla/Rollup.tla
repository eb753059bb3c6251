------------------------------- MODULE Rollup -------------------------------
(***************************************************************************)
(* Hourly rollup compute (src/src/rollup.rs), composed with the lease that *)
(* leader election provides (Lease.tla, which Leader.tla implements).  A   *)
(* process whose flag is up when its hourly tick fires runs run_once: read *)
(* the watermark, read the clock, jump over a cold start, then aggregate   *)
(* one hour per transaction up to the latest settled hour.  run_once never *)
(* looks at the flag again, so after a lost session or a watchdog release  *)
(* two processes can be in the middle of it.                               *)
(***************************************************************************)
EXTENDS Integers

CONSTANTS Proc, NoProc,
          ColdGap,     \* COLD_START_GAP_SECS, in hours
          StartHour,   \* the hour the fresh database is first used
          MaxHour,     \* bound on time
          MaxRows,     \* bound on the raw events of an hour
          MaxFaults    \* bound on lost leases, crashes and database errors

Hours == 0..MaxHour

ASSUME RollupAssumption ==
    /\ NoProc \notin Proc
    /\ ColdGap \in Nat /\ MaxRows \in Nat /\ MaxFaults \in Nat
    /\ StartHour \in Nat \ {0}
    /\ MaxHour \in Nat /\ StartHour =< MaxHour

VARIABLES
    lease, flag,
    now,        \* the current hour
    rows,       \* [Hours -> Nat], events_raw rows of an hour
    dups,       \* [Hours -> Nat], those with is_duplicate
    rollup,     \* [Hours -> Nat], events_rollup count of an hour, 0 = no row
    watermark,  \* events_rollup_watermark
    ticked,     \* [Proc -> BOOLEAN], the interval fired in this hour
    at,         \* [Proc -> At], where run_once is
    wm,         \* [Proc -> Int], run_once's local wm
    target,     \* [Proc -> Int], run_once's target
    faults      \* faults so far

L == INSTANCE Lease

leaseVars == <<lease, flag>>
eventVars == <<now, rows, dups>>
tableVars == <<rollup, watermark>>
runVars   == <<ticked, at, wm, target>>
vars      == <<leaseVars, eventVars, tableVars, runVars, faults>>

(* "read": about to read the watermark.  "clock": about to read the clock. *)
(* "probe": about to look for the earliest event.  "jump": there is none,  *)
(* about to fast-forward.  "loop": in the catch-up loop.  "done": returned *)
At == {"idle", "read", "clock", "probe", "jump", "loop", "done"}

RollupTypeOK ==
    /\ L!LeaseTypeOK
    /\ now \in StartHour..MaxHour
    /\ rows \in [Hours -> Nat]
    /\ dups \in [Hours -> Nat]
    /\ \A h \in Hours : dups[h] =< rows[h]
    /\ rollup \in [Hours -> Nat]
    /\ watermark \in Int
    /\ ticked \in [Proc -> BOOLEAN]
    /\ at \in [Proc -> At]
    /\ wm \in [Proc -> Int]
    /\ target \in [Proc -> Int]
    /\ faults \in 0..MaxFaults

Fault == faults < MaxFaults /\ faults' = faults + 1

Count(h) == rows[h] - dups[h]

\* A database the migrations just created: watermark at the epoch.
RollupInit ==
    /\ L!LeaseInit
    /\ now = StartHour
    /\ rows = [h \in Hours |-> 0]
    /\ dups = [h \in Hours |-> 0]
    /\ rollup = [h \in Hours |-> 0]
    /\ watermark = 0
    /\ ticked = [p \in Proc |-> FALSE]
    /\ at = [p \in Proc |-> "idle"]
    /\ wm = [p \in Proc |-> 0]
    /\ target = [p \in Proc |-> 0]
    /\ faults = 0

-----------------------------------------------------------------------------
(* The flusher's effect on events_raw: a row of the current hour, or a late *)
(* one of the previous hour (the settling time the rollup counts on).       *)

Fresh(h) == h \in {now - 1, now}

InsertEvent(h) ==
    /\ Fresh(h)
    /\ rows[h] < MaxRows
    /\ rows' = [rows EXCEPT ![h] = @ + 1]
    /\ UNCHANGED <<leaseVars, now, dups, tableVars, runVars, faults>>

\* Mutant: every replayed hit counts down, not the row it marks.
MarkDuplicateAlways(h) ==
    /\ Fresh(h)
    /\ dups[h] =< MaxRows
    /\ dups' = [dups EXCEPT ![h] = @ + 1]
    /\ UNCHANGED <<leaseVars, now, rows, tableVars, runVars, faults>>

\* ON CONFLICT DO UPDATE SET is_duplicate = true on a row of the hour.
MarkDuplicate(h) ==
    /\ Fresh(h)
    /\ dups[h] < rows[h]
    /\ dups' = [dups EXCEPT ![h] = @ + 1]
    /\ UNCHANGED <<leaseVars, now, rows, tableVars, runVars, faults>>

-----------------------------------------------------------------------------
(* run_once and the hourly loop of spawn.                                   *)

\* The end of a run: its locals go out of scope.
Return(p) ==
    /\ at' = [at EXCEPT ![p] = "idle"]
    /\ wm' = [wm EXCEPT ![p] = 0]
    /\ target' = [target EXCEPT ![p] = 0]

\* Mutant: a tick without the flag leaves the loop.
TickBreaks(p) ==
    /\ at[p] = "idle"
    /\ ~ticked[p]
    /\ ticked' = [ticked EXCEPT ![p] = TRUE]
    /\ at' = [at EXCEPT ![p] = IF flag[p] = "up" THEN "read" ELSE "ended"]
    /\ UNCHANGED <<leaseVars, eventVars, tableVars, wm, target, faults>>

\* The interval fires: start a run if the flag is up, otherwise continue.
Tick(p) ==
    /\ at[p] = "idle"
    /\ ~ticked[p]
    /\ ticked' = [ticked EXCEPT ![p] = TRUE]
    /\ at' = [at EXCEPT ![p] = IF flag[p] = "up" THEN "read" ELSE "idle"]
    /\ UNCHANGED <<leaseVars, eventVars, tableVars, wm, target, faults>>

ReadWatermark(p) ==
    /\ at[p] = "read"
    /\ wm' = [wm EXCEPT ![p] = watermark]
    /\ at' = [at EXCEPT ![p] = "clock"]
    /\ UNCHANGED <<leaseVars, eventVars, tableVars, ticked, target, faults>>

\* target is the start of the previous hour; a gap past ColdGap is a cold start.
ReadClock(p) ==
    /\ at[p] = "clock"
    /\ target' = [target EXCEPT ![p] = now - 1]
    /\ at' = [at EXCEPT ![p] = IF now - 1 - wm[p] > ColdGap THEN "probe" ELSE "loop"]
    /\ UNCHANGED <<leaseVars, eventVars, tableVars, ticked, wm, faults>>

\* The hours with an event, duplicates included.
EventHours == {h \in Hours : rows[h] > 0}

\* earliest_event_hour: catch up from the first event on, if there is one.
ProbeEarliest(p) ==
    /\ at[p] = "probe"
    /\ \/ \E e \in EventHours :
             /\ \A h \in EventHours : e =< h
             /\ wm' = [wm EXCEPT ![p] = IF e > @ THEN e ELSE @]
             /\ at' = [at EXCEPT ![p] = "loop"]
       \/ /\ EventHours = {}
          /\ at' = [at EXCEPT ![p] = "jump"]
          /\ UNCHANGED wm
    /\ UNCHANGED <<leaseVars, eventVars, tableVars, ticked, target, faults>>

\* advance_watermark_to(target), unconditional; then return.
JumpToTarget(p) ==
    /\ at[p] = "jump"
    /\ watermark' = target[p]
    /\ at' = [at EXCEPT ![p] = "done"]
    /\ UNCHANGED <<leaseVars, eventVars, rollup, ticked, wm, target, faults>>

\* Mutant: ON CONFLICT DO UPDATE SET count = count + EXCLUDED.count.
AggregatedAdding(h) == [rollup EXCEPT ![h] = @ + Count(h)]

\* aggregate_hour: groups with countable rows replace their rollup row; an
\* hour without any leaves the rollup alone.
Aggregated(h) == IF Count(h) > 0 THEN [rollup EXCEPT ![h] = Count(h)] ELSE rollup

\* Mutant: the first hour's transaction moves the watermark to the target.
AggregateHourJumps(p) ==
    /\ at[p] = "loop"
    /\ wm[p] < target[p]
    /\ rollup' = Aggregated(wm[p])
    /\ watermark' = target[p]
    /\ wm' = [wm EXCEPT ![p] = @ + 1]
    /\ UNCHANGED <<leaseVars, eventVars, ticked, at, target, faults>>

\* aggregate_and_advance: the hour's rows and the watermark in one transaction,
\* the watermark unconditionally.
AggregateHour(p) ==
    /\ at[p] = "loop"
    /\ wm[p] < target[p]
    /\ rollup' = Aggregated(wm[p])
    /\ watermark' = wm[p] + 1
    /\ wm' = [wm EXCEPT ![p] = @ + 1]
    /\ UNCHANGED <<leaseVars, eventVars, ticked, at, target, faults>>

\* run_once returns Ok.  (record_tick is the watchdog's, see Leader!JobOk.)
RunOk(p) ==
    /\ at[p] = "done" \/ (at[p] = "loop" /\ wm[p] >= target[p])
    /\ Return(p)
    /\ UNCHANGED <<leaseVars, eventVars, tableVars, ticked, faults>>

\* A transaction of run_once fails and rolls back: `?` ends the run.
RunErr(p) ==
    /\ at[p] \in {"read", "probe", "jump"} \/ (at[p] = "loop" /\ wm[p] < target[p])
    /\ Fault
    /\ Return(p)
    /\ UNCHANGED <<leaseVars, eventVars, tableVars, ticked>>

-----------------------------------------------------------------------------
(* The lease, crashes and time.                                             *)

Elect(p) ==
    /\ L!Grant(p) \/ L!Raise(p)
    /\ UNCHANGED <<eventVars, tableVars, runVars, faults>>

\* The lease goes: by a fault while its owner uses it (a lost session, the
\* watchdog), by itself once its owner has let go of it.
LoseLease ==
    /\ L!Lose
    /\ IF flag[lease] = "down" THEN UNCHANGED faults ELSE Fault
    /\ UNCHANGED <<eventVars, tableVars, runVars>>

\* The leader task's 30 s check finds the session gone; a run goes on.
NoticeLoss(p) ==
    /\ lease # p
    /\ L!Clear(p)
    /\ UNCHANGED <<eventVars, tableVars, runVars, faults>>

\* The leader task gives up a session that is alive; a run goes on.
GiveUp(p) ==
    /\ lease = p
    /\ Fault
    /\ L!Clear(p)
    /\ UNCHANGED <<eventVars, tableVars, runVars>>

\* The process dies with its run and restarts: its interval fires at once.
Crash(p) ==
    /\ Fault
    /\ flag' = [flag EXCEPT ![p] = "down"]
    /\ ticked' = [ticked EXCEPT ![p] = FALSE]
    /\ Return(p)
    /\ UNCHANGED <<lease, eventVars, tableVars>>

\* An hour passes once every idle process has had its tick of the hour.  At
\* MaxHour the event clock stops; the ticks go on.
HourPasses ==
    /\ \A p \in Proc : ticked[p] \/ at[p] # "idle"
    /\ now' = IF now < MaxHour THEN now + 1 ELSE now
    /\ ticked' = [p \in Proc |-> FALSE]
    /\ UNCHANGED <<leaseVars, rows, dups, tableVars, at, wm, target, faults>>

Run(p) ==
    \/ ReadWatermark(p)
    \/ ReadClock(p)
    \/ ProbeEarliest(p)
    \/ JumpToTarget(p)
    \/ AggregateHour(p)
    \/ RunOk(p)

RollupNext ==
    \/ \E h \in Hours : InsertEvent(h) \/ MarkDuplicate(h)
    \/ \E p \in Proc : Tick(p) \/ Run(p) \/ RunErr(p)
    \/ \E p \in Proc : Elect(p) \/ NoticeLoss(p) \/ GiveUp(p) \/ Crash(p)
    \/ LoseLease
    \/ HourPasses

(* Fairness: the election proceeds (Leader.tla shows what it rests on); a  *)
(* lease whose flag is down goes, but one in use is lost only by a fault,  *)
(* which is not fair; the interval fires every hour; a run's transactions  *)
(* return; time passes.                                                    *)
RollupFairness ==
    /\ \A p \in Proc : WF_vars(Elect(p)) /\ WF_vars(NoticeLoss(p))
    /\ WF_vars(LoseLease /\ flag[lease] = "down")
    /\ \A p \in Proc : WF_vars(Tick(p)) /\ WF_vars(Run(p))
    /\ WF_vars(HourPasses)

RollupSpec == RollupInit /\ [][RollupNext]_vars

RollupFairSpec == RollupSpec /\ RollupFairness

-----------------------------------------------------------------------------
(* Properties.                                                             *)

\* The watermark never vouches for an hour whose count is not the number of
\* its countable events, also when two processes interleave run_once.
AggregatedBelowWatermark ==
    \A h \in Hours : h < watermark => rollup[h] = Count(h)

\* No run is past an hour that nobody has aggregated: what makes a stale run
\* harmless to the counts.  (A cold start may put wm past target, on an hour
\* that is still filling; the loop then has nothing to do.)
AggregatedBelowLocal ==
    \A p \in Proc : at[p] \in {"clock", "probe", "loop"} =>
        \A h \in Hours : h < wm[p] /\ (at[p] = "loop" => h < target[p])
                           => rollup[h] = Count(h)

\* Neither the watermark nor a run reaches an hour that events still land in.
SettledOnly ==
    /\ watermark =< now - 1
    /\ \A p \in Proc : at[p] \in {"probe", "jump", "loop"} => target[p] =< now - 1

\* The rollup table, seen by reporters, is the abstract ledger: counts appear
\* only for settled hours, are the true count, and never change again.
LedgerView == INSTANCE Ledger WITH
    HourSet   <- Hours,
    countable <- [h \in Hours |-> Count(h)],
    published <- rollup

ImplementsLedger == LedgerView!LedgerSpec

\* Every hour's events reach the reporters: once the hour is settled, its count
\* is published, across lost leases, crashes, failed runs, cold-start jumps and
\* watermarks moved back by a stale run.
EveryHourPublished ==
    <>[](now = MaxHour /\ \A h \in Hours : h < now - 1 => rollup[h] = Count(h))

=============================================================================
