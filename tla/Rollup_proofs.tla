--------------------------- MODULE Rollup_proofs ---------------------------
(***************************************************************************)
(* Proofs about the rollup, for any number of processes that hold a stale  *)
(* or a live lease.  The watermark may go back, so it is not what protects *)
(* the counts.  The inductive invariant is about each run by itself:       *)
(*   - no run and no watermark reaches an hour that still fills            *)
(*     (SettledOnly, RunBounds);                                           *)
(*   - a rollup row, once it is there, is exact (ExactOrAbsent);           *)
(*   - the hours below a run's own wm, and below the target of a run about *)
(*     to jump, are aggregated (AggregatedBelowLocal, JumpCovered).        *)
(***************************************************************************)
EXTENDS Rollup, TLAPS

\* The locals of a run: hours, and none that events can still land in.
RunBounds ==
    /\ watermark >= 0
    /\ \A p \in Proc : /\ wm[p] >= 0
                       /\ at[p] \in {"clock", "probe", "jump"} => wm[p] =< now - 1
                       /\ target[p] >= 0

\* A rollup row is the count of a settled hour.
ExactOrAbsent ==
    \A h \in Hours : rollup[h] = 0 \/ (h < now - 1 /\ rollup[h] = Count(h))

\* A run about to jump found no events, and none can come below its target.
JumpCovered ==
    \A p \in Proc : at[p] = "jump" =>
        \A h \in Hours : h < target[p] => rollup[h] = Count(h)

Bounds == RollupTypeOK /\ SettledOnly /\ RunBounds

Aggregation == /\ ExactOrAbsent
               /\ AggregatedBelowWatermark
               /\ AggregatedBelowLocal
               /\ JumpCovered

RollupInv == Bounds /\ Aggregation

USE RollupAssumption DEF At, Hours, leaseVars, eventVars, tableVars, runVars

LEMMA InitInv == RollupInit => RollupInv
  BY DEF RollupInit, RollupInv, Bounds, Aggregation, RollupTypeOK, SettledOnly,
         RunBounds, ExactOrAbsent, AggregatedBelowWatermark, AggregatedBelowLocal,
         JumpCovered, Count, L!LeaseInit, L!LeaseTypeOK, L!FlagState

-----------------------------------------------------------------------------
(* Types and bounds.                                                       *)

\* What Bounds says of one run.
LEMMA RunLocals ==
  ASSUME Bounds, NEW p \in Proc
  PROVE  /\ now \in Nat /\ 1 =< now /\ now =< MaxHour
         /\ watermark \in Nat /\ watermark =< now - 1
         /\ wm[p] \in Nat /\ target[p] \in Nat
         /\ at[p] \in {"probe", "jump", "loop"} => target[p] =< now - 1
         /\ at[p] \in {"clock", "probe", "jump"} => wm[p] =< now - 1
  BY DEF Bounds, RollupTypeOK, SettledOnly, RunBounds

LEMMA RunTypes ==
  ASSUME Bounds, NEW p \in Proc, Tick(p) \/ Run(p) \/ RunErr(p)
  PROVE  RollupTypeOK'
<1>1. UNCHANGED <<leaseVars, eventVars>>
  BY DEF Run, Tick, ReadWatermark, ReadClock, ProbeEarliest, JumpToTarget,
         AggregateHour, RunOk, RunErr
<1>2. ticked' \in [Proc -> BOOLEAN] /\ at' \in [Proc -> At]
  <2>1. ticked' = ticked \/ ticked' = [ticked EXCEPT ![p] = TRUE]
    BY DEF Run, Tick, ReadWatermark, ReadClock, ProbeEarliest, JumpToTarget,
           AggregateHour, RunOk, RunErr
  <2>2. at' = at \/ \E a \in At : at' = [at EXCEPT ![p] = a]
    <3>1. CASE Tick(p) \/ ReadWatermark(p) \/ ReadClock(p)
      BY <3>1 DEF Tick, ReadWatermark, ReadClock, At, Bounds, RollupTypeOK
    <3>2. CASE ProbeEarliest(p) \/ JumpToTarget(p) \/ AggregateHour(p)
      BY <3>2 DEF ProbeEarliest, JumpToTarget, AggregateHour, At
    <3>3. CASE RunOk(p) \/ RunErr(p)
      BY <3>3 DEF RunOk, RunErr, Return, At
    <3> QED
      BY <3>1, <3>2, <3>3 DEF Run
  <2> QED
    BY <2>1, <2>2 DEF Bounds, RollupTypeOK
<1>3. wm' \in [Proc -> Int]
  <2>1. wm \in [Proc -> Int] /\ watermark \in Int /\ target \in [Proc -> Int]
    BY DEF Bounds, RollupTypeOK
  <2>2. CASE ProbeEarliest(p)
    BY <2>1, <2>2 DEF ProbeEarliest, EventHours
  <2>3. CASE ~ProbeEarliest(p)
    BY <2>1, <2>3 DEF Run, Tick, ReadWatermark, ReadClock, JumpToTarget,
           AggregateHour, RunOk, RunErr, Return
  <2> QED
    BY <2>2, <2>3
<1>4. target' \in [Proc -> Int]
  <2>1. \/ target' = target
        \/ target' = [target EXCEPT ![p] = now - 1]
        \/ target' = [target EXCEPT ![p] = 0]
    BY DEF Run, Tick, ReadWatermark, ReadClock, ProbeEarliest, JumpToTarget,
           AggregateHour, RunOk, RunErr, Return
  <2>2. target \in [Proc -> Int] /\ now - 1 \in Int
    BY DEF Bounds, RollupTypeOK
  <2> QED
    BY <2>1, <2>2
<1>5. watermark' \in Int /\ faults' \in 0..MaxFaults
  <2>1. /\ watermark \in Int /\ target \in [Proc -> Int] /\ wm \in [Proc -> Int]
        /\ faults \in 0..MaxFaults /\ MaxFaults \in Nat
    BY DEF Bounds, RollupTypeOK
  <2>2. \/ watermark' = watermark
        \/ watermark' = target[p]
        \/ watermark' = wm[p] + 1
    BY DEF Run, Tick, ReadWatermark, ReadClock, ProbeEarliest, JumpToTarget,
           AggregateHour, RunOk, RunErr
  <2>3. faults' = faults \/ Fault
    BY DEF Run, Tick, ReadWatermark, ReadClock, ProbeEarliest, JumpToTarget,
           AggregateHour, RunOk, RunErr
  <2>4. watermark' \in Int
    BY <2>1, <2>2
  <2>5. faults' \in 0..MaxFaults
    BY <2>1, <2>3 DEF Fault
  <2> QED
    BY <2>4, <2>5
<1>6. rollup' \in [Hours -> Nat]
  <2>1. CASE AggregateHour(p)
    <3>1. wm[p] \in Hours
      BY <2>1, RunLocals DEF AggregateHour
    <3>2. Count(wm[p]) \in Nat
      BY <3>1 DEF Count, Bounds, RollupTypeOK
    <3> QED
      BY <2>1, <3>1, <3>2 DEF AggregateHour, Aggregated, Bounds, RollupTypeOK
  <2> QED
    BY <2>1 DEF Run, Tick, ReadWatermark, ReadClock, ProbeEarliest, JumpToTarget,
                RunOk, RunErr, Bounds, RollupTypeOK
<1> QED
  BY <1>1, <1>2, <1>3, <1>4, <1>5, <1>6 DEF Bounds, RollupTypeOK, L!LeaseTypeOK

LEMMA RunSettled ==
  ASSUME Bounds, NEW p \in Proc, Tick(p) \/ Run(p) \/ RunErr(p)
  PROVE  SettledOnly' /\ RunBounds'
<1> USE RunLocals DEF SettledOnly, RunBounds
<1>0. at \in [Proc -> At] /\ wm \in [Proc -> Int] /\ target \in [Proc -> Int]
  BY DEF Bounds, RollupTypeOK
<1>1. CASE Tick(p) \/ ReadWatermark(p) \/ RunOk(p) \/ RunErr(p)
  BY <1>0, <1>1 DEF Tick, ReadWatermark, RunOk, RunErr, Return
<1>2. CASE ReadClock(p)
  BY <1>0, <1>2 DEF ReadClock
<1>3. CASE ProbeEarliest(p)
  BY <1>0, <1>3 DEF ProbeEarliest, EventHours
<1>4. CASE JumpToTarget(p)
  BY <1>0, <1>4 DEF JumpToTarget
<1>5. CASE AggregateHour(p)
  BY <1>0, <1>5 DEF AggregateHour
<1> QED
  BY <1>1, <1>2, <1>3, <1>4, <1>5 DEF Run

LEMMA RunBoundsStep ==
  ASSUME Bounds, NEW p \in Proc, Tick(p) \/ Run(p) \/ RunErr(p)
  PROVE  Bounds'
  BY RunTypes, RunSettled DEF Bounds

\* Events and their duplicates keep the types of events_raw.
LEMMA EventTypes ==
  ASSUME Bounds, NEW h \in Hours, InsertEvent(h) \/ MarkDuplicate(h)
  PROVE  /\ rows' \in [Hours -> Nat] /\ dups' \in [Hours -> Nat]
         /\ \A i \in Hours : dups'[i] =< rows'[i]
<1>1. /\ rows \in [Hours -> Nat] /\ dups \in [Hours -> Nat]
      /\ \A i \in Hours : dups[i] =< rows[i]
  BY DEF Bounds, RollupTypeOK
<1>2. CASE InsertEvent(h)
  BY <1>1, <1>2 DEF InsertEvent
<1>3. CASE MarkDuplicate(h)
  BY <1>1, <1>3 DEF MarkDuplicate
<1> QED
  BY <1>2, <1>3

\* A crash ends the run of the process and lowers its flag.
LEMMA CrashBounds ==
  ASSUME Bounds, NEW p \in Proc, Crash(p)
  PROVE  Bounds'
<1>1. /\ at' = [at EXCEPT ![p] = "idle"] /\ wm' = [wm EXCEPT ![p] = 0]
      /\ target' = [target EXCEPT ![p] = 0] /\ ticked' = [ticked EXCEPT ![p] = FALSE]
      /\ flag' = [flag EXCEPT ![p] = "down"]
      /\ UNCHANGED <<lease, now, rows, dups, rollup, watermark>>
  BY DEF Crash, Return
<1>2. faults' \in 0..MaxFaults
  BY DEF Crash, Fault, Bounds, RollupTypeOK
<1>3. /\ at \in [Proc -> At] /\ wm \in [Proc -> Int] /\ target \in [Proc -> Int]
      /\ ticked \in [Proc -> BOOLEAN]
  BY DEF Bounds, RollupTypeOK
<1>4. /\ at' \in [Proc -> At] /\ wm' \in [Proc -> Int] /\ target' \in [Proc -> Int]
      /\ ticked' \in [Proc -> BOOLEAN]
  BY <1>1, <1>3
<1>5. L!LeaseTypeOK'
  BY <1>1 DEF Bounds, RollupTypeOK, L!LeaseTypeOK, L!FlagState
<1>6. RollupTypeOK'
  BY <1>1, <1>2, <1>4, <1>5 DEF Bounds, RollupTypeOK
<1>7. \A q \in Proc : \/ at'[q] = "idle" /\ wm'[q] = 0 /\ target'[q] = 0
                      \/ at'[q] = at[q] /\ wm'[q] = wm[q] /\ target'[q] = target[q]
  BY <1>1, <1>3
<1>8. SettledOnly'
  BY <1>1, <1>7 DEF Bounds, SettledOnly
<1>9. RunBounds'
  BY <1>1, <1>7 DEF Bounds, RunBounds
<1> QED
  BY <1>6, <1>8, <1>9 DEF Bounds

\* The hour passes: what was below the clock stays below it.
LEMMA HourBounds ==
  ASSUME Bounds, HourPasses
  PROVE  Bounds'
<1>1. /\ now' \in StartHour..MaxHour /\ now' >= now
      /\ ticked' = [q \in Proc |-> FALSE]
      /\ UNCHANGED <<lease, flag, rows, dups, rollup, watermark, at, wm, target, faults>>
  BY DEF HourPasses, Bounds, RollupTypeOK
<1>2. /\ now \in Int /\ now' \in Int /\ watermark \in Int
      /\ \A p \in Proc : wm[p] \in Int /\ target[p] \in Int
  BY <1>1 DEF Bounds, RollupTypeOK
<1>3. RollupTypeOK'
  BY <1>1 DEF Bounds, RollupTypeOK, L!LeaseTypeOK, L!FlagState
<1>4. SettledOnly'
  BY <1>1, <1>2 DEF Bounds, SettledOnly
<1>5. RunBounds'
  BY <1>1, <1>2 DEF Bounds, RunBounds
<1> QED
  BY <1>3, <1>4, <1>5 DEF Bounds

LEMMA EnvBoundsStep ==
  ASSUME Bounds,
         \/ \E h \in Hours : InsertEvent(h) \/ MarkDuplicate(h)
         \/ \E p \in Proc : Elect(p) \/ NoticeLoss(p) \/ GiveUp(p) \/ Crash(p)
         \/ LoseLease
         \/ HourPasses
  PROVE  Bounds'
<1> USE DEF Bounds, RollupTypeOK, SettledOnly, RunBounds, L!LeaseTypeOK, L!FlagState
<1>1. ASSUME NEW h \in Hours, InsertEvent(h) \/ MarkDuplicate(h)
      PROVE  Bounds'
  <2>1. UNCHANGED <<leaseVars, now, tableVars, runVars, faults>>
    BY <1>1 DEF InsertEvent, MarkDuplicate
  <2> QED
    BY <1>1, <2>1, EventTypes
<1>2. ASSUME NEW p \in Proc, Elect(p) \/ NoticeLoss(p) \/ GiveUp(p)
      PROVE  Bounds'
  <2>1. CASE Elect(p)
    BY <2>1 DEF Elect, L!Grant, L!Raise
  <2>2. CASE NoticeLoss(p)
    BY <2>2 DEF NoticeLoss, L!Clear
  <2>3. CASE GiveUp(p)
    BY <2>3 DEF GiveUp, Fault, L!Clear
  <2> QED
    BY <1>2, <2>1, <2>2, <2>3
<1>3. ASSUME NEW p \in Proc, Crash(p)
      PROVE  Bounds'
  BY <1>3, CrashBounds
<1>4. CASE LoseLease
  BY <1>4 DEF LoseLease, L!Lose, Fault
<1>5. CASE HourPasses
  BY <1>5, HourBounds
<1> QED
  BY <1>1, <1>2, <1>3, <1>4, <1>5

LEMMA NextBounds == Bounds /\ [RollupNext]_vars => Bounds'
<1> SUFFICES ASSUME Bounds, [RollupNext]_vars
             PROVE  Bounds'
  OBVIOUS
<1>1. CASE UNCHANGED vars
  BY <1>1 DEF vars, Bounds, RollupTypeOK, SettledOnly, RunBounds, L!LeaseTypeOK
<1>2. CASE RollupNext
  BY <1>2, RunBoundsStep, EnvBoundsStep DEF RollupNext
<1> QED
  BY <1>1, <1>2

\* Type correctness of the rollup, its tables and its runs.
THEOREM RollupTypeCorrect == RollupSpec => []RollupTypeOK
<1>1. RollupInit => Bounds
  BY InitInv DEF RollupInv
<1>2. Bounds => RollupTypeOK
  BY DEF Bounds
<1> QED
  BY <1>1, <1>2, NextBounds, PTL DEF RollupSpec

\* Neither the watermark nor a run's target reaches an hour that still fills.
THEOREM RollupSettled == RollupSpec => []SettledOnly
<1>1. RollupInit => Bounds
  BY InitInv DEF RollupInv
<1>2. Bounds => SettledOnly
  BY DEF Bounds
<1> QED
  BY <1>1, <1>2, NextBounds, PTL DEF RollupSpec

-----------------------------------------------------------------------------
(* The counts.                                                             *)

\* The transaction of one hour: the hour becomes exact, no other changes.
LEMMA AggregateEffect ==
  ASSUME RollupInv, NEW p \in Proc, AggregateHour(p)
  PROVE  /\ wm[p] \in Hours /\ wm[p] < now - 1
         /\ rollup'[wm[p]] = Count(wm[p])
         /\ \A h \in Hours \ {wm[p]} : rollup'[h] = rollup[h]
<1>1. wm[p] \in Hours /\ wm[p] < now - 1
  BY RunLocals DEF AggregateHour, RollupInv
<1>2. rollup \in [Hours -> Nat] /\ Count(wm[p]) \in Nat
  <2>1. /\ rollup \in [Hours -> Nat] /\ rows \in [Hours -> Nat] /\ dups \in [Hours -> Nat]
        /\ \A h \in Hours : dups[h] =< rows[h]
    BY DEF RollupInv, Bounds, RollupTypeOK
  <2> HIDE DEF Hours
  <2>2. rows[wm[p]] \in Nat /\ dups[wm[p]] \in Nat /\ dups[wm[p]] =< rows[wm[p]]
    BY <1>1, <2>1
  <2> QED
    BY <2>1, <2>2 DEF Count
<1>3. rollup[wm[p]] \in {0, Count(wm[p])}
  BY <1>1 DEF RollupInv, Aggregation, ExactOrAbsent
<1>6. rollup' = Aggregated(wm[p])
  BY DEF AggregateHour
<1>4. CASE Count(wm[p]) > 0
  <2>1. rollup' = [rollup EXCEPT ![wm[p]] = Count(wm[p])]
    BY <1>4, <1>6 DEF Aggregated
  <2> HIDE DEF Hours
  <2> QED
    BY <1>1, <1>2, <2>1
<1>5. CASE Count(wm[p]) = 0
  BY <1>1, <1>2, <1>3, <1>5, <1>6 DEF Aggregated
<1> QED
  BY <1>1, <1>2, <1>4, <1>5

\* Only hours that no run and no watermark reaches change their count.
LEMMA CountsMoveLate ==
  ASSUME Bounds, NEW i \in Hours, InsertEvent(i) \/ MarkDuplicate(i)
  PROVE  /\ i >= now - 1
         /\ \A h \in Hours \ {i} : Count(h)' = Count(h)
<1>1. i >= now - 1
  BY DEF InsertEvent, MarkDuplicate, Fresh, Bounds, RollupTypeOK
<1>2. \A h \in Hours \ {i} : rows'[h] = rows[h] /\ dups'[h] = dups[h]
  <2>1. rows \in [Hours -> Nat] /\ dups \in [Hours -> Nat]
    BY DEF Bounds, RollupTypeOK
  <2>2. CASE InsertEvent(i)
    BY <2>1, <2>2 DEF InsertEvent
  <2>3. CASE MarkDuplicate(i)
    BY <2>1, <2>3 DEF MarkDuplicate
  <2> QED
    BY <2>2, <2>3
<1> QED
  BY <1>1, <1>2 DEF Count

LEMMA EventAggregation ==
  ASSUME RollupInv, NEW i \in Hours, InsertEvent(i) \/ MarkDuplicate(i)
  PROVE  Aggregation'
<1>1. UNCHANGED <<now, rollup, watermark, at, wm, target>>
  BY DEF InsertEvent, MarkDuplicate
<1>2. i >= now - 1 /\ \A h \in Hours \ {i} : Count(h)' = Count(h)
  BY CountsMoveLate DEF RollupInv
<1>3. now \in Int /\ watermark \in Int /\ watermark =< now - 1
  BY DEF RollupInv, Bounds, RollupTypeOK, SettledOnly
<1>4. ExactOrAbsent'
  BY <1>1, <1>2, <1>3 DEF ExactOrAbsent, RollupInv, Aggregation
<1>5. AggregatedBelowWatermark'
  BY <1>1, <1>2, <1>3 DEF AggregatedBelowWatermark, RollupInv, Aggregation
<1>6. AggregatedBelowLocal'
  <2> SUFFICES ASSUME NEW q \in Proc, at[q] \in {"clock", "probe", "loop"},
                      NEW h \in Hours, h < wm[q], at[q] = "loop" => h < target[q]
               PROVE  rollup[h] = Count(h)'
    BY <1>1 DEF AggregatedBelowLocal
  <2>1. rollup[h] = Count(h)
    BY DEF AggregatedBelowLocal, RollupInv, Aggregation
  <2>2. h < now - 1
    BY RunLocals DEF RollupInv
  <2> QED
    BY <1>2, <1>3, <2>1, <2>2
<1>7. JumpCovered'
  <2> SUFFICES ASSUME NEW q \in Proc, at[q] = "jump", NEW h \in Hours, h < target[q]
               PROVE  rollup[h] = Count(h)'
    BY <1>1 DEF JumpCovered
  <2>1. rollup[h] = Count(h)
    BY DEF JumpCovered, RollupInv, Aggregation
  <2>2. h < now - 1
    BY RunLocals DEF RollupInv
  <2> QED
    BY <1>2, <1>3, <2>1, <2>2
<1> QED
  BY <1>4, <1>5, <1>6, <1>7 DEF Aggregation

LEMMA AggregateAggregation ==
  ASSUME RollupInv, NEW p \in Proc, AggregateHour(p)
  PROVE  Aggregation'
<1>1. UNCHANGED <<now, rows, dups, at, target>> /\ \A h \in Hours : Count(h)' = Count(h)
  BY DEF AggregateHour, Count
<1>2. at[p] = "loop" /\ wm[p] < target[p] /\ watermark' = wm[p] + 1
  BY DEF AggregateHour
<1>3. /\ wm[p] \in Hours /\ wm[p] < now - 1
      /\ rollup'[wm[p]] = Count(wm[p])
      /\ \A h \in Hours \ {wm[p]} : rollup'[h] = rollup[h]
  BY AggregateEffect
<1>4. \A h \in Hours : rollup[h] = Count(h) => rollup'[h] = Count(h)
  BY <1>3
<1>5. \A h \in Hours : h < wm[p] => rollup[h] = Count(h)
  BY <1>2, RunLocals DEF RollupInv, Aggregation, AggregatedBelowLocal
<1>6. \A h \in Hours : h < wm[p] + 1 => rollup'[h] = Count(h)
  BY <1>3, <1>4, <1>5
<1>7. ExactOrAbsent'
  BY <1>1, <1>3 DEF ExactOrAbsent, RollupInv, Aggregation
<1>8. AggregatedBelowWatermark'
  BY <1>1, <1>2, <1>6 DEF AggregatedBelowWatermark
<1>9. AggregatedBelowLocal'
  <2> SUFFICES ASSUME NEW q \in Proc, at[q] \in {"clock", "probe", "loop"},
                      NEW h \in Hours, h < wm'[q], at[q] = "loop" => h < target[q]
               PROVE  rollup'[h] = Count(h)
    BY <1>1 DEF AggregatedBelowLocal
  <2>1. CASE q = p
    BY <1>6, <2>1, RunLocals DEF AggregateHour, RollupInv, Bounds, RollupTypeOK
  <2>2. CASE q # p
    <3>1. wm'[q] = wm[q]
      BY <2>2 DEF AggregateHour
    <3> QED
      BY <1>4, <3>1 DEF AggregatedBelowLocal, RollupInv, Aggregation
  <2> QED
    BY <2>1, <2>2
<1>10. JumpCovered'
  BY <1>1, <1>4 DEF JumpCovered, RollupInv, Aggregation
<1> QED
  BY <1>7, <1>8, <1>9, <1>10 DEF Aggregation

\* Without events in any hour every count is zero, and so is every rollup row.
LEMMA NoEventsNoCounts ==
  ASSUME RollupInv, NEW h \in Hours, h \notin EventHours
  PROVE  rollup[h] = Count(h)
<1>1. rows[h] \in Nat /\ dups[h] \in Nat /\ dups[h] =< rows[h] /\ ~(rows[h] > 0)
  BY DEF EventHours, RollupInv, Bounds, RollupTypeOK
<1>2. Count(h) = 0
  BY <1>1 DEF Count
<1> QED
  BY <1>2 DEF RollupInv, Aggregation, ExactOrAbsent

LEMMA ProbeAggregation ==
  ASSUME RollupInv, NEW p \in Proc, ProbeEarliest(p)
  PROVE  AggregatedBelowLocal' /\ JumpCovered'
<1>1. UNCHANGED <<rows, dups, rollup, target>> /\ \A h \in Hours : Count(h)' = Count(h)
  BY DEF ProbeEarliest, Count
<1>2. at[p] = "probe" /\ at \in [Proc -> At] /\ wm \in [Proc -> Int]
  BY DEF ProbeEarliest, RollupInv, Bounds, RollupTypeOK
<1>3. \A h \in Hours : h < wm[p] => rollup[h] = Count(h)
  BY <1>2 DEF RollupInv, Aggregation, AggregatedBelowLocal
<1>4. CASE EventHours = {} /\ at' = [at EXCEPT ![p] = "jump"] /\ wm' = wm
  <2>1. \A h \in Hours : rollup[h] = Count(h)
    BY <1>4, NoEventsNoCounts
  <2> QED
    BY <1>1, <2>1 DEF AggregatedBelowLocal, JumpCovered
<1>5. ASSUME NEW e \in EventHours, \A h \in EventHours : e =< h,
             wm' = [wm EXCEPT ![p] = IF e > wm[p] THEN e ELSE wm[p]],
             at' = [at EXCEPT ![p] = "loop"]
      PROVE  AggregatedBelowLocal' /\ JumpCovered'
  <2>1. e \in Hours /\ \A h \in Hours : h < e => h \notin EventHours
    BY <1>5 DEF EventHours
  <2>2. \A h \in Hours : h < e => rollup[h] = Count(h)
    BY <2>1, NoEventsNoCounts
  <2>3. \A h \in Hours : h < wm'[p] => rollup[h] = Count(h)
    BY <1>2, <1>3, <1>5, <2>2
  <2>4. \A q \in Proc \ {p} : at'[q] = at[q] /\ wm'[q] = wm[q]
    BY <1>2, <1>5
  <2>5. at'[p] = "loop"
    BY <1>2, <1>5
  <2>6. AggregatedBelowLocal'
    BY <1>1, <2>3, <2>4 DEF AggregatedBelowLocal, RollupInv, Aggregation
  <2>7. JumpCovered'
    BY <1>1, <2>4, <2>5 DEF JumpCovered, RollupInv, Aggregation
  <2> QED
    BY <2>6, <2>7
<1> QED
  BY <1>4, <1>5 DEF ProbeEarliest

LEMMA RunAggregation ==
  ASSUME RollupInv, NEW p \in Proc, Tick(p) \/ Run(p) \/ RunErr(p)
  PROVE  Aggregation'
<1> USE DEF ExactOrAbsent, AggregatedBelowWatermark, AggregatedBelowLocal, JumpCovered
<1>0. at \in [Proc -> At] /\ wm \in [Proc -> Int] /\ target \in [Proc -> Int]
  BY DEF RollupInv, Bounds, RollupTypeOK
<1>1. CASE Tick(p) \/ RunOk(p) \/ RunErr(p)
  <2>1. UNCHANGED <<now, rows, dups, rollup, watermark>>
    BY <1>1 DEF Tick, RunOk, RunErr
  <2>2. /\ at'[p] \in {"idle", "read"}
        /\ \A q \in Proc \ {p} : at'[q] = at[q] /\ wm'[q] = wm[q] /\ target'[q] = target[q]
    BY <1>0, <1>1 DEF Tick, RunOk, RunErr, Return
  <2> QED
    BY <2>1, <2>2 DEF Aggregation, RollupInv, Count
<1>2. CASE ReadWatermark(p)
  <2>1. UNCHANGED <<now, rows, dups, rollup, watermark, target>>
    BY <1>2 DEF ReadWatermark
  <2>2. /\ at'[p] = "clock" /\ wm'[p] = watermark
        /\ \A q \in Proc \ {p} : at'[q] = at[q] /\ wm'[q] = wm[q]
    BY <1>0, <1>2 DEF ReadWatermark
  <2> QED
    BY <2>1, <2>2 DEF Aggregation, RollupInv, Count
<1>3. CASE ReadClock(p)
  <2>1. UNCHANGED <<now, rows, dups, rollup, watermark, wm>>
    BY <1>3 DEF ReadClock
  <2>2. /\ at[p] = "clock" /\ at'[p] \in {"probe", "loop"}
        /\ \A q \in Proc \ {p} : at'[q] = at[q] /\ target'[q] = target[q]
    BY <1>0, <1>3 DEF ReadClock
  <2> QED
    BY <2>1, <2>2 DEF Aggregation, RollupInv, Count
<1>4. CASE ProbeEarliest(p)
  <2>1. UNCHANGED <<now, rows, dups, rollup, watermark>>
    BY <1>4 DEF ProbeEarliest
  <2>2. ExactOrAbsent' /\ AggregatedBelowWatermark'
    BY <2>1 DEF Aggregation, RollupInv, Count
  <2>3. AggregatedBelowLocal' /\ JumpCovered'
    BY <1>4, ProbeAggregation
  <2> QED
    BY <2>2, <2>3 DEF Aggregation
<1>5. CASE JumpToTarget(p)
  <2>1. UNCHANGED <<now, rows, dups, rollup, wm, target>>
    BY <1>5 DEF JumpToTarget
  <2>2. /\ at[p] = "jump" /\ watermark' = target[p] /\ at'[p] = "done"
        /\ \A q \in Proc \ {p} : at'[q] = at[q]
    BY <1>0, <1>5 DEF JumpToTarget
  <2> QED
    BY <2>1, <2>2 DEF Aggregation, RollupInv, Count
<1>6. CASE AggregateHour(p)
  BY <1>6, AggregateAggregation
<1> QED
  BY <1>1, <1>2, <1>3, <1>4, <1>5, <1>6 DEF Run

LEMMA EnvAggregation ==
  ASSUME RollupInv,
         \/ \E p \in Proc : Elect(p) \/ NoticeLoss(p) \/ GiveUp(p) \/ Crash(p)
         \/ LoseLease
         \/ HourPasses
         \/ UNCHANGED vars
  PROVE  Aggregation'
<1>1. UNCHANGED <<rows, dups, rollup, watermark>> /\ (now' = now \/ now' = now + 1)
  BY DEF Elect, NoticeLoss, GiveUp, Crash, LoseLease, HourPasses, vars
<1>2. \A q \in Proc :
         \/ at'[q] = "idle"
         \/ at'[q] = at[q] /\ wm'[q] = wm[q] /\ target'[q] = target[q]
  BY DEF Elect, NoticeLoss, GiveUp, Crash, Return, LoseLease, HourPasses, vars,
         RollupInv, Bounds, RollupTypeOK
<1>3. now \in Int /\ \A h \in Hours : Count(h)' = Count(h)
  BY <1>1 DEF Count, RollupInv, Bounds, RollupTypeOK
<1>4. ExactOrAbsent' /\ AggregatedBelowWatermark'
  <2>1. \A h \in Hours : h < now - 1 => h < now' - 1
    BY <1>1, <1>3
  <2>2. ExactOrAbsent'
    BY <1>1, <1>3, <2>1 DEF ExactOrAbsent, RollupInv, Aggregation
  <2>3. AggregatedBelowWatermark'
    BY <1>1, <1>3 DEF AggregatedBelowWatermark, RollupInv, Aggregation
  <2> QED
    BY <2>2, <2>3
<1>5. AggregatedBelowLocal' /\ JumpCovered'
  BY <1>1, <1>2, <1>3 DEF AggregatedBelowLocal, JumpCovered, RollupInv, Aggregation
<1> QED
  BY <1>4, <1>5 DEF Aggregation

LEMMA NextInv == RollupInv /\ [RollupNext]_vars => RollupInv'
<1> SUFFICES ASSUME RollupInv, [RollupNext]_vars
             PROVE  RollupInv'
  OBVIOUS
<1>1. Bounds'
  BY NextBounds DEF RollupInv
<1>2. Aggregation'
  BY EventAggregation, RunAggregation, EnvAggregation DEF RollupNext
<1> QED
  BY <1>1, <1>2 DEF RollupInv

\* Every hour below the watermark is counted right, whichever runs interleave.
THEOREM WatermarkVouches == RollupSpec => []AggregatedBelowWatermark
<1>1. RollupInv => AggregatedBelowWatermark
  BY DEF RollupInv, Aggregation
<1> QED
  BY <1>1, InitInv, NextInv, PTL DEF RollupSpec

\* Every hour below a run's own position is counted right.
THEOREM RunsVouch == RollupSpec => []AggregatedBelowLocal
<1>1. RollupInv => AggregatedBelowLocal
  BY DEF RollupInv, Aggregation
<1> QED
  BY <1>1, InitInv, NextInv, PTL DEF RollupSpec

-----------------------------------------------------------------------------
(* Rollup implements Ledger.                                               *)

Countable == [h \in Hours |-> Count(h)]

LEMMA InitLedger == RollupInit => LedgerView!LedgerInit
  BY DEF RollupInit, LedgerView!LedgerInit, Count

LEMMA NextLedger ==
  RollupInv /\ [RollupNext]_vars => [LedgerView!LedgerNext]_(LedgerView!ledgerVars)
<1> SUFFICES ASSUME RollupInv, [RollupNext]_vars
             PROVE  [LedgerView!LedgerNext]_(LedgerView!ledgerVars)
  OBVIOUS
<1> USE DEF LedgerView!LedgerNext, LedgerView!ledgerVars
<1>1. ASSUME NEW i \in Hours, InsertEvent(i) \/ MarkDuplicate(i)
      PROVE  LedgerView!Recount(i)
  <2>1. i >= now - 1 /\ \A h \in Hours \ {i} : Count(h)' = Count(h)
    BY <1>1, CountsMoveLate DEF RollupInv
  <2>2. Count(i)' \in Nat
    BY <1>1, EventTypes DEF Count, RollupInv
  <2>3. Countable' = [Countable EXCEPT ![i] = Countable'[i]] /\ Countable'[i] \in Nat
    BY <2>1, <2>2 DEF Countable
  <2>4. now \in Int /\ UNCHANGED <<now, rollup>>
    BY <1>1 DEF InsertEvent, MarkDuplicate, RollupInv, Bounds, RollupTypeOK
  <2> QED
    BY <2>1, <2>3, <2>4 DEF LedgerView!Recount, LedgerView!Settled, Countable
<1>2. ASSUME NEW p \in Proc, AggregateHour(p)
      PROVE  LedgerView!Publish(wm[p])
  <2>1. /\ wm[p] \in Hours /\ wm[p] < now - 1
        /\ rollup'[wm[p]] = Count(wm[p])
        /\ \A h \in Hours \ {wm[p]} : rollup'[h] = rollup[h]
    BY <1>2, AggregateEffect
  <2>2. rollup \in [Hours -> Nat] /\ rollup' \in [Hours -> Nat]
    BY <1>2, NextBounds DEF RollupInv, Bounds, RollupTypeOK
  <2>3. rollup' = [rollup EXCEPT ![wm[p]] = Countable[wm[p]]]
    BY <2>1, <2>2 DEF Countable
  <2>4. UNCHANGED <<now, Countable>>
    BY <1>2 DEF AggregateHour, Countable, Count
  <2> QED
    BY <2>1, <2>3, <2>4 DEF LedgerView!Publish, LedgerView!Settled, Countable
<1>3. CASE HourPasses
  BY <1>3 DEF HourPasses, Count, LedgerView!HourPasses
<1>4. CASE UNCHANGED <<now, rows, dups, rollup>>
  BY <1>4 DEF Count
<1> QED
  <2>1. ASSUME NEW p \in Proc, Tick(p) \/ RunErr(p) \/ (Run(p) /\ ~AggregateHour(p))
        PROVE  UNCHANGED <<now, rows, dups, rollup>>
    BY <2>1 DEF Tick, RunErr, Run, ReadWatermark, ReadClock, ProbeEarliest,
                JumpToTarget, RunOk
  <2>2. ASSUME NEW p \in Proc, Elect(p) \/ NoticeLoss(p) \/ GiveUp(p) \/ Crash(p)
        PROVE  UNCHANGED <<now, rows, dups, rollup>>
    BY <2>2 DEF Elect, NoticeLoss, GiveUp, Crash
  <2>3. CASE LoseLease \/ UNCHANGED vars
    BY <1>4, <2>3 DEF LoseLease, vars
  <2>4. ASSUME NEW p \in Proc, AggregateHour(p)
        PROVE  LedgerView!LedgerNext
    <3>1. wm[p] \in Hours
      BY <2>4, AggregateEffect
    <3> QED
      BY <1>2, <2>4, <3>1
  <2> QED
    BY <1>1, <1>3, <1>4, <2>1, <2>2, <2>3, <2>4 DEF RollupNext

\* Reporters see the abstract ledger: counts of settled hours only, exact, and
\* unchanging once published.
THEOREM RollupRefinesLedger == RollupSpec => ImplementsLedger
  BY InitInv, NextInv, InitLedger, NextLedger, PTL
  DEF RollupSpec, ImplementsLedger, LedgerView!LedgerSpec

=============================================================================
