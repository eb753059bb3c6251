------------------------ MODULE EventPipeline_proofs ------------------------
(***************************************************************************)
(* Proofs about the event pipeline, for any capacity, batch size, number   *)
(* of requests and of faults: what is in memory is the unresolved end of   *)
(* the log of accepted events, and so each step of the flusher, and each   *)
(* death of the process, resolves a stretch of that log once and in order. *)
(***************************************************************************)
EXTENDS EventPipeline, TLAPS, Loops

(* Types, of what the argument touches.                                    *)
MemoryTypeOK ==
    /\ now \in 0..MaxTime
    /\ stamp \in [Request -> 0..MaxTime]
    /\ chan \in Seq(Event) /\ batch \in Seq(Event) /\ log \in Seq(Event)

(* The batch and then the channel continue the log from Done on, event for *)
(* event.                                                                  *)
MemoryInPlace ==
    /\ Done \in Nat
    /\ \A i \in 1..Len(batch) : batch[i] = log[Done + i]
    /\ \A i \in 1..Len(chan) : chan[i] = log[Done + Len(batch) + i]

MemoryInv == MemoryTypeOK /\ MemoryInPlace

-----------------------------------------------------------------------------
LEMMA Lengths ==
  ASSUME MemoryInv
  PROVE  /\ Len(log) \in Nat /\ Len(chan) \in Nat /\ Len(batch) \in Nat
         /\ Done \in Nat /\ Len(log) = Done + Len(batch) + Len(chan)
  BY DEF MemoryInv, MemoryTypeOK, MemoryInPlace, Done

LEMMA EventOfType ==
  ASSUME MemoryTypeOK, NEW r \in Request
  PROVE  EventOf(r) \in Event
<1>1. (IF r \in Ping THEN KeyOf[r] ELSE NoKey) \in Keys
  BY DEF Keys
<1>2. stamp[r] \in 0..MaxTime
  BY DEF MemoryTypeOK
<1> QED
  BY <1>1, <1>2 DEF EventOf, Event

LEMMA InitMemory == PipelineInit => MemoryInv
  BY PipelineAssumption
  DEF PipelineInit, MemoryInv, MemoryTypeOK, MemoryInPlace, Done

(* A step that leaves the log and the memory alone.                        *)
LEMMA MemoryUntouched ==
  ASSUME MemoryInv, UNCHANGED <<chan, batch, log>>,
         now' \in 0..MaxTime, stamp' \in [Request -> 0..MaxTime]
  PROVE  MemoryInv'
  BY DEF MemoryInv, MemoryTypeOK, MemoryInPlace, Done

LEMMA SendKeeps ==
  ASSUME MemoryInv, NEW r \in Request, SendEvent(r)
  PROVE  MemoryInv' /\ Done' = Done /\ stored' = stored /\ log' = Append(log, EventOf(r))
<1> DEFINE e == EventOf(r)
<1>0. e \in Event
  BY EventOfType DEF MemoryInv
<1>1. /\ chan' = Append(chan, e) /\ log' = Append(log, e) /\ batch' = batch
      /\ now' = now /\ stamp' = stamp /\ stored' = stored
  BY DEF SendEvent, requestVars
<1> HIDE DEF e
<1>2. MemoryTypeOK'
  BY <1>0, <1>1 DEF MemoryInv, MemoryTypeOK
<1>3. Len(chan') = Len(chan) + 1 /\ Len(log') = Len(log) + 1 /\ Len(batch') = Len(batch)
  BY <1>0, <1>1 DEF MemoryInv, MemoryTypeOK
<1>4. Done' = Done
  <2>1. Len(log) \in Nat /\ Len(chan) \in Nat /\ Len(batch) \in Nat
    BY Lengths
  <2> QED
    BY <1>3, <2>1 DEF Done
<1>5. /\ \A i \in 1..Len(log) : log'[i] = log[i]
      /\ log'[Len(log) + 1] = e
      /\ \A i \in 1..Len(chan) : chan'[i] = chan[i]
      /\ chan'[Len(chan) + 1] = e
  BY <1>0, <1>1 DEF MemoryInv, MemoryTypeOK
<1>6. \A i \in 1..Len(batch') : batch'[i] = log'[Done' + i]
  <2> SUFFICES ASSUME NEW i \in 1..Len(batch) PROVE batch[i] = log'[Done + i]
    BY <1>1, <1>4
  <2>1. batch[i] = log[Done + i]
    BY DEF MemoryInv, MemoryInPlace
  <2>2. Done + i \in 1..Len(log)
    BY Lengths
  <2> QED
    BY <1>5, <2>1, <2>2
<1>7. \A i \in 1..Len(chan') : chan'[i] = log'[Done' + Len(batch') + i]
  <2> SUFFICES ASSUME NEW i \in 1..Len(chan') PROVE chan'[i] = log'[Done + Len(batch) + i]
    BY <1>3, <1>4
  <2>1. CASE i = Len(chan) + 1
    BY <1>5, <2>1, Lengths
  <2>2. CASE i \in 1..Len(chan)
    <3>1. Done + Len(batch) + i \in 1..Len(log)
      BY <2>2, Lengths
    <3> QED
      BY <1>5, <2>2, <3>1 DEF MemoryInv, MemoryInPlace
  <2> QED
    BY <1>3, <2>1, <2>2, Lengths
<1> QED
  BY <1>1, <1>2, <1>4, <1>6, <1>7, Lengths DEF MemoryInv, MemoryInPlace, e

LEMMA ReceiveKeeps ==
  ASSUME MemoryInv, Receive
  PROVE  MemoryInv' /\ Done' = Done /\ UNCHANGED <<log, stored>>
<1>1. PICK n \in 1..Len(chan) : /\ batch' = batch \o SubSeq(chan, 1, n)
                                /\ chan' = SubSeq(chan, n + 1, Len(chan))
  BY DEF Receive
<1>2. log' = log /\ now' = now /\ stamp' = stamp /\ stored' = stored
  BY DEF Receive, requestVars
<1>3. n \in Nat /\ n >= 1 /\ n =< Len(chan)
  BY Lengths
<1>4. /\ SubSeq(chan, 1, n) \in Seq(Event) /\ Len(SubSeq(chan, 1, n)) = n
      /\ \A i \in 1..n : SubSeq(chan, 1, n)[i] = chan[i]
      /\ chan' \in Seq(Event) /\ Len(chan') = Len(chan) - n
      /\ \A i \in 1..(Len(chan) - n) : chan'[i] = chan[n + i]
  BY <1>1, <1>3 DEF MemoryInv, MemoryTypeOK
<1>5. /\ batch' \in Seq(Event) /\ Len(batch') = Len(batch) + n
      /\ \A i \in 1..Len(batch) : batch'[i] = batch[i]
      /\ \A i \in 1..n : batch'[Len(batch) + i] = chan[i]
  BY <1>1, <1>3, <1>4 DEF MemoryInv, MemoryTypeOK
<1>6. Done' = Done
  <2>1. /\ Len(log) \in Nat /\ Len(chan) \in Nat /\ Len(batch) \in Nat
        /\ Len(log') = Len(log)
    BY <1>2, Lengths
  <2> QED
    BY <1>3, <1>4, <1>5, <2>1 DEF Done
<1>7. MemoryTypeOK'
  BY <1>2, <1>4, <1>5 DEF MemoryInv, MemoryTypeOK
<1>8. \A i \in 1..Len(batch') : batch'[i] = log'[Done' + i]
  <2> SUFFICES ASSUME NEW i \in 1..Len(batch') PROVE batch'[i] = log[Done + i]
    BY <1>2, <1>6
  <2>1. CASE i =< Len(batch)
    BY <1>5, <2>1, Lengths DEF MemoryInv, MemoryInPlace
  <2>2. CASE i > Len(batch)
    <3>1. /\ i - Len(batch) \in 1..n /\ i - Len(batch) \in 1..Len(chan)
          /\ i = Len(batch) + (i - Len(batch))
      BY <1>3, <1>5, <2>2, Lengths
    <3>2. batch'[i] = chan[i - Len(batch)]
      BY <1>5, <3>1
    <3>3. chan[i - Len(batch)] = log[Done + Len(batch) + (i - Len(batch))]
      BY <3>1 DEF MemoryInv, MemoryInPlace
    <3>4. Done + Len(batch) + (i - Len(batch)) = Done + i
      BY <3>1, Lengths
    <3> QED
      BY <3>2, <3>3, <3>4
  <2> QED
    BY <2>1, <2>2, Lengths
<1>9. \A i \in 1..Len(chan') : chan'[i] = log'[Done' + Len(batch') + i]
  <2> SUFFICES ASSUME NEW i \in 1..Len(chan')
               PROVE  chan'[i] = log[Done + (Len(batch) + n) + i]
    BY <1>2, <1>5, <1>6
  <2>1. n + i \in 1..Len(chan) /\ i \in 1..(Len(chan) - n)
    BY <1>3, <1>4, Lengths
  <2>2. chan'[i] = chan[n + i]
    BY <1>4, <2>1
  <2>3. chan[n + i] = log[Done + Len(batch) + (n + i)]
    BY <2>1 DEF MemoryInv, MemoryInPlace
  <2>4. Done + Len(batch) + (n + i) = Done + (Len(batch) + n) + i
    BY <2>1, <1>3, Lengths
  <2> QED
    BY <2>2, <2>3, <2>4
<1> QED
  BY <1>2, <1>6, <1>7, <1>8, <1>9, Lengths DEF MemoryInv, MemoryInPlace

(* The batch leaves memory, stored or lost.                                *)
LEMMA FlushKeeps ==
  ASSUME MemoryInv, FlushCommit \/ FlushFail
  PROVE  /\ MemoryInv' /\ Done' = Done + Len(batch) /\ log' = log
         /\ stored' = stored \/ stored' = stored \cup ((Done + 1)..(Done + Len(batch)))
<1>1. /\ batch' = <<>> /\ chan' = chan /\ log' = log /\ now' = now /\ stamp' = stamp
      /\ stored' = stored \/ stored' = stored \cup ((Done + 1)..(Done + Len(batch)))
  BY DEF FlushCommit, FlushFail, requestVars
<1>2. Done' = Done + Len(batch)
  BY <1>1, Lengths DEF Done
<1>3. MemoryTypeOK'
  BY <1>1 DEF MemoryInv, MemoryTypeOK
<1>4. \A i \in 1..Len(chan') : chan'[i] = log'[Done' + Len(batch') + i]
  BY <1>1, <1>2, Lengths DEF MemoryInv, MemoryInPlace
<1>5. \A i \in 1..Len(batch') : batch'[i] = log'[Done' + i]
  BY <1>1
<1> QED
  BY <1>1, <1>2, <1>3, <1>4, <1>5, Lengths DEF MemoryInv, MemoryInPlace

(* A new process starts with empty memory: the rest of the log is lost.    *)
LEMMA RestartKeeps ==
  ASSUME MemoryInv, Restart
  PROVE  MemoryInv' /\ Done' = Len(log) /\ UNCHANGED <<log, stored>>
<1>1. /\ batch' = <<>> /\ chan' = <<>> /\ log' = log /\ now' = now /\ stamp' = stamp
      /\ stored' = stored
  BY DEF Restart, requestVars
<1>2. Done' = Len(log)
  BY <1>1, Lengths DEF Done
<1>3. MemoryTypeOK'
  BY <1>1 DEF MemoryInv, MemoryTypeOK
<1> QED
  BY <1>1, <1>2, <1>3, Lengths DEF MemoryInv, MemoryInPlace

(* All other steps.                                                        *)
Elsewhere ==
    \/ \E r \in Request : Arrive(r) \/ RefuseEvent(r) \/ Answer(r)
    \/ TickFlush \/ SendersGone
    \/ Sigterm \/ ServerStops \/ Exit \/ Crash \/ TimePasses
    \/ UNCHANGED vars

LEMMA ElsewhereKeeps ==
  ASSUME MemoryInv, Elsewhere
  PROVE  MemoryInv' /\ Done' = Done /\ UNCHANGED <<log, stored>>
<1>0. now \in 0..MaxTime /\ stamp \in [Request -> 0..MaxTime]
  BY DEF MemoryInv, MemoryTypeOK
<1>1. ASSUME NEW r \in Request, Arrive(r) \/ RefuseEvent(r) \/ Answer(r)
      PROVE  UNCHANGED <<chan, batch, log, stored, now>> /\ stamp' \in [Request -> 0..MaxTime]
  BY <1>0, <1>1 DEF Arrive, RefuseEvent, Answer
<1>2. CASE TickFlush \/ SendersGone \/ Sigterm \/ ServerStops \/ Exit \/ Crash \/ UNCHANGED vars
  <2>1. UNCHANGED <<chan, batch, log, stored, now, stamp>>
    BY <1>2 DEF TickFlush, SendersGone, Sigterm, ServerStops, Exit, Crash, vars, requestVars
  <2> QED
    BY <1>0, <2>1, MemoryUntouched DEF Done
<1>3. CASE TimePasses
  <2>1. UNCHANGED <<chan, batch, log, stored, stamp>> /\ now' = now + 1 /\ now < MaxTime
    BY <1>3 DEF TimePasses, requestVars
  <2>2. now' \in 0..MaxTime
    BY <1>0, <2>1, PipelineAssumption
  <2> QED
    BY <1>0, <2>1, <2>2, MemoryUntouched DEF Done
<1>4. CASE \E r \in Request : Arrive(r) \/ RefuseEvent(r) \/ Answer(r)
  <2>1. UNCHANGED <<chan, batch, log, stored, now>> /\ stamp' \in [Request -> 0..MaxTime]
    BY <1>1, <1>4
  <2> QED
    BY <1>0, <2>1, MemoryUntouched DEF Done
<1> QED
  BY <1>2, <1>3, <1>4 DEF Elsewhere

LEMMA StepKinds ==
  ASSUME [PipelineNext]_vars
  PROVE  \/ \E r \in Request : SendEvent(r)
         \/ Receive \/ FlushCommit \/ FlushFail \/ Restart \/ Elsewhere
  BY DEF PipelineNext, Handle, FlusherStep, Elsewhere

LEMMA NextMemory == MemoryInv /\ [PipelineNext]_vars => MemoryInv'
  BY StepKinds, SendKeeps, ReceiveKeeps, FlushKeeps, RestartKeeps, ElsewhereKeeps

LEMMA MemorySafe == PipelineSpec => []MemoryInv
  BY InitMemory, NextMemory, PTL DEF PipelineSpec

-----------------------------------------------------------------------------
LEMMA SubSeqFrom ==
  ASSUME NEW S, NEW q \in Seq(S), NEW m \in 1..(Len(q) + 1)
  PROVE  /\ SubSeq(q, m, Len(q)) \in Seq(S)
         /\ Len(SubSeq(q, m, Len(q))) = Len(q) - m + 1
         /\ \A i \in 1..(Len(q) - m + 1) : SubSeq(q, m, Len(q))[i] = q[m + i - 1]
<1>1. Len(q) \in Nat /\ m \in Nat /\ 1 =< m /\ m =< Len(q) + 1
  OBVIOUS
<1> QED
  BY <1>1

LEMMA InPlaceIsSuffix == MemoryInv => MemoryIsLogSuffix
<1> SUFFICES ASSUME MemoryInv PROVE MemoryIsLogSuffix
  OBVIOUS
<1> DEFINE s == batch \o chan
           t == SubSeq(log, Done + 1, Len(log))
<1>1. chan \in Seq(Event) /\ batch \in Seq(Event) /\ log \in Seq(Event)
  BY DEF MemoryInv, MemoryTypeOK
<1>2. /\ s \in Seq(Event) /\ Len(s) = Len(batch) + Len(chan)
      /\ \A i \in 1..Len(batch) : s[i] = batch[i]
      /\ \A i \in 1..Len(chan) : s[Len(batch) + i] = chan[i]
  BY <1>1
<1>3. /\ t \in Seq(Event) /\ Len(t) = Len(log) - Done
      /\ \A i \in 1..(Len(log) - Done) : t[i] = log[Done + i]
  <2>0. Done \in Nat /\ Len(log) \in Nat /\ Done =< Len(log)
    BY Lengths
  <2>1. Done + 1 \in 1..(Len(log) + 1) /\ Len(log) - (Done + 1) + 1 = Len(log) - Done
    BY <2>0
  <2>2. Len(t) = Len(log) - Done /\ t \in Seq(Event)
    BY <1>1, <2>1, SubSeqFrom
  <2>3. \A i \in 1..(Len(log) - Done) : t[i] = log[(Done + 1) + i - 1]
    BY <1>1, <2>1, SubSeqFrom
  <2>4. \A i \in 1..(Len(log) - Done) : (Done + 1) + i - 1 = Done + i
    BY <2>0
  <2> QED
    BY <2>2, <2>3, <2>4
<1> HIDE DEF s, t
<1>4. Len(s) = Len(t)
  BY <1>2, <1>3, Lengths
<1>5. \A i \in 1..Len(s) : s[i] = t[i]
  <2> SUFFICES ASSUME NEW i \in 1..Len(s) PROVE s[i] = t[i]
    OBVIOUS
  <2>0. t[i] = log[Done + i]
    BY <1>3, <1>4
  <2>1. CASE i =< Len(batch)
    BY <1>2, <2>0, <2>1, Lengths DEF MemoryInv, MemoryInPlace
  <2>2. CASE i > Len(batch)
    <3>1. i - Len(batch) \in 1..Len(chan) /\ i = Len(batch) + (i - Len(batch))
      BY <1>2, <2>2, Lengths
    <3>2. s[i] = chan[i - Len(batch)]
      BY <1>2, <3>1
    <3>3. chan[i - Len(batch)] = log[Done + Len(batch) + (i - Len(batch))]
      BY <3>1 DEF MemoryInv, MemoryInPlace
    <3>4. Done + Len(batch) + (i - Len(batch)) = Done + i
      BY <3>1, Lengths
    <3> QED
      BY <2>0, <3>2, <3>3, <3>4
  <2> QED
    BY <2>1, <2>2, <1>2, Lengths
<1>6. s = t
  BY <1>2, <1>3, <1>4, <1>5
<1> QED
  BY <1>6, Lengths DEF MemoryIsLogSuffix, s, t

(* The batch and the channel are exactly the accepted events that are not  *)
(* resolved yet, in their order (flusher_loop, try_send).                  *)
THEOREM MemoryOrdered == PipelineSpec => []MemoryIsLogSuffix
  BY MemorySafe, InPlaceIsSuffix, PTL

-----------------------------------------------------------------------------
LEMMA InitDelivery == PipelineInit => DeliveryView!DeliveryInit
<1> SUFFICES ASSUME PipelineInit PROVE DeliveryView!DeliveryInit
  OBVIOUS
<1>1. log = <<>> /\ chan = <<>> /\ batch = <<>> /\ stored = {}
  BY DEF PipelineInit
<1>2. Len(log) = 0 /\ Len(chan) = 0 /\ Len(batch) = 0
  BY <1>1
<1>3. Done = 0
  BY <1>2 DEF Done
<1> QED
  BY <1>1, <1>3 DEF DeliveryView!DeliveryInit

LEMMA NextDelivery ==
  MemoryInv /\ MemoryInv' /\ [PipelineNext]_vars
    => [DeliveryView!Accept \/ DeliveryView!Resolve]_(DeliveryView!deliveryVars)
<1> SUFFICES ASSUME MemoryInv, MemoryInv', [PipelineNext]_vars
             PROVE  [DeliveryView!Accept \/ DeliveryView!Resolve]_(DeliveryView!deliveryVars)
  OBVIOUS
<1>1. ASSUME NEW r \in Request, SendEvent(r) PROVE DeliveryView!Accept
  <2>1. Done' = Done /\ stored' = stored /\ log' = Append(log, EventOf(r))
    BY <1>1, SendKeeps
  <2>2. EventOf(r) \in Event /\ log \in Seq(Event)
    BY EventOfType DEF MemoryInv, MemoryTypeOK
  <2>3. Len(log') = Len(log) + 1 /\ SubSeq(log', 1, Len(log)) = log
    BY <2>1, <2>2
  <2> QED
    BY <2>1, <2>3 DEF DeliveryView!Accept
<1>2. CASE FlushCommit \/ FlushFail
  <2>1. /\ Done' = Done + Len(batch) /\ log' = log
        /\ stored' = stored \/ stored' = stored \cup ((Done + 1)..(Done + Len(batch)))
    BY <1>2, FlushKeeps
  <2>2. CASE Len(batch) = 0
    <3>1. (Done + 1)..(Done + Len(batch)) = {}
      BY <2>2, Lengths
    <3> QED
      BY <2>1, <2>2, <3>1, Lengths DEF DeliveryView!deliveryVars
  <2>3. CASE Len(batch) > 0
    <3>1. Done' \in (Done + 1)..Len(log)
      BY <2>1, <2>3, Lengths
    <3> QED
      BY <2>1, <3>1 DEF DeliveryView!Resolve
  <2> QED
    BY <2>2, <2>3, Lengths
<1>3. CASE Restart
  <2>1. Done' = Len(log) /\ UNCHANGED <<log, stored>>
    BY <1>3, RestartKeeps
  <2>2. CASE Done = Len(log)
    BY <2>1, <2>2 DEF DeliveryView!deliveryVars
  <2>3. CASE Done # Len(log)
    <3>1. Done' \in (Done + 1)..Len(log)
      BY <2>1, <2>3, Lengths
    <3> QED
      BY <2>1, <3>1 DEF DeliveryView!Resolve
  <2> QED
    BY <2>2, <2>3
<1>4. CASE Receive \/ Elsewhere
  <2>1. Done' = Done /\ UNCHANGED <<log, stored>>
    BY <1>4, ReceiveKeeps, ElsewhereKeeps
  <2> QED
    BY <2>1 DEF DeliveryView!deliveryVars
<1> QED
  BY <1>1, <1>2, <1>3, <1>4, StepKinds

(* The pipeline implements the abstract delivery: accepted events are      *)
(* resolved in order, each stretch once, stored whole or lost whole.       *)
THEOREM PipelineRefinesDelivery == PipelineSpec => ImplementsDelivery
  BY MemorySafe, InitDelivery, NextDelivery, PTL
  DEF PipelineSpec, ImplementsDelivery, DeliveryView!DeliverySpec

-----------------------------------------------------------------------------
(* What is stored.  R stands for the positions in S of the log: every row  *)
(* is of one of them, a row without a dedup key is never marked, and every *)
(* event without one has its row.                                          *)
StandsFor(R, S) ==
    /\ R \in SUBSET Row
    /\ \A r \in R : r.id \in S /\ r.key = log[r.id].key /\ (r.key = NoKey => ~r.dup)
    /\ \A i \in S : log[i].key = NoKey => \E r \in R : r.id = i

LEMMA InsertRowType ==
  ASSUME MemoryInv, NEW i \in 1..Len(log), NEW R \in SUBSET Row
  PROVE  InsertRow(R, i) \in SUBSET Row
<1>1. log[i].key \in Keys /\ log[i].ts \in 0..MaxTime
  <2>1. log[i] \in Event
    BY Lengths DEF MemoryInv, MemoryTypeOK
  <2> QED
    BY <2>1 DEF Event
<1>2. i \in Nat
  BY Lengths
<1>3. [id |-> i, key |-> log[i].key, ts |-> log[i].ts, dup |-> FALSE] \in Row
  BY <1>1, <1>2 DEF Row
<1>4. \A r \in R : [r EXCEPT !.dup = TRUE] \in Row
  BY DEF Row
<1> QED
  BY <1>3, <1>4 DEF InsertRow

LEMMA InsertRowStands ==
  ASSUME MemoryInv, NEW i \in 1..Len(log), NEW R, NEW S, StandsFor(R, S)
  PROVE  StandsFor(InsertRow(R, i), S \cup {i})
<1> DEFINE e == log[i]
           hit == {r \in R : e.key # NoKey /\ r.key = e.key /\ r.ts = e.ts}
           new == [id |-> i, key |-> e.key, ts |-> e.ts, dup |-> FALSE]
           I == InsertRow(R, i)
<1>1. I \in SUBSET Row
  BY InsertRowType DEF StandsFor
<1>2. CASE hit = {}
  <2>1. I = R \cup {new}
    BY <1>2 DEF InsertRow
  <2> HIDE DEF I, hit
  <2>2. new.id = i /\ new.key = log[i].key /\ new.dup = FALSE
    OBVIOUS
  <2> HIDE DEF new
  <2> QED
    BY <1>1, <2>1, <2>2 DEF StandsFor, I
<1>3. CASE hit # {}
  <2>1. I = (R \ hit) \cup {[r EXCEPT !.dup = TRUE] : r \in hit}
    BY <1>3 DEF InsertRow
  <2>2. e.key # NoKey /\ \A r \in hit : r \in R /\ r.key = e.key
    BY <1>3
  <2> HIDE DEF I, hit, e
  <2>3. \A r \in hit : LET m == [r EXCEPT !.dup = TRUE]
                       IN  m.id = r.id /\ m.key = r.key
    BY <2>2 DEF StandsFor, Row
  <2>4. ASSUME NEW m \in I
        PROVE  m.id \in S /\ m.key = log[m.id].key /\ (m.key = NoKey => ~m.dup)
    <3>1. CASE m \in R
      BY <3>1 DEF StandsFor
    <3>2. ASSUME NEW r \in hit, m = [r EXCEPT !.dup = TRUE]
          PROVE  m.id \in S /\ m.key = log[m.id].key /\ m.key # NoKey
      <4>1. m.id = r.id /\ m.key = r.key
        BY <2>3, <3>2
      <4> QED
        BY <2>2, <4>1 DEF StandsFor
    <3> QED
      BY <2>1, <3>1, <3>2
  <2>5. ASSUME NEW j \in S \cup {i}, log[j].key = NoKey PROVE \E r \in I : r.id = j
    <3>1. j \in S
      BY <2>2, <2>5 DEF e
    <3>2. PICK r \in R : r.id = j
      BY <2>5, <3>1 DEF StandsFor
    <3>3. r \notin hit
      BY <2>2, <2>5, <3>2 DEF StandsFor
    <3> QED
      BY <2>1, <3>2, <3>3
  <2> QED
    BY <1>1, <2>4, <2>5 DEF StandsFor, I
<1> QED
  BY <1>2, <1>3

(* The loop over the batch stores the batch.                               *)
LEMMA InsertedStands ==
  ASSUME MemoryInv, StandsFor(rows, stored)
  PROVE  StandsFor(Inserted, stored \cup ((Done + 1)..(Done + Len(batch))))
<1> DEFINE n == Len(batch)
           S == SUBSET Row
           turn == [k \in 1..n |-> [R \in S |-> InsertRow(R, Done + k)]]
<1>1. n \in Nat /\ Done \in Nat /\ \A k \in 1..n : Done + k \in 1..Len(log)
  BY Lengths
<1>2. turn \in [1..n -> [S -> S]]
  BY <1>1, InsertRowType
<1>3. \A k \in 1..n : \A R \in S : turn[k][R] = InsertRow(R, Done + k)
  OBVIOUS
<1>4. rows \in S
  BY DEF StandsFor
<1> HIDE DEF n, S, turn
<1>5. PICK f \in [0..n -> S] : Loop(f, rows, turn, n)
  BY <1>1, <1>2, <1>4, LoopExists
<1>6. \A k \in 1..n : k - 1 \in 0..n /\ f[k - 1] \in S
  BY <1>1
<1>7. f = [k \in 0..n |-> IF k = 0 THEN rows ELSE InsertRow(f[k - 1], Done + k)]
  <2>1. \A k \in 1..n : f[k] = InsertRow(f[k - 1], Done + k)
    BY <1>3, <1>5, <1>6 DEF Loop
  <2>2. f[0] = rows
    BY <1>5 DEF Loop
  <2>3. \A k \in 0..n : k = 0 \/ k \in 1..n
    BY <1>1
  <2> QED
    BY <2>1, <2>2, <2>3
<1> DEFINE after == CHOOSE g : g = [k \in 0..n |->
                        IF k = 0 THEN rows ELSE InsertRow(g[k - 1], Done + k)]
<1>8. Inserted = after[n]
  BY DEF Inserted, n
<1>9. after = [k \in 0..n |-> IF k = 0 THEN rows ELSE InsertRow(after[k - 1], Done + k)]
  BY <1>7
<1> HIDE DEF after
<1> DEFINE T == {k \in 0..n : StandsFor(after[k], stored \cup ((Done + 1)..(Done + k)))}
<1>10. 0 \in T
  <2>1. 0 \in 0..n
    BY <1>1
  <2>2. after[0] = rows
    BY <1>9, <2>1
  <2>3. stored \cup ((Done + 1)..(Done + 0)) = stored
    BY <1>1
  <2> QED
    BY <2>1, <2>2, <2>3
<1>11. ASSUME NEW k \in 0..n, k \in T, k < n PROVE k + 1 \in T
  <2>1. k + 1 \in 1..n /\ k + 1 # 0 /\ (k + 1) - 1 = k /\ k + 1 \in 0..n
    BY <1>1, <1>11
  <2>2. after[k + 1] = InsertRow(after[k], Done + (k + 1))
    BY <1>9, <2>1
  <2>3. StandsFor(after[k + 1],
                  (stored \cup ((Done + 1)..(Done + k))) \cup {Done + (k + 1)})
    BY <1>1, <1>11, <2>1, <2>2, InsertRowStands
  <2>4. (stored \cup ((Done + 1)..(Done + k))) \cup {Done + (k + 1)}
          = stored \cup ((Done + 1)..(Done + (k + 1)))
    BY <1>1, <2>1
  <2> QED
    BY <2>1, <2>3, <2>4
<1>12. n \in T
  <2> HIDE DEF T
  <2>1. 0..n \subseteq T
    BY <1>1, <1>10, <1>11, UpToInduction
  <2> QED
    BY <1>1, <2>1
<1> QED
  BY <1>8, <1>12 DEF n

-----------------------------------------------------------------------------
(* The whole state.                                                        *)
PipelineInv ==
    /\ PipelineTypeOK
    /\ MemoryInv
    /\ stored \subseteq 1..Done
    /\ StandsFor(rows, stored)

LEMMA InitPipelineInv == PipelineInit => PipelineInv
<1> SUFFICES ASSUME PipelineInit PROVE PipelineInv
  OBVIOUS
<1>1. MemoryInv
  BY InitMemory
<1>2. PipelineTypeOK
  BY PipelineAssumption
  DEF PipelineInit, PipelineTypeOK, BatchFits, Phase, ReqState, Flusher
<1>3. stored \subseteq 1..Done /\ StandsFor(rows, stored)
  BY DEF PipelineInit, StandsFor
<1> QED
  BY <1>1, <1>2, <1>3 DEF PipelineInv

LEMMA SendKeepsType ==
  ASSUME PipelineInv, NEW r \in Request, SendEvent(r)
  PROVE  PipelineTypeOK'
<1>1. EventOf(r) \in Event
  BY EventOfType DEF PipelineInv, MemoryInv
<1>2. Len(chan) < Capacity
  BY Lengths, PipelineAssumption DEF SendEvent, Saturated, PipelineInv
<1>3. chan' \in Seq(Event) /\ Len(chan') =< Capacity /\ log' \in Seq(Event)
  BY <1>1, <1>2, Lengths, PipelineAssumption
  DEF SendEvent, PipelineInv, PipelineTypeOK
<1>4. sent' \in [Request -> Nat]
  BY DEF SendEvent, PipelineInv, PipelineTypeOK
<1>5. BatchFits'
  BY DEF SendEvent, BatchFits, PipelineInv, PipelineTypeOK
<1> QED
  BY <1>3, <1>4, <1>5 DEF SendEvent, PipelineInv, PipelineTypeOK

LEMMA ReceiveKeepsType ==
  ASSUME PipelineInv, Receive
  PROVE  PipelineTypeOK'
<1>1. MemoryTypeOK'
  BY ReceiveKeeps DEF PipelineInv, MemoryInv
<1>2. PICK n \in 1..Len(chan) : /\ n =< DrainBatch - Len(batch)
                              /\ batch' = batch \o SubSeq(chan, 1, n)
                              /\ chan' = SubSeq(chan, n + 1, Len(chan))
  BY DEF Receive
<1>3. Len(chan') =< Capacity
  <2>1. n \in Nat /\ n >= 1 /\ n =< Len(chan) /\ Len(chan) =< Capacity
    BY Lengths DEF PipelineInv, PipelineTypeOK
  <2>2. Len(chan') = Len(chan) - n
    BY <1>2, <2>1 DEF PipelineInv, PipelineTypeOK
  <2> QED
    BY <2>1, <2>2, Lengths, PipelineAssumption DEF PipelineInv
<1>4. flusher' \in Flusher
  BY DEF Receive, Flusher
<1>5. BatchFits'
  <2>1. n \in Nat /\ n =< Len(chan) /\ Len(chan) \in Nat /\ Len(batch) \in Nat
    BY Lengths DEF PipelineInv
  <2>2. chan \in Seq(Event) /\ batch \in Seq(Event)
    BY DEF PipelineInv, PipelineTypeOK
  <2>3. SubSeq(chan, 1, n) \in Seq(Event) /\ Len(SubSeq(chan, 1, n)) = n
    BY <2>1, <2>2
  <2>4. Len(batch') = Len(batch) + n
    BY <1>2, <2>2, <2>3
  <2>5. Len(batch') \in Nat /\ Len(batch') =< DrainBatch
    BY <1>2, <2>1, <2>4, PipelineAssumption
  <2>6. flusher' = "select" => ~(Len(batch') >= DrainBatch)
    BY DEF Receive
  <2> QED
    BY <2>5, <2>6, PipelineAssumption DEF BatchFits
<1> QED
  BY <1>1, <1>3, <1>4, <1>5
  DEF Receive, MemoryTypeOK, PipelineInv, PipelineTypeOK, requestVars

LEMMA FlushKeepsType ==
  ASSUME PipelineInv, FlushCommit \/ FlushFail
  PROVE  PipelineTypeOK'
<1>1. MemoryTypeOK'
  BY FlushKeeps DEF PipelineInv, MemoryInv
<1>2. rows' \in SUBSET Row
  <2>1. CASE FlushCommit
    <3>1. rows' = Inserted
      BY <2>1 DEF FlushCommit
    <3> QED
      BY <3>1, InsertedStands DEF PipelineInv, StandsFor
  <2>2. CASE FlushFail
    BY <2>2 DEF FlushFail, PipelineInv, PipelineTypeOK
  <2> QED
    BY <2>1, <2>2
<1>3. stored' \in SUBSET Nat
  <2>1. (Done + 1)..(Done + Len(batch)) \subseteq Nat
    BY Lengths DEF PipelineInv
  <2> QED
    BY <2>1, FlushKeeps DEF PipelineInv, PipelineTypeOK
<1>4. flusher' \in Flusher
  BY DEF FlushCommit, FlushFail, AfterFlush, Flusher
<1>5. faults' \in 0..MaxFaults
  BY PipelineAssumption DEF FlushCommit, FlushFail, Fault, PipelineInv, PipelineTypeOK
<1>6. chan' = chan /\ phase' = phase /\ req' = req /\ sent' = sent
  BY DEF FlushCommit, FlushFail, requestVars
<1>7. BatchFits'
  <2>1. batch' = <<>>
    BY DEF FlushCommit, FlushFail
  <2> QED
    BY <2>1, PipelineAssumption DEF BatchFits
<1> QED
  BY <1>1, <1>2, <1>3, <1>4, <1>5, <1>6, <1>7 DEF MemoryTypeOK, PipelineInv, PipelineTypeOK

LEMMA RestartKeepsType ==
  ASSUME PipelineInv, Restart
  PROVE  PipelineTypeOK'
<1>1. MemoryTypeOK'
  BY RestartKeeps DEF PipelineInv, MemoryInv
<1>2. chan' = <<>> /\ Len(chan') =< Capacity
  BY PipelineAssumption DEF Restart
<1>3. BatchFits'
  <2>1. batch' = <<>>
    BY DEF Restart
  <2> QED
    BY <2>1, PipelineAssumption DEF BatchFits
<1> QED
  BY <1>1, <1>2, <1>3
  DEF Restart, Phase, Flusher, MemoryTypeOK, PipelineInv, PipelineTypeOK, requestVars

LEMMA ElsewhereKeepsType ==
  ASSUME PipelineInv, Elsewhere
  PROVE  PipelineTypeOK'
<1>1. MemoryTypeOK'
  BY ElsewhereKeeps DEF PipelineInv, MemoryInv
<1>0. BatchFits'
  <2>1. batch' = batch /\ (flusher' = "select" => flusher = "select")
    BY DEF Elsewhere, Arrive, RefuseEvent, Answer, TickFlush, SendersGone, Sigterm,
           ServerStops, Exit, Crash, TimePasses, vars
  <2> QED
    BY <2>1 DEF BatchFits, PipelineInv, PipelineTypeOK
<1>2. ASSUME NEW r \in Request, Arrive(r) \/ RefuseEvent(r) \/ Answer(r)
      PROVE  /\ UNCHANGED <<phase, sent, chan, flusher, rows, stored, faults>>
             /\ req' \in [Request -> ReqState]
  BY <1>2 DEF Arrive, RefuseEvent, Answer, ReqState, PipelineInv, PipelineTypeOK
<1>3. CASE \E r \in Request : Arrive(r) \/ RefuseEvent(r) \/ Answer(r)
  <2>1. /\ UNCHANGED <<phase, sent, chan, flusher, rows, stored, faults>>
        /\ req' \in [Request -> ReqState]
    BY <1>2, <1>3
  <2> QED
    BY <1>0, <1>1, <2>1 DEF MemoryTypeOK, PipelineInv, PipelineTypeOK
<1>4. CASE TickFlush \/ SendersGone \/ TimePasses \/ UNCHANGED vars
  <2>1. /\ UNCHANGED <<phase, req, sent, chan, rows, stored, faults>>
        /\ flusher' \in Flusher
    BY <1>4 DEF TickFlush, SendersGone, TimePasses, vars, requestVars, Flusher,
                PipelineInv, PipelineTypeOK
  <2> QED
    BY <1>0, <1>1, <2>1 DEF MemoryTypeOK, PipelineInv, PipelineTypeOK
<1>5. CASE Sigterm \/ ServerStops \/ Exit \/ Crash
  <2>1. UNCHANGED <<sent, chan, flusher, rows, stored>> /\ phase' \in Phase
    BY <1>5 DEF Sigterm, ServerStops, Exit, Crash, requestVars, Phase
  <2>2. req' \in [Request -> ReqState]
    BY <1>5 DEF Sigterm, ServerStops, Exit, Crash, requestVars, ReqState,
                PipelineInv, PipelineTypeOK
  <2>3. faults' \in 0..MaxFaults
    BY <1>5, PipelineAssumption DEF Sigterm, ServerStops, Exit, Crash, Fault,
                PipelineInv, PipelineTypeOK
  <2> QED
    BY <1>0, <1>1, <2>1, <2>2, <2>3 DEF MemoryTypeOK, PipelineInv, PipelineTypeOK
<1> QED
  BY <1>3, <1>4, <1>5 DEF Elsewhere

LEMMA NextKeepsType ==
  ASSUME PipelineInv, [PipelineNext]_vars
  PROVE  PipelineTypeOK'
  BY StepKinds, SendKeepsType, ReceiveKeepsType, FlushKeepsType, RestartKeepsType,
     ElsewhereKeepsType

(* Only what has left memory is stored, and the rows stand for it.         *)
LEMMA NextKeepsStored ==
  ASSUME PipelineInv, [PipelineNext]_vars
  PROVE  stored' \subseteq 1..Done' /\ StandsFor(rows, stored)'
<1>0. MemoryInv /\ stored \subseteq 1..Done /\ StandsFor(rows, stored)
  BY DEF PipelineInv
<1>1. ASSUME NEW r \in Request, SendEvent(r)
      PROVE  stored' \subseteq 1..Done' /\ StandsFor(rows, stored)'
  <2>1. Done' = Done /\ stored' = stored /\ log' = Append(log, EventOf(r))
    BY <1>0, <1>1, SendKeeps
  <2>2. rows' = rows
    BY <1>1 DEF SendEvent
  <2>3. \A i \in stored : i \in 1..Len(log)
    BY <1>0, Lengths
  <2>4. log \in Seq(Event) /\ EventOf(r) \in Event
    BY <1>0, EventOfType DEF MemoryInv, MemoryTypeOK
  <2>5. \A i \in stored : log'[i] = log[i]
    <3> HIDE DEF Event
    <3> QED
      BY <2>1, <2>3, <2>4
  <2> QED
    BY <1>0, <2>1, <2>2, <2>5 DEF StandsFor
<1>2. CASE FlushCommit
  <2>1. /\ rows' = Inserted /\ log' = log
        /\ stored' = stored \cup ((Done + 1)..(Done + Len(batch)))
    BY <1>2 DEF FlushCommit
  <2>2. Done' = Done + Len(batch)
    BY <1>0, <1>2, FlushKeeps
  <2>3. ASSUME NEW i \in stored' PROVE i \in 1..Done'
    <3>1. i \in 1..Done \/ i \in (Done + 1)..(Done + Len(batch))
      BY <1>0, <2>1, <2>3
    <3> QED
      BY <1>0, <2>2, <3>1, Lengths
  <2>4. StandsFor(Inserted, stored \cup ((Done + 1)..(Done + Len(batch))))
    BY <1>0, InsertedStands
  <2> QED
    BY <2>1, <2>3, <2>4 DEF StandsFor
<1>3. CASE FlushFail \/ Receive \/ Restart \/ Elsewhere
  <2>1. rows' = rows /\ stored' = stored
    BY <1>3 DEF FlushFail, Receive, Restart, Elsewhere, Arrive, RefuseEvent, Answer,
                TickFlush, SendersGone, Sigterm, ServerStops, Exit, Crash, TimePasses, vars
  <2>2. log' = log /\ Done =< Done' /\ Done' \in Nat
    BY <1>0, <1>3, FlushKeeps, ReceiveKeeps, RestartKeeps, ElsewhereKeeps, Lengths
  <2>3. ASSUME NEW i \in stored' PROVE i \in 1..Done'
    <3>1. i \in 1..Done /\ Done \in Nat
      BY <1>0, <2>1, <2>3, Lengths
    <3> QED
      BY <2>2, <3>1
  <2> QED
    BY <1>0, <2>1, <2>2, <2>3 DEF StandsFor
<1> QED
  BY <1>1, <1>2, <1>3, StepKinds

LEMMA PipelineSafe == PipelineSpec => []PipelineInv
<1>1. PipelineInv /\ [PipelineNext]_vars => PipelineInv'
  BY NextKeepsType, NextKeepsStored, NextMemory DEF PipelineInv
<1> QED
  BY <1>1, InitPipelineInv, PTL DEF PipelineSpec

(* Types, and with them the bounds of the memory: whatever is sent, flushed*)
(* and lost, mpsc::channel never holds more than its capacity, the batch   *)
(* never more than DRAIN_BATCH, and the flusher never asks for no events.  *)
THEOREM PipelineTypeCorrect == PipelineSpec => []PipelineTypeOK
<1>1. PipelineInv => PipelineTypeOK
  BY DEF PipelineInv
<1> QED
  BY <1>1, PipelineSafe, PTL

(* ON CONFLICT never marks a decision's row nor swallows one: the          *)
(* countable rows without a key are those of the stored decision events    *)
(* (flush_batch, of which rollup.rs counts the rows).                      *)
THEOREM DecisionsCounted == PipelineSpec => []DecisionsAlwaysCount
<1>1. ASSUME PipelineInv PROVE DecisionsAlwaysCount
  <2>1. StandsFor(rows, stored)
    BY <1>1 DEF PipelineInv
  <2> DEFINE Countable == {x \in rows : x.key = NoKey /\ ~x.dup}
             Ids == {r.id : r \in Countable}
  <2>2. ASSUME NEW i \in Ids PROVE i \in Stored(NoKey)
    BY <2>1 DEF StandsFor, Stored
  <2>3. ASSUME NEW i \in Stored(NoKey) PROVE i \in Ids
    <3>1. i \in stored /\ log[i].key = NoKey
      BY <2>3 DEF Stored
    <3>2. PICK r \in rows : r.id = i
      BY <2>1, <3>1 DEF StandsFor
    <3>3. r \in Countable
      BY <2>1, <3>1, <3>2 DEF StandsFor
    <3> QED
      BY <3>2, <3>3
  <2> QED
    BY <2>2, <2>3 DEF DecisionsAlwaysCount
<1> QED
  BY <1>1, PipelineSafe, PTL

=============================================================================
