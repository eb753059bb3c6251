----------------------------- MODULE Jobs_proofs ----------------------------
(***************************************************************************)
(* Proofs about the election of the process that runs the background jobs, *)
(* and about the partition manager, one of the jobs.                       *)
(*                                                                         *)
(* Proofs about the partition manager, for any number of processes that    *)
(* believe they lead, any premake window and any retention.  The argument: *)
(* a day whose leaf was attached while retention asks for it keeps that    *)
(* leaf (Stays), because every pass read its today in the past and so      *)
(* lists only leaves that retention has given up by now (ListedAreAged).   *)
(* Where Postgres refuses the two ALTERs, a pass never gets behind them    *)
(* (FirstDayOnly), so it neither premakes nor detaches anything.           *)
(*                                                                         *)
(* Proofs about leader election: for any number of processes, pool         *)
(* connections, jobs and faults.  The inductive invariant says where a     *)
(* task may have which connection (SlotInSession), where the flag may be   *)
(* up (FlagOnlyInSession), and that a task past pg_try_advisory_lock holds *)
(* the lock while its session lives (LiveLeaderHoldsLock).                 *)
(*                                                                         *)
(* Proofs about the names of leaves, for every day: ymd_from_epoch finds   *)
(* the year and the day of it (DateFound), which are those of one date     *)
(* only (OneDate); so the next day has the date after (NextDate), and      *)
(* dates, hence names, sort as days do.                                    *)
(***************************************************************************)
EXTENDS Partitions, Leader, Calendar, Loops, TLAPS

\* Retention no longer asks for the day, or its own leaf is attached.
Stays(day) == day >= now - Retention => day \in attached

\* The same of the next state, for a day of either.
StaysOn(day) == day >= now' - Retention => day \in attached'

\* A pass read its today in the past, and what it is to detach is aged.
ListedAreAged ==
    \A p \in Runner :
        /\ pass[p].today =< now \/ pass[p].at = "idle"
        /\ pass[p].at = "detach" => \A l \in pass[p].todo : Aged(l, pass[p].today)

\* No pass gets behind the ALTERs of its first day.
FirstDayOnly ==
    \A p \in Runner : pass[p].at \in {"idle", "create", "alter"} /\ pass[p].d = 0

\* No leaf is made before its day, and none is ever detached.
NothingPremade  == \A day \in tables : day =< now
NothingDetached == attached = tables \cup {Seed}

RefusalInv ==
    PartitionsTypeOK /\ ListedAreAged /\ FirstDayOnly /\ NothingPremade /\ NothingDetached

-----------------------------------------------------------------------------
(* Types.                                                                  *)

LEMMA InitType == PartitionsInit => PartitionsTypeOK
<1>1. Idle \in Pass
  BY PartitionsAssumption DEF Idle, Pass, At, Day
<1> QED
  BY <1>1, PartitionsAssumption
  DEF PartitionsInit, PartitionsTypeOK, Day, Leaf, Seed

LEMMA PassFields ==
  ASSUME PartitionsTypeOK, NEW p \in Runner
  PROVE  /\ pass[p] \in Pass
         /\ pass[p].today \in Nat /\ pass[p].d \in Nat /\ pass[p].d < PREMAKE_DAYS
         /\ pass[p].todo \subseteq Leaf /\ pass[p].at \in At
         /\ Making(p) \in Nat
<1>1. pass[p] \in Pass
  BY DEF PartitionsTypeOK
<1> QED
  BY <1>1, PartitionsAssumption DEF Pass, Day, Making

LEMMA NextType == PartitionsTypeOK /\ [PartitionsNext]_vars => PartitionsTypeOK'
<1> SUFFICES ASSUME PartitionsTypeOK, [PartitionsNext]_vars
             PROVE  PartitionsTypeOK'
  OBVIOUS
<1>0. now \in Nat /\ Idle \in Pass
  BY PartitionsAssumption DEF Idle, Pass, At, Day, PartitionsTypeOK
<1>1. CASE UNCHANGED vars
  BY <1>1 DEF vars, PartitionsTypeOK
<1>2. CASE Midnight
  BY <1>0, <1>2 DEF Midnight, PartitionsTypeOK, Day
<1>3. ASSUME NEW p \in Runner, RunOnce(p) \/ Die(p)
      PROVE  PartitionsTypeOK'
  <2>0. /\ pass[p] \in Pass
        /\ pass[p].today \in Nat /\ pass[p].d \in Nat /\ pass[p].d < PREMAKE_DAYS
        /\ Making(p) \in Nat
    BY PassFields
  <2>1. CASE Tick(p)
    <3>1. [Idle EXCEPT !.at = "create", !.today = now] \in Pass
      BY <1>0 DEF Pass, At, Day
    <3> QED
      BY <2>1, <3>1 DEF Tick, PartitionsTypeOK
  <2>2. CASE CreateLeaf(p)
    <3>1. [pass[p] EXCEPT !.at = "alter"] \in Pass
      BY <2>0 DEF Pass, At
    <3>2. pass' \in [Runner -> Pass]
      BY <2>2, <3>1 DEF CreateLeaf, PartitionsTypeOK
    <3> QED
      BY <2>0, <2>2, <3>2 DEF CreateLeaf, PartitionsTypeOK, Day, Leaf
  <2>3. CASE AlterLeaf(p)
    <3>0. pass[p].d + 1 < PREMAKE_DAYS => pass[p].d + 1 \in 0..(PREMAKE_DAYS - 1)
      BY <2>0, PartitionsAssumption
    <3>1. /\ pass[p].d + 1 < PREMAKE_DAYS =>
               [pass[p] EXCEPT !.at = "create", !.d = pass[p].d + 1] \in Pass
          /\ [pass[p] EXCEPT !.at = "list"] \in Pass
      BY <2>0, <3>0 DEF Pass, At
    <3>2. pass' \in [Runner -> Pass]
      BY <2>3, <3>1 DEF AlterLeaf, PartitionsTypeOK
    <3> QED
      BY <2>3, <3>2 DEF AlterLeaf, PartitionsTypeOK
  <2>4. CASE ListLeaves(p)
    <3> DEFINE todo == {l \in attached : Aged(l, pass[p].today)}
    <3>1. todo \in SUBSET Leaf
      BY DEF PartitionsTypeOK
    <3>2. [pass[p] EXCEPT !.at = "detach", !.todo = todo] \in Pass
      BY <2>0, <3>1 DEF Pass, At
    <3> QED
      BY <2>4, <3>2 DEF ListLeaves, PartitionsTypeOK
  <2>5. CASE DetachLeaf(p)
    <3> PICK l \in pass[p].todo :
            /\ pass' = [pass EXCEPT ![p].todo = pass[p].todo \ {l}]
            /\ attached' \in {attached, attached \ {l}}
      BY <2>5 DEF DetachLeaf
    <3>1. [pass[p] EXCEPT !.todo = pass[p].todo \ {l}] \in Pass
      BY <2>0 DEF Pass
    <3> QED
      BY <2>5, <3>1 DEF DetachLeaf, PartitionsTypeOK
  <2>6. CASE PassOk(p)
    BY <1>0, <2>0, <2>6 DEF PassOk, PartitionsTypeOK, Day
  <2>7. CASE RefuseAlter(p) \/ Overlap(p) \/ PassFails(p) \/ Die(p)
    BY <1>0, <2>7 DEF RefuseAlter, Overlap, PassFails, Die, PartitionsTypeOK
  <2> QED
    BY <1>3, <2>1, <2>2, <2>3, <2>4, <2>5, <2>6, <2>7 DEF RunOnce, Statement, Proceed
<1> QED
  BY <1>1, <1>2, <1>3 DEF PartitionsNext

(* Every process, leaf and day stays of its type (partitions.rs:65-124).   *)
THEOREM PartitionsTypeCorrect == PartitionsSpec => []PartitionsTypeOK
  BY InitType, NextType, PTL DEF PartitionsSpec

-----------------------------------------------------------------------------
(* Retention: what is detached is aged by the clock, not only by the today *)
(* of the pass.                                                            *)

LEMMA NextAged ==
  PartitionsTypeOK /\ ListedAreAged /\ [PartitionsNext]_vars => ListedAreAged'
<1> SUFFICES ASSUME PartitionsTypeOK, ListedAreAged, [PartitionsNext]_vars
             PROVE  ListedAreAged'
  OBVIOUS
<1>0. now \in Nat /\ \A q \in Runner : pass[q].today \in Nat
  BY PassFields DEF PartitionsTypeOK, Day
<1>1. CASE UNCHANGED vars
  BY <1>1 DEF vars, ListedAreAged, Aged
<1>2. CASE Midnight
  BY <1>0, <1>2 DEF Midnight, ListedAreAged, Aged
<1>3. ASSUME NEW p \in Runner, RunOnce(p) \/ Die(p)
      PROVE  ListedAreAged'
  <2>1. now' = now /\ pass' = [pass EXCEPT ![p] = pass'[p]] /\ pass \in [Runner -> Pass]
    BY <1>3 DEF RunOnce, Statement, Proceed, RefuseAlter, Tick, CreateLeaf, Overlap,
                AlterLeaf, ListLeaves, DetachLeaf, PassOk, PassFails, Die, PartitionsTypeOK
  <2>2. ASSUME NEW q \in Runner, q # p
        PROVE  pass'[q] = pass[q]
    BY <2>1, <2>2
  <2>3. /\ pass'[p].today =< now \/ pass'[p].at = "idle"
        /\ pass'[p].at = "detach" => \A l \in pass'[p].todo : Aged(l, pass'[p].today)
    <3>1. CASE Tick(p)
      BY <1>0, <2>1, <3>1 DEF Tick, Idle
    <3>2. CASE CreateLeaf(p) \/ AlterLeaf(p)
      BY <2>1, <3>2 DEF CreateLeaf, AlterLeaf, ListedAreAged, Pass
    <3>3. CASE ListLeaves(p)
      BY <2>1, <3>3 DEF ListLeaves, ListedAreAged, Pass
    <3>4. CASE DetachLeaf(p)
      BY <2>1, <3>4 DEF DetachLeaf, ListedAreAged, Pass
    <3>5. CASE PassOk(p) \/ RefuseAlter(p) \/ Overlap(p) \/ PassFails(p) \/ Die(p)
      BY <2>1, <3>5 DEF PassOk, RefuseAlter, Overlap, PassFails, Die, Idle
    <3> QED
      BY <1>3, <3>1, <3>2, <3>3, <3>4, <3>5 DEF RunOnce, Statement, Proceed
  <2> QED
    BY <2>1, <2>2, <2>3 DEF ListedAreAged, Aged
<1> QED
  BY <1>1, <1>2, <1>3 DEF PartitionsNext

(* A kept day is kept by every step: midnight only shortens retention, and *)
(* a detached leaf is aged.                                                *)
LEMMA StaysStable ==
  ASSUME PartitionsTypeOK, ListedAreAged, [PartitionsNext]_vars, NEW day \in Nat, Stays(day)
  PROVE  StaysOn(day)
<1>0. now \in Nat /\ Retention \in Nat /\ \A q \in Runner : pass[q].today \in Nat
  BY PassFields, PartitionsAssumption DEF PartitionsTypeOK, Day
<1>1. CASE UNCHANGED vars
  BY <1>1 DEF vars, Stays, StaysOn
<1>2. CASE Midnight
  BY <1>0, <1>2 DEF Midnight, Stays, StaysOn
<1>3. ASSUME NEW p \in Runner, RunOnce(p) \/ Die(p)
      PROVE  StaysOn(day)
  <2>1. CASE DetachLeaf(p)
    <3> PICK l \in pass[p].todo : attached' \in {attached, attached \ {l}}
      BY <2>1 DEF DetachLeaf
    <3>1. now' = now /\ Aged(l, pass[p].today) /\ pass[p].today =< now
      BY <2>1 DEF DetachLeaf, ListedAreAged
    <3>2. l \in Leaf
      BY PassFields
    <3> QED
      BY <1>0, <3>1, <3>2 DEF Aged, Stays, StaysOn, Leaf, Seed
  <2>2. CASE CreateLeaf(p)
    BY <2>2 DEF CreateLeaf, Stays, StaysOn
  <2>3. CASE Tick(p) \/ AlterLeaf(p) \/ ListLeaves(p) \/ PassOk(p)
             \/ RefuseAlter(p) \/ Overlap(p) \/ PassFails(p) \/ Die(p)
    BY <2>3 DEF Tick, AlterLeaf, ListLeaves, PassOk, RefuseAlter, Overlap, PassFails, Die,
                Stays, StaysOn
  <2> QED
    BY <1>3, <2>1, <2>2, <2>3 DEF RunOnce, Statement, Proceed
<1> QED
  BY <1>1, <1>2, <1>3 DEF PartitionsNext

LEMMA NextRetained ==
  PartitionsTypeOK /\ ListedAreAged /\ RetainedLeavesStay /\ [PartitionsNext]_vars
    => RetainedLeavesStay'
<1> SUFFICES ASSUME PartitionsTypeOK, ListedAreAged, RetainedLeavesStay, [PartitionsNext]_vars,
                    NEW day \in tables'
             PROVE  StaysOn(day)
  BY DEF RetainedLeavesStay, StaysOn
<1>1. CASE day \in tables
  BY <1>1, StaysStable DEF RetainedLeavesStay, Stays, PartitionsTypeOK, Day
<1>2. CASE day \notin tables
  <2>1. tables' = tables \/ \E p \in Runner : CreateLeaf(p)
    BY DEF PartitionsNext, vars, Midnight, RunOnce, Statement, Proceed, RefuseAlter, Tick,
           AlterLeaf, Overlap, ListLeaves, DetachLeaf, PassOk, PassFails, Die
  <2>2. PICK p \in Runner : CreateLeaf(p)
    BY <1>2, <2>1
  <2> QED
    BY <1>2, <2>2 DEF CreateLeaf, Stays, StaysOn
<1> QED
  BY <1>1, <1>2

(* No pass detaches a daily leaf retention still asks for, however old the *)
(* today it read (partitions.rs:88-113).                                   *)
THEOREM RetentionSafe == PartitionsSpec => []RetainedLeavesStay
<1>1. PartitionsInit => PartitionsTypeOK /\ ListedAreAged /\ RetainedLeavesStay
  BY InitType DEF PartitionsInit, ListedAreAged, RetainedLeavesStay, Idle
<1>2. PartitionsTypeOK /\ ListedAreAged /\ RetainedLeavesStay /\ [PartitionsNext]_vars
        => (PartitionsTypeOK /\ ListedAreAged /\ RetainedLeavesStay)'
  BY NextType, NextAged, NextRetained
<1> QED
  BY <1>1, <1>2, PTL DEF PartitionsSpec

-----------------------------------------------------------------------------
(* What the refusal of the two ALTERs costs.                               *)

LEMMA NextRefusal ==
  ASSUME "run" \notin AlterAnswers, RefusalInv, [PartitionsNext]_vars
  PROVE  RefusalInv'
<1>0. /\ PartitionsTypeOK /\ ListedAreAged /\ pass \in [Runner -> Pass]
      /\ now \in Nat /\ tables \subseteq Nat
      /\ \A q \in Runner : pass[q].today \in Nat
  BY PassFields DEF RefusalInv, PartitionsTypeOK, Day
<1>1. PartitionsTypeOK' /\ ListedAreAged'
  BY <1>0, NextType, NextAged
<1>2. CASE UNCHANGED vars
  BY <1>1, <1>2 DEF vars, RefusalInv, FirstDayOnly, NothingPremade, NothingDetached
<1>3. CASE Midnight
  BY <1>0, <1>1, <1>3 DEF Midnight, RefusalInv, FirstDayOnly, NothingPremade, NothingDetached
<1>4. ASSUME NEW p \in Runner, RunOnce(p) \/ Die(p)
      PROVE  RefusalInv'
  <2>1. pass[p].at \in {"idle", "create", "alter"} /\ pass[p].d = 0
    BY DEF RefusalInv, FirstDayOnly
  <2>2. ~AlterLeaf(p) /\ ~ListLeaves(p) /\ ~DetachLeaf(p) /\ ~PassOk(p)
    BY <2>1 DEF AlterLeaf, ListLeaves, DetachLeaf, PassOk
  <2>3. CASE CreateLeaf(p)
    <3>1. pass[p].today =< now /\ Making(p) = pass[p].today
      BY <1>0, <2>1, <2>3 DEF CreateLeaf, ListedAreAged, Making
    <3>2. NothingPremade' /\ NothingDetached'
      BY <1>0, <2>3, <3>1 DEF CreateLeaf, RefusalInv, NothingPremade, NothingDetached
    <3>3. FirstDayOnly'
      BY <1>0, <2>1, <2>3 DEF CreateLeaf, RefusalInv, FirstDayOnly, Pass
    <3> QED
      BY <1>1, <3>2, <3>3 DEF RefusalInv
  <2>4. CASE Tick(p) \/ RefuseAlter(p) \/ Overlap(p) \/ PassFails(p) \/ Die(p)
    <3>1. now' = now /\ tables' = tables /\ attached' = attached
      BY <2>4 DEF Tick, RefuseAlter, Overlap, PassFails, Die
    <3>2. ASSUME Tick(p)
          PROVE  FirstDayOnly'
      <4>1. pass' = [pass EXCEPT ![p] = [Idle EXCEPT !.at = "create", !.today = now]]
        BY <3>2 DEF Tick
      <4>2. pass'[p].at = "create" /\ pass'[p].d = 0
        BY <1>0, <4>1 DEF Idle
      <4> QED
        BY <1>0, <4>1, <4>2 DEF RefusalInv, FirstDayOnly
    <3>3. ASSUME ~Tick(p)
          PROVE  FirstDayOnly'
      <4>1. pass' = [pass EXCEPT ![p] = Idle]
        BY <2>4, <3>3 DEF RefuseAlter, Overlap, PassFails, Die
      <4>2. Idle.at = "idle" /\ Idle.d = 0
        BY DEF Idle
      <4> QED
        BY <1>0, <4>1, <4>2 DEF RefusalInv, FirstDayOnly
    <3>4. FirstDayOnly'
      BY <3>2, <3>3
    <3> QED
      BY <1>1, <3>1, <3>4 DEF RefusalInv, NothingPremade, NothingDetached
  <2> QED
    BY <1>4, <2>2, <2>3, <2>4 DEF RunOnce, Statement, Proceed
<1> QED
  BY <1>2, <1>3, <1>4 DEF PartitionsNext

(* While Postgres never runs the two ALTERs of a leaf in one prepared      *)
(* statement, as it does not, there is no leaf of a day to come and no     *)
(* leaf is ever detached, seed or aged: of the two jobs of a pass neither  *)
(* is done, whatever else fails or does not (partitions.rs:84-124).        *)
THEOREM RefusalStopsPremake ==
  ASSUME "run" \notin AlterAnswers
  PROVE  PartitionsSpec => [](NothingPremade /\ NothingDetached)
<1>1. PartitionsInit => RefusalInv
  BY InitType DEF PartitionsInit, RefusalInv, ListedAreAged, FirstDayOnly, NothingPremade,
                  NothingDetached, Idle
<1>2. RefusalInv /\ [PartitionsNext]_vars => RefusalInv'
  BY NextRefusal
<1>3. RefusalInv => NothingPremade /\ NothingDetached
  BY DEF RefusalInv
<1> QED
  BY <1>1, <1>2, <1>3, PTL DEF PartitionsSpec

-----------------------------------------------------------------------------
\* A task between pool.acquire and the end of its session has a connection.
SlotInSession ==
    \A p \in Proc : pc[p] \in {"try", "granted", "leading", "releasing"}
                        => slot[p] \in Slot

TypeInv == TypeOK /\ SlotInSession

IInv == TypeInv /\ FlagOnlyInSession /\ LiveLeaderHoldsLock

USE DEF PC, LinkState, taskVars, serverVars

LEMMA InitTypeInv == Init => TypeInv
  BY ConstantsAssumption DEF Init, TypeInv, TypeOK, SlotInSession

LEMMA TaskTypeInv ==
  ASSUME TypeInv, NEW p \in Proc, Task(p)
  PROVE  TypeInv'
<1> USE ConstantsAssumption DEF TypeInv, TypeOK, SlotInSession, Conn, conn
<1>1. CASE \E s \in Slot : PoolAcquire(p, s)
  BY <1>1 DEF PoolAcquire
<1>2. CASE TryAcquire(p)
  BY <1>2 DEF TryAcquire
<1>3. CASE BecomeLeader(p)
  BY <1>3 DEF BecomeLeader
<1>4. CASE SessionError(p)
  BY <1>4 DEF SessionError, EndSession, Dropped
<1>5. CASE WatchdogRelease(p)
  BY <1>5 DEF WatchdogRelease
<1>6. CASE WatchdogStepDown(p)
  BY <1>6 DEF WatchdogStepDown, EndSession, Dropped
<1>7. CASE BackoffOver(p)
  BY <1>7 DEF BackoffOver
<1> QED
  BY <1>1, <1>2, <1>3, <1>4, <1>5, <1>6, <1>7 DEF Task

LEMMA FaultTypeInv ==
  ASSUME TypeInv, NEW p \in Proc, TaskFault(p) \/ Restart(p)
  PROVE  TypeInv'
<1> USE ConstantsAssumption DEF TypeInv, TypeOK, SlotInSession, Conn, conn, Fault
<1>1. CASE PoolAcquireFails(p)
  BY <1>1 DEF PoolAcquireFails
<1>2. CASE QueryCancelled(p)
  BY <1>2 DEF QueryCancelled, EndSession, Dropped
<1>3. CASE WatchdogReleaseFails(p)
  BY <1>3 DEF WatchdogReleaseFails
<1>4. CASE Crash(p)
  BY <1>4 DEF Crash, Dropped
<1>5. CASE Restart(p)
  BY <1>5 DEF Restart
<1> QED
  BY <1>1, <1>2, <1>3, <1>4, <1>5 DEF TaskFault

\* What the server and the pool may do to connections and the lock.
LEMMA ServerTypeInv ==
  ASSUME TypeInv,
         \/ ServerFault
         \/ \E c \in Conn : ServerNotices(c)
         \/ \E p \in Proc, s \in Slot : PoolRetires(p, s)
  PROVE  TypeInv'
<1> USE ConstantsAssumption
    DEF TypeInv, TypeOK, SlotInSession, Fault, FreeLocksOf, Ended
<1>1. CASE ServerRestart
  BY <1>1 DEF ServerRestart
<1>2. ASSUME NEW c \in Conn, NetworkCut(c)
      PROVE  TypeInv'
  BY <1>2 DEF NetworkCut
<1>3. ASSUME NEW c \in Conn, ServerEnds(c)
      PROVE  TypeInv'
  BY <1>3 DEF ServerEnds
<1>4. ASSUME NEW c \in Conn, ServerNotices(c)
      PROVE  TypeInv'
  BY <1>4 DEF ServerNotices
<1>5. ASSUME NEW p \in Proc, NEW s \in Slot, PoolRetires(p, s)
      PROVE  TypeInv'
  BY <1>5 DEF PoolRetires, Dropped, Conn
<1> QED
  BY <1>1, <1>2, <1>3, <1>4, <1>5 DEF ServerFault

LEMMA JobTypeInv ==
  ASSUME TypeInv,
         Hour \/ \E p \in Proc, j \in Job : JobStart(p, j) \/ JobOk(p, j) \/ JobErr(p, j)
  PROVE  TypeInv'
<1> USE ConstantsAssumption DEF TypeInv, TypeOK, SlotInSession, Fault
<1>1. CASE Hour
  BY <1>1 DEF Hour, WatchdogDue
<1>2. ASSUME NEW p \in Proc, NEW j \in Job, JobStart(p, j) \/ JobOk(p, j) \/ JobErr(p, j)
      PROVE  TypeInv'
  BY <1>2 DEF JobStart, JobOk, JobErr
<1> QED
  BY <1>1, <1>2

LEMMA NextTypeInv == TypeInv /\ [Next]_leaderVars => TypeInv'
<1> SUFFICES ASSUME TypeInv, [Next]_leaderVars
             PROVE  TypeInv'
  OBVIOUS
<1>1. CASE ElectionStep
  BY <1>1, TaskTypeInv, FaultTypeInv, ServerTypeInv DEF ElectionStep
<1>2. CASE Hour \/ \E p \in Proc, j \in Job : JobStart(p, j) \/ JobOk(p, j) \/ JobErr(p, j)
  BY <1>2, JobTypeInv
<1>3. CASE UNCHANGED leaderVars
  BY <1>3 DEF leaderVars, TypeInv, TypeOK, SlotInSession
<1> QED
  BY <1>1, <1>2, <1>3 DEF Next

\* Type correctness of the leader task, the lock and the jobs' view of them;
\* in particular the lock has a holder exactly while grants are outstanding.
THEOREM LeaderTypeCorrect == Spec => []TypeOK
<1>1. TypeInv => TypeOK
  BY DEF TypeInv
<1> QED
  BY InitTypeInv, NextTypeInv, <1>1, PTL DEF Spec

-----------------------------------------------------------------------------
(* The flag is up only inside a session.                                   *)

LEMMA InitFlag == Init => FlagOnlyInSession
  BY DEF Init, FlagOnlyInSession

LEMMA TaskFlag ==
  ASSUME TypeInv, FlagOnlyInSession, NEW p \in Proc, Task(p) \/ TaskFault(p) \/ Restart(p)
  PROVE  FlagOnlyInSession'
<1> USE ConstantsAssumption DEF TypeInv, TypeOK, SlotInSession, FlagOnlyInSession
<1>1. CASE \E s \in Slot : PoolAcquire(p, s)
  BY <1>1 DEF PoolAcquire
<1>2. CASE TryAcquire(p) \/ BecomeLeader(p)
  BY <1>2 DEF TryAcquire, BecomeLeader
<1>3. CASE SessionError(p) \/ QueryCancelled(p) \/ WatchdogStepDown(p)
  BY <1>3 DEF SessionError, QueryCancelled, WatchdogStepDown, EndSession
<1>4. CASE WatchdogRelease(p) \/ WatchdogReleaseFails(p)
  BY <1>4 DEF WatchdogRelease, WatchdogReleaseFails
<1>5. CASE BackoffOver(p) \/ PoolAcquireFails(p) \/ Restart(p)
  BY <1>5 DEF BackoffOver, PoolAcquireFails, Restart
<1>6. CASE Crash(p)
  BY <1>6 DEF Crash
<1> QED
  BY <1>1, <1>2, <1>3, <1>4, <1>5, <1>6 DEF Task, TaskFault

\* Neither the server nor the pool nor a job touches the leader task.
LEMMA OthersKeepTask ==
  ASSUME [Next]_leaderVars
  PROVE  \/ UNCHANGED <<pc, slot, isLeader>>
         \/ \E p \in Proc : Task(p) \/ TaskFault(p) \/ Restart(p)
  BY DEF Next, ElectionStep, ServerFault, ServerRestart, NetworkCut, ServerEnds,
         ServerNotices, PoolRetires, JobStart, JobOk, JobErr, Hour, leaderVars

LEMMA NextFlag ==
  TypeInv /\ FlagOnlyInSession /\ [Next]_leaderVars => FlagOnlyInSession'
<1> SUFFICES ASSUME TypeInv, FlagOnlyInSession, [Next]_leaderVars
             PROVE  FlagOnlyInSession'
  OBVIOUS
<1>1. CASE UNCHANGED <<pc, slot, isLeader>>
  BY <1>1 DEF FlagOnlyInSession
<1>2. CASE \E p \in Proc : Task(p) \/ TaskFault(p) \/ Restart(p)
  BY <1>2, TaskFlag
<1> QED
  BY <1>1, <1>2, OthersKeepTask

\* No error return, crash or step-down leaves the gate of the jobs open.
THEOREM FlagSafe == Spec => []FlagOnlyInSession
  BY InitTypeInv, NextTypeInv, InitFlag, NextFlag, PTL DEF Spec

-----------------------------------------------------------------------------
(* A live leader holds the lock.                                           *)

LEMMA InitHolds == Init => LiveLeaderHoldsLock
  BY DEF Init, LiveLeaderHoldsLock, InSession

LEMMA TaskHolds ==
  ASSUME TypeInv, LiveLeaderHoldsLock, NEW p \in Proc, Task(p)
  PROVE  LiveLeaderHoldsLock'
<1> USE ConstantsAssumption
    DEF TypeInv, TypeOK, SlotInSession, Conn, conn, InSession, SessionAlive
<1> SUFFICES ASSUME NEW q \in Proc, InSession(q)', SessionAlive(q)'
             PROVE  (lockHolder = conn(q))'
  BY DEF LiveLeaderHoldsLock
<1>0. InSession(q) /\ SessionAlive(q) => lockHolder = conn(q)
  BY DEF LiveLeaderHoldsLock
<1>1. ASSUME NEW s \in Slot, PoolAcquire(p, s)
      PROVE  (lockHolder = conn(q))'
  <2>1. /\ lockHolder' = lockHolder /\ slot' = [slot EXCEPT ![p] = s]
        /\ pc' = [pc EXCEPT ![p] = "try"] /\ link' = [link EXCEPT ![<<p, s>>] = "open"]
    BY <1>1 DEF PoolAcquire
  <2>2. q # p /\ pc'[q] = pc[q] /\ slot'[q] = slot[q]
    BY <2>1
  <2>3. link'[<<q, slot[q]>>] = link[<<q, slot[q]>>]
    BY <2>1, <2>2
  <2> QED
    BY <1>0, <2>1, <2>2, <2>3
<1>2. CASE TryAcquire(p)
  BY <1>0, <1>2 DEF TryAcquire
<1>3. CASE BecomeLeader(p)
  BY <1>0, <1>3 DEF BecomeLeader
<1>4. CASE SessionError(p)
  BY <1>0, <1>4 DEF SessionError, EndSession, Dropped
<1>5. CASE WatchdogRelease(p)
  BY <1>0, <1>5 DEF WatchdogRelease
<1>6. CASE WatchdogStepDown(p)
  BY <1>0, <1>6 DEF WatchdogStepDown, EndSession, Dropped
<1>7. CASE BackoffOver(p)
  BY <1>0, <1>7 DEF BackoffOver
<1> QED
  BY <1>1, <1>2, <1>3, <1>4, <1>5, <1>6, <1>7 DEF Task

LEMMA FaultHolds ==
  ASSUME TypeInv, LiveLeaderHoldsLock, NEW p \in Proc, TaskFault(p) \/ Restart(p)
  PROVE  LiveLeaderHoldsLock'
<1> USE ConstantsAssumption
    DEF TypeInv, TypeOK, SlotInSession, Conn, conn, InSession, SessionAlive
<1> SUFFICES ASSUME NEW q \in Proc, InSession(q)', SessionAlive(q)'
             PROVE  (lockHolder = conn(q))'
  BY DEF LiveLeaderHoldsLock
<1>0. InSession(q) /\ SessionAlive(q) => lockHolder = conn(q)
  BY DEF LiveLeaderHoldsLock
<1>1. CASE PoolAcquireFails(p) \/ WatchdogReleaseFails(p) \/ Restart(p)
  BY <1>0, <1>1 DEF PoolAcquireFails, WatchdogReleaseFails, Restart
<1>2. CASE QueryCancelled(p)
  BY <1>0, <1>2 DEF QueryCancelled, EndSession, Dropped
<1>3. CASE Crash(p)
  BY <1>0, <1>3 DEF Crash, Dropped
<1> QED
  BY <1>1, <1>2, <1>3 DEF TaskFault

\* The server frees only the locks of sessions it ends, and the pool retires
\* only connections no task has.
LEMMA ServerHolds ==
  ASSUME TypeInv, LiveLeaderHoldsLock,
         \/ ServerFault
         \/ \E c \in Conn : ServerNotices(c)
         \/ \E p \in Proc, s \in Slot : PoolRetires(p, s)
  PROVE  LiveLeaderHoldsLock'
<1> USE ConstantsAssumption
    DEF TypeInv, TypeOK, SlotInSession, conn, InSession, SessionAlive, FreeLocksOf
<1> SUFFICES ASSUME NEW q \in Proc, InSession(q)', SessionAlive(q)'
             PROVE  (lockHolder = conn(q))'
  BY DEF LiveLeaderHoldsLock
<1>0. InSession(q) /\ SessionAlive(q) => lockHolder = conn(q)
  BY DEF LiveLeaderHoldsLock
<1>1. CASE ServerRestart
  BY <1>0, <1>1 DEF ServerRestart, Ended, Conn
<1>2. ASSUME NEW c \in Conn, NetworkCut(c) \/ ServerEnds(c) \/ ServerNotices(c)
      PROVE  (lockHolder = conn(q))'
  BY <1>0, <1>2 DEF NetworkCut, ServerEnds, ServerNotices, Ended, Conn
<1>3. ASSUME NEW p \in Proc, NEW s \in Slot, PoolRetires(p, s)
      PROVE  (lockHolder = conn(q))'
  BY <1>0, <1>3 DEF PoolRetires, Dropped, Conn
<1> QED
  BY <1>1, <1>2, <1>3 DEF ServerFault

LEMMA NextHolds ==
  TypeInv /\ LiveLeaderHoldsLock /\ [Next]_leaderVars => LiveLeaderHoldsLock'
<1> SUFFICES ASSUME TypeInv, LiveLeaderHoldsLock, [Next]_leaderVars
             PROVE  LiveLeaderHoldsLock'
  OBVIOUS
<1>1. CASE ElectionStep
  BY <1>1, TaskHolds, FaultHolds, ServerHolds DEF ElectionStep
<1>2. CASE UNCHANGED <<link, lockHolder, pc, slot>>
  BY <1>2 DEF LiveLeaderHoldsLock, InSession, SessionAlive, conn
<1> QED
  BY <1>1, <1>2 DEF Next, JobStart, JobOk, JobErr, Hour, leaderVars

\* The advisory lock is never taken from under a task whose session lives.
THEOREM LockSafe == Spec => []LiveLeaderHoldsLock
  BY InitTypeInv, NextTypeInv, InitHolds, NextHolds, PTL DEF Spec

LEMMA OneLiveLease == IInv => AtMostOneLiveLease
<1> SUFFICES ASSUME IInv, NEW p \in Proc, NEW q \in Proc, p # q,
                    isLeader[p], isLeader[q],
                    \A r \in {p, q} : pc[r] # "releasing" /\ SessionAlive(r)
             PROVE  FALSE
  BY DEF AtMostOneLiveLease
<1>1. InSession(p) /\ InSession(q)
  BY DEF IInv, FlagOnlyInSession, InSession
<1>2. lockHolder = conn(p) /\ lockHolder = conn(q)
  BY <1>1 DEF IInv, LiveLeaderHoldsLock
<1> QED
  BY <1>2 DEF conn

\* Of two raised flags one belongs to a process whose lease is gone.
THEOREM LeaseSafe == Spec => []AtMostOneLiveLease
<1>1. Init => IInv
  BY InitTypeInv, InitFlag, InitHolds DEF IInv
<1>2. IInv /\ [Next]_leaderVars => IInv'
  BY NextTypeInv, NextFlag, NextHolds DEF IInv
<1> QED
  BY <1>1, <1>2, OneLiveLease, PTL DEF Spec

-----------------------------------------------------------------------------
(* Leader implements Lease.                                                *)

LEMMA InitLease == Init => LeaseView!LeaseInit
  BY DEF Init, LeaseView!LeaseInit, Owner, Flags, FlagOf

\* What happens to the lock without its owner's doing is Lose, or a stutter.
LEMMA LoseOrStutter ==
  ASSUME TypeInv, UNCHANGED Flags,
         lockHolder' = lockHolder \/ lockHolder' = NoConn
  PROVE  [LeaseView!LeaseNext]_(LeaseView!leaseVars)
<1>1. CASE lockHolder' = lockHolder
  BY <1>1 DEF Owner, LeaseView!leaseVars
<1>2. CASE lockHolder # NoConn /\ lockHolder' = NoConn
  <2>1. lockHolder[1] \in Proc
    BY <1>2 DEF TypeInv, TypeOK, Conn
  <2> QED
    BY <1>2, <2>1, ConstantsAssumption
    DEF Owner, LeaseView!LeaseNext, LeaseView!Lose
<1> QED
  BY <1>1, <1>2

\* A step of p's task that leaves the lock alone moves p's flag only.
LEMMA FlagsOfStep ==
  ASSUME TypeInv, NEW p \in Proc, NEW c \in PC, NEW b \in BOOLEAN,
         pc' = [pc EXCEPT ![p] = c], isLeader' = [isLeader EXCEPT ![p] = b]
  PROVE  Flags' = [Flags EXCEPT ![p] = FlagOf(p)']
<1>1. \A q \in Proc \ {p} : FlagOf(q)' = FlagOf(q)
  BY DEF FlagOf, TypeInv, TypeOK
<1> QED
  BY <1>1 DEF Flags

\* The end of a session is Clear, or a stutter if the lock was never granted.
LEMMA ClearOrStutter ==
  ASSUME TypeInv, NEW p \in Proc, UNCHANGED lockHolder,
         NEW c \in {"backoff", "down"}, pc' = [pc EXCEPT ![p] = c],
         isLeader' = [isLeader EXCEPT ![p] = FALSE]
  PROVE  [LeaseView!LeaseNext]_(LeaseView!leaseVars)
<1>1. FlagOf(p)' = "down"
  BY DEF FlagOf, TypeInv, TypeOK
<1>2. Flags' = [Flags EXCEPT ![p] = "down"]
  BY <1>1, FlagsOfStep
<1>3. Owner' = Owner
  BY DEF Owner
<1>4. CASE Flags[p] = "down"
  <2>1. Flags' = Flags
    BY <1>2, <1>4 DEF Flags
  <2> QED
    BY <1>3, <2>1 DEF LeaseView!leaseVars
<1>5. CASE Flags[p] # "down"
  BY <1>2, <1>3, <1>5 DEF LeaseView!LeaseNext, LeaseView!Clear
<1> QED
  BY <1>4, <1>5

LEMMA TaskLease ==
  ASSUME TypeInv, FlagOnlyInSession, NEW p \in Proc, Task(p)
  PROVE  [LeaseView!LeaseNext]_(LeaseView!leaseVars)
<1> USE ConstantsAssumption
<1>1. CASE \E s \in Slot : PoolAcquire(p, s)
  <2>1. Flags' = Flags /\ Owner' = Owner
    BY <1>1 DEF PoolAcquire, Flags, FlagOf, Owner, TypeInv, TypeOK, FlagOnlyInSession
  <2> QED
    BY <2>1 DEF LeaseView!leaseVars
<1>2. CASE TryAcquire(p)
  <2>1. Owner \in {NoProc, p} /\ Owner' = p
    BY <1>2 DEF TryAcquire, Owner, TypeInv, TypeOK, SlotInSession, Conn, conn
  <2>2. Flags[p] = "down" /\ FlagOf(p)' = "granted"
    BY <1>2 DEF TryAcquire, Flags, FlagOf, TypeInv, TypeOK, FlagOnlyInSession
  <2>3. Flags' = [Flags EXCEPT ![p] = "granted"]
    <3>1. isLeader' = [isLeader EXCEPT ![p] = isLeader[p]] /\ isLeader[p] \in BOOLEAN
      BY <1>2 DEF TryAcquire, TypeInv, TypeOK
    <3> QED
      BY <1>2, <2>2, <3>1, FlagsOfStep DEF TryAcquire
  <2> QED
    BY <2>1, <2>2, <2>3 DEF LeaseView!LeaseNext, LeaseView!Grant
<1>3. CASE BecomeLeader(p)
  <2>1. Flags[p] = "granted" /\ Owner' = Owner
    BY <1>3 DEF BecomeLeader, Flags, FlagOf, Owner, FlagOnlyInSession
  <2>2. pc'[p] = "leading" /\ isLeader'[p] = TRUE
    BY <1>3 DEF BecomeLeader, TypeInv, TypeOK
  <2>3. FlagOf(p)' = "up"
    BY <2>2 DEF FlagOf
  <2>4. Flags' = [Flags EXCEPT ![p] = "up"]
    BY <1>3, <2>3, FlagsOfStep DEF BecomeLeader
  <2> QED
    BY <2>1, <2>4 DEF LeaseView!LeaseNext, LeaseView!Raise
<1>4. CASE SessionError(p) \/ WatchdogStepDown(p)
  BY <1>4, ClearOrStutter DEF SessionError, WatchdogStepDown, EndSession
<1>5. CASE WatchdogRelease(p)
  <2>1. Flags' = Flags
    BY <1>5 DEF WatchdogRelease, Flags, FlagOf, TypeInv, TypeOK
  <2> QED
    BY <1>5, <2>1, LoseOrStutter DEF WatchdogRelease
<1>6. CASE BackoffOver(p)
  <2>1. Flags' = Flags /\ Owner' = Owner
    BY <1>6 DEF BackoffOver, Flags, FlagOf, Owner, TypeInv, TypeOK, FlagOnlyInSession
  <2> QED
    BY <2>1 DEF LeaseView!leaseVars
<1> QED
  BY <1>1, <1>2, <1>3, <1>4, <1>5, <1>6 DEF Task

LEMMA FaultLease ==
  ASSUME TypeInv, FlagOnlyInSession, NEW p \in Proc, TaskFault(p) \/ Restart(p)
  PROVE  [LeaseView!LeaseNext]_(LeaseView!leaseVars)
<1>1. CASE PoolAcquireFails(p) \/ Restart(p)
  <2>1. Flags' = Flags /\ Owner' = Owner
    BY <1>1 DEF PoolAcquireFails, Restart, Flags, FlagOf, Owner,
                TypeInv, TypeOK, FlagOnlyInSession
  <2> QED
    BY <2>1 DEF LeaseView!leaseVars
<1>2. CASE QueryCancelled(p) \/ Crash(p)
  BY <1>2, ClearOrStutter DEF QueryCancelled, Crash, EndSession
<1>3. CASE WatchdogReleaseFails(p)
  <2>1. Flags' = Flags /\ Owner' = Owner
    BY <1>3 DEF WatchdogReleaseFails, Flags, FlagOf, Owner, TypeInv, TypeOK
  <2> QED
    BY <2>1 DEF LeaseView!leaseVars
<1> QED
  BY <1>1, <1>2, <1>3 DEF TaskFault

LEMMA NextLease ==
  TypeInv /\ FlagOnlyInSession /\ [Next]_leaderVars
      => [LeaseView!LeaseNext]_(LeaseView!leaseVars)
<1> SUFFICES ASSUME TypeInv, FlagOnlyInSession, [Next]_leaderVars
             PROVE  [LeaseView!LeaseNext]_(LeaseView!leaseVars)
  OBVIOUS
<1>1. CASE \E p \in Proc : Task(p) \/ TaskFault(p) \/ Restart(p)
  BY <1>1, TaskLease, FaultLease
<1>2. CASE /\ UNCHANGED <<pc, slot, isLeader>>
           /\ lockHolder' = lockHolder \/ lockHolder' = NoConn
  <2>1. Flags' = Flags
    BY <1>2 DEF Flags, FlagOf
  <2> QED
    BY <1>2, <2>1, LoseOrStutter
<1> QED
  BY <1>1, <1>2
  DEF Next, ElectionStep, ServerFault, ServerRestart, NetworkCut, ServerEnds,
      ServerNotices, PoolRetires, FreeLocksOf, JobStart, JobOk, JobErr, Hour, leaderVars

\* Grants of the advisory lock exclude each other, and is_leader rises only
\* after a grant: the lease that Rollup.tla composes its runs with.
THEOREM LeaderRefinesLease == Spec => ImplementsLease
  BY InitTypeInv, NextTypeInv, InitFlag, NextFlag, InitLease, NextLease, PTL
  DEF Spec, ImplementsLease, LeaseView!LeaseSpec

-----------------------------------------------------------------------------
(* The names of leaves.                                                    *)

(* Hinnant's years begin in March: day k of year y of a 400-year era is     *)
(* day YearStart(y) + k of the era, and year y has a day 365 if the        *)
(* February it ends with is a leap one.                                    *)
YearStart(y) == 365 * y + y \div 4 - y \div 100

InYear(y, k) == /\ y \in 0..399 /\ k \in 0..365
                /\ k = 365 => Leap(y + 1)

(* Month p of a year that begins in March starts on its day MonthStart(p).  *)
MonthStart(p) == (153 * p + 2) \div 5
MonthOf(k) == (5 * k + 2) \div 153
Number(p) == IF p < 10 THEN p + 3 ELSE p - 9

(* The date of day k of year y of an era.                                  *)
DateOf(era, y, k) ==
    <<y + era * 400 + (IF Number(MonthOf(k)) =< 2 THEN 1 ELSE 0),
      Number(MonthOf(k)), k - MonthStart(MonthOf(k)) + 1>>

(* Day D of an era lies in century b, and t is the number of leap days that *)
(* the division by 1460 discounts.                                         *)
LEMMA YearOfCentury ==
  ASSUME NEW b \in Int, NEW r \in Int, NEW t \in Int, NEW y \in Int, NEW D \in Int,
         0 =< b, b =< 3, 0 =< r, r =< 36523, D = 36524 * b + r,
         1460 * t =< D, D < 1460 * t + 1460,
         365 * y =< D - t + b, D - t + b < 365 * y + 365
  PROVE  100 * b =< y /\ y < 100 * b + 100
<1>1. 25 * b =< t
  <2> SUFFICES ASSUME t =< 25 * b - 1 PROVE FALSE
    OBVIOUS
  <2>1. 1460 * t =< 36500 * b - 1460
    OBVIOUS
  <2> QED
    BY <2>1
<1>2. t =< 25 * b + 25
  <2> SUFFICES ASSUME t >= 25 * b + 26 PROVE FALSE
    OBVIOUS
  <2>1. 1460 * t >= 36500 * b + 37960
    OBVIOUS
  <2> QED
    BY <2>1
<1>3. 36500 * b =< D - t + b
  <2> SUFFICES ASSUME D - t + b < 36500 * b PROVE FALSE
    OBVIOUS
  <2>1. 25 * b + r < t
    OBVIOUS
  <2>2. 1460 * (25 * b + r + 1) =< D
    BY <2>1
  <2> QED
    BY <2>2
<1>4. D - t + b < 36500 * b + 36500
  <2> SUFFICES ASSUME D - t + b >= 36500 * b + 36500 PROVE FALSE
    OBVIOUS
  <2>1. t =< 25 * b + r - 36500
    OBVIOUS
  <2>2. t =< 25 * b + 23
    BY <2>1
  <2> QED
    BY <2>2
<1> QED
  BY <1>3, <1>4

(* Of q leap days before year y, none is missed and none counted twice.     *)
LEMMA DayOfCentury ==
  ASSUME NEW b \in Int, NEW r \in Int, NEW t \in Int, NEW y \in Int, NEW D \in Int, NEW q \in Int,
         0 =< b, b =< 3, 0 =< r, r =< 36523, D = 36524 * b + r,
         1460 * t =< D, D < 1460 * t + 1460,
         365 * y =< D - t + b, D - t + b < 365 * y + 365,
         4 * q =< y, y < 4 * q + 4, y < 100 * b + 100
  PROVE  /\ 365 * y + q - b =< D /\ D =< 365 * y + q - b + 365
         /\ D = 365 * y + q - b + 365 => y = 4 * q + 3 /\ y # 100 * b + 99
<1>1. 365 * y + q - b =< D
  <2> SUFFICES ASSUME D < 365 * y + q - b PROVE FALSE
    OBVIOUS
  <2>1. t < q /\ D >= 1460 * t
    OBVIOUS
  <2> QED
    BY <2>1
<1>2. D =< 365 * y + q - b + 365
  <2> SUFFICES ASSUME D > 365 * y + q - b + 365 PROVE FALSE
    OBVIOUS
  <2>1. q + 2 =< t
    OBVIOUS
  <2>2. 1460 * (q + 2) =< D /\ D < 365 * y + 365 + t - b
    BY <2>1
  <2> QED
    BY <2>1, <2>2
<1>3. ASSUME D = 365 * y + q - b + 365
      PROVE  y = 4 * q + 3 /\ y # 100 * b + 99
  <2>1. q + 1 =< t /\ q =< 99
    BY <1>3
  <2>2. 1460 * (q + 1) =< 365 * y + q - b + 365
    BY <1>3, <2>1
  <2>3. y >= 4 * q + 3
    <3> SUFFICES ASSUME y =< 4 * q + 2 PROVE FALSE
      OBVIOUS
    <3>1. 365 * y =< 1460 * q + 730
      OBVIOUS
    <3> QED
      BY <2>1, <2>2, <3>1
  <2>4. y # 100 * b + 99
    <3> SUFFICES ASSUME y = 100 * b + 99 PROVE FALSE
      OBVIOUS
    <3>1. q = 25 * b + 24
      BY <2>3
    <3> QED
      BY <1>3, <3>1
  <2> QED
    BY <2>3, <2>4
<1> QED
  BY <1>1, <1>2, <1>3

(* yoe of ymd_from_epoch.                                                   *)
YearOf(D) == (D - D \div 1460 + D \div 36524 - D \div 146096) \div 365

(* yoe and doy of ymd_from_epoch are a year of the era and a day of it.     *)
LEMMA YearOfEra ==
  ASSUME NEW D \in Int, 0 =< D, D =< 146096
  PROVE  InYear(YearOf(D), D - YearStart(YearOf(D)))
<1>1. CASE D = 146096
  <2>1. D \div 1460 = 100 /\ D \div 36524 = 4 /\ D \div 146096 = 1
    BY <1>1
  <2>2. YearOf(D) = 399
    BY <1>1, <2>1 DEF YearOf
  <2>3. YearStart(399) = 145731
    BY DEF YearStart
  <2>4. Leap(400)
    BY DEF Leap
  <2> QED
    BY <1>1, <2>2, <2>3, <2>4 DEF InYear
<1>2. CASE D < 146096
  <2>1. PICK t \in Int : t = D \div 1460
    OBVIOUS
  <2>2. PICK b \in Int : b = D \div 36524
    OBVIOUS
  <2>3. 1460 * t =< D /\ D < 1460 * t + 1460
    BY <2>1
  <2>4. 36524 * b =< D /\ D < 36524 * b + 36524
    BY <2>2
  <2>5. PICK y \in Int : y = (D - t + b) \div 365
    OBVIOUS
  <2>6. 365 * y =< D - t + b /\ D - t + b < 365 * y + 365
    BY <2>5
  <2>7. D \div 146096 = 0
    BY <1>2
  <2>8. YearOf(D) = y
    BY <2>1, <2>2, <2>5, <2>7 DEF YearOf
  <2>9. 0 =< b /\ b =< 3
    BY <1>2, <2>4
  <2>10. PICK r \in Int : r = D - 36524 * b
    OBVIOUS
  <2>11. D = 36524 * b + r /\ 0 =< r /\ r =< 36523
    BY <2>4, <2>10
  <2>12. 100 * b =< y /\ y < 100 * b + 100
    BY <2>3, <2>6, <2>9, <2>11, YearOfCentury
  <2>13. y \div 100 = b
    BY <2>12
  <2>14. PICK q \in Int : q = y \div 4
    OBVIOUS
  <2>15. 4 * q =< y /\ y < 4 * q + 4
    BY <2>14
  <2>16. /\ 365 * y + q - b =< D /\ D =< 365 * y + q - b + 365
         /\ D = 365 * y + q - b + 365 => y = 4 * q + 3 /\ y # 100 * b + 99
    BY <2>3, <2>6, <2>9, <2>11, <2>12, <2>15, DayOfCentury
  <2>17. YearStart(y) = 365 * y + q - b
    BY <2>13, <2>14 DEF YearStart
  <2>18. ASSUME D - YearStart(y) = 365 PROVE Leap(y + 1)
    <3>1. y = 4 * q + 3 /\ y # 100 * b + 99
      BY <2>16, <2>17, <2>18
    <3>2. y + 1 = 4 * (q + 1)
      BY <3>1
    <3>3. (y + 1) % 4 = 0
      BY <3>2
    <3>4. 100 * b < y + 1 /\ y + 1 < 100 * b + 100
      BY <2>12, <3>1
    <3>5. (y + 1) % 100 # 0
      BY <3>4
    <3> QED
      BY <3>3, <3>5 DEF Leap
  <2>19. y \in 0..399
    BY <2>9, <2>12
  <2>20. D - YearStart(y) \in 0..365
    BY <2>16, <2>17
  <2> QED
    BY <2>8, <2>18, <2>19, <2>20 DEF InYear
<1> QED
  BY <1>1, <1>2

(* The first days of the months.                                           *)
LEMMA MonthStarts ==
  /\ MonthStart(0) = 0 /\ MonthStart(1) = 31 /\ MonthStart(2) = 61 /\ MonthStart(3) = 92
  /\ MonthStart(4) = 122 /\ MonthStart(5) = 153 /\ MonthStart(6) = 184
  /\ MonthStart(7) = 214 /\ MonthStart(8) = 245 /\ MonthStart(9) = 275
  /\ MonthStart(10) = 306 /\ MonthStart(11) = 337
  BY DEF MonthStart

(* The calendar repeats every 400 years.                                   *)
LEMMA LeapPeriod ==
  ASSUME NEW y \in Int, NEW era \in Int
  PROVE  Leap(y + era * 400) <=> Leap(y)
<1>1. PICK z \in Int : z = y + era * 400
  OBVIOUS
<1>2. z % 4 = y % 4
  <2>1. PICK q \in Int, m \in Int : q = y \div 4 /\ m = y % 4
    OBVIOUS
  <2>2. y = 4 * q + m /\ 0 =< m /\ m < 4
    BY <2>1
  <2>3. z = 4 * (q + 100 * era) + m
    BY <1>1, <2>2
  <2> QED
    BY <2>1, <2>2, <2>3
<1>3. z % 100 = y % 100
  <2>1. PICK q \in Int, m \in Int : q = y \div 100 /\ m = y % 100
    OBVIOUS
  <2>2. y = 100 * q + m /\ 0 =< m /\ m < 100
    BY <2>1
  <2>3. z = 100 * (q + 4 * era) + m
    BY <1>1, <2>2
  <2> QED
    BY <2>1, <2>2, <2>3
<1>4. z % 400 = y % 400
  <2>1. PICK q \in Int, m \in Int : q = y \div 400 /\ m = y % 400
    OBVIOUS
  <2>2. y = 400 * q + m /\ 0 =< m /\ m < 400
    BY <2>1
  <2>3. z = 400 * (q + era) + m
    BY <1>1, <2>2
  <2> QED
    BY <2>1, <2>2, <2>3
<1> QED
  BY <1>1, <1>2, <1>3, <1>4 DEF Leap

(* A year ends where the next begins.                                      *)
LEMMA YearLength ==
  ASSUME NEW y \in Int, 0 =< y, y =< 398
  PROVE  YearStart(y + 1) = YearStart(y) + (IF Leap(y + 1) THEN 366 ELSE 365)
<1>1. PICK q \in Int, b \in Int : q = y \div 4 /\ b = y \div 100
  OBVIOUS
<1>2. 4 * q =< y /\ y < 4 * q + 4 /\ 100 * b =< y /\ y < 100 * b + 100
  BY <1>1
<1>3. (y + 1) % 400 # 0
  BY <1>1
<1>4. (y + 1) % 4 = 0 <=> y = 4 * q + 3
  BY <1>2
<1>5. (y + 1) % 100 = 0 <=> y = 100 * b + 99
  BY <1>2
<1>6. (y + 1) \div 4 = IF y = 4 * q + 3 THEN q + 1 ELSE q
  BY <1>2
<1>7. (y + 1) \div 100 = IF y = 100 * b + 99 THEN b + 1 ELSE b
  BY <1>2
<1>8. y = 100 * b + 99 => y = 4 * q + 3
  BY <1>2
<1> QED
  BY <1>1, <1>3, <1>4, <1>5, <1>6, <1>7, <1>8 DEF YearStart, Leap

LEMMA YearsApart ==
  ASSUME NEW y \in Int, NEW z \in Int, 0 =< y, y < z, z =< 399
  PROVE  YearStart(z) >= YearStart(y) + (IF Leap(y + 1) THEN 366 ELSE 365)
<1>1. CASE z = y + 1
  <2>1. y =< 398
    BY <1>1
  <2>2. YearStart(y + 1) = YearStart(y) + (IF Leap(y + 1) THEN 366 ELSE 365)
    BY <2>1, YearLength
  <2>3. YearStart(y) \in Int
    BY DEF YearStart
  <2> QED
    BY <1>1, <2>2, <2>3
<1>2. CASE z >= y + 2
  <2>1. PICK q \in Int, b \in Int, u \in Int, v \in Int :
             q = y \div 4 /\ b = y \div 100 /\ u = z \div 4 /\ v = z \div 100
    OBVIOUS
  <2>2. /\ 4 * q =< y /\ y < 4 * q + 4 /\ 100 * b =< y /\ y < 100 * b + 100
        /\ 4 * u =< z /\ z < 4 * u + 4 /\ 100 * v =< z /\ z < 100 * v + 100
    BY <2>1
  <2>3. q =< u /\ 0 =< b /\ v =< 3
    BY <2>2
  <2>4. YearStart(y) = 365 * y + q - b /\ YearStart(z) = 365 * z + u - v
    BY <2>1 DEF YearStart
  <2>5. YearStart(z) >= YearStart(y) + 366
    BY <1>2, <2>3, <2>4
  <2> QED
    BY <2>4, <2>5
<1> QED
  BY <1>1, <1>2

(* The days of an era are those of its 400 years.                          *)
LEMMA EraSpan ==
  ASSUME NEW y, NEW k, InYear(y, k)
  PROVE  /\ y \in Int /\ 0 =< y /\ y =< 399 /\ k \in Int /\ 0 =< k /\ k =< 365
         /\ YearStart(y) \in Int /\ 0 =< YearStart(y) + k /\ YearStart(y) + k =< 146096
<1>1. y \in Int /\ 0 =< y /\ y =< 399 /\ k \in Int /\ 0 =< k /\ k =< 365
  BY DEF InYear
<1>2. YearStart(399) = 145731
  BY DEF YearStart
<1>3. YearStart(y) \in Int /\ 0 =< YearStart(y)
  <2>1. PICK q \in Int, b \in Int : q = y \div 4 /\ b = y \div 100
    BY <1>1
  <2>2. 4 * q =< y /\ y < 4 * q + 4 /\ 100 * b =< y /\ y < 100 * b + 100
    BY <1>1, <2>1
  <2>3. YearStart(y) = 365 * y + q - b
    BY <2>1 DEF YearStart
  <2> QED
    BY <1>1, <2>2, <2>3
<1>4. CASE y < 399
  <2>1. 145731 >= YearStart(y) + (IF Leap(y + 1) THEN 366 ELSE 365)
    BY <1>1, <1>2, <1>4, YearsApart
  <2>2. k =< IF Leap(y + 1) THEN 365 ELSE 364
    BY <1>1 DEF InYear
  <2> QED
    BY <1>1, <1>3, <2>1, <2>2
<1> QED
  BY <1>1, <1>2, <1>3, <1>4

(* A day is one day of one year of one era.                                *)
LEMMA OneDate ==
  ASSUME NEW e \in Int, NEW f \in Int, NEW y, NEW z, NEW j, NEW k,
         InYear(y, j), InYear(z, k),
         146097 * e + YearStart(y) + j = 146097 * f + YearStart(z) + k
  PROVE  e = f /\ y = z /\ j = k
<1>1. /\ y \in Int /\ 0 =< y /\ y =< 399 /\ j \in Int /\ 0 =< j /\ j =< 365
      /\ YearStart(y) \in Int /\ 0 =< YearStart(y) + j /\ YearStart(y) + j =< 146096
  BY EraSpan
<1>2. /\ z \in Int /\ 0 =< z /\ z =< 399 /\ k \in Int /\ 0 =< k /\ k =< 365
      /\ YearStart(z) \in Int /\ 0 =< YearStart(z) + k /\ YearStart(z) + k =< 146096
  BY EraSpan
<1>3. e = f /\ YearStart(y) + j = YearStart(z) + k
  BY <1>1, <1>2
<1>4. j =< IF Leap(y + 1) THEN 365 ELSE 364
  BY <1>1 DEF InYear
<1>5. k =< IF Leap(z + 1) THEN 365 ELSE 364
  BY <1>2 DEF InYear
<1>6. ~(y < z)
  <2> SUFFICES ASSUME y < z PROVE FALSE
    OBVIOUS
  <2>1. YearStart(z) >= YearStart(y) + (IF Leap(y + 1) THEN 366 ELSE 365)
    BY <1>1, <1>2, YearsApart
  <2> QED
    BY <1>1, <1>2, <1>3, <1>4, <2>1
<1>7. ~(z < y)
  <2> SUFFICES ASSUME z < y PROVE FALSE
    OBVIOUS
  <2>1. YearStart(y) >= YearStart(z) + (IF Leap(z + 1) THEN 366 ELSE 365)
    BY <1>1, <1>2, YearsApart
  <2> QED
    BY <1>1, <1>2, <1>3, <1>5, <2>1
<1>8. y = z
  BY <1>1, <1>2, <1>6, <1>7
<1>9. j = k
  BY <1>1, <1>2, <1>3, <1>8
<1> QED
  BY <1>3, <1>8, <1>9

(* What ymd_from_epoch computes.                                           *)
LEMMA DateFound ==
  ASSUME NEW n \in Nat
  PROVE  \E era \in Int : \E y, k :
            /\ InYear(y, k) /\ n + 719468 = 146097 * era + YearStart(y) + k
            /\ YmdFromEpoch(n) = DateOf(era, y, k)
<1>1. PICK era \in Int, D \in Int : era = (n + 719468) \div 146097 /\ D = n + 719468 - era * 146097
  OBVIOUS
<1>2. 0 =< D /\ D =< 146096
  BY <1>1
<1>3. PICK y : y = YearOf(D)
  OBVIOUS
<1>4. PICK k : k = D - YearStart(y)
  OBVIOUS
<1>5. InYear(y, k)
  BY <1>2, <1>3, <1>4, YearOfEra
<1>6. n + 719468 = 146097 * era + YearStart(y) + k
  BY <1>1, <1>4, <1>5, EraSpan
<1>7. YmdFromEpoch(n) = DateOf(era, y, k)
  BY <1>1, <1>3, <1>4 DEF YmdFromEpoch, DateOf, YearOf, YearStart, MonthOf, MonthStart, Number
<1> QED
  BY <1>5, <1>6, <1>7

(* Month p has the days from its start up to the start of the next.         *)
LEMMA MonthSpan ==
  ASSUME NEW k \in Int, 0 =< k, k =< 365, NEW p \in Int, p = MonthOf(k)
  PROVE  0 =< p /\ p =< 11 /\ MonthStart(p) =< k /\ k < MonthStart(p + 1)
<1>1. 153 * p =< 5 * k + 2 /\ 5 * k + 2 < 153 * p + 153
  BY DEF MonthOf
<1>2. PICK s \in Int, t \in Int : s = MonthStart(p) /\ t = MonthStart(p + 1)
  BY DEF MonthStart
<1>3. 5 * s =< 153 * p + 2 /\ 153 * p + 155 < 5 * t + 5
  BY <1>2 DEF MonthStart
<1> QED
  BY <1>1, <1>2, <1>3

LEMMA MonthIs ==
  ASSUME NEW k \in Int, 0 =< k, k =< 365, NEW p \in Int, 0 =< p, p =< 11,
         MonthStart(p) =< k, p < 11 => k < MonthStart(p + 1)
  PROVE  MonthOf(k) = p
<1>1. PICK s \in Int, t \in Int : s = MonthStart(p) /\ t = MonthStart(p + 1)
  BY DEF MonthStart
<1>2. 153 * p + 2 < 5 * s + 5 /\ 5 * t =< 153 * p + 155
  BY <1>1 DEF MonthStart
<1>3. 153 * p =< 5 * k + 2
  BY <1>1, <1>2
<1>4. 5 * k + 2 < 153 * p + 153
  BY <1>1, <1>2
<1> QED
  BY <1>3, <1>4 DEF MonthOf

(* But for February the length of a month is that of the calendar.          *)
LEMMA MonthLength ==
  ASSUME NEW Y, NEW p \in Int, 0 =< p, p =< 10
  PROVE  LastOf(Y, Number(p)) = MonthStart(p + 1) - MonthStart(p)
<1>1. p \in {0, 1, 2, 3, 4, 5, 6, 7, 8, 9, 10}
  OBVIOUS
<1>2. CASE p \in {0, 2, 4, 5, 7, 9, 10}
  BY <1>2, MonthStarts DEF LastOf, Number
<1>3. CASE p \in {1, 3, 6, 8}
  BY <1>3, MonthStarts DEF LastOf, Number
<1> QED
  BY <1>1, <1>2, <1>3

LEMMA DateInMonth ==
  ASSUME NEW era, NEW y, NEW k, NEW p, MonthOf(k) = p
  PROVE  DateOf(era, y, k) = <<y + era * 400 + (IF Number(p) =< 2 THEN 1 ELSE 0),
                               Number(p), k - MonthStart(p) + 1>>
  BY DEF DateOf

(* The day after, within a year.                                            *)
LEMMA NextInYear ==
  ASSUME NEW era \in Int, NEW y, NEW k, InYear(y, k), InYear(y, k + 1)
  PROVE  DayAfter(DateOf(era, y, k)) = DateOf(era, y, k + 1)
<1>0. y \in Int /\ 0 =< y /\ k \in Int /\ 0 =< k /\ k =< 364
  BY DEF InYear
<1>1. PICK p \in Int : p = MonthOf(k)
  BY <1>0 DEF MonthOf
<1>2. 0 =< p /\ p =< 11 /\ MonthStart(p) =< k /\ k < MonthStart(p + 1)
  BY <1>0, <1>1, MonthSpan
<1>3. PICK Y \in Int : Y = y + era * 400 + (IF Number(p) =< 2 THEN 1 ELSE 0)
  BY <1>0
<1>4. PICK s \in Int, t \in Int : s = MonthStart(p) /\ t = MonthStart(p + 1)
  BY DEF MonthStart
<1>5. DateOf(era, y, k) = <<Y, Number(p), k - s + 1>>
  BY <1>1, <1>3, <1>4 DEF DateOf
<1>6. CASE p =< 10
  <2>1. LastOf(Y, Number(p)) = t - s
    BY <1>2, <1>4, <1>6, MonthLength
  <2>2. CASE k + 1 < t
    <3>1. MonthOf(k + 1) = p
      BY <1>0, <1>2, <1>4, <2>2, MonthIs
    <3>2. DateOf(era, y, k + 1) = <<Y, Number(p), (k - s + 1) + 1>>
      <4>1. PICK j \in Int : j = k + 1
        BY <1>0
      <4>2. DateOf(era, y, j) = <<y + era * 400 + (IF Number(p) =< 2 THEN 1 ELSE 0),
                                  Number(p), j - MonthStart(p) + 1>>
        BY <3>1, <4>1, DateInMonth
      <4>3. DateOf(era, y, j) = <<Y, Number(p), j - s + 1>>
        BY <1>3, <1>4, <4>2
      <4>4. j - s + 1 = (k - s + 1) + 1
        BY <1>0, <4>1
      <4> QED
        BY <4>1, <4>3, <4>4
    <3>3. k - s + 1 < t - s
      BY <1>0, <2>2
    <3> QED
      BY <1>5, <2>1, <3>2, <3>3 DEF DayAfter
  <2>3. CASE k + 1 = t
    <3>1. MonthOf(k + 1) = p + 1
      <4>1. p + 1 < 11 => k + 1 < MonthStart(p + 1 + 1)
        <5>1. p + 1 =< 10 => MonthStart(p + 1) < MonthStart(p + 1 + 1)
          <6>1. p \in {0, 1, 2, 3, 4, 5, 6, 7, 8, 9, 10}
            BY <1>2, <1>6
          <6> QED
            BY <6>1, MonthStarts
        <5> QED
          BY <1>4, <1>6, <2>3, <5>1
      <4>2. k + 1 =< 365 /\ 0 =< k + 1 /\ k + 1 \in Int /\ p + 1 \in Int /\ 0 =< p + 1 /\ p + 1 =< 11
        BY <1>0, <1>2, <1>6
      <4>3. MonthStart(p + 1) =< k + 1
        BY <1>4, <2>3
      <4> QED
        BY <4>1, <4>2, <4>3, MonthIs
    <3>2. k + 1 - MonthStart(p + 1) + 1 = 1
      BY <1>0, <1>4, <2>3
    <3>3. ~(k - s + 1 < t - s)
      BY <1>0, <2>3
    <3>4. DateOf(era, y, k + 1)
            = <<y + era * 400 + (IF Number(p + 1) =< 2 THEN 1 ELSE 0), Number(p + 1), 1>>
      <4>1. PICK j \in Int, r \in Int : j = k + 1 /\ r = p + 1
        BY <1>0
      <4>2. DateOf(era, y, j) = <<y + era * 400 + (IF Number(r) =< 2 THEN 1 ELSE 0),
                                  Number(r), j - MonthStart(r) + 1>>
        BY <3>1, <4>1, DateInMonth
      <4>3. t = MonthStart(r) /\ j - t + 1 = 1
        BY <1>4, <2>3, <4>1
      <4>4. DateOf(era, y, j) = <<y + era * 400 + (IF Number(r) =< 2 THEN 1 ELSE 0),
                                  Number(r), 1>>
        BY <4>2, <4>3
      <4> QED
        BY <4>1, <4>4
    <3>5. DayAfter(DateOf(era, y, k))
            = IF Number(p) < 12 THEN <<Y, Number(p) + 1, 1>> ELSE <<Y + 1, 1, 1>>
      BY <1>5, <2>1, <3>3 DEF DayAfter
    <3>6. CASE p = 9
      BY <1>0, <1>3, <3>4, <3>5, <3>6 DEF Number
    <3>7. CASE p # 9
      <4>1. Number(p) < 12 /\ Number(p + 1) = Number(p) + 1
        BY <1>2, <1>6, <3>7 DEF Number
      <4>2. Number(p + 1) =< 2 <=> Number(p) =< 2
        BY <1>2, <1>6, <3>7 DEF Number
      <4> QED
        BY <1>3, <3>4, <3>5, <4>1, <4>2
    <3> QED
      BY <3>6, <3>7
  <2> QED
    BY <1>0, <1>2, <1>4, <2>2, <2>3
<1>7. CASE p = 11
  <2>1. s = 337 /\ Number(p) = 2 /\ Y = y + era * 400 + 1
    BY <1>0, <1>3, <1>4, <1>7, MonthStarts DEF Number
  <2>2. MonthOf(k + 1) = 11
    <3>1. k + 1 \in Int /\ 0 =< k + 1 /\ k + 1 =< 365 /\ MonthStart(11) =< k + 1
      BY <1>0, <1>2, <1>7, MonthStarts
    <3> QED
      BY <3>1, MonthIs
  <2>3. DateOf(era, y, k + 1) = <<Y, 2, k - 337 + 1 + 1>>
    BY <1>0, <2>1, <2>2, MonthStarts DEF DateOf, Number
  <2>4. LastOf(Y, 2) = IF Leap(Y) THEN 29 ELSE 28
    BY DEF LastOf
  <2>5. Leap(Y) <=> Leap(y + 1)
    <3>1. Y = y + 1 + era * 400
      BY <1>0, <2>1
    <3>2. y + 1 \in Int
      BY <1>0
    <3> QED
      BY <3>1, <3>2, LeapPeriod
  <2>6. k - 337 + 1 < LastOf(Y, 2)
    BY <1>0, <2>4, <2>5 DEF InYear
  <2> QED
    BY <1>5, <2>1, <2>3, <2>6 DEF DayAfter
<1> QED
  BY <1>2, <1>6, <1>7

(* The day after the last one of a year, which is in February.              *)
LEMMA NextYear ==
  ASSUME NEW era \in Int, NEW y, NEW k, InYear(y, k), ~InYear(y, k + 1),
         NEW f \in Int, NEW z \in Int,
         \/ y < 399 /\ f = era /\ z = y + 1
         \/ y = 399 /\ f = era + 1 /\ z = 0
  PROVE  DayAfter(DateOf(era, y, k)) = DateOf(f, z, 0)
<1>1. y \in Int /\ 0 =< y /\ y =< 399 /\ k \in Int /\ 0 =< k /\ k =< 365
  BY DEF InYear
<1>2. k = IF Leap(y + 1) THEN 365 ELSE 364
  BY <1>1 DEF InYear
<1>3. MonthOf(k) = 11
  <2>1. MonthStart(11) =< k
    BY <1>2, MonthStarts
  <2> QED
    BY <1>1, <2>1, MonthIs
<1>4. PICK Y \in Int : Y = y + era * 400 + 1
  BY <1>1
<1>5. DateOf(era, y, k) = <<Y, 2, k - 337 + 1>>
  BY <1>3, <1>4, MonthStarts, DateInMonth DEF Number
<1>6. Leap(Y) <=> Leap(y + 1)
  <2>1. Y = y + 1 + era * 400 /\ y + 1 \in Int
    BY <1>1, <1>4
  <2> QED
    BY <2>1, LeapPeriod
<1>7. LastOf(Y, 2) = k - 337 + 1
  BY <1>1, <1>2, <1>6 DEF LastOf
<1>8. DayAfter(DateOf(era, y, k)) = <<Y, 3, 1>>
  <2>1. ~(k - 337 + 1 < LastOf(Y, 2))
    BY <1>1, <1>7
  <2> QED
    BY <1>5, <2>1 DEF DayAfter
<1>9. MonthOf(0) = 0
  BY DEF MonthOf
<1>10. DateOf(f, z, 0) = <<z + f * 400, 3, 1>>
  BY <1>9, MonthStarts, DateInMonth DEF Number
<1>11. z + f * 400 = Y
  BY <1>1, <1>4
<1> QED
  BY <1>8, <1>10, <1>11

LEMMA NextDate ==
  ASSUME NEW n \in Nat
  PROVE  YmdFromEpoch(n + 1) = DayAfter(YmdFromEpoch(n))
<1>a. PICK era \in Int : \E y, k :
         /\ InYear(y, k) /\ n + 719468 = 146097 * era + YearStart(y) + k
         /\ YmdFromEpoch(n) = DateOf(era, y, k)
  BY DateFound
<1>1. PICK y, k : /\ InYear(y, k) /\ n + 719468 = 146097 * era + YearStart(y) + k
                  /\ YmdFromEpoch(n) = DateOf(era, y, k)
  BY <1>a
<1>b. PICK f \in Int : \E z, j :
         /\ InYear(z, j) /\ n + 1 + 719468 = 146097 * f + YearStart(z) + j
         /\ YmdFromEpoch(n + 1) = DateOf(f, z, j)
  <2>1. PICK m \in Nat : m = n + 1
    OBVIOUS
  <2> QED
    BY <2>1, DateFound
<1>2. PICK z, j : /\ InYear(z, j) /\ n + 1 + 719468 = 146097 * f + YearStart(z) + j
                  /\ YmdFromEpoch(n + 1) = DateOf(f, z, j)
  BY <1>b
<1>3. /\ y \in Int /\ 0 =< y /\ y =< 399 /\ k \in Int /\ 0 =< k /\ k =< 365
      /\ YearStart(y) \in Int
  BY <1>1, EraSpan
<1>4. CASE InYear(y, k + 1)
  <2>1. PICK i \in Int : i = k + 1
    BY <1>3
  <2>2. 146097 * f + YearStart(z) + j = 146097 * era + YearStart(y) + i
    BY <1>1, <1>2, <1>3, <2>1
  <2>3. f = era /\ z = y /\ j = i
    BY <1>2, <1>4, <2>1, <2>2, OneDate
  <2> QED
    BY <1>1, <1>2, <1>4, <2>1, <2>3, NextInYear
<1>5. CASE ~InYear(y, k + 1)
  <2>1. k = IF Leap(y + 1) THEN 365 ELSE 364
    BY <1>1, <1>3, <1>5 DEF InYear
  <2>2. PICK g \in Int, x \in Int : \/ y < 399 /\ g = era /\ x = y + 1
                                    \/ y = 399 /\ g = era + 1 /\ x = 0
    BY <1>3
  <2>3. InYear(x, 0) /\ YearStart(x) \in Int
    BY <1>3, <2>2 DEF InYear, YearStart
  <2>4. 146097 * era + YearStart(y) + k + 1 = 146097 * g + YearStart(x)
    <3>1. CASE y < 399
      <4>1. YearStart(y + 1) = YearStart(y) + (IF Leap(y + 1) THEN 366 ELSE 365)
        BY <1>3, <3>1, YearLength
      <4>2. YearStart(y + 1) = YearStart(y) + k + 1
        BY <1>3, <2>1, <4>1
      <4>3. g = era /\ x = y + 1
        BY <2>2, <3>1
      <4> QED
        BY <1>3, <2>3, <4>2, <4>3
    <3>2. CASE y = 399
      <4>1. YearStart(399) = 145731 /\ YearStart(0) = 0 /\ Leap(400)
        BY DEF YearStart, Leap
      <4>2. k = 365 /\ g = era + 1 /\ x = 0
        BY <2>1, <2>2, <3>2, <4>1
      <4> QED
        BY <3>2, <4>1, <4>2
    <3> QED
      BY <1>3, <3>1, <3>2
  <2>5. 146097 * f + YearStart(z) + j = 146097 * g + YearStart(x) + 0
    <3>1. n + 1 + 719468 = 146097 * g + YearStart(x)
      BY <1>1, <1>3, <2>3, <2>4
    <3> QED
      BY <1>2, <2>3, <3>1
  <2>6. f = g /\ z = x /\ j = 0
    BY <1>2, <2>3, <2>5, OneDate
  <2> QED
    BY <1>1, <1>2, <1>5, <2>2, <2>6, NextYear
<1> QED
  BY <1>4, <1>5

LEMMA DayAfterSorts ==
  ASSUME NEW a, IsDate(a)
  PROVE  IsDate(DayAfter(a)) /\ SortsBefore(a, DayAfter(a))
<1>1. PICK y \in Nat, m \in 1..12, d \in Nat : y = a[1] /\ m = a[2] /\ d = a[3]
  BY DEF IsDate, LastOf
<1>2. LastOf(y, m) \in 28..31 /\ 1 =< d /\ d =< LastOf(y, m)
  BY <1>1 DEF IsDate, LastOf
<1>3. CASE d < LastOf(y, m)
  <2>1. DayAfter(a) = <<y, m, d + 1>>
    BY <1>1, <1>3 DEF DayAfter
  <2>2. d + 1 \in 1..LastOf(y, m)
    BY <1>2, <1>3
  <2> QED
    BY <1>1, <2>1, <2>2 DEF IsDate, SortsBefore
<1>4. CASE ~(d < LastOf(y, m))
  <2>1. DayAfter(a) = IF m < 12 THEN <<y, m + 1, 1>> ELSE <<y + 1, 1, 1>>
    BY <1>1, <1>4 DEF DayAfter
  <2>2. \A Y, M : 1 \in 1..LastOf(Y, M)
    BY DEF LastOf
  <2>3. CASE m < 12
    BY <1>1, <2>1, <2>2, <2>3 DEF IsDate, SortsBefore
  <2>4. CASE m = 12
    BY <1>1, <2>1, <2>2, <2>4 DEF IsDate, SortsBefore
  <2> QED
    BY <2>3, <2>4
<1> QED
  BY <1>3, <1>4

LEMMA SortsOrder ==
  ASSUME NEW a, NEW b, NEW c, IsDate(a), IsDate(b), IsDate(c), SortsBefore(a, b)
  PROVE  ~SortsBefore(b, a) /\ a # b /\ (SortsBefore(b, c) => SortsBefore(a, c))
<1>1. /\ a[1] \in Int /\ a[2] \in Int /\ b[1] \in Int /\ b[2] \in Int /\ c[1] \in Int /\ c[2] \in Int
      /\ a[3] \in Int /\ b[3] \in Int /\ c[3] \in Int
  BY DEF IsDate, LastOf
<1> QED
  BY <1>1 DEF SortsBefore

LEMMA Ends == /\ YmdFromEpoch(0) = <<1970, 1, 1>> /\ IsDate(YmdFromEpoch(0))
              /\ YmdFromEpoch(LastNamed) = <<9999, 12, 31>>
<1>1. YmdFromEpoch(0) = <<1970, 1, 1>>
  BY DEF YmdFromEpoch
<1>2. YmdFromEpoch(LastNamed) = <<9999, 12, 31>>
  BY DEF YmdFromEpoch, LastNamed
<1>3. IsDate(<<1970, 1, 1>>)
  BY DEF IsDate, LastOf
<1> QED
  BY <1>1, <1>2, <1>3

LEMMA AllDates ==
  ASSUME NEW n \in Nat
  PROVE  IsDate(YmdFromEpoch(n))
<1> DEFINE T == {k \in 0..n : IsDate(YmdFromEpoch(k))}
<1>1. 0 \in T
  BY Ends
<1>2. ASSUME NEW k \in 0..n, k \in T, k < n
      PROVE  k + 1 \in T
  <2>1. IsDate(DayAfter(YmdFromEpoch(k)))
    BY <1>2, DayAfterSorts
  <2>2. YmdFromEpoch(k + 1) = DayAfter(YmdFromEpoch(k))
    BY NextDate
  <2>3. k + 1 \in 0..n
    BY <1>2
  <2> QED
    BY <2>1, <2>2, <2>3
<1> HIDE DEF T
<1>3. 0..n \subseteq T
  BY <1>1, <1>2, UpToInduction
<1>4. n \in T
  BY <1>3
<1> QED
  BY <1>4 DEF T

LEMMA LaterSorts ==
  ASSUME NEW m \in Nat, NEW j \in Nat
  PROVE  SortsBefore(YmdFromEpoch(m), YmdFromEpoch(m + 1 + j))
<1> DEFINE T == {k \in 0..j : SortsBefore(YmdFromEpoch(m), YmdFromEpoch(m + 1 + k))}
<1>1. 0 \in T
  <2>1. SortsBefore(YmdFromEpoch(m), DayAfter(YmdFromEpoch(m)))
    BY AllDates, DayAfterSorts
  <2>2. YmdFromEpoch(m + 1) = DayAfter(YmdFromEpoch(m)) /\ m + 1 + 0 = m + 1
    BY NextDate
  <2> QED
    BY <2>1, <2>2
<1>2. ASSUME NEW k \in 0..j, k \in T, k < j
      PROVE  k + 1 \in T
  <2>1. PICK x \in Nat, z \in Nat : x = m + 1 + k /\ z = x + 1
    OBVIOUS
  <2>2. YmdFromEpoch(z) = DayAfter(YmdFromEpoch(x))
    BY <2>1, NextDate
  <2>3. IsDate(YmdFromEpoch(m)) /\ IsDate(YmdFromEpoch(x)) /\ IsDate(YmdFromEpoch(z))
    BY AllDates
  <2>4. SortsBefore(YmdFromEpoch(x), YmdFromEpoch(z))
    BY <2>2, <2>3, DayAfterSorts
  <2>5. SortsBefore(YmdFromEpoch(m), YmdFromEpoch(x))
    BY <1>2, <2>1
  <2>6. SortsBefore(YmdFromEpoch(m), YmdFromEpoch(z))
    BY <2>3, <2>4, <2>5, SortsOrder
  <2>7. k + 1 \in 0..j /\ z = m + 1 + (k + 1)
    BY <1>2, <2>1
  <2> QED
    BY <2>6, <2>7
<1> HIDE DEF T
<1>3. 0..j \subseteq T
  BY <1>1, <1>2, UpToInduction
<1>4. j \in T
  BY <1>3
<1> QED
  BY <1>4 DEF T

(* ymd_from_epoch is the Gregorian calendar from 1970-01-01 on: every day   *)
(* has a date, and the next day has the date after it.                     *)
THEOREM DatesAreGregorian ==
  /\ YmdFromEpoch(0) = <<1970, 1, 1>>
  /\ \A n \in Nat : /\ IsDate(YmdFromEpoch(n))
                    /\ YmdFromEpoch(n + 1) = DayAfter(YmdFromEpoch(n))
  BY Ends, AllDates, NextDate

(* "Naming convention is ascending, so plain string compare is correct"    *)
(* (run_once): up to 9999-12-31 a year has the four digits the name gives  *)
(* it, and a leaf's name sorts before another's exactly when its day comes *)
(* before.  This is what lets Partitions use days for names (Aged).        *)
THEOREM NamesSortAsDays ==
  \A m, n \in 0..LastNamed :
      /\ FourDigits(YmdFromEpoch(n))
      /\ SortsBefore(YmdFromEpoch(m), YmdFromEpoch(n)) <=> m < n
<1>0. LastNamed \in Nat
  BY DEF LastNamed
<1>1. ASSUME NEW m \in Nat, NEW n \in Nat, m < n
      PROVE  SortsBefore(YmdFromEpoch(m), YmdFromEpoch(n))
  <2>1. PICK j \in Nat : n = m + 1 + j
    <3>1. n - m - 1 \in Nat /\ n = m + 1 + (n - m - 1)
      BY <1>1
    <3> QED
      BY <3>1
  <2> QED
    BY <2>1, LaterSorts
<1>2. ASSUME NEW m \in 0..LastNamed, NEW n \in 0..LastNamed
      PROVE  SortsBefore(YmdFromEpoch(m), YmdFromEpoch(n)) <=> m < n
  <2>1. m \in Nat /\ n \in Nat
    BY <1>0
  <2>2. IsDate(YmdFromEpoch(m)) /\ IsDate(YmdFromEpoch(n))
    BY <2>1, AllDates
  <2>3. CASE m < n
    BY <1>1, <2>1, <2>3
  <2>4. CASE m = n
    BY <2>1, <2>2, <2>4, SortsOrder
  <2>5. CASE n < m
    <3>1. SortsBefore(YmdFromEpoch(n), YmdFromEpoch(m))
      BY <1>1, <2>1, <2>5
    <3> QED
      BY <2>1, <2>2, <2>5, <3>1, SortsOrder
  <2> QED
    BY <2>1, <2>3, <2>4, <2>5
<1>3. ASSUME NEW n \in 0..LastNamed
      PROVE  FourDigits(YmdFromEpoch(n))
  <2>1. n \in Nat /\ (n = 0 \/ 0 < n) /\ (n = LastNamed \/ n < LastNamed)
    BY <1>0
  <2>2. PICK y \in Nat : y = YmdFromEpoch(n)[1]
    BY <2>1, AllDates DEF IsDate
  <2>3. 1970 =< y
    <3>1. n = 0 \/ SortsBefore(YmdFromEpoch(0), YmdFromEpoch(n))
      BY <1>1, <2>1
    <3> QED
      BY <2>2, <3>1, Ends DEF SortsBefore
  <2>4. y =< 9999
    <3>1. n = LastNamed \/ SortsBefore(YmdFromEpoch(n), YmdFromEpoch(LastNamed))
      BY <1>0, <1>1, <2>1
    <3> QED
      BY <2>2, <3>1, Ends DEF SortsBefore
  <2> QED
    BY <2>2, <2>3, <2>4 DEF FourDigits
<1> SUFFICES ASSUME NEW m \in 0..LastNamed, NEW n \in 0..LastNamed
             PROVE  /\ FourDigits(YmdFromEpoch(n))
                    /\ SortsBefore(YmdFromEpoch(m), YmdFromEpoch(n)) <=> m < n
  OBVIOUS
<1>4. FourDigits(YmdFromEpoch(n))
  BY <1>3
<1>5. SortsBefore(YmdFromEpoch(m), YmdFromEpoch(n)) <=> m < n
  BY <1>2
<1> QED
  BY <1>4, <1>5

=============================================================================
