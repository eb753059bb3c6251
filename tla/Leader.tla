------------------------------- MODULE Leader -------------------------------
(***************************************************************************)
(* Leader election (src/src/leader.rs).                                    *)
(*                                                                         *)
(* Every process keeps one LeaderHandle and one leader task.  The task     *)
(* takes a connection from the process's pool, asks Postgres for a         *)
(* session-level advisory lock, raises is_leader while it believes it      *)
(* holds the lock, and every 30 s checks the watchdog and the connection.  *)
(* The periodic jobs (partitions.rs, rollup.rs) read is_leader once at the *)
(* start of a tick and record a tick on the handle when they succeed.      *)
(*                                                                         *)
(* Postgres, the network and the sqlx pool are the environment: a link can *)
(* be cut without either end noticing, the server can end a session, a     *)
(* query can fail on a healthy session, the pool retires idle connections. *)
(***************************************************************************)
EXTENDS Naturals

CONSTANTS Proc,       \* knievel processes (pods)
          Slot,       \* pool connections the leader task can be handed
          Job,        \* leader-gated periodic jobs
          Budget,     \* WATCHDOG_BUDGET, in hours
          MaxFaults,  \* bound on the faults of a behaviour
          NoSlot, NoConn, NoProc

Conn == Proc \X Slot

ASSUME ConstantsAssumption ==
    /\ Budget \in Nat
    /\ MaxFaults \in Nat
    /\ NoSlot \notin Slot
    /\ NoConn \notin Conn
    /\ NoProc \notin Proc

VARIABLES
    link,        \* [Conn -> LinkState], both ends of a connection
    lockHolder,  \* the session that holds the advisory lock, or NoConn
    lockDepth,   \* how often it was granted to that session
    pc,          \* [Proc -> PC], where the leader task is
    slot,        \* [Proc -> Slot \cup {NoSlot}], run_one_session's conn
    isLeader,    \* [Proc -> BOOLEAN], LeaderHandle.is_leader
    age,         \* [Proc -> 0..Budget+1], hours since last_tick
    job,         \* [Proc -> SUBSET Job], the jobs in the middle of a tick
    faults       \* faults so far

serverVars == <<link, lockHolder, lockDepth>>
taskVars   == <<pc, slot, isLeader>>
leaderVars == <<link, lockHolder, lockDepth, pc, slot, isLeader, age, job, faults>>

(* "closed": neither end has it.  "open": both have it.  "cut": the        *)
(* network is gone and neither end knows.  "stale": the server ended the   *)
(* session, the client does not know.  "orphan": the client dropped it,    *)
(* the server backend still runs.                                          *)
LinkState == {"closed", "open", "cut", "stale", "orphan"}

(* "down": the process does not run.  "start": about to pool.acquire.      *)
(* "try": polling pg_try_advisory_lock.  "granted": the server granted the *)
(* lock, is_leader is not stored yet.  "leading": in the 30 s check loop.  *)
(* "releasing": the watchdog unlocked, is_leader is not cleared yet.       *)
(* "backoff": in the 5 s sleep of spawn.                                   *)
PC == {"down", "start", "try", "granted", "leading", "releasing", "backoff"}

TypeOK ==
    /\ link \in [Conn -> LinkState]
    /\ lockHolder \in Conn \cup {NoConn}
    /\ lockDepth \in Nat
    /\ lockHolder = NoConn <=> lockDepth = 0
    /\ pc \in [Proc -> PC]
    /\ slot \in [Proc -> Slot \cup {NoSlot}]
    /\ isLeader \in [Proc -> BOOLEAN]
    /\ age \in [Proc -> 0..(Budget + 1)]
    /\ job \in [Proc -> SUBSET Job]
    /\ faults \in 0..MaxFaults

-----------------------------------------------------------------------------

conn(p) == <<p, slot[p]>>

\* The state of c once the client has let go of it.
Dropped(s) == CASE s = "cut"   -> "orphan"
                [] s = "stale" -> "closed"
                [] OTHER       -> s

\* The state of c once the server has ended the session.
Ended(s) == CASE s \in {"open", "cut"} -> "stale"
              [] s = "orphan"          -> "closed"
              [] OTHER                 -> s

\* Postgres drops a session's advisory locks with the session.
FreeLocksOf(C) ==
    /\ lockHolder' = IF lockHolder \in C THEN NoConn ELSE lockHolder
    /\ lockDepth'  = IF lockHolder \in C THEN 0 ELSE lockDepth

Fault == faults < MaxFaults /\ faults' = faults + 1

Init ==
    /\ link = [c \in Conn |-> "closed"]
    /\ lockHolder = NoConn
    /\ lockDepth = 0
    /\ pc = [p \in Proc |-> "start"]
    /\ slot = [p \in Proc |-> NoSlot]
    /\ isLeader = [p \in Proc |-> FALSE]
    /\ age = [p \in Proc |-> 0]
    /\ job = [p \in Proc |-> {}]
    /\ faults = 0

-----------------------------------------------------------------------------
(* The leader task.                                                        *)

\* pool.acquire: an idle connection that answers, or a new one.
PoolAcquire(p, s) ==
    /\ pc[p] = "start"
    /\ link[<<p, s>>] \in {"open", "closed"}
    /\ link' = [link EXCEPT ![<<p, s>>] = "open"]
    /\ slot' = [slot EXCEPT ![p] = s]
    /\ pc' = [pc EXCEPT ![p] = "try"]
    /\ UNCHANGED <<lockHolder, lockDepth, isLeader, age, job, faults>>

\* pool.acquire fails (pool timeout, server unreachable): spawn sleeps 5 s.
PoolAcquireFails(p) ==
    /\ pc[p] = "start"
    /\ Fault
    /\ pc' = [pc EXCEPT ![p] = "backoff"]
    /\ UNCHANGED <<serverVars, slot, isLeader, age, job>>

\* Mutant: every process takes the lock (an id of its own for each).
TryAcquireOwnId(p) ==
    /\ pc[p] = "try"
    /\ link[conn(p)] = "open"
    /\ lockHolder' = conn(p)
    /\ lockDepth' = lockDepth + 1
    /\ pc' = [pc EXCEPT ![p] = "granted"]
    /\ UNCHANGED <<link, slot, isLeader, age, job, faults>>

\* pg_try_advisory_lock succeeds in the server.  The lock is re-entrant: the
\* session that holds it gets it again.  (A refusal changes nothing.)
TryAcquire(p) ==
    /\ pc[p] = "try"
    /\ link[conn(p)] = "open"
    /\ lockHolder \in {NoConn, conn(p)}
    /\ lockHolder' = conn(p)
    /\ lockDepth' = lockDepth + 1
    /\ pc' = [pc EXCEPT ![p] = "granted"]
    /\ UNCHANGED <<link, slot, isLeader, age, job, faults>>

\* The reply arrives: is_leader is stored and the synthetic tick recorded.
BecomeLeader(p) ==
    /\ pc[p] = "granted"
    /\ pc' = [pc EXCEPT ![p] = "leading"]
    /\ isLeader' = [isLeader EXCEPT ![p] = TRUE]
    /\ age' = [age EXCEPT ![p] = 0]
    /\ UNCHANGED <<serverVars, slot, job, faults>>

\* The session returned an error: conn is dropped, spawn clears is_leader.
EndSession(p) ==
    /\ pc' = [pc EXCEPT ![p] = "backoff"]
    /\ slot' = [slot EXCEPT ![p] = NoSlot]
    /\ isLeader' = [isLeader EXCEPT ![p] = FALSE]
    /\ link' = [link EXCEPT ![conn(p)] = Dropped(@)]

WatchdogDue(p) == age[p] > Budget

\* A query of the task fails because its connection died.
SessionError(p) ==
    /\ \/ pc[p] \in {"try", "granted"}
       \/ pc[p] = "leading" /\ ~WatchdogDue(p)
    /\ link[conn(p)] \in {"cut", "stale"}
    /\ EndSession(p)
    /\ UNCHANGED <<lockHolder, lockDepth, age, job, faults>>

\* A query of the task fails on a live session (cancelled by the server):
\* the connection goes back to the pool with whatever lock it holds.
QueryCancelled(p) ==
    /\ \/ pc[p] = "try"
       \/ pc[p] = "leading" /\ ~WatchdogDue(p)
    /\ link[conn(p)] = "open"
    /\ Fault
    /\ EndSession(p)
    /\ UNCHANGED <<lockHolder, lockDepth, age, job>>

\* Mutant: the watchdog unlocks and goes on with its loop.
WatchdogReleaseGoesOn(p) ==
    /\ pc[p] = "leading"
    /\ WatchdogDue(p)
    /\ link[conn(p)] = "open" /\ lockHolder = conn(p)
    /\ lockDepth' = lockDepth - 1
    /\ lockHolder' = IF lockDepth = 1 THEN NoConn ELSE lockHolder
    /\ UNCHANGED <<link, pc, slot, isLeader, age, job, faults>>

\* Mutant: an unlock that counts down whether or not the lock is held.
WatchdogReleaseBlind(p) ==
    /\ pc[p] = "leading"
    /\ WatchdogDue(p)
    /\ pc' = [pc EXCEPT ![p] = "releasing"]
    /\ lockDepth' = lockDepth - 1
    /\ lockHolder' = IF lockDepth = 1 THEN NoConn ELSE lockHolder
    /\ UNCHANGED <<link, slot, isLeader, age, job, faults>>

\* The watchdog is due: pg_advisory_unlock undoes one grant; its error is
\* ignored.
WatchdogRelease(p) ==
    /\ pc[p] = "leading"
    /\ WatchdogDue(p)
    /\ pc' = [pc EXCEPT ![p] = "releasing"]
    /\ IF link[conn(p)] = "open" /\ lockHolder = conn(p)
       THEN /\ lockDepth' = lockDepth - 1
            /\ lockHolder' = IF lockDepth = 1 THEN NoConn ELSE lockHolder
       ELSE UNCHANGED <<lockHolder, lockDepth>>
    /\ UNCHANGED <<link, slot, isLeader, age, job, faults>>

\* The unlock fails on a live session: the error is ignored all the same.
WatchdogReleaseFails(p) ==
    /\ pc[p] = "leading"
    /\ WatchdogDue(p)
    /\ link[conn(p)] = "open"
    /\ Fault
    /\ pc' = [pc EXCEPT ![p] = "releasing"]
    /\ UNCHANGED <<serverVars, slot, isLeader, age, job>>

\* ... and only then is_leader is cleared and the session left.
WatchdogStepDown(p) ==
    /\ pc[p] = "releasing"
    /\ EndSession(p)
    /\ UNCHANGED <<lockHolder, lockDepth, age, job, faults>>

\* Mutant: spawn runs one session and ends.
BackoffOverNever(p) == pc[p] = "backoff" /\ FALSE

BackoffOver(p) ==
    /\ pc[p] = "backoff"
    /\ pc' = [pc EXCEPT ![p] = "start"]
    /\ UNCHANGED <<serverVars, slot, isLeader, age, job, faults>>

-----------------------------------------------------------------------------
(* The periodic jobs, as far as the handle sees them.                      *)

\* A tick of job j on a process whose flag is up.
JobStart(p, j) ==
    /\ pc[p] # "down"
    /\ j \notin job[p]
    /\ isLeader[p]
    /\ job' = [job EXCEPT ![p] = @ \cup {j}]
    /\ UNCHANGED <<serverVars, taskVars, age, faults>>

\* run_once returned Ok: record_tick, whether or not the flag is still up.
JobOk(p, j) ==
    /\ j \in job[p]
    /\ job' = [job EXCEPT ![p] = @ \ {j}]
    /\ age' = [age EXCEPT ![p] = 0]
    /\ UNCHANGED <<serverVars, taskVars, faults>>

\* run_once returned Err (a database error): logged, no tick.
JobErr(p, j) ==
    /\ j \in job[p]
    /\ Fault
    /\ job' = [job EXCEPT ![p] = @ \ {j}]
    /\ UNCHANGED <<serverVars, taskVars, age>>

\* An hour passes.  Only a task in its check loop reads last_tick, and no
\* check tells ages past the budget apart.
Hour ==
    /\ age' = [p \in Proc |-> IF pc[p] = "leading" /\ ~WatchdogDue(p)
                              THEN age[p] + 1 ELSE age[p]]
    /\ UNCHANGED <<serverVars, taskVars, job, faults>>

-----------------------------------------------------------------------------
(* The environment.                                                        *)

\* The network path of c fails silently.
NetworkCut(c) ==
    /\ link[c] = "open"
    /\ Fault
    /\ link' = [link EXCEPT ![c] = "cut"]
    /\ UNCHANGED <<lockHolder, lockDepth, taskVars, age, job>>

\* The server terminates the session of c.
ServerEnds(c) ==
    /\ link[c] = "open"
    /\ Fault
    /\ link' = [link EXCEPT ![c] = "stale"]
    /\ FreeLocksOf({c})
    /\ UNCHANGED <<taskVars, age, job>>

\* Server restart or failover: every session ends at once.
ServerRestart ==
    /\ Fault
    /\ link' = [c \in Conn |-> Ended(link[c])]
    /\ FreeLocksOf(Conn)
    /\ UNCHANGED <<taskVars, age, job>>

\* Keepalives tell the server that the client of c is gone.
ServerNotices(c) ==
    /\ link[c] \in {"cut", "orphan"}
    /\ link' = [link EXCEPT ![c] = Ended(@)]
    /\ FreeLocksOf({c})
    /\ UNCHANGED <<taskVars, age, job, faults>>

\* The pool closes an idle connection (idle_timeout, max_lifetime) or drops
\* one that no longer answers.
PoolRetires(p, s) ==
    /\ slot[p] # s
    /\ link[<<p, s>>] \in {"open", "cut", "stale"}
    /\ IF link[<<p, s>>] = "open"
       THEN /\ link' = [link EXCEPT ![<<p, s>>] = "closed"]
            /\ FreeLocksOf({<<p, s>>})
       ELSE /\ link' = [link EXCEPT ![<<p, s>>] = Dropped(@)]
            /\ UNCHANGED <<lockHolder, lockDepth>>
    /\ UNCHANGED <<taskVars, age, job, faults>>

\* The process dies; its sockets are left for the server to notice.
Crash(p) ==
    /\ pc[p] # "down"
    /\ Fault
    /\ pc' = [pc EXCEPT ![p] = "down"]
    /\ slot' = [slot EXCEPT ![p] = NoSlot]
    /\ isLeader' = [isLeader EXCEPT ![p] = FALSE]
    /\ job' = [job EXCEPT ![p] = {}]
    /\ link' = [c \in Conn |-> CASE c[1] # p         -> link[c]
                                 [] link[c] = "open" -> "orphan"
                                 [] OTHER            -> Dropped(link[c])]
    /\ UNCHANGED <<lockHolder, lockDepth, age>>

\* The orchestrator starts the process again.
Restart(p) ==
    /\ pc[p] = "down"
    /\ pc' = [pc EXCEPT ![p] = "start"]
    /\ UNCHANGED <<serverVars, slot, isLeader, age, job, faults>>

-----------------------------------------------------------------------------

Task(p) ==
    \/ \E s \in Slot : PoolAcquire(p, s)
    \/ TryAcquire(p)
    \/ BecomeLeader(p)
    \/ SessionError(p)
    \/ WatchdogRelease(p)
    \/ WatchdogStepDown(p)
    \/ BackoffOver(p)

TaskFault(p) ==
    \/ PoolAcquireFails(p)
    \/ QueryCancelled(p)
    \/ WatchdogReleaseFails(p)
    \/ Crash(p)

ServerFault == ServerRestart \/ \E c \in Conn : NetworkCut(c) \/ ServerEnds(c)

\* What the election does by itself, whatever the jobs do.
ElectionStep ==
    \/ \E p \in Proc : Task(p) \/ TaskFault(p) \/ Restart(p)
    \/ \E c \in Conn : ServerNotices(c)
    \/ \E p \in Proc, s \in Slot : PoolRetires(p, s)
    \/ ServerFault

Next ==
    \/ ElectionStep
    \/ \E p \in Proc, j \in Job : JobStart(p, j) \/ JobOk(p, j) \/ JobErr(p, j)
    \/ Hour

(* Fairness: the task is a tokio task that is always polled, its queries   *)
(* return, its sleeps end; Postgres notices dead clients (keepalives); the *)
(* pool retires idle connections (idle_timeout, max_lifetime); the         *)
(* orchestrator restarts a dead process; time passes.  Jobs may hang, so   *)
(* nothing is assumed of them.                                             *)
ElectionFairness ==
    /\ \A p \in Proc : WF_leaderVars(Task(p)) /\ WF_leaderVars(Restart(p))
    /\ \A c \in Conn : WF_leaderVars(ServerNotices(c))
    /\ \A p \in Proc, s \in Slot : WF_leaderVars(PoolRetires(p, s))

Spec == Init /\ [][Next]_leaderVars

FairSpec == Spec /\ ElectionFairness /\ WF_leaderVars(Hour)

-----------------------------------------------------------------------------
(* Properties.                                                             *)

\* p's task uses the session it was granted the lock on.
InSession(p) == pc[p] \in {"granted", "leading"}

\* The server still runs the session p's task uses.
SessionAlive(p) == slot[p] # NoSlot /\ link[conn(p)] \in {"open", "cut"}

HoldsLock(p) == InSession(p) /\ lockHolder = conn(p)

\* A task past pg_try_advisory_lock holds the lock for as long as the server
\* runs its session: no pool recycling, re-entrant grant, unlock or fault of
\* another process takes the lock from under run_one_session.
LiveLeaderHoldsLock ==
    \A p \in Proc : InSession(p) /\ SessionAlive(p) => lockHolder = conn(p)

\* Two raised is_leader flags are never two live leases: all flags but one
\* belong to a process whose session the server has ended, or that is between
\* the watchdog's unlock and the store that clears its flag.
AtMostOneLiveLease ==
    \A p, q \in Proc :
        p # q /\ isLeader[p] /\ isLeader[q] =>
            \E r \in {p, q} : pc[r] = "releasing" \/ ~SessionAlive(r)

\* is_leader is up only while run_one_session is in its check loop or on its
\* way out of it: no error return, crash or step-down leaves a job gate open.
FlagOnlyInSession ==
    \A p \in Proc : isLeader[p] => /\ pc[p] \in {"leading", "releasing"}
                                   /\ slot[p] # NoSlot

\* The lease and the flags of Lease.tla.
Owner == IF lockHolder = NoConn THEN NoProc ELSE lockHolder[1]

FlagOf(p) == CASE pc[p] = "granted" -> "granted"
               [] isLeader[p]       -> "up"
               [] OTHER             -> "down"

Flags == [p \in Proc |-> FlagOf(p)]

LeaseView == INSTANCE Lease WITH lease <- Owner, flag <- Flags

\* The election implements the abstract lease the jobs rely on: grants exclude
\* each other, and a flag rises only after a grant to its process.
ImplementsLease == LeaseView!LeaseSpec

\* Once faults stop, some process leads and holds the lock again and again,
\* whatever the watchdog, hung jobs or earlier faults did.
LeadershipRecovers == []<>(\E p \in Proc : isLeader[p] /\ HoldsLock(p))

=============================================================================
