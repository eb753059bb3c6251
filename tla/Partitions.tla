----------------------------- MODULE Partitions -----------------------------
(***************************************************************************)
(* The partition manager (src/src/partitions.rs): an hourly pass, run by   *)
(* whichever process believes it leads, makes the daily leaves of          *)
(* events_raw from today on and detaches the leaves whose names sort       *)
(* before the cutoff day.  A migration seeds one leaf that covers the      *)
(* whole of 2026, and no default partition catches the rest: a day without *)
(* a leaf cannot store events.                                             *)
(*                                                                         *)
(* A day is counted from 2026-01-01.  The name of a daily leaf is its date *)
(* in fixed width, so names sort as days do (NamesSortAsDays, about        *)
(* Calendar), and "events_raw_p2026", the seed, sorts before every day     *)
(* of 2026 and after every earlier one: -1.                                *)
(***************************************************************************)
EXTENDS Integers

CONSTANTS Runner,     \* processes that may believe they lead
          FirstDay,   \* the day the model starts on, within the seed leaf
          SeedEnd,    \* first day the seed leaf does not cover
          LastDay,    \* bound on the clock
          PREMAKE_DAYS,
          Retention,  \* partitions.retention_days
          AlterAnswers  \* what Postgres may answer to the two ALTERs of a leaf

ASSUME PartitionsAssumption ==
    /\ FirstDay \in Nat /\ SeedEnd \in Nat /\ LastDay \in Nat
    /\ PREMAKE_DAYS \in Nat \ {0}
    /\ Retention \in Nat
    /\ AlterAnswers \subseteq {"run", "refused"}

VARIABLES
    now,       \* the day of the wall clock, the same for every process
    tables,    \* daily leaf tables that exist, attached or not
    attached,  \* leaves of events_raw: daily ones, and the seed
    pass       \* the pass a process runs

vars == <<now, tables, attached, pass>>

Seed  == -1
Leaf  == Nat \cup {Seed}
Day   == Nat

Idle == [at |-> "idle", today |-> 0, d |-> 0, todo |-> {}]
At   == {"idle", "create", "alter", "list", "detach"}
Pass == [at : At, today : Day, d : 0..(PREMAKE_DAYS - 1), todo : SUBSET Leaf]

\* Mutant: the window starts tomorrow.
MakingTomorrow(p) == pass[p].today + pass[p].d + 1

\* The day of the leaf the pass is making.
Making(p) == pass[p].today + pass[p].d

PartitionsTypeOK ==
    /\ now \in Day
    /\ tables \in SUBSET Day
    /\ attached \in SUBSET Leaf /\ attached \subseteq tables \cup {Seed}
    /\ pass \in [Runner -> Pass]

PartitionsInit ==
    /\ now = FirstDay
    /\ tables = {} /\ attached = {Seed}
    /\ pass = [p \in Runner |-> Idle]

(* Events of the day can be stored.                                        *)
Covered(day) == day \in attached \/ (Seed \in attached /\ day < SeedEnd)

\* Mutant: the cutoff day itself is detached.
AgedInclusive(leaf, today) == leaf =< today - Retention

(* leaf < cutoff_leaf                                                      *)
Aged(leaf, today) == leaf < today - Retention

-----------------------------------------------------------------------------
(* The hourly tick of a process that believes it leads: today is read once *)
(* for the whole pass.  Flags may be stale, so two processes may be here.  *)
Tick(p) ==
    /\ pass[p].at = "idle"
    /\ pass' = [pass EXCEPT ![p] = [Idle EXCEPT !.at = "create", !.today = now]]
    /\ UNCHANGED <<now, tables, attached>>

(* CREATE TABLE IF NOT EXISTS ... PARTITION OF: a table of that name, even *)
(* a detached one, makes it a no-op; a range that overlaps the attached    *)
(* seed is an error (Overlap).                                             *)
CreateLeaf(p) ==
    /\ pass[p].at = "create"
    /\ \/ Making(p) \in tables /\ UNCHANGED <<tables, attached>>
       \/ /\ Making(p) \notin tables
          /\ ~(Seed \in attached /\ Making(p) < SeedEnd)
          /\ tables' = tables \cup {Making(p)}
          /\ attached' = attached \cup {Making(p)}
    /\ pass' = [pass EXCEPT ![p].at = "alter"]
    /\ UNCHANGED now

\* Mutant: the premake loop runs to today + PREMAKE_DAYS inclusive.
AlterLeafInclusive(p) ==
    /\ pass[p].at = "alter" /\ "run" \in AlterAnswers
    /\ pass' = IF pass[p].d + 1 =< PREMAKE_DAYS
               THEN [pass EXCEPT ![p].at = "create", ![p].d = pass[p].d + 1]
               ELSE [pass EXCEPT ![p].at = "list"]
    /\ UNCHANGED <<now, tables, attached>>

(* ALTER TABLE ... ROW LEVEL SECURITY, twice in one sqlx::query, then the  *)
(* next day of the window.  This is what the code is written for; Postgres *)
(* takes no two commands in a prepared statement, which sqlx::query makes  *)
(* of it, so it never answers "run".                                       *)
AlterLeaf(p) ==
    /\ pass[p].at = "alter" /\ "run" \in AlterAnswers
    /\ pass' = IF pass[p].d + 1 < PREMAKE_DAYS
               THEN [pass EXCEPT ![p].at = "create", ![p].d = pass[p].d + 1]
               ELSE [pass EXCEPT ![p].at = "list"]
    /\ UNCHANGED <<now, tables, attached>>

(* "cannot insert multiple commands into a prepared statement": the pass   *)
(* ends behind the leaf it has just made, unlisted days and all.           *)
RefuseAlter(p) ==
    /\ pass[p].at = "alter" /\ "refused" \in AlterAnswers
    /\ pass' = [pass EXCEPT ![p] = Idle]
    /\ UNCHANGED <<now, tables, attached>>

(* The leaves of pg_inherits, kept when their name sorts before the cutoff.*)
ListLeaves(p) ==
    /\ pass[p].at = "list"
    /\ pass' = [pass EXCEPT ![p].at = "detach",
                            ![p].todo = {l \in attached : Aged(l, pass[p].today)}]
    /\ UNCHANGED <<now, tables, attached>>

(* DETACH PARTITION; an error (another process detached it first, a lock   *)
(* timeout) is only logged.  The table stays.                              *)
DetachLeaf(p) ==
    /\ pass[p].at = "detach"
    /\ \E l \in pass[p].todo :
         /\ pass' = [pass EXCEPT ![p].todo = pass[p].todo \ {l}]
         /\ attached' \in {attached, attached \ {l}}
    /\ UNCHANGED <<now, tables>>

(* run_once returned Ok: record_tick.                                      *)
PassOk(p) ==
    /\ pass[p].at = "detach" /\ pass[p].todo = {}
    /\ pass' = [pass EXCEPT ![p] = Idle]
    /\ UNCHANGED <<now, tables, attached>>

(* The range of the leaf overlaps the attached seed: CREATE fails and the  *)
(* pass ends there, without the later days, the listing or record_tick.    *)
Overlap(p) ==
    /\ pass[p].at = "create"
    /\ Making(p) \notin tables /\ Seed \in attached /\ Making(p) < SeedEnd
    /\ pass' = [pass EXCEPT ![p] = Idle]
    /\ UNCHANGED <<now, tables, attached>>

(* Any other error of a CREATE, an ALTER or the listing ends the pass too. *)
PassFails(p) ==
    /\ pass[p].at \in {"create", "alter", "list"}
    /\ pass' = [pass EXCEPT ![p] = Idle]
    /\ UNCHANGED <<now, tables, attached>>

(* The process dies between two statements, and restarts.                  *)
Die(p) ==
    /\ pass[p].at # "idle"
    /\ pass' = [pass EXCEPT ![p] = Idle]
    /\ UNCHANGED <<now, tables, attached>>

Midnight ==
    /\ now < LastDay
    /\ now' = now + 1
    /\ UNCHANGED <<tables, attached, pass>>

(* A pass on which nothing fails by accident.                              *)
Proceed(p) ==
    \/ CreateLeaf(p) \/ Overlap(p) \/ AlterLeaf(p) \/ RefuseAlter(p)
    \/ ListLeaves(p) \/ DetachLeaf(p) \/ PassOk(p)

Statement(p) == Proceed(p) \/ PassFails(p)

RunOnce(p) == Tick(p) \/ Statement(p)

PartitionsNext == Midnight \/ \E p \in Runner : RunOnce(p) \/ Die(p)

PartitionsSpec == PartitionsInit /\ [][PartitionsNext]_vars

(* Some process that leads keeps ticking, a pass that started goes on or   *)
(* ends, and CREATE TABLE does not fail for ever.  Nothing is assumed of   *)
(* ALTER, the listing or DETACH: they may fail every time.                 *)
PartitionsFairSpec ==
    /\ PartitionsSpec
    /\ WF_vars(\E p \in Runner : Tick(p))
    /\ \A p \in Runner : WF_vars(Statement(p)) /\ SF_vars(CreateLeaf(p))

(* The best of days: leaders that never stop, lose no connection and meet  *)
(* no error but those the statements themselves earn.                      *)
UndisturbedNext == Midnight \/ \E p \in Runner : Tick(p) \/ Proceed(p)

UndisturbedSpec ==
    /\ PartitionsInit /\ [][UndisturbedNext]_vars
    /\ \A p \in Runner : WF_vars(Tick(p) \/ Proceed(p))

-----------------------------------------------------------------------------
(* No pass, however old the today it read, detaches a daily leaf that      *)
(* retention still asks for (partitions.rs:88-113).                        *)
RetainedLeavesStay ==
    \A day \in tables : day >= now - Retention => day \in attached

(* After the seed leaf ends, a day that lasts long enough gets its leaf,   *)
(* even if every ALTER, listing and DETACH fails and leaders crash again   *)
(* and again (partitions.rs:68-87).                                        *)
EveryDayGetsItsLeaf ==
    \A day \in SeedEnd..LastDay : (now = day) ~> (now > day \/ Covered(day))

(* "Maintenance always ensures 4 days of future partitions exist"          *)
(* (REQUIREMENTS.md:545-546, partitions.rs:3): on a day past the seed that *)
(* lasts long enough, the whole window becomes storable.  Not so when the  *)
(* ALTERs are refused, undisturbed as maintenance may be: each pass ends   *)
(* behind today's leaf (partitions.rs:84-91).                              *)
WindowPremade ==
    \A day \in SeedEnd..LastDay :
        (now = day) ~> (now > day \/ \A d \in day..(day + PREMAKE_DAYS - 1) : Covered(d))

=============================================================================
