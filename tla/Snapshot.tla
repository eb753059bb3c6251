------------------------------ MODULE Snapshot ------------------------------
(***************************************************************************)
(* The configuration snapshot of one process (src/src/snapshot.rs): the    *)
(* management API changes tables, a loader task polls the config_version   *)
(* sequence every 5 s and, when it has moved, rebuilds the snapshot and    *)
(* swaps it in.  A rebuild reads the sequence and then one table after the *)
(* other; under READ COMMITTED every SELECT sees what is committed when it *)
(* runs, so mutations may land between two of them.                        *)
(*                                                                         *)
(* A table is abstracted to the number of mutations committed to it.  The  *)
(* sequence is moved by nothing in the program; an operator can move it    *)
(* (0001_init.sql: "SELECT nextval(...) -- bump").                         *)
(***************************************************************************)
EXTENDS Naturals

CONSTANTS NumTables,   \* tables load_snapshot reads, in order
          MaxRev,      \* bound on the mutations of a table
          MaxVersion,  \* bound on the sequence
          MaxFaults    \* bound on failed queries

ASSUME SnapshotAssumption ==
    /\ NumTables \in Nat \ {0}
    /\ MaxRev \in Nat /\ MaxFaults \in Nat
    /\ MaxVersion \in Nat \ {0}

Table   == 1..NumTables
Version == 1..MaxVersion

VARIABLES
    rev,        \* [Table -> Nat], committed mutations of a table
    last,       \* config_version.last_value
    called,     \* config_version.is_called
    store,      \* the SnapshotStore: the version and table states it shows
    pc,         \* where run_loader is
    loading,    \* the Snapshot load_snapshot is building
    next,       \* the table load_snapshot reads next
    revAtBump,  \* history: the tables when the sequence first showed a version
    faults

vars == <<rev, last, called, store, pc, loading, next, revAtBump, faults>>

(* "begin", "tables": in load_snapshot (first for the cold load, before    *)
(* the loop).  "poll": waiting for the next tick of the poll loop.         *)
PC == {"begin", "tables", "poll"}

Tables   == [Table -> Nat]
Contents == [version : Nat, rev : Tables]

\* Snapshot::default(): version 0 and no projects.
Empty == [version |-> 0, rev |-> [t \in Table |-> 0]]

SnapshotTypeOK ==
    /\ rev \in Tables
    /\ last \in Version
    /\ called \in BOOLEAN
    /\ store \in Contents
    /\ pc \in PC
    /\ loading \in Contents
    /\ store.version =< last /\ loading.version =< last
    /\ next \in 1..(NumTables + 1)
    /\ revAtBump \in [Version -> Tables]
    /\ faults \in 0..MaxFaults

Fault == faults < MaxFaults /\ faults' = faults + 1

\* A sequence that was never called shows its start value.
SnapshotInit ==
    /\ rev = [t \in Table |-> 0]
    /\ last = 1
    /\ called = FALSE
    /\ store = Empty
    /\ pc = "begin"
    /\ loading = Empty
    /\ next = 1
    /\ revAtBump = [v \in Version |-> rev]
    /\ faults = 0

-----------------------------------------------------------------------------

\* A management handler commits.  It does not touch the sequence.
Mutate(t) ==
    /\ rev[t] < MaxRev
    /\ rev' = [rev EXCEPT ![t] = @ + 1]
    /\ UNCHANGED <<last, called, store, pc, loading, next, revAtBump, faults>>

\* nextval: the first call returns the start value and leaves last_value.
Bump ==
    /\ last < MaxVersion
    /\ called' = TRUE
    /\ last' = IF called THEN last + 1 ELSE last
    /\ revAtBump' = IF called THEN [revAtBump EXCEPT ![last + 1] = rev] ELSE revAtBump
    /\ UNCHANGED <<rev, store, pc, loading, next, faults>>

-----------------------------------------------------------------------------
(* run_loader.                                                             *)

\* Mutant: the poll asks for more than one version of distance.
PollMovedByTwo ==
    /\ pc = "poll"
    /\ last > store.version + 1
    /\ pc' = "begin"
    /\ UNCHANGED <<rev, last, called, store, loading, next, revAtBump, faults>>

\* A tick of the poll loop finds the sequence ahead of the snapshot.  (When it
\* is not ahead, or the poll query fails, the loop just goes on.)
PollMoved ==
    /\ pc = "poll"
    /\ last > store.version
    /\ pc' = "begin"
    /\ UNCHANGED <<rev, last, called, store, loading, next, revAtBump, faults>>

\* Mutant: the load takes the next version for its own.
ReadVersionNext ==
    /\ pc = "begin"
    /\ loading' = [Empty EXCEPT !.version = last + 1]
    /\ next' = 1
    /\ pc' = "tables"
    /\ UNCHANGED <<rev, last, called, store, revAtBump, faults>>

\* load_snapshot: the sequence is read first ...
ReadVersion ==
    /\ pc = "begin"
    /\ loading' = [Empty EXCEPT !.version = last]
    /\ next' = 1
    /\ pc' = "tables"
    /\ UNCHANGED <<rev, last, called, store, revAtBump, faults>>

\* ... then the tables, each as it is now.
ReadTable ==
    /\ pc = "tables"
    /\ next \in Table
    /\ loading' = [loading EXCEPT !.rev[next] = rev[next]]
    /\ next' = next + 1
    /\ UNCHANGED <<rev, last, called, store, pc, revAtBump, faults>>

\* Mutant: the sequence is read after the tables.
SwapVersionLast ==
    /\ pc = "tables"
    /\ next = NumTables + 1
    /\ store' = [loading EXCEPT !.version = last]
    /\ loading' = Empty
    /\ next' = 1
    /\ pc' = "poll"
    /\ UNCHANGED <<rev, last, called, revAtBump, faults>>

\* The transaction commits and the new snapshot is swapped in.
Swap ==
    /\ pc = "tables"
    /\ next = NumTables + 1
    /\ store' = loading
    /\ loading' = Empty
    /\ next' = 1
    /\ pc' = "poll"
    /\ UNCHANGED <<rev, last, called, revAtBump, faults>>

\* Mutant: a failed load swaps in what it has read.
LoadFailsSwaps ==
    /\ pc \in {"begin", "tables"}
    /\ Fault
    /\ store' = loading
    /\ loading' = Empty
    /\ next' = 1
    /\ pc' = "poll"
    /\ UNCHANGED <<rev, last, called, revAtBump>>

\* A query of load_snapshot fails: logged; the next tick tries again.
LoadFails ==
    /\ pc \in {"begin", "tables"}
    /\ Fault
    /\ loading' = Empty
    /\ next' = 1
    /\ pc' = "poll"
    /\ UNCHANGED <<rev, last, called, store, revAtBump>>

Loader == PollMoved \/ ReadVersion \/ ReadTable \/ Swap

SnapshotNext ==
    \/ \E t \in Table : Mutate(t)
    \/ Bump
    \/ Loader
    \/ LoadFails

SnapshotSpec == SnapshotInit /\ [][SnapshotNext]_vars

(* Fairness: the loader task is polled and its queries return.             *)
SnapshotFairSpec == SnapshotSpec /\ WF_vars(Loader)

-----------------------------------------------------------------------------
(* Properties.                                                             *)

\* A snapshot that carries a version shows every mutation committed before the
\* sequence showed that version, so that a poll that finds nothing newer has
\* missed nothing that was bumped: the reload cannot race with a bump.
VersionBacksData ==
    store.version > 0 =>
        \A t \in Table : store.rev[t] >= revAtBump[store.version][t]

\* The same of the snapshot being built, for the tables already read.
LoadingBacksData ==
    pc = "tables" =>
        /\ loading.version \in Version
        /\ \A t \in Table : t < next => loading.rev[t] >= revAtBump[loading.version][t]

\* Swaps never take readers back, neither in version nor in any table.
ReadersNeverGoBack ==
    [][/\ store'.version >= store.version
       /\ \A t \in Table : store'.rev[t] >= store.rev[t]]_vars

\* A version the sequence has reached is served, or a newer one, whatever failed
\* in the cold load or a poll before.
VersionServed == \A v \in Version : last >= v ~> store.version >= v

\* REQUIREMENTS.md 7.2: "Worst-case staleness is bounded by the poll interval":
\* a committed mutation reaches the snapshot.
MutationServed ==
    \A t \in Table, n \in 1..MaxRev : rev[t] >= n ~> store.rev[t] >= n

=============================================================================
