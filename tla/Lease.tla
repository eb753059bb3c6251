------------------------------- MODULE Lease --------------------------------
(***************************************************************************)
(* Leader election as the periodic jobs see it: one lease, granted to one  *)
(* process at a time, and one flag per process that says whether the jobs  *)
(* of that process may run.  The lease can be lost without its owner       *)
(* noticing, so a flag can outlive the lease behind it; what a flag never  *)
(* does is rise without a grant.  Leader.tla is shown to implement this.   *)
(***************************************************************************)

CONSTANTS Proc, NoProc   \* NoProc: no member of Proc

VARIABLES lease,  \* the process whose session holds the lock, or NoProc
          flag    \* [Proc -> FlagState]

leaseVars == <<lease, flag>>

\* "granted": the lock is granted, is_leader not stored yet.
FlagState == {"down", "granted", "up"}

LeaseTypeOK ==
    /\ lease \in Proc \cup {NoProc}
    /\ flag \in [Proc -> FlagState]

LeaseInit ==
    /\ lease = NoProc
    /\ flag = [p \in Proc |-> "down"]

\* The lock is free, or left behind by an earlier session of p.
Grant(p) ==
    /\ flag[p] = "down"
    /\ lease \in {NoProc, p}
    /\ lease' = p
    /\ flag' = [flag EXCEPT ![p] = "granted"]

Raise(p) ==
    /\ flag[p] = "granted"
    /\ flag' = [flag EXCEPT ![p] = "up"]
    /\ UNCHANGED lease

\* The session ends, or its owner unlocks: the owner's flag is not touched.
Lose ==
    /\ lease # NoProc
    /\ lease' = NoProc
    /\ UNCHANGED flag

\* p gives up: an error, a step-down or a crash.  Its lock may stay behind.
Clear(p) ==
    /\ flag[p] # "down"
    /\ flag' = [flag EXCEPT ![p] = "down"]
    /\ UNCHANGED lease

LeaseNext == Lose \/ \E p \in Proc : Grant(p) \/ Raise(p) \/ Clear(p)

LeaseSpec == LeaseInit /\ [][LeaseNext]_leaseVars

=============================================================================
