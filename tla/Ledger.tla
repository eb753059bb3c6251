------------------------------- MODULE Ledger -------------------------------
(***************************************************************************)
(* What the rollup promises to reporters, with no word about leaders,      *)
(* watermarks or transactions: the published count of an hour is the       *)
(* number of countable events of that hour, it is published only once the  *)
(* hour can no longer change, and so it never changes afterwards.          *)
(***************************************************************************)
EXTENDS Integers

CONSTANT HourSet   \* the hours events can fall in

VARIABLES now,        \* the current hour
          countable,  \* [HourSet -> Nat], non-duplicate raw events
          published   \* [HourSet -> Nat], counts shown to reporters, 0 = no row

ledgerVars == <<now, countable, published>>

\* An hour is settled when even late events of it have landed.
Settled(h) == h < now - 1

LedgerInit ==
    /\ now \in Nat
    /\ countable = [h \in HourSet |-> 0]
    /\ published = [h \in HourSet |-> 0]

\* Events arrive, or turn out to be duplicates, in an hour not yet settled.
Recount(h) ==
    /\ ~Settled(h)
    /\ countable'[h] \in Nat
    /\ countable' = [countable EXCEPT ![h] = countable'[h]]
    /\ UNCHANGED <<now, published>>

Publish(h) ==
    /\ Settled(h)
    /\ published' = [published EXCEPT ![h] = countable[h]]
    /\ UNCHANGED <<now, countable>>

HourPasses ==
    /\ now' = now + 1
    /\ UNCHANGED <<countable, published>>

LedgerNext ==
    \/ \E h \in HourSet : Recount(h) \/ Publish(h)
    \/ HourPasses

LedgerSpec == LedgerInit /\ [][LedgerNext]_ledgerVars

=============================================================================
