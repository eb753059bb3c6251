------------------------------ MODULE Delivery ------------------------------
(***************************************************************************)
(* What the event pipeline promises for the events it accepts, with no     *)
(* word about channels, batches or transactions: accepted events form a    *)
(* log that is consumed from the front; every stretch consumed is either   *)
(* stored whole or lost whole, once, and never looked at again.            *)
(***************************************************************************)
EXTENDS Naturals, Sequences

VARIABLES log,     \* the events accepted so far, in order
          done,    \* how many of them are resolved
          stored   \* the positions of log that were stored

deliveryVars == <<log, done, stored>>

DeliveryInit ==
    /\ log = <<>>
    /\ done = 0
    /\ stored = {}

Accept ==
    /\ Len(log') = Len(log) + 1
    /\ SubSeq(log', 1, Len(log)) = log
    /\ UNCHANGED <<done, stored>>

\* The next stretch of the log is resolved.
Resolve ==
    /\ done' \in (done + 1)..Len(log)
    /\ stored' \in {stored, stored \cup (done + 1)..done'}
    /\ UNCHANGED log

DeliverySpec == DeliveryInit /\ [][Accept \/ Resolve]_deliveryVars

=============================================================================
