----------------------------- MODULE SnapshotMC -----------------------------
(* Two tables with up to two mutations each, the sequence up to three.     *)
EXTENDS Snapshot

=============================================================================
