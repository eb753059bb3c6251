---------------------------- MODULE PartitionsMC ----------------------------
EXTENDS Partitions, TLC

LOCAL INSTANCE Calendar

(* The names of leaves sort as their days do: the date arithmetic agrees   *)
(* with the Gregorian calendar.                                            *)
ASSUME CalendarAssumption == CalendarIsGregorian

Symmetry == Permutations(Runner)
=============================================================================
