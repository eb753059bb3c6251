---------------------------- MODULE ResourcesMC -----------------------------
(* Instances of Resources for TLC.                                         *)
EXTENDS Resources

CONSTANTS c1, c2, e1, e2, u1, u2

MCPreload == [k \in AllKinds |-> IF k \in HasSecond THEN {e1, u1} ELSE {e1}]

(* Three rows for one kind, so that rows are added while a list is walked; *)
(* two for the others.                                                     *)
MCCapacity == [k \in AllKinds |-> IF k = "advertiser" THEN 3 ELSE 2]

(* No item; a new and an old key in both orders; a key twice; a site that  *)
(* takes another's url; and, where there is room, an item without a key.   *)
MCBatches == [k \in AllKinds |->
    CASE k = "advertiser" -> {<<>>, <<{}, {e1}>>}
      [] k = "site" -> {<<{e1, u1}, {e2, u2}>>, <<{e2, u2}, {e1, u1}>>, <<{e1, u2}>>}
      [] OTHER -> {<<>>, <<{e1}, {e2}>>, <<{e2}, {e1}>>, <<{e2}, {e2}>>}]

=============================================================================
