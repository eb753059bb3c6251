-------------------------- MODULE EventPipelineMC --------------------------
(* Two pings of one signed URL and one decision that selects two ads,      *)
(* against a channel and a batch of two.                                   *)
EXTENDS EventPipeline

CONSTANTS i1, i2, d1, k1

MCKeyOf == [p \in {i1, i2} |-> k1]
MCNumEvents == [d \in {d1} |-> 2]

=============================================================================
