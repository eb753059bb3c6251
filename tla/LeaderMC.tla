------------------------------ MODULE LeaderMC ------------------------------
(* Two processes, two pool connections each, one watched job.              *)
EXTENDS Leader

=============================================================================
