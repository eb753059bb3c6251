----------------------------- MODULE TenancyMC ------------------------------
(* Instances of Tenancy for TLC.                                           *)
EXTENDS Tenancy, TLC

(* Clients are alike.                                                      *)
Alike == Permutations(Client)

=============================================================================
