----------------------------- MODULE MCTenancy -----------------------------
(* Instances of Tenancy for TLC.                                            *)
EXTENDS Tenancy, TLC

MCSymmetry ==
  Permutations(Orgs) \cup Permutations(Joins) \cup Permutations(Assigns)
    \cup Permutations(OrgDeletes) \cup Permutations(Inserts)
=============================================================================
