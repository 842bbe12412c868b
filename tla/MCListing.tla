----------------------------- MODULE MCListing -----------------------------
(* Instances of Listing for TLC.                                            *)
EXTENDS Listing, TLC

MCSymmetry == Permutations(Rows)
=============================================================================
