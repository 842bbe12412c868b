------------------------------- MODULE MCChat -------------------------------
(* Instances of the chat thread for TLC.                                    *)
EXTENDS ChatThread, TLC

MCSymmetry == Permutations(Sends) \cup Permutations(Deletes)
=============================================================================
