----------------------------- MODULE MCAccounts -----------------------------
(* Instances of Accounts for TLC.                                           *)
EXTENDS Accounts, TLC

MCSymmetry ==
  Permutations(Members) \cup Permutations(Registers) \cup Permutations(Logins)
    \cup Permutations(Edits) \cup Permutations(Deletes)
    \cup Permutations(Mailboxes) \cup Permutations(Providers) \cup Permutations(Subjects)
=============================================================================
