----------------------------- MODULE MCAccounts -----------------------------
(* Small instances of Accounts for TLC.                                     *)
EXTENDS Accounts, TLC

MCSymmetry == Permutations(Emails) \cup Permutations(Handles) \cup Permutations(VTokens)
                \cup Permutations(RTokens) \cup Permutations(Requests)
=============================================================================
