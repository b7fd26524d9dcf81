----------------------------- MODULE MCAccounts -----------------------------
(* Instances of Accounts: requests are interchangeable until they start.    *)
EXTENDS Accounts, TLC

Symmetry == Permutations(Request)
=============================================================================
