----------------------------- MODULE MCAccounts -----------------------------
(* Accounts for TLC.                                                        *)
EXTENDS Accounts, TLC

\* Calls are interchangeable.
Symmetric == Permutations(Calls)

===========================================================================
