------------------------------ MODULE MCWallet ------------------------------
(* Wallet for TLC.                                                          *)
EXTENDS WalletClaims, TLC

\* Negative numbers, which a configuration cannot write.
Debts == {-3, 1}

\* Orders are interchangeable, and so are calls.
Symmetric == Permutations(Orders) \cup Permutations(Callers)

===========================================================================
