-------------------------- MODULE MCOrderCreation --------------------------
(* OrderCreation for TLC.  Which requests are sent again under one key, and  *)
(* by whom, is left to the initial state.                                    *)
EXTENDS CreationClaims, TLC

\* Requests are interchangeable, and so are users.
Symmetric == Permutations(Requests) \cup Permutations(Users)

===========================================================================
