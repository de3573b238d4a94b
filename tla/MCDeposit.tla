----------------------------- MODULE MCDeposit -----------------------------
(* Deposit for TLC: several requests of one customer, so that they compete   *)
(* for the one that may be pending, and administrators who review at once.   *)
EXTENDS DepositClaims, TLC

\* Every request is that of one customer.
OneOwner == [d \in Deposits |-> CHOOSE u \in Users : TRUE]

\* Administrators' calls are interchangeable.
SymmetricReviewers == Permutations(Reviewers)

===========================================================================
