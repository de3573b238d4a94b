------------------------- MODULE MCOrderLifecycle -------------------------
(* OrderLifecycle for TLC: the configurations give every constant its value; *)
(* this module adds the symmetry that is sound for safety.                   *)
EXTENDS OrderClaims, TLC

\* Server processes are interchangeable, and so are concurrent completions.
Symmetric == Permutations(Instances) \cup Permutations(Calls)

===========================================================================
