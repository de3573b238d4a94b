------------------------------ MODULE Purchase ------------------------------
(***************************************************************************)
(* What a checkout promises, whatever it takes: in one step an order       *)
(* appears and its price leaves the wallet of its user, which covers it at *)
(* that moment, under a key that the user has not used before.  Wallets    *)
(* change in no other way but by what is paid into them.                   *)
(*                                                                         *)
(* OrderCreation implements this with transactions that read snapshots, an *)
(* index, a second attempt and errors at every step.                       *)
(***************************************************************************)
EXTENDS Integers

CONSTANTS Users, Requests, Keys, Opening, Limit, Prices, Payments

VARIABLES
    balance,    \* of each wallet
    orders      \* the orders that exist

Init ==
    /\ balance = [u \in Users |-> Opening]
    /\ orders = {}

Buy(r, u, k, p) ==
    /\ balance[u] + Limit >= p
    /\ balance' = [balance EXCEPT ![u] = @ - p]
    /\ \A o \in orders : o.request # r /\ <<o.user, o.key>> # <<u, k>>
    /\ orders' = orders \cup {[request |-> r, user |-> u, key |-> k, paid |-> p]}

PayIn(u, a) ==
    /\ balance' = [balance EXCEPT ![u] = @ + a]
    /\ UNCHANGED orders

Next ==
    \/ \E r \in Requests, u \in Users, k \in Keys, p \in Prices : Buy(r, u, k, p)
    \/ \E u \in Users, a \in Payments : PayIn(u, a)

Spec == Init /\ [][Next]_<<balance, orders>>

===========================================================================
