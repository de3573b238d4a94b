--------------------------- MODULE CreationClaims ---------------------------
(* What the documents and comments of the repository say of a checkout, where *)
(* the code does otherwise.                                                   *)
EXTENDS OrderCreation

\* docs/order-system.md:233: "If no key is supplied, idempotency is not
\* enforced".  A request without a key is not refused as a duplicate of an
\* earlier one (order.model.js:372).
KeylessIsNotEnforced ==
    \A r \in Requests : key[r] = NoKey => answer[r] # "duplicate"

\* docs/order-system.md:147: a key that is sent again is answered with 409
\* CONFLICT (order.service.js:121 returns the order).
AgainIsConflict == \A r \in Requests : answer[r] # "existing"

\* order.service.js:458: executeOrder "always fires for AUTOMATIC products".  An
\* error of the read that follows the commit (order.service.js:409) prevents it.
AlwaysFires ==
    \A r \in Requests :
        At(r, "done") /\ Ordered(r) /\ Automatic => fired[r] = 1

===========================================================================
