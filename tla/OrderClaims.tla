---------------------------- MODULE OrderClaims ----------------------------
(***************************************************************************)
(* What the comments, the documentation and the tests of the repository    *)
(* say of the life of an order, where the code does something else.  Each  *)
(* formula is the statement, not the behaviour: TLC refutes it, in a       *)
(* configuration of this project or in one that checks it on one order.    *)
(***************************************************************************)
EXTENDS OrderLifecycle

Placed(o) == pc[o] = "done" /\ reply[o] # "none"

\* "Case C: success=true + Cancelled -> FAILED + refund"
\* (orderFulfillment.service.js:185, and the test of that name).  The code takes
\* any status that is neither FAILED nor PROCESSING for Case A.
CaseCFails ==
    \A o \in Orders : Placed(o) /\ reply[o] = "Cancelled"
                        => status[o] # "COMPLETED"

\* "TRANSIENT -> keep PROCESSING so the cron can retry later"
\* (orderFulfillment.service.js:312).  The order has no provider order id, and
\* the cron reads only orders that have one.
TransientIsRetried ==
    \A o \in Orders : Placed(o) /\ reply[o] = "Transient" /\ Queued(o)
                        ~> ~Queued(o)

\* "Refunding immediately on a network blip would cause a double-loss: the
\* provider may have already accepted and queued the order."
\* (orderFulfillment.service.js:313).  The adapters catch the blip themselves and
\* report it as a rejection.
BlipIsNotRefunded ==
    \A o \in Orders : reply[o] = "Cut" /\ fate[o] # "none" => credited[o] = 0

\* "Mongoose Order document (must be PROCESSING)" (orderFulfillment.service.js:530),
\* "idempotent - safe to run" (:19): the result of a poll is applied to an order
\* that is still being processed.  Only the document of the query is looked at; in
\* two processes, or beside an administrator, the order may be settled by then, and
\* a completed one is failed and refunded by a poll that reaches the retry limit.
AppliedInProcess ==
    [][\A i \in Instances, o \in Orders :
        PollApply(i, o) /\ Settled(o) => status'[o] = status[o]]_vars

\* "partial -> PARTIAL and partial refund" (src/README.md:1455).  The floored share
\* of a small order is 0, which processOrderRefund throws at.
PartialIsRefunded ==
    \A o \in Orders : status[o] = "PARTIAL" ~> credited[o] > 0

\* "Orders exceeding this are moved to MANUAL_REVIEW instead of being
\* auto-failed" (order.model.js:23).  The poll that reaches the limit fails and
\* refunds the order.
ExhaustedGoesToReview ==
    \A o \in Orders : retryCount[o] >= MaxRetry => status[o] # "FAILED"

\* "Atomically refund a failed order exactly once."
\* (orderFulfillment.service.js:48).  The mark and the credit are two writes, and
\* nothing looks for a mark without its credit when a process has died.
RefundIsAtomic ==
    \A o \in Orders : refunded[o] /\ InFlight(o) = {} => credited[o] > 0

\* "Undo the refunded=true flag so the next retry can attempt again"
\* (orderFulfillment.service.js:163).  Nothing retries a FAILED order.
UndoneRefundIsRetried ==
    \A o \in Orders :
        (\E w \in Workers : refundPc[w] = "undo" /\ target[w] = o)
            ~> credited[o] > 0

\* "Cannot complete a FAILED (refunded) order" (admin.orders.service.js:430).
FailedIsNotCompleted ==
    [][\A o \in Orders : status[o] = "FAILED" => status'[o] # "COMPLETED"]_status

\* "the user has already received their money back ... we must re-deduct the
\* original amount" (admin.orders.service.js:444): re-deduction restores the
\* charge.  It is also taken from users who were not, or not wholly, refunded,
\* and twice by two completions at once.
NeverOvercharged ==
    \A o \in Orders : charged[o] - credited[o] <= Price

\* "Any status + admin PATCH /:id/fail -> FAILED + atomic refund"
\* (docs/order-system.md:31): an order that still holds the user's money, and is
\* not being refunded, can be failed and refunded.
AdminCanRefund ==
    \A o \in Orders :
        /\ Created(o)
        /\ credited[o] = 0
        /\ \A w \in Workers : target[w] = o => refundPc[w] = "no"
        => CanFail(o)

===========================================================================
