-------------------------- MODULE OrderLifecycle --------------------------
(***************************************************************************)
(* The life of an order after checkout: provider placement, the polling    *)
(* cron of every server process, the administrator's overrides and the     *)
(* refund they all may start.  Every step between two awaits of the code   *)
(* is one action; a MongoDB transaction is one action, because each one    *)
(* here reads and writes the order document it depends on, so that a       *)
(* concurrent writer makes it abort instead of interleaving with it.       *)
(*                                                                         *)
(* The orders are those of one provider: a poll handles the providers one   *)
(* after the other, each as the one here.                                  *)
(*                                                                         *)
(* Sources: src/src/modules/orders/orderFulfillment.service.js,            *)
(* order.service.js, order.model.js, fulfillmentJob.js and                 *)
(* src/src/modules/admin/admin.orders.service.js.                          *)
(***************************************************************************)
EXTENDS Integers, FiniteSets, ProviderAdapters

CONSTANTS
    Orders,         \* the orders that may be created
    Automatic,      \* those whose product has executionType "automatic"
    Instances,      \* server processes; each runs the cron (PM2 cluster mode)
    Calls,          \* slots for concurrent administrator completions
    NoOrder,        \* no order: the target of an idle worker
    Slug,           \* the provider of the automatic orders
    Price,          \* chargedAmount of every order
    Quantity,       \* units ordered
    MaxRetry,       \* MAX_RETRY_COUNT
    MaxCalls,       \* bound: administrator calls in a behaviour
    MaxFaults,      \* bound: database errors and transaction aborts
    MaxCrashes,     \* bound: workers lost with their process
    MaxLostAcks     \* bound: commits that are applied and yet reported as failed

ASSUME WorkersAssumption ==
    /\ IsFiniteSet(Orders) /\ IsFiniteSet(Instances) /\ IsFiniteSet(Calls)
    /\ Orders \cap Instances = {}
    /\ Orders \cap Calls = {}
    /\ Instances \cap Calls = {}
    /\ NoOrder \notin Orders
    /\ Automatic \subseteq Orders
    /\ Slug \in Slugs

ASSUME NumbersAssumption ==
    /\ Price \in Nat \ {0}
    /\ Quantity \in Nat \ {0}
    /\ MaxRetry \in Nat \ {0}
    /\ MaxCalls \in Nat /\ MaxFaults \in Nat
    /\ MaxCrashes \in Nat /\ MaxLostAcks \in Nat

\* One worker per asynchronous call in flight: executeOrder for an order, the
\* poll of an instance, or an administrator's completion.
Workers == Orders \cup Instances \cup Calls

VARIABLES
    \* The order documents, and the wallet entries that reference them.
    status, refunded, refundedAt, sent, retryCount, charged, credited,
    \* What the provider made of the order; not visible but through its replies.
    fate,
    \* Where each worker stands, and which order it is working on.
    pc, refundPc, target,
    \* executeOrder: the classified reply of placeOrder.
    reply,
    \* pollProcessingOrders: the documents read, and the provider's answers.
    batch, seenRetry, verdict, remains,
    \* completeOrder: did the document read carry the refunded flag?
    sawRefunded,
    \* Counters of the bounded choices.
    calls, faults, crashes, lostAcks

orderVars == <<status, refunded, refundedAt, sent, retryCount>>
ledgerVars == <<charged, credited>>
pollVars == <<batch, seenRetry, verdict, remains>>
boundVars == <<calls, faults, crashes, lostAcks>>
vars == <<orderVars, ledgerVars, fate, pc, refundPc, target, reply, pollVars,
          sawRefunded, boundVars>>

---------------------------------------------------------------------------
\* "none" is an order not created yet.
Statuses == {"none", "PENDING", "PROCESSING", "COMPLETED", "CANCELED",
             "PARTIAL", "FAILED", "MANUAL_REVIEW"}

\* What executeOrder treats as a rejection: a refusal, but also a call that failed
\* (Cut) and a success without an order id (Unnamed), which refuse nothing.
Rejections == {"Rejected", "Cut", "Unnamed"}

\* placeOrder as executeOrder classifies it: a provider verdict with
\* success=true, a rejection, or a transient network error, which leaves no
\* provider order id.
Replies == Verdicts \cup Rejections \cup {"Transient", "none"}

Pcs == {"idle", "start", "placing", "reply", "persisted", "fatal", "cleanup",
        "done", "checking", "applying", "debit", "save"}

RefundPcs == {"no", "swap", "credit", "undo", "txn"}

\* processOrderRefund's amount, in whole currency units (the code floors it; the
\* rounding of the floating-point quotient is left out).
RefundAmount(r) == IF r > 0 /\ r < Quantity THEN (r * Price) \div Quantity
                                            ELSE Price

Created(o) == status[o] # "none"

TypeOK ==
    /\ status \in [Orders -> Statuses]
    /\ refunded \in [Orders -> BOOLEAN]
    /\ refundedAt \in [Orders -> BOOLEAN]
    /\ sent \in [Orders -> BOOLEAN]
    /\ retryCount \in [Orders -> Nat]
    /\ charged \in [Orders -> Nat]
    /\ credited \in [Orders -> Nat]
    /\ fate \in [Orders -> Words \cup {"none"}]
    /\ pc \in [Workers -> Pcs]
    /\ refundPc \in [Workers -> RefundPcs]
    /\ target \in [Workers -> Orders \cup {NoOrder}]
    /\ reply \in [Orders -> Replies]
    /\ batch \in [Instances -> SUBSET Orders]
    /\ seenRetry \in [Instances -> [Orders -> Nat]]
    /\ verdict \in [Instances -> [Orders -> Verdicts \cup {"none"}]]
    /\ remains \in [Instances -> Nat]
    /\ sawRefunded \in [Calls -> BOOLEAN]
    /\ calls \in 0..MaxCalls
    /\ faults \in 0..MaxFaults
    /\ crashes \in 0..MaxCrashes
    /\ lostAcks \in 0..MaxLostAcks

Init ==
    /\ status = [o \in Orders |-> "none"]
    /\ refunded = [o \in Orders |-> FALSE]
    /\ refundedAt = [o \in Orders |-> FALSE]
    /\ sent = [o \in Orders |-> FALSE]
    /\ retryCount = [o \in Orders |-> 0]
    /\ charged = [o \in Orders |-> 0]
    /\ credited = [o \in Orders |-> 0]
    /\ fate = [o \in Orders |-> "none"]
    /\ pc = [w \in Workers |-> "idle"]
    /\ refundPc = [w \in Workers |-> "no"]
    /\ target = [w \in Workers |-> IF w \in Orders THEN w ELSE NoOrder]
    /\ reply = [o \in Orders |-> "none"]
    /\ batch = [i \in Instances |-> {}]
    /\ seenRetry = [i \in Instances |-> [o \in Orders |-> 0]]
    /\ verdict = [i \in Instances |-> [o \in Orders |-> "none"]]
    /\ remains = [i \in Instances |-> 0]
    /\ sawRefunded = [c \in Calls |-> FALSE]
    /\ calls = 0 /\ faults = 0 /\ crashes = 0 /\ lostAcks = 0

---------------------------------------------------------------------------
(* Order creation, after the checkout transaction commits.                 *)

\* The wallet is debited and the document is inserted in one transaction; an
\* automatic order's executeOrder is then started without being awaited.
CreateOrder(o) ==
    /\ ~Created(o)
    /\ status' = [status EXCEPT ![o] = IF o \in Automatic THEN "PROCESSING"
                                                           ELSE "PENDING"]
    /\ charged' = [charged EXCEPT ![o] = @ + Price]
    /\ pc' = [pc EXCEPT ![o] = IF o \in Automatic THEN "start" ELSE "done"]
    /\ UNCHANGED <<refunded, refundedAt, sent, retryCount, credited, fate,
                   refundPc, target, reply, pollVars, sawRefunded, boundVars>>

---------------------------------------------------------------------------
(* executeOrder.  Its writes are unconditional findByIdAndUpdate calls: the *)
(* status was checked once, before the provider was awaited.                *)

ExecuteRead(o) ==
    /\ pc[o] = "start"
    /\ IF status[o] # "PROCESSING"
       THEN pc' = [pc EXCEPT ![o] = "done"] /\ UNCHANGED reply
       ELSE \/ pc' = [pc EXCEPT ![o] = "placing"] /\ UNCHANGED reply
            \/ \* The provider cannot be resolved: handled as a rejection.
               /\ pc' = [pc EXCEPT ![o] = "reply"]
               /\ reply' = [reply EXCEPT ![o] = "Rejected"]
    /\ UNCHANGED <<orderVars, ledgerVars, fate, refundPc, target, pollVars,
                   sawRefunded, boundVars>>

\* An Error that placeOrder throws is transient by its code or its text, or hard.
Classified(result) == IF result = "Threw" THEN {"Transient", "Cut"}
                                          ELSE {result}

\* What the provider has of the order after its answer.  A call that failed may or
\* may not have reached it, a success that names no order may or may not stand for
\* one, and the mock reaches nobody.
Taken(answer) ==
    IF getProviderAdapter(Slug) = "mock" THEN {"none"}
    ELSE IF answer \in Words   THEN {answer}
    ELSE IF answer = "Silent"  THEN {"Pending"}
    ELSE IF answer \in {"Lost", "NoId"} THEN {"none", "Pending"}
    ELSE {"none"}

ExecutePlace(o) ==
    /\ pc[o] = "placing"
    /\ \E answer \in Answers :
        /\ \E r \in Classified(placeOrder(Slug, answer)) :
              reply' = [reply EXCEPT ![o] = r]
        /\ \E f \in Taken(answer) : fate' = [fate EXCEPT ![o] = f]
    /\ pc' = [pc EXCEPT ![o] = "reply"]
    /\ UNCHANGED <<orderVars, ledgerVars, refundPc, target, pollVars,
                   sawRefunded, boundVars>>

\* The status executeOrder persists: whatever is neither FAILED nor PROCESSING
\* takes the branch the code labels Case A.
PersistedStatus(r) ==
    IF r \in Rejections THEN "FAILED"
    ELSE IF r = "Transient" THEN "PROCESSING"
    ELSE IF toInternalStatus(r) \in {"FAILED", "PROCESSING"}
         THEN toInternalStatus(r)
    ELSE "COMPLETED"

\* A pending order keeps its status field: only the provider's id is written.
ExecutePersist(o) ==
    /\ pc[o] = "reply"
    /\ LET s == PersistedStatus(reply[o]) IN
        /\ status' = [status EXCEPT ![o] = IF s = "PROCESSING" THEN @ ELSE s]
        /\ refundPc' = [refundPc EXCEPT ![o] = IF s = "FAILED" THEN "swap"
                                                                ELSE "no"]
    /\ sent' = [sent EXCEPT ![o] = reply[o] \in Verdicts]
    /\ pc' = [pc EXCEPT ![o] = "persisted"]
    /\ UNCHANGED <<refunded, refundedAt, retryCount, ledgerVars, fate, target,
                   reply, pollVars, sawRefunded, boundVars>>

\* The outermost catch: a database error anywhere but inside the refund, the
\* final read of the order included.
ExecuteFatal(o) ==
    /\ faults < MaxFaults
    /\ pc[o] \in {"start", "placing", "reply", "persisted"}
    /\ refundPc[o] = "no"
    /\ pc' = [pc EXCEPT ![o] = "fatal"]
    /\ faults' = faults + 1
    /\ UNCHANGED <<orderVars, ledgerVars, fate, refundPc, target, reply,
                   pollVars, sawRefunded, calls, crashes, lostAcks>>

ExecuteCleanup(o) ==
    /\ pc[o] = "fatal"
    /\ status' = [status EXCEPT ![o] = "FAILED"]
    /\ refundPc' = [refundPc EXCEPT ![o] = "swap"]
    /\ pc' = [pc EXCEPT ![o] = "cleanup"]
    /\ UNCHANGED <<refunded, refundedAt, sent, retryCount, ledgerVars, fate,
                   target, reply, pollVars, sawRefunded, boundVars>>

\* "Cleanup also failed", in the outage that made it necessary: logged, and
\* nothing else.
ExecuteCleanupFails(o) ==
    /\ pc[o] = "fatal"
    /\ pc' = [pc EXCEPT ![o] = "done"]
    /\ UNCHANGED <<orderVars, ledgerVars, fate, refundPc, target, reply,
                   pollVars, sawRefunded, boundVars>>

ExecuteReturn(o) ==
    /\ pc[o] \in {"persisted", "cleanup"}
    /\ refundPc[o] = "no"
    /\ pc' = [pc EXCEPT ![o] = "done"]
    /\ UNCHANGED <<orderVars, ledgerVars, fate, refundPc, target, reply,
                   pollVars, sawRefunded, boundVars>>

---------------------------------------------------------------------------
(* refundFailedOrder: a compare-and-swap on the order, then the wallet      *)
(* credit in a transaction of its own, then nothing, or the undo of the     *)
(* swap if that transaction failed.                                         *)

\* Mutant: the update has no condition on "refunded".
CanSwapAlways(o) == Created(o)

CanSwap(o) == ~refunded[o]

RefundSwap(w) ==
    /\ refundPc[w] = "swap"
    /\ LET o == target[w] IN
        IF CanSwap(o)
        THEN /\ refunded' = [refunded EXCEPT ![o] = TRUE]
             /\ refundedAt' = [refundedAt EXCEPT ![o] = TRUE]
             /\ refundPc' = [refundPc EXCEPT ![w] = "credit"]
        ELSE /\ refundPc' = [refundPc EXCEPT ![w] = "no"]
             /\ UNCHANGED <<refunded, refundedAt>>
    /\ UNCHANGED <<status, sent, retryCount, ledgerVars, fate, pc, target,
                   reply, pollVars, sawRefunded, boundVars>>

RefundCredit(w) ==
    /\ refundPc[w] = "credit"
    /\ credited' = [credited EXCEPT ![target[w]] = @ + Price]
    /\ refundPc' = [refundPc EXCEPT ![w] = "no"]
    /\ UNCHANGED <<orderVars, charged, fate, pc, target, reply, pollVars,
                   sawRefunded, boundVars>>

\* Mutant: the failure leaves the order marked.
RefundAbortKeepsMark(w) ==
    /\ refundPc[w] = "credit"
    /\ faults < MaxFaults
    /\ refundPc' = [refundPc EXCEPT ![w] = "no"]
    /\ faults' = faults + 1
    /\ UNCHANGED <<orderVars, ledgerVars, fate, pc, target, reply, pollVars,
                   sawRefunded, calls, crashes, lostAcks>>

\* The wallet transaction fails: a write conflict on the user, a lost
\* connection.  The failure may be that of the acknowledgement alone, after the
\* commit was applied.
RefundAbort(w) ==
    /\ refundPc[w] = "credit"
    /\ faults < MaxFaults
    /\ \/ UNCHANGED <<credited, lostAcks>>
       \/ /\ lostAcks < MaxLostAcks
          /\ credited' = [credited EXCEPT ![target[w]] = @ + Price]
          /\ lostAcks' = lostAcks + 1
    /\ refundPc' = [refundPc EXCEPT ![w] = "undo"]
    /\ faults' = faults + 1
    /\ UNCHANGED <<orderVars, charged, fate, pc, target, reply, pollVars,
                   sawRefunded, calls, crashes>>

RefundUndo(w) ==
    /\ refundPc[w] = "undo"
    /\ refunded' = [refunded EXCEPT ![target[w]] = FALSE]
    /\ refundedAt' = [refundedAt EXCEPT ![target[w]] = FALSE]
    /\ refundPc' = [refundPc EXCEPT ![w] = "no"]
    /\ UNCHANGED <<status, sent, retryCount, ledgerVars, fate, pc, target,
                   reply, pollVars, sawRefunded, boundVars>>

\* A database error in the swap or in the undo reaches a caller that logs it
\* and goes on: the refund is not tried again.
RefundGivenUp(w) ==
    /\ refundPc[w] \in {"swap", "undo"}
    /\ faults < MaxFaults
    /\ refundPc' = [refundPc EXCEPT ![w] = "no"]
    /\ faults' = faults + 1
    /\ UNCHANGED <<orderVars, ledgerVars, fate, pc, target, reply, pollVars,
                   sawRefunded, calls, crashes, lostAcks>>

\* processOrderRefund, for a canceled or a partial order: the flag, its date
\* and the wallet credit in one transaction.
ProcessOrderRefund(i) ==
    /\ refundPc[i] = "txn"
    /\ LET o == target[i]
           amount == RefundAmount(remains[i]) IN
        IF CanSwap(o) /\ amount > 0
        THEN /\ refunded' = [refunded EXCEPT ![o] = TRUE]
             /\ refundedAt' = [refundedAt EXCEPT ![o] = TRUE]
             /\ credited' = [credited EXCEPT ![o] = @ + amount]
        ELSE UNCHANGED <<refunded, refundedAt, credited>>
    /\ refundPc' = [refundPc EXCEPT ![i] = "no"]
    /\ UNCHANGED <<status, sent, retryCount, charged, fate, pc, target, reply,
                   pollVars, sawRefunded, boundVars>>

\* ... or it aborts, which the poller logs and forgets.
ProcessOrderRefundAbort(i) ==
    /\ refundPc[i] = "txn"
    /\ faults < MaxFaults
    /\ refundPc' = [refundPc EXCEPT ![i] = "no"]
    /\ faults' = faults + 1
    /\ UNCHANGED <<orderVars, ledgerVars, fate, pc, target, reply, pollVars,
                   sawRefunded, calls, crashes, lostAcks>>

---------------------------------------------------------------------------
(* pollProcessingOrders.  The query takes a snapshot; every later write is  *)
(* guarded by that snapshot only, never by the order as it is by then.      *)

\* Mutant: the query does not filter on the status.
PollableAnyStatus == {o \in Orders : Created(o) /\ sent[o]}

Pollable == {o \in Orders : status[o] = "PROCESSING" /\ sent[o]}

\* The query and the kill switch, which moves exhausted orders to manual
\* review.  Its write is not separated from the query: NeverExhausted shows
\* that it has nothing to write.
PollFind(i) ==
    /\ pc[i] = "idle"
    /\ Pollable # {}
    /\ LET exhausted == {o \in Pollable : retryCount[o] >= MaxRetry}
           healthy == Pollable \ exhausted IN
        /\ status' = [o \in Orders |->
                        IF o \in exhausted THEN "MANUAL_REVIEW" ELSE status[o]]
        /\ batch' = [batch EXCEPT ![i] = healthy]
        /\ pc' = [pc EXCEPT ![i] = IF healthy = {} THEN "idle" ELSE "checking"]
        /\ seenRetry' = [seenRetry EXCEPT ![i] =
                           [o \in Orders |->
                              IF o \in healthy THEN retryCount[o] ELSE 0]]
    /\ UNCHANGED <<refunded, refundedAt, sent, retryCount, ledgerVars, fate,
                   refundPc, target, reply, verdict, remains, sawRefunded,
                   boundVars>>

\* The batch call returns; orders may be absent from the provider's answer.
PollAnswer(i, absent) ==
    /\ pc[i] = "checking"
    /\ absent \subseteq batch[i]
    /\ verdict' = [verdict EXCEPT ![i] =
                    [o \in Orders |-> IF o \in batch[i] \ absent
                                       THEN checkOrders(Slug, fate[o])
                                       ELSE "none"]]
    /\ pc' = [pc EXCEPT ![i] = "applying"]
    /\ UNCHANGED <<orderVars, ledgerVars, fate, refundPc, target, reply, batch,
                   seenRetry, remains, sawRefunded, boundVars>>

\* The batch call fails, or no active provider has the order's code: the group
\* is skipped, its retry counts untouched.
PollFail(i) ==
    /\ pc[i] = "checking"
    /\ batch' = [batch EXCEPT ![i] = {}]
    /\ seenRetry' = [seenRetry EXCEPT ![i] = [o \in Orders |-> 0]]
    /\ pc' = [pc EXCEPT ![i] = "idle"]
    /\ UNCHANGED <<orderVars, ledgerVars, fate, refundPc, target, reply, verdict,
                   remains, sawRefunded, boundVars>>

\* The loop of _applyResults takes the next order of the batch.
TakeOrder(i, o) ==
    /\ pc[i] = "applying"
    /\ refundPc[i] = "no"
    /\ o \in batch[i]
    /\ batch' = [batch EXCEPT ![i] = @ \ {o}]
    /\ target' = [target EXCEPT ![i] = o]
    /\ UNCHANGED <<refunded, refundedAt, sent, ledgerVars, fate, pc, reply,
                   seenRetry, verdict, sawRefunded, calls, crashes, lostAcks>>

Answered(i, o) == verdict[i][o] # "none"

\* No answer for the order, or the database refuses the write: logged.
PollSkip(i, o) ==
    /\ TakeOrder(i, o)
    /\ \/ ~Answered(i, o) /\ UNCHANGED faults
       \/ Answered(i, o) /\ faults < MaxFaults /\ faults' = faults + 1
    /\ UNCHANGED <<status, retryCount, refundPc, remains>>

\* Mutants: the limit is passed by one; the count is written back unchanged; the
\* update repeats the status the query found.
PollPendingRequeues(i, o) ==
    /\ TakeOrder(i, o)
    /\ Answered(i, o) /\ ~isTerminal(verdict[i][o])
    /\ seenRetry[i][o] + 1 < MaxRetry
    /\ status' = [status EXCEPT ![o] = "PROCESSING"]
    /\ retryCount' = [retryCount EXCEPT ![o] = seenRetry[i][o] + 1]
    /\ UNCHANGED <<refundPc, remains, faults>>

PollPendingLate(i, o) ==
    /\ TakeOrder(i, o)
    /\ Answered(i, o) /\ ~isTerminal(verdict[i][o])
    /\ seenRetry[i][o] < MaxRetry
    /\ retryCount' = [retryCount EXCEPT ![o] = seenRetry[i][o] + 1]
    /\ UNCHANGED <<status, refundPc, remains, faults>>

PollPendingUncounted(i, o) ==
    /\ TakeOrder(i, o)
    /\ Answered(i, o) /\ ~isTerminal(verdict[i][o])
    /\ UNCHANGED <<status, retryCount, refundPc, remains, faults>>

\* The count written is the one read by the query plus one.
PollPending(i, o) ==
    LET newRetry == seenRetry[i][o] + 1 IN
    /\ TakeOrder(i, o)
    /\ Answered(i, o) /\ ~isTerminal(verdict[i][o])
    /\ newRetry < MaxRetry
    /\ retryCount' = [retryCount EXCEPT ![o] = newRetry]
    /\ UNCHANGED <<status, refundPc, remains, faults>>

PollExhaust(i, o) ==
    LET newRetry == seenRetry[i][o] + 1 IN
    /\ TakeOrder(i, o)
    /\ Answered(i, o) /\ ~isTerminal(verdict[i][o])
    /\ newRetry >= MaxRetry
    /\ status' = [status EXCEPT ![o] = "FAILED"]
    /\ retryCount' = [retryCount EXCEPT ![o] = newRetry]
    /\ refundPc' = [refundPc EXCEPT ![i] = "swap"]
    /\ UNCHANGED <<remains, faults>>

\* A terminal verdict is written over whatever status the order has, and starts
\* the refund that belongs to it.
Settle(i, o, refund) ==
    /\ TakeOrder(i, o)
    /\ Answered(i, o)
    /\ status' = [status EXCEPT ![o] = toInternalStatus(verdict[i][o])]
    /\ refundPc' = [refundPc EXCEPT ![i] = refund]
    /\ UNCHANGED <<retryCount, faults>>

\* Mutant: requiresRefund holds of a completed order.
PollCompleteRefunds(i, o) ==
    /\ verdict[i][o] = "Completed"
    /\ Settle(i, o, "swap")
    /\ UNCHANGED remains

PollComplete(i, o) ==
    /\ verdict[i][o] = "Completed"
    /\ Settle(i, o, "no")
    /\ UNCHANGED remains

\* remains comes from the provider unchecked; absent or malformed it is 0.
PollPartial(i, o) ==
    /\ verdict[i][o] = "Partial"
    /\ Settle(i, o, "txn")
    /\ \E r \in 0..Quantity : remains' = [remains EXCEPT ![i] = r]

\* Mutant: canceled without its refund.
PollCancelUnpaid(i, o) ==
    /\ verdict[i][o] = "Cancelled"
    /\ Settle(i, o, "no")
    /\ remains' = [remains EXCEPT ![i] = 0]

PollCancel(i, o) ==
    /\ verdict[i][o] = "Cancelled"
    /\ Settle(i, o, "txn")
    /\ remains' = [remains EXCEPT ![i] = 0]

\* Mutant: the refund is started before the status is written.
PollRejectEarly(i, o) ==
    /\ verdict[i][o] = "Failed"
    /\ TakeOrder(i, o)
    /\ refundPc' = [refundPc EXCEPT ![i] = "swap"]
    /\ UNCHANGED <<status, retryCount, remains, faults>>

PollReject(i, o) ==
    /\ verdict[i][o] = "Failed"
    /\ Settle(i, o, "swap")
    /\ UNCHANGED remains

\* The poll returns and fulfillmentJob clears _running.
PollDone(i) ==
    /\ pc[i] = "applying"
    /\ refundPc[i] = "no"
    /\ batch[i] = {}
    /\ pc' = [pc EXCEPT ![i] = "idle"]
    /\ target' = [target EXCEPT ![i] = NoOrder]
    /\ seenRetry' = [seenRetry EXCEPT ![i] = [o \in Orders |-> 0]]
    /\ verdict' = [verdict EXCEPT ![i] = [o \in Orders |-> "none"]]
    /\ remains' = [remains EXCEPT ![i] = 0]
    /\ UNCHANGED <<orderVars, ledgerVars, fate, refundPc, reply, batch,
                   sawRefunded, boundVars>>

PollApply(i, o) ==
    \/ PollSkip(i, o)
    \/ PollPending(i, o)
    \/ PollExhaust(i, o)
    \/ PollComplete(i, o)
    \/ PollPartial(i, o)
    \/ PollCancel(i, o)
    \/ PollReject(i, o)

---------------------------------------------------------------------------
(* The administrator.                                                       *)

\* markOrderAsFailed, behind PATCH /orders/:id/fail and the admin refund: the
\* status, both refund marks and the credit in one transaction.
CanFail(o) == status[o] \notin {"none", "FAILED"} /\ ~refundedAt[o]

MarkOrderAsFailed(o) ==
    /\ calls < MaxCalls
    /\ CanFail(o)
    /\ status' = [status EXCEPT ![o] = "FAILED"]
    /\ refunded' = [refunded EXCEPT ![o] = TRUE]
    /\ refundedAt' = [refundedAt EXCEPT ![o] = TRUE]
    /\ credited' = [credited EXCEPT ![o] = @ + Price]
    /\ calls' = calls + 1
    /\ UNCHANGED <<sent, retryCount, charged, fate, pc, refundPc, target, reply,
                   pollVars, sawRefunded, faults, crashes, lostAcks>>

\* completeOrder: read, charge again if the order may have been refunded, save.
\* Three awaits and no transaction.
MayHaveBeenRefunded(o) ==
    refunded[o] \/ status[o] \in {"FAILED", "PARTIAL", "CANCELED"}

CompleteRead(c, o) ==
    /\ calls < MaxCalls
    /\ pc[c] = "idle"
    /\ status[o] \notin {"none", "COMPLETED"}
    /\ target' = [target EXCEPT ![c] = o]
    /\ sawRefunded' = [sawRefunded EXCEPT ![c] = refunded[o]]
    /\ pc' = [pc EXCEPT ![c] = IF MayHaveBeenRefunded(o) THEN "debit"
                                                         ELSE "save"]
    /\ calls' = calls + 1
    /\ UNCHANGED <<orderVars, ledgerVars, fate, refundPc, reply, pollVars,
                   faults, crashes, lostAcks>>

\* forcedDebitWallet: no guard on the balance, none on the order.
CompleteDebit(c) ==
    /\ pc[c] = "debit"
    /\ charged' = [charged EXCEPT ![target[c]] = @ + Price]
    /\ pc' = [pc EXCEPT ![c] = "save"]
    /\ UNCHANGED <<orderVars, credited, fate, refundPc, target, reply, pollVars,
                   sawRefunded, boundVars>>

\* Mutant: the refund marks are cleared whatever was read.
CompleteSaveClears(c) ==
    /\ pc[c] = "save"
    /\ LET o == target[c] IN
        /\ status' = [status EXCEPT ![o] = "COMPLETED"]
        /\ refunded' = [refunded EXCEPT ![o] = FALSE]
        /\ refundedAt' = [refundedAt EXCEPT ![o] = FALSE]
    /\ pc' = [pc EXCEPT ![c] = "idle"]
    /\ target' = [target EXCEPT ![c] = NoOrder]
    /\ sawRefunded' = [sawRefunded EXCEPT ![c] = FALSE]
    /\ UNCHANGED <<sent, retryCount, ledgerVars, fate, refundPc, reply, pollVars,
                   boundVars>>

\* order.save() writes the paths modified since the read: the refund marks only
\* if they were set when the order was read.
CompleteSave(c) ==
    /\ pc[c] = "save"
    /\ LET o == target[c] IN
        /\ status' = [status EXCEPT ![o] = "COMPLETED"]
        /\ refunded' = [refunded EXCEPT ![o] = @ /\ ~sawRefunded[c]]
        /\ refundedAt' = [refundedAt EXCEPT ![o] = @ /\ ~sawRefunded[c]]
    /\ pc' = [pc EXCEPT ![c] = "idle"]
    /\ target' = [target EXCEPT ![c] = NoOrder]
    /\ sawRefunded' = [sawRefunded EXCEPT ![c] = FALSE]
    /\ UNCHANGED <<sent, retryCount, ledgerVars, fate, refundPc, reply, pollVars,
                   boundVars>>

---------------------------------------------------------------------------
(* Crashes.  What a worker had in memory is gone; a restarted process runs   *)
(* the cron again, but nothing resumes an execution or an admin call.        *)

Crashed ==
    /\ crashes < MaxCrashes
    /\ crashes' = crashes + 1
    /\ UNCHANGED <<orderVars, ledgerVars, fate, reply, calls, faults, lostAcks>>

CrashExecutor(o) ==
    /\ Crashed
    /\ pc[o] \notin {"idle", "done"}
    /\ pc' = [pc EXCEPT ![o] = "done"]
    /\ refundPc' = [refundPc EXCEPT ![o] = "no"]
    /\ UNCHANGED <<target, pollVars, sawRefunded>>

CrashPoller(i) ==
    /\ Crashed
    /\ pc[i] # "idle"
    /\ pc' = [pc EXCEPT ![i] = "idle"]
    /\ refundPc' = [refundPc EXCEPT ![i] = "no"]
    /\ target' = [target EXCEPT ![i] = NoOrder]
    /\ batch' = [batch EXCEPT ![i] = {}]
    /\ seenRetry' = [seenRetry EXCEPT ![i] = [o \in Orders |-> 0]]
    /\ verdict' = [verdict EXCEPT ![i] = [o \in Orders |-> "none"]]
    /\ remains' = [remains EXCEPT ![i] = 0]
    /\ UNCHANGED sawRefunded

CrashCall(c) ==
    /\ Crashed
    /\ pc[c] # "idle"
    /\ pc' = [pc EXCEPT ![c] = "idle"]
    /\ target' = [target EXCEPT ![c] = NoOrder]
    /\ sawRefunded' = [sawRefunded EXCEPT ![c] = FALSE]
    /\ UNCHANGED <<refundPc, pollVars>>

\* The provider, on its own: an order it took changes its status until
\* one of the final verdicts is reached.
ProviderSettles(o) ==
    /\ fate[o] \in {"Pending", "Unlisted"}
    /\ \E f \in Words \ {fate[o]} : fate' = [fate EXCEPT ![o] = f]
    /\ UNCHANGED <<orderVars, ledgerVars, pc, refundPc, target, reply, pollVars,
                   sawRefunded, boundVars>>

---------------------------------------------------------------------------
ExecutorStep(o) ==
    \/ ExecuteRead(o)
    \/ ExecutePlace(o)
    \/ ExecutePersist(o)
    \/ ExecuteCleanup(o)
    \/ ExecuteReturn(o)

PollStep(i) ==
    \/ PollFind(i)
    \/ \E absent \in SUBSET batch[i] : PollAnswer(i, absent)
    \/ PollFail(i)
    \/ \E o \in Orders : PollApply(i, o)
    \/ PollDone(i)

\* Only executors and pollers refund; only pollers use processOrderRefund.
RefundStep(w) ==
    \/ RefundSwap(w)
    \/ RefundCredit(w)
    \/ RefundUndo(w)

AdminStep(c) ==
    \/ \E o \in Orders : CompleteRead(c, o)
    \/ CompleteDebit(c)
    \/ CompleteSave(c)

Fault ==
    \/ \E o \in Orders : ExecuteFatal(o) \/ ExecuteCleanupFails(o)
    \/ \E w \in Orders \cup Instances : RefundAbort(w) \/ RefundGivenUp(w)
    \/ \E i \in Instances : ProcessOrderRefundAbort(i)

Crash ==
    \/ \E o \in Orders : CrashExecutor(o)
    \/ \E i \in Instances : CrashPoller(i)
    \/ \E c \in Calls : CrashCall(c)

Next ==
    \/ \E o \in Orders : \/ CreateOrder(o)
                         \/ ExecutorStep(o)
                         \/ MarkOrderAsFailed(o)
                         \/ ProviderSettles(o)
    \/ \E w \in Orders \cup Instances : RefundStep(w)
    \/ \E i \in Instances : PollStep(i) \/ ProcessOrderRefund(i)
    \/ \E c \in Calls : AdminStep(c)
    \/ Fault
    \/ Crash

Spec == Init /\ [][Next]_vars

\* A live process runs its promises to the end, and node-cron starts a poll
\* every interval as long as the process lives.
FairSpec ==
    /\ Spec
    /\ \A o \in Orders : WF_vars(ExecutorStep(o))
    /\ \A i \in Instances : WF_vars(PollStep(i))
    /\ \A i \in Instances : WF_vars(ProcessOrderRefund(i))
    /\ \A w \in Orders \cup Instances : WF_vars(RefundStep(w))

\* ... and the provider, asked again and again, answers for the whole batch
\* again and again.  An assumption on the provider, not on this code.
ResponsiveSpec ==
    /\ FairSpec
    /\ \A i \in Instances : SF_vars(PollAnswer(i, {}))

---------------------------------------------------------------------------
(* Properties.                                                              *)

Queued(o) == status[o] \in {"PENDING", "PROCESSING"}
Settled(o) == Created(o) /\ ~Queued(o)

\* Workers between the swap of refundFailedOrder and the end of its credit.
InFlight(o) == {w \in Workers : refundPc[w] \in {"credit", "undo"}
                                /\ target[w] = o}

\* However executor, pollers and administrators interleave, fail and crash, the
\* refunds of an order never exceed what it was charged, re-deductions of
\* completeOrder included, by more than one price for every commit that was
\* applied and reported as failed.  Two guards stand for it: the swap on "refunded" in
\* refundFailedOrder and processOrderRefund, and "refundedAt" in
\* markOrderAsFailed.
NeverOverRefunded ==
    \A o \in Orders : credited[o] <= charged[o] + Price * lostAcks

\* A refund marked on the order and not in flight was paid: the undo of
\* refundFailedOrder keeps the mark and the money together through one failure
\* of the database, though neither through a second one, in the undo, nor
\* through the death of the process between the two.
RefundedMeansCredited ==
    crashes = 0 /\ faults <= 1 =>
        \A o \in Orders : refunded[o] /\ InFlight(o) = {} => credited[o] > 0

\* Money is returned only for orders that have left the queue: no order is
\* refunded and then placed, polled or delivered as if it were paid.
RefundedLeavesQueue ==
    \A o \in Orders : refunded[o] \/ credited[o] > 0 => ~Queued(o)

\* No order of the queue ever reaches MAX_RETRY_COUNT, stale counts included:
\* the poll that would write that count fails the order instead, so the kill
\* switch of pollProcessingOrders never finds an order for MANUAL_REVIEW.
NeverExhausted ==
    \A o \in Orders : /\ Queued(o) => retryCount[o] < MaxRetry
                      /\ status[o] # "MANUAL_REVIEW"

\* Nobody gets the goods for free: an order that is COMPLETED has been paid for
\* and the payment was not returned, not even in part.
CompletedKeepsCharge ==
    \A o \in Orders : status[o] = "COMPLETED" => charged[o] - credited[o] >= Price

\* The steps that fail an order without having heard its end: the retry limit, and
\* the cleanup of an execution that met a database error.
GivenUp(o) == retryCount'[o] >= MaxRetry \/ pc[o] = "fatal"

\* The writes of a batch do not look at the order again, so that a poll overwrites
\* the status another poll, or the executor, has settled since the query.  While no
\* administrator intervenes, what is overwritten is a FAILED of giving up, by the end
\* the provider reports, or what overwrites is such a FAILED: no verdict the
\* provider has given, and no refund that follows from one, is undone by an older
\* answer, and no settled order returns to the queue.
OverwritesAreTrue ==
    [][calls' = 0 =>
        \A o \in Orders :
            Settled(o) /\ status'[o] # status[o] =>
                \/ status[o] = "FAILED" /\ status'[o] = toInternalStatus(fate[o])
                \/ status'[o] = "FAILED" /\ GivenUp(o)]_vars

\* Where nobody intervenes, an order that the provider delivers is not refunded as
\* well: no status the provider can send, known to statusMapper or not, is taken
\* for a failure while the order is alive.  Excepted are the three refunds the code
\* gives without knowing the order's fate: a placement call that failed, a
\* placement that was accepted without an order id, and the retry limit.
DeliveredIsPaid ==
    \A o \in Orders : fate[o] = "Completed" /\ credited[o] > 0
                        => \/ reply[o] \in {"Cut", "Unnamed"}
                           \/ retryCount[o] >= MaxRetry

\* While the provider answers, an order it took leaves the queue: by its verdict
\* or by exhausting its retries, although two pollers may overwrite each
\* other's retry count.
QueueDrains ==
    \A o \in Orders : o \in Pollable ~> ~Queued(o)

\* An order delivered in part whose undelivered share is worth a unit or more: the
\* code floors the refund, and throws INVALID_REFUND_AMOUNT when that leaves 0, so
\* that a smaller share is never returned.
ShareDue(o) ==
    \E i \in Instances : /\ refundPc[i] = "txn"
                         /\ target[i] = o
                         /\ RefundAmount(remains[i]) > 0

\* An order that fails, is canceled, or is delivered in part with a share worth
\* returning, is eventually credited, if no process crashes and the database
\* answers.
RefundsSettle ==
    \A o \in Orders : status[o] \in {"FAILED", "CANCELED"} \/ ShareDue(o)
                        ~> credited[o] > 0

---------------------------------------------------------------------------
(* The inductive invariant behind the safety properties: what each worker    *)
(* relies on, and an account of every refund that is still possible.         *)

\* A worker that refunds, and a completion on its way, know an order that
\* exists; a refund is only started for an order that has left the queue.
WorkersInv ==
    /\ \A o \in Orders :
        /\ target[o] = o
        /\ pc[o] # "idle" => Created(o)
        /\ refundPc[o] # "no" => pc[o] \in {"persisted", "cleanup"}
    /\ \A i \in Instances : \A o \in batch[i] : Created(o)
    /\ \A c \in Calls : /\ refundPc[c] = "no"
                        /\ pc[c] # "idle" => /\ target[c] \in Orders
                                             /\ Created(target[c])
    /\ \A w \in Workers : refundPc[w] # "no" => /\ target[w] \in Orders
                                                /\ Settled(target[w])

\* An order not created has no history.
FreshInv ==
    \A o \in Orders : ~Created(o) => /\ ~refunded[o]
                                     /\ retryCount[o] = 0
                                     /\ charged[o] = 0
                                     /\ credited[o] = 0

\* The two guards against a second refund read the same fact.
FlagsInv == \A o \in Orders : refunded[o] = refundedAt[o]

\* Workers that will credit the order, or clear its mark so that it can be
\* credited once more: refunds in flight, and completions that saw the mark.
Claims(o) ==
    {w \in Workers : /\ target[w] = o
                     /\ \/ refundPc[w] \in {"credit", "undo"}
                        \/ w \in Calls /\ pc[w] = "save" /\ sawRefunded[w]}

Spare(o) == IF refunded[o] THEN 0 ELSE 1

Owed(o) == Price * (Cardinality(Claims(o)) + Spare(o))

\* What the lost acknowledgements have cost at most.
Slack == Price * lostAcks

\* Every claim, and the refund an unmarked order may still have, is covered by
\* what was charged.  A completion pays for its claim before it holds it.
LedgerInv ==
    \A o \in Orders : Created(o) => credited[o] + Owed(o) <= charged[o] + Slack

\* A mark is only taken back after the transaction it announced has failed.
UndoInv == \A w \in Workers : refundPc[w] = "undo" => faults >= 1

PaidInv == RefundedMeansCredited /\ UndoInv

BaseInv ==
    /\ TypeOK
    /\ WorkersInv
    /\ FreshInv
    /\ FlagsInv
    /\ RefundedLeavesQueue
    /\ NeverExhausted

IInv == BaseInv /\ LedgerInv

---------------------------------------------------------------------------
(* The invariant of an undisturbed server: one process, no administrator, no *)
(* database error.  Crashes are not excluded.                               *)

Undisturbed ==
    /\ MaxCalls = 0 /\ MaxFaults = 0
    /\ \A i, j \in Instances : i = j

Unpaid(o) == status[o] \in {"FAILED", "CANCELED", "PARTIAL"}

Placing(o) == pc[o] \in {"start", "placing", "reply"}

\* Until its executor has persisted the reply an order is nobody else's, what a
\* poll holds is still in the queue, and only the orders that are not delivered in
\* full are refunded.
CalmInv ==
    /\ \A c \in Calls : pc[c] = "idle"
    /\ \A o \in Orders :
        /\ pc[o] \notin {"fatal", "cleanup"}
        /\ Placing(o) => status[o] = "PROCESSING"
        /\ Placing(o) \/ ~Created(o) => ~sent[o]
        /\ Created(o) /\ ~Unpaid(o) => /\ ~refunded[o]
                                      /\ credited[o] = 0
                                      /\ charged[o] >= Price
    /\ \A i \in Instances : batch[i] \subseteq Pollable
    /\ \A w \in Workers : refundPc[w] # "no" => Unpaid(target[w])

\* An order that is not delivered in full will not be delivered, but for the three
\* refunds the code gives without knowing: what it was told is final.
Alive(o) == fate[o] \in {"Pending", "Unlisted", "Completed"}

KnownInv ==
    \A o \in Orders :
        /\ ~Created(o) \/ pc[o] \in {"start", "placing"} => fate[o] = "none"
        /\ pc[o] = "reply" => /\ reply[o] = "Rejected" => fate[o] = "none"
                              /\ reply[o] = "Failed" => fate[o] = "Failed"
        /\ \A i \in Instances :
              /\ pc[i] = "applying" /\ o \in batch[i]
              /\ verdict[i][o] \in {"Cancelled", "Partial", "Failed"}
              => fate[o] = verdict[i][o]
        /\ Unpaid(o) /\ Alive(o) => \/ reply[o] \in {"Cut", "Unnamed"}
                                   \/ retryCount[o] >= MaxRetry

---------------------------------------------------------------------------
(* The invariant behind OverwritesAreTrue: any number of processes, with      *)
(* faults and crashes, and no administrator so far.                          *)

Final == {"Completed", "Cancelled", "Partial", "Failed"}

\* A poll holds orders whose placement is over; a final answer it holds, however
\* old, is what the provider still says; and an order that ended otherwise than
\* FAILED while a poll may hold it ended as the provider says.
TruthInv ==
    calls = 0 =>
        /\ \A c \in Calls : pc[c] = "idle"
        /\ \A o \in Orders :
            /\ ~Created(o) => ~sent[o]
            /\ pc[o] \in {"start", "placing", "reply"}
                  => status[o] = "PROCESSING" /\ ~sent[o]
            /\ \A i \in Instances :
                /\ o \in batch[i] => sent[o]
                /\ /\ pc[i] = "applying" /\ o \in batch[i]
                   /\ verdict[i][o] \in Final
                   => fate[o] = verdict[i][o]
                /\ /\ status[o] \in {"COMPLETED", "CANCELED", "PARTIAL"}
                   /\ o \in batch[i]
                   => status[o] = toInternalStatus(fate[o])

===========================================================================
