------------------------ MODULE OrderLifecycle_proofs ------------------------
(***************************************************************************)
(* Theorems about OrderLifecycle, for every value of its constants.        *)
(*                                                                         *)
(* BaseInv is inductive by itself.  LedgerInv, an account of every refund  *)
(* that can still be paid, is inductive with it: no order is refunded      *)
(* beyond its charge but by the commits whose acknowledgement was lost.    *)
(* PaidInv says that a marked refund is paid or under way.  CalmInv and    *)
(* KnownInv are about a server with one poller, no administrator and no    *)
(* error (Undisturbed), where orders are delivered or refunded.  TruthInv  *)
(* is about any number of pollers, errors and crashes, before the first    *)
(* administrator's call: what polls overwrite, they overwrite truly.  The  *)
(* proof that every step keeps an invariant has one step for each action.  *)
(***************************************************************************)
EXTENDS OrderLifecycle, TLAPS, FiniteSetTheorems

---------------------------------------------------------------------------
(* Types.                                                                   *)

\* A counter of an order that is increased stays a counter.
LEMMA Bump ==
    ASSUME NEW f \in [Orders -> Nat], NEW x, NEW n \in Nat
    PROVE  [f EXCEPT ![x] = @ + n] \in [Orders -> Nat]
<1>1. CASE x \in Orders
  BY <1>1
<1>2. CASE x \notin Orders
  <2>1. [f EXCEPT ![x] = @ + n] = f
    BY <1>2, Zenon
  <2> QED
    BY <2>1
<1> QED
  BY <1>1, <1>2

\* A mark of an order that is written stays a mark.
LEMMA Mark ==
    ASSUME NEW f \in [Orders -> BOOLEAN], NEW x, NEW b \in BOOLEAN
    PROVE  [f EXCEPT ![x] = b] \in [Orders -> BOOLEAN]
<1>1. CASE x \in Orders
  BY <1>1, Zenon
<1>2. CASE x \notin Orders
  <2>1. [f EXCEPT ![x] = b] = f
    BY <1>2, Zenon
  <2> QED
    BY <2>1, Zenon
<1> QED
  BY <1>1, <1>2

\* processOrderRefund never returns more than the price.
LEMMA RefundAmountBound ==
    ASSUME NEW r \in Nat
    PROVE  RefundAmount(r) \in 0..Price
<1>1. CASE r > 0 /\ r < Quantity
  <2> DEFINE q == (r * Price) \div Quantity
  <2>1. Quantity \in Nat \ {0} /\ Price \in Nat \ {0} /\ r * Price \in Nat
    BY NumbersAssumption
  <2>2. q \in Nat /\ Quantity * q <= r * Price
    BY <2>1
  <2>3. r * Price <= Quantity * Price
    BY <1>1, <2>1
  <2>4. q <= Price
    <3> HIDE DEF q
    <3> SUFFICES ASSUME q >= Price + 1 PROVE FALSE
      BY <2>1, <2>2
    <3>1. Quantity * q >= Quantity * (Price + 1)
      BY <2>1, <2>2
    <3>2. Quantity * (Price + 1) = Quantity * Price + Quantity
      BY <2>1
    <3> QED
      BY <2>1, <2>2, <2>3, <3>1, <3>2
  <2> QED
    BY <1>1, <2>2, <2>4, <2>1 DEF RefundAmount
<1>2. CASE ~(r > 0 /\ r < Quantity)
  BY <1>2, NumbersAssumption DEF RefundAmount
<1> QED
  BY <1>1, <1>2

\* executeOrder knows every result that the adapters can produce.
LEMMA PlaceType ==
    ASSUME NEW answer \in Answers
    PROVE  Classified(placeOrder(Slug, answer)) \subseteq Replies
<1>1. placeOrder(Slug, answer) \in Verdicts \cup Rejections \cup {"Threw"}
  BY DEF placeOrder, RoyalCrownPlaceOrder, TorosPlaceOrder, AlkasrPlaceOrder,
         MockPlaceOrder, Failure, PassedOn, normaliseAlkasrStatus, Answers,
         Words, Verdicts, Rejections
<1> QED
  BY <1>1 DEF Classified, Replies, Verdicts, Rejections

\* What a check takes from an answer is one of the words, or none.
LEMMA TakenType ==
    ASSUME NEW answer \in Answers
    PROVE  Taken(answer) \subseteq Words \cup {"none"}
  BY DEF Taken, Words, Verdicts

\* A status check answers with one of the words statusMapper knows.
LEMMA CheckType ==
    ASSUME NEW word \in Words \cup {"none"}
    PROVE  checkOrders(Slug, word) \in Verdicts \cup {"none"}
  BY DEF checkOrders, RoyalCrownCheckOrders, TorosCheckOrders,
         AlkasrCheckOrders, MockCheckOrders, PassedOn, normaliseAlkasrStatus,
         Words, Verdicts

\* Every action keeps every variable in its type.
LEMMA TypeStep ==
    ASSUME TypeOK, [Next]_vars
    PROVE  TypeOK'
<1> USE WorkersAssumption, NumbersAssumption
    DEF TypeOK, Workers, Statuses, Words, Verdicts, Replies, Rejections, Pcs, RefundPcs,
           orderVars, ledgerVars, pollVars, boundVars
<1>1. ASSUME NEW o \in Orders, CreateOrder(o)
      PROVE  TypeOK'
  BY <1>1 DEF CreateOrder
<1>2. ASSUME NEW o \in Orders, ExecuteRead(o)
      PROVE  TypeOK'
  <2>1. PICK p \in Pcs : pc' = [pc EXCEPT ![o] = p]
    BY <1>2 DEF ExecuteRead
  <2>2. reply' \in [Orders -> Replies]
    BY <1>2 DEF ExecuteRead
  <2> QED
    BY <1>2, <2>1, <2>2 DEF ExecuteRead
<1>3. ASSUME NEW o \in Orders, ExecutePlace(o)
      PROVE  TypeOK'
  <2>1. PICK answer \in Answers :
          /\ \E r \in Classified(placeOrder(Slug, answer)) :
                reply' = [reply EXCEPT ![o] = r]
          /\ \E f \in Taken(answer) : fate' = [fate EXCEPT ![o] = f]
    BY <1>3 DEF ExecutePlace
  <2>2. PICK r \in Replies : reply' = [reply EXCEPT ![o] = r]
    BY <2>1, PlaceType
  <2>3. PICK f \in Words \cup {"none"} : fate' = [fate EXCEPT ![o] = f]
    BY <2>1, TakenType
  <2> QED
    BY <1>3, <2>2, <2>3 DEF ExecutePlace
<1>4. ASSUME NEW o \in Orders, ExecutePersist(o)
      PROVE  TypeOK'
  BY <1>4 DEF ExecutePersist, PersistedStatus, toInternalStatus
<1>5. ASSUME NEW o \in Orders, ExecuteFatal(o)
      PROVE  TypeOK'
  BY <1>5 DEF ExecuteFatal
<1>6. ASSUME NEW o \in Orders, ExecuteCleanup(o)
      PROVE  TypeOK'
  BY <1>6 DEF ExecuteCleanup
<1>7. ASSUME NEW o \in Orders, ExecuteCleanupFails(o)
      PROVE  TypeOK'
  BY <1>7 DEF ExecuteCleanupFails
<1>8. ASSUME NEW o \in Orders, ExecuteReturn(o)
      PROVE  TypeOK'
  BY <1>8 DEF ExecuteReturn
<1>9. ASSUME NEW w \in Orders \cup Instances, RefundSwap(w)
      PROVE  TypeOK'
  <2>1. CASE CanSwap(target[w])
    <3>1. /\ refunded' = [refunded EXCEPT ![target[w]] = TRUE]
          /\ refundedAt' = [refundedAt EXCEPT ![target[w]] = TRUE]
      BY <1>9, <2>1 DEF RefundSwap
    <3>2. refunded' \in [Orders -> BOOLEAN] /\ refundedAt' \in [Orders -> BOOLEAN]
      BY <3>1, Mark
    <3>3. /\ refundPc' = [refundPc EXCEPT ![w] = "credit"]
          /\ UNCHANGED <<status, sent, retryCount, ledgerVars, fate, pc, target,
                         reply, pollVars, sawRefunded, boundVars>>
      BY <1>9, <2>1 DEF RefundSwap
    <3> QED
      BY <3>2, <3>3
  <2>2. CASE ~CanSwap(target[w])
    <3>1. /\ refundPc' = [refundPc EXCEPT ![w] = "no"]
          /\ UNCHANGED <<orderVars, ledgerVars, fate, pc, target, reply, pollVars,
                         sawRefunded, boundVars>>
      BY <1>9, <2>2 DEF RefundSwap
    <3> QED
      BY <3>1
  <2> QED
    BY <2>1, <2>2
<1>10. ASSUME NEW w \in Orders \cup Instances, RefundCredit(w)
       PROVE  TypeOK'
  <2>1. credited' \in [Orders -> Nat]
    BY <1>10, Bump DEF RefundCredit
  <2> QED
    BY <1>10, <2>1 DEF RefundCredit
<1>11. ASSUME NEW w \in Orders \cup Instances, RefundAbort(w)
       PROVE  TypeOK'
  <2>1. credited' \in [Orders -> Nat]
    <3>1. CASE UNCHANGED credited
      BY <3>1
    <3>2. CASE credited' = [credited EXCEPT ![target[w]] = @ + Price]
      <4>1. credited \in [Orders -> Nat] /\ Price \in Nat
        OBVIOUS
      <4> QED
        BY <3>2, <4>1, Bump
    <3> QED
      BY <1>11, <3>1, <3>2 DEF RefundAbort
  <2>2. lostAcks' \in 0..MaxLostAcks /\ faults' \in 0..MaxFaults
    BY <1>11 DEF RefundAbort
  <2>3. refundPc' \in [Workers -> RefundPcs]
    BY <1>11 DEF RefundAbort
  <2> QED
    BY <1>11, <2>1, <2>2, <2>3 DEF RefundAbort
<1>12. ASSUME NEW w \in Orders \cup Instances, RefundUndo(w)
       PROVE  TypeOK'
  BY <1>12 DEF RefundUndo
<1>13. ASSUME NEW w \in Orders \cup Instances, RefundGivenUp(w)
       PROVE  TypeOK'
  BY <1>13 DEF RefundGivenUp
<1>14. ASSUME NEW i \in Instances, ProcessOrderRefund(i)
       PROVE  TypeOK'
  <2>1. PICK a \in Nat : a = RefundAmount(remains[i])
    BY RefundAmountBound
  <2>2. CASE CanSwap(target[i]) /\ a > 0
    <3>1. credited' = [credited EXCEPT ![target[i]] = @ + a]
      BY <1>14, <2>1, <2>2 DEF ProcessOrderRefund
    <3>2. credited' \in [Orders -> Nat]
      BY <2>1, <3>1, Bump
    <3>3. /\ refunded' = [refunded EXCEPT ![target[i]] = TRUE]
          /\ refundedAt' = [refundedAt EXCEPT ![target[i]] = TRUE]
      BY <1>14, <2>1, <2>2 DEF ProcessOrderRefund
    <3>4. refunded' \in [Orders -> BOOLEAN] /\ refundedAt' \in [Orders -> BOOLEAN]
      BY <3>3, Mark
    <3> QED
      BY <1>14, <3>2, <3>4 DEF ProcessOrderRefund
  <2>3. CASE ~(CanSwap(target[i]) /\ a > 0)
    <3>1. UNCHANGED <<refunded, refundedAt, credited>>
      BY <1>14, <2>1, <2>3 DEF ProcessOrderRefund
    <3> QED
      BY <1>14, <3>1 DEF ProcessOrderRefund
  <2> QED
    BY <2>2, <2>3
<1>15. ASSUME NEW i \in Instances, ProcessOrderRefundAbort(i)
       PROVE  TypeOK'
  BY <1>15 DEF ProcessOrderRefundAbort
<1>16. ASSUME NEW i \in Instances, PollFind(i)
       PROVE  TypeOK'
  BY <1>16 DEF PollFind, Pollable
<1>17. ASSUME NEW i \in Instances, NEW absent \in SUBSET batch[i],
              PollAnswer(i, absent)
       PROVE  TypeOK'
  <2>1. verdict' = [verdict EXCEPT ![i] =
                      [o \in Orders |-> IF o \in batch[i] \ absent
                                         THEN checkOrders(Slug, fate[o])
                                         ELSE "none"]]
    BY <1>17 DEF PollAnswer
  <2>2. \A o \in Orders : checkOrders(Slug, fate[o]) \in Verdicts \cup {"none"}
    BY CheckType
  <2>3. verdict' \in [Instances -> [Orders -> Verdicts \cup {"none"}]]
    BY <2>1, <2>2
  <2> QED
    BY <1>17, <2>3 DEF PollAnswer
<1>18. ASSUME NEW i \in Instances, PollFail(i)
       PROVE  TypeOK'
  BY <1>18 DEF PollFail
<1>19. ASSUME NEW i \in Instances, NEW o \in Orders, PollSkip(i, o)
       PROVE  TypeOK'
  BY <1>19 DEF PollSkip, TakeOrder
<1>20. ASSUME NEW i \in Instances, NEW o \in Orders, PollPending(i, o)
       PROVE  TypeOK'
  BY <1>20 DEF PollPending, TakeOrder
<1>21. ASSUME NEW i \in Instances, NEW o \in Orders, PollExhaust(i, o)
       PROVE  TypeOK'
  BY <1>21 DEF PollExhaust, TakeOrder
<1>22. ASSUME NEW i \in Instances, NEW o \in Orders, PollComplete(i, o)
       PROVE  TypeOK'
  BY <1>22 DEF PollComplete, Settle, TakeOrder, toInternalStatus
<1>23. ASSUME NEW i \in Instances, NEW o \in Orders, PollPartial(i, o)
       PROVE  TypeOK'
  BY <1>23 DEF PollPartial, Settle, TakeOrder, toInternalStatus
<1>24. ASSUME NEW i \in Instances, NEW o \in Orders, PollCancel(i, o)
       PROVE  TypeOK'
  BY <1>24 DEF PollCancel, Settle, TakeOrder, toInternalStatus
<1>25. ASSUME NEW i \in Instances, NEW o \in Orders, PollReject(i, o)
       PROVE  TypeOK'
  BY <1>25 DEF PollReject, Settle, TakeOrder, toInternalStatus
<1>26. ASSUME NEW i \in Instances, PollDone(i)
       PROVE  TypeOK'
  BY <1>26 DEF PollDone
<1>27. ASSUME NEW o \in Orders, MarkOrderAsFailed(o)
       PROVE  TypeOK'
  BY <1>27 DEF MarkOrderAsFailed
<1>28. ASSUME NEW c \in Calls, NEW o \in Orders, CompleteRead(c, o)
       PROVE  TypeOK'
  BY <1>28 DEF CompleteRead
<1>29. ASSUME NEW c \in Calls, CompleteDebit(c)
       PROVE  TypeOK'
  <2>1. charged' \in [Orders -> Nat]
    BY <1>29, Bump DEF CompleteDebit
  <2> QED
    BY <1>29, <2>1 DEF CompleteDebit
<1>30. ASSUME NEW c \in Calls, CompleteSave(c)
       PROVE  TypeOK'
  BY <1>30 DEF CompleteSave
<1>31. ASSUME NEW o \in Orders, CrashExecutor(o)
       PROVE  TypeOK'
  BY <1>31 DEF CrashExecutor, Crashed
<1>32. ASSUME NEW i \in Instances, CrashPoller(i)
       PROVE  TypeOK'
  BY <1>32 DEF CrashPoller, Crashed
<1>33. ASSUME NEW c \in Calls, CrashCall(c)
       PROVE  TypeOK'
  BY <1>33 DEF CrashCall, Crashed
<1>34. ASSUME NEW o \in Orders, ProviderSettles(o)
       PROVE  TypeOK'
  BY <1>34 DEF ProviderSettles
<1>35. CASE UNCHANGED vars
  BY <1>35 DEF vars
<1> QED
  BY <1>1, <1>2, <1>3, <1>4, <1>5, <1>6, <1>7, <1>8, <1>9, <1>10, <1>11,
     <1>12, <1>13, <1>14, <1>15, <1>16, <1>17, <1>18, <1>19, <1>20, <1>21,
     <1>22, <1>23, <1>24, <1>25, <1>26, <1>27, <1>28, <1>29, <1>30, <1>31,
     <1>32, <1>33, <1>34, <1>35
     DEF Next, ExecutorStep, PollStep, PollApply, RefundStep, AdminStep,
         Fault, Crash

\* In every state of every behaviour the variables have their types.
THEOREM TypeCorrect == Spec => []TypeOK
<1>1. Init => TypeOK
  BY WorkersAssumption, NumbersAssumption
     DEF Init, TypeOK, Workers, Statuses, Words, Verdicts, Replies, Rejections, Pcs, RefundPcs
<1>2. TypeOK /\ [Next]_vars => TypeOK'
  BY TypeStep
<1> QED
  BY <1>1, <1>2, PTL DEF Spec

---------------------------------------------------------------------------
(* Who works on what, and what a refund says of the order.                  *)

\* The steps that move money keep the part of the invariant that is not about
\* money.
LEMMA RefundBaseStep ==
    ASSUME BaseInv, TypeOK',
           \/ \E w \in Orders \cup Instances : RefundStep(w) \/ RefundAbort(w)
           \/ \E i \in Instances : ProcessOrderRefund(i)
           \/ \E o \in Orders : MarkOrderAsFailed(o)
    PROVE  BaseInv'
<1>1. ASSUME NEW w \in Orders \cup Instances, RefundSwap(w)
      PROVE  BaseInv'
  <2>1. PICK o \in Orders : o = target[w] /\ Settled(o)
    BY <1>1 DEF RefundSwap, BaseInv, WorkersInv, Workers
  <2>2. \/ /\ refunded' = [refunded EXCEPT ![o] = TRUE]
           /\ refundedAt' = [refundedAt EXCEPT ![o] = TRUE]
        \/ UNCHANGED <<refunded, refundedAt>>
    BY <1>1, <2>1 DEF RefundSwap
  <2>3. WorkersInv'
    BY <1>1, <2>1, <2>2, WorkersAssumption
       DEF RefundSwap, WorkersInv, BaseInv, TypeOK, Created, Queued, Settled,
           Workers, orderVars, ledgerVars, pollVars, boundVars
  <2>4. FreshInv'
    BY <1>1, <2>1, <2>2, WorkersAssumption
       DEF RefundSwap, FreshInv, WorkersInv, BaseInv, TypeOK, Created, Queued,
           Settled, Workers, orderVars, ledgerVars, pollVars, boundVars
  <2>5. FlagsInv'
    <3>1. CASE /\ refunded' = [refunded EXCEPT ![o] = TRUE]
               /\ refundedAt' = [refundedAt EXCEPT ![o] = TRUE]
      BY <3>1, Zenon DEF BaseInv, TypeOK, FlagsInv
    <3>2. CASE UNCHANGED <<refunded, refundedAt>>
      BY <3>2 DEF BaseInv, FlagsInv
    <3> QED
      BY <2>2, <3>1, <3>2
  <2>6. RefundedLeavesQueue'
    BY <1>1, <2>1, <2>2, WorkersAssumption
       DEF RefundSwap, RefundedLeavesQueue, WorkersInv, BaseInv, TypeOK,
           Created, Queued, Settled, Workers, orderVars, ledgerVars, pollVars,
           boundVars
  <2>7. NeverExhausted'
    BY <1>1, <2>1, <2>2, WorkersAssumption
       DEF RefundSwap, NeverExhausted, WorkersInv, BaseInv, TypeOK, Created,
           Queued, Settled, Workers, orderVars, ledgerVars, pollVars,
           boundVars
  <2> QED
    BY <2>3, <2>4, <2>5, <2>6, <2>7 DEF BaseInv
<1>2. ASSUME NEW w \in Orders \cup Instances, RefundCredit(w)
      PROVE  BaseInv'
  <2>1. PICK o \in Orders : o = target[w] /\ Settled(o)
    BY <1>2 DEF RefundCredit, BaseInv, WorkersInv, Workers
  <2>2. UNCHANGED <<refunded, refundedAt>>
    BY <1>2 DEF RefundCredit, orderVars
  <2>3. WorkersInv'
    BY <1>2, <2>1, <2>2, WorkersAssumption
       DEF RefundCredit, WorkersInv, BaseInv, TypeOK, Created, Queued, Settled,
           Workers, orderVars, ledgerVars, pollVars, boundVars
  <2>4. FreshInv'
    BY <1>2, <2>1, <2>2, WorkersAssumption
       DEF RefundCredit, FreshInv, WorkersInv, BaseInv, TypeOK, Created,
           Queued, Settled, Workers, orderVars, ledgerVars, pollVars,
           boundVars
  <2>5. FlagsInv'
    BY <2>2, Zenon DEF BaseInv, TypeOK, FlagsInv
  <2>6. RefundedLeavesQueue'
    BY <1>2, <2>1, <2>2, WorkersAssumption
       DEF RefundCredit, RefundedLeavesQueue, WorkersInv, BaseInv, TypeOK,
           Created, Queued, Settled, Workers, orderVars, ledgerVars, pollVars,
           boundVars
  <2>7. NeverExhausted'
    BY <1>2, <2>1, <2>2, WorkersAssumption
       DEF RefundCredit, NeverExhausted, WorkersInv, BaseInv, TypeOK, Created,
           Queued, Settled, Workers, orderVars, ledgerVars, pollVars,
           boundVars
  <2> QED
    BY <2>3, <2>4, <2>5, <2>6, <2>7 DEF BaseInv
<1>3. ASSUME NEW w \in Orders \cup Instances, RefundAbort(w)
      PROVE  BaseInv'
  <2>1. PICK o \in Orders : o = target[w] /\ Settled(o)
    BY <1>3 DEF RefundAbort, BaseInv, WorkersInv, Workers
  <2>2. UNCHANGED <<refunded, refundedAt>>
    BY <1>3 DEF RefundAbort, orderVars
  <2>3. WorkersInv'
    BY <1>3, <2>1, <2>2, WorkersAssumption
       DEF RefundAbort, WorkersInv, BaseInv, TypeOK, Created, Queued, Settled,
           Workers, orderVars, ledgerVars, pollVars, boundVars
  <2>4. FreshInv'
    BY <1>3, <2>1, <2>2, WorkersAssumption
       DEF RefundAbort, FreshInv, WorkersInv, BaseInv, TypeOK, Created,
           Queued, Settled, Workers, orderVars, ledgerVars, pollVars,
           boundVars
  <2>5. FlagsInv'
    BY <2>2, Zenon DEF BaseInv, TypeOK, FlagsInv
  <2>6. RefundedLeavesQueue'
    <3>1. /\ UNCHANGED status
          /\ \A x \in Orders : x # o => credited'[x] = credited[x]
      BY <1>3, <2>1 DEF RefundAbort, BaseInv, TypeOK, orderVars
    <3> QED
      BY <2>1, <2>2, <3>1 DEF RefundedLeavesQueue, BaseInv, Queued, Settled
  <2>7. NeverExhausted'
    BY <1>3, <2>1, <2>2, WorkersAssumption
       DEF RefundAbort, NeverExhausted, WorkersInv, BaseInv, TypeOK, Created,
           Queued, Settled, Workers, orderVars, ledgerVars, pollVars,
           boundVars
  <2> QED
    BY <2>3, <2>4, <2>5, <2>6, <2>7 DEF BaseInv
<1>4. ASSUME NEW w \in Orders \cup Instances, RefundUndo(w)
      PROVE  BaseInv'
  <2>1. PICK o \in Orders : o = target[w] /\ Settled(o)
    BY <1>4 DEF RefundUndo, BaseInv, WorkersInv, Workers
  <2>2. /\ refunded' = [refunded EXCEPT ![o] = FALSE]
        /\ refundedAt' = [refundedAt EXCEPT ![o] = FALSE]
    BY <1>4, <2>1 DEF RefundUndo
  <2>3. WorkersInv'
    BY <1>4, <2>1, <2>2, WorkersAssumption
       DEF RefundUndo, WorkersInv, BaseInv, TypeOK, Created, Queued, Settled,
           Workers, orderVars, ledgerVars, pollVars, boundVars
  <2>4. FreshInv'
    BY <1>4, <2>1, <2>2, WorkersAssumption
       DEF RefundUndo, FreshInv, WorkersInv, BaseInv, TypeOK, Created, Queued,
           Settled, Workers, orderVars, ledgerVars, pollVars, boundVars
  <2>5. FlagsInv'
    BY <2>2, Zenon DEF BaseInv, TypeOK, FlagsInv
  <2>6. RefundedLeavesQueue'
    BY <1>4, <2>1, <2>2, WorkersAssumption
       DEF RefundUndo, RefundedLeavesQueue, WorkersInv, BaseInv, TypeOK,
           Created, Queued, Settled, Workers, orderVars, ledgerVars, pollVars,
           boundVars
  <2>7. NeverExhausted'
    BY <1>4, <2>1, <2>2, WorkersAssumption
       DEF RefundUndo, NeverExhausted, WorkersInv, BaseInv, TypeOK, Created,
           Queued, Settled, Workers, orderVars, ledgerVars, pollVars,
           boundVars
  <2> QED
    BY <2>3, <2>4, <2>5, <2>6, <2>7 DEF BaseInv
<1>5. ASSUME NEW i \in Instances, ProcessOrderRefund(i)
      PROVE  BaseInv'
  <2>1. PICK o \in Orders : o = target[i] /\ Settled(o)
    BY <1>5 DEF ProcessOrderRefund, BaseInv, WorkersInv, Workers
  <2>2. \/ /\ refunded' = [refunded EXCEPT ![o] = TRUE]
           /\ refundedAt' = [refundedAt EXCEPT ![o] = TRUE]
        \/ UNCHANGED <<refunded, refundedAt>>
    BY <1>5, <2>1 DEF ProcessOrderRefund
  <2>3. WorkersInv'
    BY <1>5, <2>1, <2>2, WorkersAssumption
       DEF ProcessOrderRefund, WorkersInv, BaseInv, TypeOK, Created, Queued,
           Settled, Workers, orderVars, ledgerVars, pollVars, boundVars
  <2>4. FreshInv'
    BY <1>5, <2>1, <2>2, WorkersAssumption
       DEF ProcessOrderRefund, FreshInv, WorkersInv, BaseInv, TypeOK, Created,
           Queued, Settled, Workers, orderVars, ledgerVars, pollVars,
           boundVars
  <2>5. FlagsInv'
    <3>1. CASE /\ refunded' = [refunded EXCEPT ![o] = TRUE]
               /\ refundedAt' = [refundedAt EXCEPT ![o] = TRUE]
      BY <3>1, Zenon DEF BaseInv, TypeOK, FlagsInv
    <3>2. CASE UNCHANGED <<refunded, refundedAt>>
      BY <3>2 DEF BaseInv, FlagsInv
    <3> QED
      BY <2>2, <3>1, <3>2
  <2>6. RefundedLeavesQueue'
    BY <1>5, <2>1, <2>2, WorkersAssumption
       DEF ProcessOrderRefund, RefundedLeavesQueue, WorkersInv, BaseInv,
           TypeOK, Created, Queued, Settled, Workers, orderVars, ledgerVars,
           pollVars, boundVars
  <2>7. NeverExhausted'
    BY <1>5, <2>1, <2>2, WorkersAssumption
       DEF ProcessOrderRefund, NeverExhausted, WorkersInv, BaseInv, TypeOK,
           Created, Queued, Settled, Workers, orderVars, ledgerVars, pollVars,
           boundVars
  <2> QED
    BY <2>3, <2>4, <2>5, <2>6, <2>7 DEF BaseInv
<1>6. ASSUME NEW o \in Orders, MarkOrderAsFailed(o)
      PROVE  BaseInv'
  <2>3. WorkersInv'
    BY <1>6, WorkersAssumption
       DEF MarkOrderAsFailed, CanFail, WorkersInv, BaseInv, TypeOK, Created,
           Queued, Settled, Workers, orderVars, ledgerVars, pollVars,
           boundVars
  <2>4. FreshInv'
    BY <1>6, WorkersAssumption
       DEF MarkOrderAsFailed, CanFail, FreshInv, WorkersInv, BaseInv, TypeOK,
           Created, Queued, Settled, Workers, orderVars, ledgerVars, pollVars,
           boundVars
  <2>5. FlagsInv'
    <3>1. /\ refunded' = [refunded EXCEPT ![o] = TRUE]
          /\ refundedAt' = [refundedAt EXCEPT ![o] = TRUE]
      BY <1>6 DEF MarkOrderAsFailed
    <3> QED
      BY <3>1, Zenon DEF BaseInv, TypeOK, FlagsInv
  <2>6. RefundedLeavesQueue'
    BY <1>6, WorkersAssumption
       DEF MarkOrderAsFailed, CanFail, RefundedLeavesQueue, WorkersInv,
           BaseInv, TypeOK, Created, Queued, Settled, Workers, orderVars,
           ledgerVars, pollVars, boundVars
  <2>7. NeverExhausted'
    BY <1>6, WorkersAssumption
       DEF MarkOrderAsFailed, CanFail, NeverExhausted, WorkersInv, BaseInv,
           TypeOK, Created, Queued, Settled, Workers, orderVars, ledgerVars,
           pollVars, boundVars
  <2> QED
    BY <2>3, <2>4, <2>5, <2>6, <2>7 DEF BaseInv
<1> QED
  BY <1>1, <1>2, <1>3, <1>4, <1>5, <1>6 DEF RefundStep

\* Every action keeps it.
LEMMA BaseStep ==
    ASSUME BaseInv, TypeOK', [Next]_vars
    PROVE  BaseInv'
<1>0. ASSUME \/ \E w \in Orders \cup Instances : RefundStep(w) \/ RefundAbort(w)
             \/ \E i \in Instances : ProcessOrderRefund(i)
             \/ \E o \in Orders : MarkOrderAsFailed(o)
      PROVE  BaseInv'
  BY <1>0, RefundBaseStep
<1> USE WorkersAssumption, NumbersAssumption
    DEF BaseInv, TypeOK, WorkersInv, FreshInv, FlagsInv, RefundedLeavesQueue,
           NeverExhausted, Created, Queued, Settled, Workers, Verdicts, Replies,
           orderVars, ledgerVars, pollVars, boundVars
<1>1. ASSUME NEW o \in Orders, CreateOrder(o)
      PROVE  BaseInv'
  <2>1. WorkersInv'
    BY <1>1 DEF CreateOrder
  <2>2. UNCHANGED <<refunded, refundedAt, retryCount, credited>>
    BY <1>1 DEF CreateOrder
  <2>3. FreshInv' /\ FlagsInv'
    <3>1. \A x \in Orders : ~Created(x)' => ~Created(x) /\ charged'[x] = charged[x]
      BY <1>1 DEF CreateOrder
    <3> QED
      BY <2>2, <3>1
  <2>4. RefundedLeavesQueue' /\ NeverExhausted'
    <3>1. /\ ~Created(o) /\ status'[o] \in {"PENDING", "PROCESSING"}
          /\ \A x \in Orders \ {o} : status'[x] = status[x]
      BY <1>1 DEF CreateOrder
    <3>2. ~refunded[o] /\ credited[o] = 0 /\ retryCount[o] = 0
      BY <3>1
    <3> QED
      BY <2>2, <3>1, <3>2
  <2> QED
    BY <2>1, <2>3, <2>4
<1>2. ASSUME NEW o \in Orders, ExecuteRead(o)
      PROVE  BaseInv'
  <2>1. UNCHANGED <<orderVars, ledgerVars, refundPc, target, pollVars>>
    BY <1>2 DEF ExecuteRead
  <2>2. refundPc[o] = "no" /\ Created(o)
    BY <1>2 DEF ExecuteRead
  <2>3. \A w \in Workers \ {o} : pc'[w] = pc[w]
    BY <1>2 DEF ExecuteRead
  <2>4. WorkersInv'
    <3>1. \A x \in Orders : pc'[x] # "idle" => Created(x)
      BY <2>2, <2>3
    <3>2. \A x \in Orders : refundPc[x] # "no" => pc'[x] \in {"persisted", "cleanup"}
      BY <2>2, <2>3
    <3>3. \A c \in Calls : pc'[c] = pc[c]
      BY <2>3
    <3> QED
      BY <2>1, <3>1, <3>2, <3>3
  <2> QED
    BY <2>1, <2>4
<1>3. ASSUME NEW o \in Orders, ExecutePlace(o)
      PROVE  BaseInv'
  <2>1. /\ pc[o] = "placing" /\ pc' = [pc EXCEPT ![o] = "reply"]
        /\ UNCHANGED <<orderVars, ledgerVars, refundPc, target, pollVars,
                       sawRefunded, boundVars>>
    BY <1>3 DEF ExecutePlace
  <2>2. refundPc[o] = "no"
    BY <2>1
  <2>3. WorkersInv'
    BY <2>1, <2>2
  <2>4. FreshInv' /\ FlagsInv' /\ RefundedLeavesQueue' /\ NeverExhausted'
    BY <2>1
  <2> QED
    BY <2>3, <2>4
<1>4. ASSUME NEW o \in Orders, ExecutePersist(o)
      PROVE  BaseInv'
  <2>1. PICK s \in {"FAILED", "COMPLETED", "PROCESSING"} :
          /\ status' = [status EXCEPT ![o] = IF s = "PROCESSING" THEN @ ELSE s]
          /\ refundPc' = [refundPc EXCEPT ![o] = IF s = "FAILED" THEN "swap"
                                                                  ELSE "no"]
    BY <1>4 DEF ExecutePersist, PersistedStatus, toInternalStatus
  <2>2. /\ pc[o] = "reply" /\ pc' = [pc EXCEPT ![o] = "persisted"]
        /\ UNCHANGED <<refunded, refundedAt, retryCount, ledgerVars, target,
                       pollVars, sawRefunded>>
    BY <1>4 DEF ExecutePersist
  <2>3. WorkersInv'
    BY <2>1, <2>2
  <2>4. FreshInv' /\ FlagsInv' /\ RefundedLeavesQueue' /\ NeverExhausted'
    BY <2>1, <2>2
  <2> QED
    BY <2>3, <2>4
<1>5. ASSUME NEW o \in Orders, ExecuteFatal(o)
      PROVE  BaseInv'
  BY <1>5 DEF ExecuteFatal
<1>6. ASSUME NEW o \in Orders, ExecuteCleanup(o)
      PROVE  BaseInv'
  BY <1>6 DEF ExecuteCleanup
<1>7. ASSUME NEW o \in Orders, ExecuteCleanupFails(o)
      PROVE  BaseInv'
  BY <1>7 DEF ExecuteCleanupFails
<1>8. ASSUME NEW o \in Orders, ExecuteReturn(o)
      PROVE  BaseInv'
  BY <1>8 DEF ExecuteReturn
<1>9. ASSUME NEW w \in Orders \cup Instances, RefundGivenUp(w)
      PROVE  BaseInv'
  BY <1>9 DEF RefundGivenUp
<1>10. ASSUME NEW i \in Instances, ProcessOrderRefundAbort(i)
       PROVE  BaseInv'
  BY <1>10 DEF ProcessOrderRefundAbort
<1>11. ASSUME NEW i \in Instances, PollFind(i)
       PROVE  BaseInv'
  BY <1>11 DEF PollFind, Pollable
<1>12. ASSUME NEW i \in Instances, NEW absent \in SUBSET batch[i],
              PollAnswer(i, absent)
       PROVE  BaseInv'
  BY <1>12 DEF PollAnswer
<1>13. ASSUME NEW i \in Instances, PollFail(i)
       PROVE  BaseInv'
  BY <1>13 DEF PollFail
<1>14. ASSUME NEW i \in Instances, NEW o \in Orders, PollSkip(i, o)
       PROVE  BaseInv'
  BY <1>14 DEF PollSkip, TakeOrder
<1>15. ASSUME NEW i \in Instances, NEW o \in Orders, PollPending(i, o)
       PROVE  BaseInv'
  BY <1>15 DEF PollPending, TakeOrder
<1>16. ASSUME NEW i \in Instances, NEW o \in Orders, PollExhaust(i, o)
       PROVE  BaseInv'
  BY <1>16 DEF PollExhaust, TakeOrder
<1>17. ASSUME NEW i \in Instances, NEW o \in Orders, PollComplete(i, o)
       PROVE  BaseInv'
  BY <1>17 DEF PollComplete, Settle, TakeOrder, toInternalStatus
<1>18. ASSUME NEW i \in Instances, NEW o \in Orders, PollPartial(i, o)
       PROVE  BaseInv'
  BY <1>18 DEF PollPartial, Settle, TakeOrder, toInternalStatus
<1>19. ASSUME NEW i \in Instances, NEW o \in Orders, PollCancel(i, o)
       PROVE  BaseInv'
  BY <1>19 DEF PollCancel, Settle, TakeOrder, toInternalStatus
<1>20. ASSUME NEW i \in Instances, NEW o \in Orders, PollReject(i, o)
       PROVE  BaseInv'
  BY <1>20 DEF PollReject, Settle, TakeOrder, toInternalStatus
<1>21. ASSUME NEW i \in Instances, PollDone(i)
       PROVE  BaseInv'
  BY <1>21 DEF PollDone
<1>22. ASSUME NEW c \in Calls, NEW o \in Orders, CompleteRead(c, o)
       PROVE  BaseInv'
  BY <1>22 DEF CompleteRead
<1>23. ASSUME NEW c \in Calls, CompleteDebit(c)
       PROVE  BaseInv'
  BY <1>23 DEF CompleteDebit
<1>24. ASSUME NEW c \in Calls, CompleteSave(c)
       PROVE  BaseInv'
  BY <1>24 DEF CompleteSave
<1>25. ASSUME NEW o \in Orders, CrashExecutor(o)
       PROVE  BaseInv'
  BY <1>25 DEF CrashExecutor, Crashed
<1>26. ASSUME NEW i \in Instances, CrashPoller(i)
       PROVE  BaseInv'
  BY <1>26 DEF CrashPoller, Crashed
<1>27. ASSUME NEW c \in Calls, CrashCall(c)
       PROVE  BaseInv'
  BY <1>27 DEF CrashCall, Crashed
<1>28. ASSUME NEW o \in Orders, ProviderSettles(o)
       PROVE  BaseInv'
  BY <1>28 DEF ProviderSettles
<1>29. CASE UNCHANGED vars
  BY <1>29 DEF vars
<1> HIDE DEF BaseInv, TypeOK, WorkersInv, FreshInv, FlagsInv,
         RefundedLeavesQueue, NeverExhausted, Created, Queued, Settled, Workers,
         Verdicts, Replies, orderVars, ledgerVars, pollVars, boundVars
<1>30. CASE \E o \in Orders : ExecutorStep(o)
  BY <1>30, <1>2, <1>3, <1>4, <1>6, <1>8 DEF ExecutorStep
<1>31. ASSUME NEW i \in Instances, PollStep(i)
       PROVE  BaseInv'
  BY <1>31, <1>11, <1>12, <1>13, <1>14, <1>15, <1>16, <1>17, <1>18, <1>19,
     <1>20, <1>21
     DEF PollStep, PollApply
<1>32. CASE Fault
  BY <1>32, <1>0, <1>5, <1>7, <1>9, <1>10 DEF Fault
<1>33. CASE Crash
  BY <1>33, <1>25, <1>26, <1>27 DEF Crash
<1>34. CASE \E c \in Calls : AdminStep(c)
  BY <1>34, <1>22, <1>23, <1>24 DEF AdminStep
<1>35. CASE \E w \in Orders \cup Instances : RefundStep(w)
  BY <1>0, <1>35
<1>36. ASSUME NEW i \in Instances, ProcessOrderRefund(i)
       PROVE  BaseInv'
  BY <1>0, <1>36
<1>37. ASSUME NEW o \in Orders, MarkOrderAsFailed(o)
       PROVE  BaseInv'
  BY <1>0, <1>37
<1>38. CASE Next
  BY <1>38, <1>1, <1>28, <1>30, <1>31, <1>32, <1>33, <1>34, <1>35, <1>36, <1>37
     DEF Next
<1> QED
  BY <1>29, <1>38

\* The inductive invariant, but for the account of refunds, holds in every state
\* whether or not a commit's acknowledgement can be lost.
THEOREM BaseInvariant == Spec => []BaseInv
<1>1. Init => BaseInv
  <2>1. Init => TypeOK
    BY WorkersAssumption, NumbersAssumption
       DEF Init, TypeOK, Workers, Statuses, Words, Verdicts, Replies, Rejections, Pcs, RefundPcs
  <2> QED
    BY <2>1, WorkersAssumption, NumbersAssumption
       DEF Init, BaseInv, WorkersInv, FreshInv, FlagsInv, RefundedLeavesQueue,
           NeverExhausted, Created, Queued, Settled, Workers
<1>2. BaseInv /\ [Next]_vars => BaseInv'
  BY TypeStep, BaseStep DEF BaseInv
<1> QED
  BY <1>1, <1>2, PTL DEF Spec

\* Money is returned only for orders that have left the queue, and none of them
\* goes back to it: the refund and its order's status are written by different
\* steps, in different transactions, and never in the wrong order.
THEOREM RefundedOrdersLeaveQueue == Spec => []RefundedLeavesQueue
<1>1. BaseInv => RefundedLeavesQueue
  BY DEF BaseInv
<1> QED
  BY <1>1, BaseInvariant, PTL

\* No poll, however stale the counts it read, brings an order of the queue to
\* MAX_RETRY_COUNT: MANUAL_REVIEW is not reachable.
THEOREM ManualReviewUnreachable == Spec => []NeverExhausted
<1>1. BaseInv => NeverExhausted
  BY DEF BaseInv
<1> QED
  BY <1>1, BaseInvariant, PTL

---------------------------------------------------------------------------
(* The account of refunds.                                                  *)

\* Sets of workers are finite; one worker more or less changes their number by
\* one.
LEMMA WorkerSets ==
    ASSUME NEW S \in SUBSET Workers, NEW w \in Workers
    PROVE  /\ Cardinality(S) \in Nat
           /\ w \notin S => Cardinality(S \cup {w}) = Cardinality(S) + 1
           /\ w \in S => Cardinality(S \ {w}) = Cardinality(S) - 1
<1>1. IsFiniteSet(Workers)
  BY FS_Union, WorkersAssumption DEF Workers
<1>2. IsFiniteSet(S)
  BY <1>1, FS_Subset
<1> QED
  BY <1>2, FS_CardinalityType, FS_AddElement, FS_RemoveElement

\* What is owed is an amount.
LEMMA OwedType ==
    ASSUME NEW o \in Orders
    PROVE  /\ Owed(o) \in Nat
           /\ Owed(o)' \in Nat
           /\ Price * (Cardinality(Claims(o)) + 1) \in Nat
           /\ Price * (Cardinality(Claims(o)) + 1) = Price * Cardinality(Claims(o)) + Price
<1>1. o \in Workers
  BY DEF Workers
<1>2. Claims(o) \in SUBSET Workers /\ Claims(o)' \in SUBSET Workers
  BY DEF Claims
<1>3. Cardinality(Claims(o)) \in Nat /\ Cardinality(Claims(o)') \in Nat
  BY <1>1, <1>2, WorkerSets
<1> QED
  BY <1>3, NumbersAssumption DEF Owed, Spare

\* So is what the lost acknowledgements have cost.
LEMMA SlackType ==
    ASSUME TypeOK
    PROVE  Slack \in Nat
BY NumbersAssumption DEF Slack, TypeOK

\* One refund more or less is one price more or less to be covered.
LEMMA OwedChange ==
    ASSUME NEW o \in Orders,
           NEW d \in {-1, 0, 1},
           Cardinality(Claims(o)') + Spare(o)' = Cardinality(Claims(o)) + Spare(o) + d
    PROVE  Owed(o)' = Owed(o) + d * Price
<1> DEFINE k == Cardinality(Claims(o)) + Spare(o)
           kk == Cardinality(Claims(o)') + Spare(o)'
<1>1. o \in Workers
  BY DEF Workers
<1>2. Claims(o) \in SUBSET Workers /\ Claims(o)' \in SUBSET Workers
  BY DEF Claims
<1>3. Cardinality(Claims(o)) \in Nat /\ Cardinality(Claims(o)') \in Nat
  BY <1>1, <1>2, WorkerSets
<1>4. k \in Nat /\ kk \in Nat /\ kk = k + d
  BY <1>3 DEF Spare
<1>5. Owed(o) = Price * k /\ Owed(o)' = Price * kk
  BY DEF Owed
<1> HIDE DEF k, kk
<1>6. Price * (k + d) = Price * k + d * Price
  BY <1>4, NumbersAssumption
<1> QED
  BY <1>4, <1>5, <1>6

\* The account of one step: an order may owe one refund more or less, as long as
\* the money moved makes up for it.
Balanced(o, d) ==
    /\ Cardinality(Claims(o)') + Spare(o)' = Cardinality(Claims(o)) + Spare(o) + d
    /\ credited'[o] + d * Price + charged[o] <= credited[o] + charged'[o]

\* Steps that are balanced for every order keep the account: no order is credited
\* and owed more than it was charged.
LEMMA LedgerKept ==
    ASSUME TypeOK, TypeOK', LedgerInv, UNCHANGED lostAcks,
           \A o \in Orders : Created(o)' =>
               Created(o) /\ \E d \in {-1, 0, 1} : Balanced(o, d)
    PROVE  LedgerInv'
<1> SUFFICES ASSUME NEW o \in Orders, Created(o)'
             PROVE  credited'[o] + Owed(o)' <= charged'[o] + Slack'
  BY DEF LedgerInv
<1>1. PICK d \in {-1, 0, 1} : Balanced(o, d)
  OBVIOUS
<1>2. Owed(o)' = Owed(o) + d * Price
  BY <1>1, OwedChange DEF Balanced
<1>3. credited[o] + Owed(o) <= charged[o] + Slack
  BY DEF LedgerInv
<1>4. /\ credited[o] \in Nat /\ charged[o] \in Nat
      /\ credited'[o] \in Nat /\ charged'[o] \in Nat
  BY DEF TypeOK
<1>5. Owed(o) \in Nat /\ d * Price \in Int
  BY OwedType, NumbersAssumption
<1>6. Slack' = Slack /\ Slack \in Nat
  BY SlackType DEF Slack
<1> QED
  BY <1>1, <1>2, <1>3, <1>4, <1>5, <1>6 DEF Balanced

\* Most steps touch neither the claims nor the money.
LEMMA LedgerUntouched ==
    ASSUME TypeOK, TypeOK', LedgerInv,
           UNCHANGED <<refunded, credited, charged, lostAcks>>,
           \A o \in Orders : Claims(o)' = Claims(o) /\ (Created(o)' => Created(o))
    PROVE  LedgerInv'
<1>1. \A o \in Orders : Created(o)' => Balanced(o, 0)
  <2> TAKE o \in Orders
  <2>1. o \in Workers /\ Claims(o) \in SUBSET Workers
    BY DEF Workers, Claims
  <2>2. Cardinality(Claims(o)) \in Nat
    BY <2>1, WorkerSets
  <2>3. credited[o] \in Nat /\ charged[o] \in Nat
    BY DEF TypeOK
  <2> QED
    BY <2>2, <2>3, NumbersAssumption DEF Balanced, Spare
<1> QED
  BY <1>1, LedgerKept


\* Two sets of workers that agree outside one worker.
LEMMA WorkerSetsDiffer ==
    ASSUME NEW S \in SUBSET Workers, NEW T \in SUBSET Workers, NEW w \in Workers,
           T \ {w} = S \ {w}
    PROVE  /\ Cardinality(S) \in Nat
           /\ (w \in S <=> w \in T) => Cardinality(T) = Cardinality(S)
           /\ w \notin S /\ w \in T => Cardinality(T) = Cardinality(S) + 1
           /\ w \in S /\ w \notin T => Cardinality(T) = Cardinality(S) - 1
<1>1. Cardinality(S) \in Nat
  BY WorkerSets
<1>2. CASE w \in S <=> w \in T
  <2>1. S = T
    BY <1>2
  <2> QED
    BY <1>1, <1>2, <2>1
<1>3. CASE w \notin S /\ w \in T
  <2>1. T = S \cup {w}
    BY <1>3
  <2>2. Cardinality(S \cup {w}) = Cardinality(S) + 1
    BY <1>3, WorkerSets
  <2> QED
    BY <1>1, <1>3, <2>1, <2>2
<1>4. CASE w \in S /\ w \notin T
  <2>1. T = S \ {w}
    BY <1>4
  <2>2. Cardinality(S \ {w}) = Cardinality(S) - 1
    BY <1>4, WorkerSets
  <2> QED
    BY <1>1, <1>4, <2>1, <2>2
<1> QED
  BY <1>2, <1>3, <1>4

\* The number of claims on an order is a number.
LEMMA ClaimsType ==
    ASSUME NEW x \in Orders
    PROVE  Cardinality(Claims(x)) \in Nat
<1>1. x \in Workers /\ Claims(x) \in SUBSET Workers
  BY DEF Workers, Claims
<1> QED
  BY <1>1, WorkerSets

\* What a step of one worker does to the number of claims on an order.
LEMMA ClaimsChange ==
    ASSUME NEW x \in Orders, NEW w \in Workers,
           Claims(x)' \ {w} = Claims(x) \ {w}
    PROVE  /\ Cardinality(Claims(x)) \in Nat
           /\ (w \in Claims(x) <=> w \in Claims(x)')
                => Cardinality(Claims(x)') = Cardinality(Claims(x))
           /\ w \notin Claims(x) /\ w \in Claims(x)'
                => Cardinality(Claims(x)') = Cardinality(Claims(x)) + 1
           /\ w \in Claims(x) /\ w \notin Claims(x)'
                => Cardinality(Claims(x)') = Cardinality(Claims(x)) - 1
<1>1. Claims(x) \in SUBSET Workers /\ Claims(x)' \in SUBSET Workers
  BY DEF Claims
<1> QED
  BY <1>1, WorkerSetsDiffer, Zenon

\* A new order is charged its price and may be refunded once.
LEMMA CreateLedger ==
    ASSUME TypeOK, TypeOK', WorkersInv, FreshInv, LedgerInv, UNCHANGED lostAcks,
           NEW o \in Orders, CreateOrder(o)
    PROVE  LedgerInv'
<1>1. \A x \in Orders : Claims(x)' = Claims(x)
  BY WorkersAssumption
     DEF CreateOrder, TypeOK, WorkersInv, Workers, Claims, orderVars,
         ledgerVars, pollVars, boundVars
<1>2. Claims(o) = {}
  BY DEF CreateOrder, Claims, WorkersInv, Settled, Created, Workers
<1>3. Owed(o)' = Price
  BY <1>1, <1>2, FS_EmptySet, NumbersAssumption
     DEF CreateOrder, FreshInv, Created, Owed, Spare
<1>4. \A x \in Orders : x # o => /\ Owed(x)' = Owed(x)
                               /\ UNCHANGED <<status[x], credited[x], charged[x]>>
  BY <1>1 DEF CreateOrder, TypeOK, Owed, Spare
<1>5. charged'[o] = Price /\ credited'[o] = 0
  BY NumbersAssumption DEF CreateOrder, TypeOK, FreshInv, Created
<1>6. Price \in Nat /\ Slack \in Nat /\ Slack' = Slack
  BY NumbersAssumption, SlackType DEF Slack
<1> QED
  BY <1>3, <1>4, <1>5, <1>6 DEF LedgerInv, Created

\* A step on one order: nothing moves elsewhere.
LEMMA LedgerOfOne ==
    ASSUME TypeOK, TypeOK', LedgerInv, UNCHANGED lostAcks,
           NEW o \in Orders, NEW d \in {-1, 0, 1}, Balanced(o, d),
           \A x \in Orders : Created(x)' => Created(x),
           \A x \in Orders \ {o} : /\ Claims(x)' = Claims(x)
                                   /\ UNCHANGED <<refunded[x], credited[x], charged[x]>>
    PROVE  LedgerInv'
<1> SUFFICES ASSUME NEW x \in Orders
             PROVE  \E e \in {-1, 0, 1} : Balanced(x, e)
  BY LedgerKept
<1>1. CASE x = o
  BY <1>1
<1>2. CASE x # o
  <2>1. Cardinality(Claims(x)) \in Nat
    BY ClaimsType
  <2>2. Spare(x)' = Spare(x) /\ Spare(x) \in Nat
    BY <1>2 DEF Spare
  <2>3. credited[x] \in Nat /\ charged[x] \in Nat
    BY DEF TypeOK
  <2>4. Balanced(x, 0)
    BY <1>2, <2>1, <2>2, <2>3, NumbersAssumption DEF Balanced
  <2> QED
    BY <2>4
<1> QED
  BY <1>1, <1>2

\* refundFailedOrder: the swap turns the spare refund into a claim ...
LEMMA SwapLedger ==
    ASSUME TypeOK, TypeOK', WorkersInv, LedgerInv, UNCHANGED lostAcks,
           NEW w \in Orders \cup Instances, RefundSwap(w)
    PROVE  LedgerInv'
<1>1. w \in Workers /\ target[w] \in Orders /\ w \notin Calls
  BY WorkersAssumption DEF RefundSwap, WorkersInv, Workers
<1>2. PICK o \in Orders : o = target[w]
  BY <1>1
<1>3. CASE CanSwap(o)
  <2>1. /\ \A x \in Orders : Claims(x)' \ {w} = Claims(x) \ {w}
        /\ \A x \in Orders \ {o} : Claims(x)' = Claims(x)
        /\ w \notin Claims(o)
        /\ w \in Claims(o)'
    BY <1>1, <1>2, <1>3 DEF RefundSwap, Claims, TypeOK
  <2>2. Cardinality(Claims(o)) \in Nat /\ Cardinality(Claims(o)') = Cardinality(Claims(o)) + 1
    BY <1>1, <2>1, ClaimsChange, Zenon
  <2>3. Spare(o) = 1 /\ Spare(o)' = 0
    BY <1>2, <1>3 DEF RefundSwap, CanSwap, Spare, TypeOK
  <2>4. /\ credited[o] \in Nat /\ charged[o] \in Nat
        /\ UNCHANGED <<credited, charged>>
    BY DEF RefundSwap, TypeOK, ledgerVars
  <2>5. Balanced(o, 0)
    BY <2>2, <2>3, <2>4, NumbersAssumption DEF Balanced
  <2>6. /\ \A x \in Orders : Created(x)' => Created(x)
        /\ \A x \in Orders \ {o} : UNCHANGED refunded[x]
    BY <1>2, <1>3 DEF RefundSwap, Created, TypeOK
  <2> QED
    BY <2>1, <2>4, <2>5, <2>6, LedgerOfOne
<1>4. CASE ~CanSwap(o)
  BY <1>1, <1>2, <1>4, LedgerUntouched
     DEF RefundSwap, Claims, Created, TypeOK, ledgerVars
<1> QED
  BY <1>3, <1>4

\* ... the credit pays a claim ...
LEMMA CreditLedger ==
    ASSUME TypeOK, TypeOK', WorkersInv, LedgerInv, UNCHANGED lostAcks,
           NEW w \in Orders \cup Instances, RefundCredit(w)
    PROVE  LedgerInv'
<1>1. w \in Workers /\ target[w] \in Orders /\ w \notin Calls
  BY WorkersAssumption DEF RefundCredit, WorkersInv, Workers
<1>2. PICK o \in Orders : o = target[w]
  BY <1>1
<1>3. /\ \A x \in Orders : Claims(x)' \ {w} = Claims(x) \ {w}
      /\ \A x \in Orders \ {o} : Claims(x)' = Claims(x)
      /\ w \in Claims(o)
      /\ w \notin Claims(o)'
  BY <1>1, <1>2 DEF RefundCredit, Claims, TypeOK
<1>4. Cardinality(Claims(o)) \in Nat /\ Cardinality(Claims(o)') = Cardinality(Claims(o)) - 1
  BY <1>1, <1>3, ClaimsChange, Zenon
<1>5. UNCHANGED <<refunded, charged>>
  BY DEF RefundCredit, orderVars
<1>6. Spare(o)' = Spare(o) /\ Spare(o) \in Nat
  BY <1>5 DEF Spare
<1>7. /\ credited[o] \in Nat /\ charged[o] \in Nat
      /\ credited'[o] = credited[o] + Price
      /\ \A x \in Orders \ {o} : UNCHANGED credited[x]
  BY <1>2 DEF RefundCredit, TypeOK
<1>8. Balanced(o, -1)
  BY <1>4, <1>5, <1>6, <1>7, NumbersAssumption DEF Balanced
<1>9. \A x \in Orders : Created(x)' => Created(x)
  BY DEF RefundCredit, Created, orderVars
<1> QED
  BY <1>3, <1>5, <1>7, <1>8, <1>9, LedgerOfOne

\* ... and the undo turns it back into a spare refund.
LEMMA UndoLedger ==
    ASSUME TypeOK, TypeOK', WorkersInv, LedgerInv, UNCHANGED lostAcks,
           NEW w \in Orders \cup Instances, RefundUndo(w)
    PROVE  LedgerInv'
<1>1. w \in Workers /\ target[w] \in Orders /\ w \notin Calls
  BY WorkersAssumption DEF RefundUndo, WorkersInv, Workers
<1>2. PICK o \in Orders : o = target[w]
  BY <1>1
<1>3. /\ \A x \in Orders : Claims(x)' \ {w} = Claims(x) \ {w}
      /\ \A x \in Orders \ {o} : Claims(x)' = Claims(x)
      /\ w \in Claims(o)
      /\ w \notin Claims(o)'
  BY <1>1, <1>2 DEF RefundUndo, Claims, TypeOK
<1>4. Cardinality(Claims(o)) \in Nat /\ Cardinality(Claims(o)') = Cardinality(Claims(o)) - 1
  BY <1>1, <1>3, ClaimsChange, Zenon
<1>5. /\ credited[o] \in Nat /\ charged[o] \in Nat
      /\ UNCHANGED <<credited, charged>>
  BY DEF RefundUndo, TypeOK, ledgerVars
<1>6. Spare(o)' = 1 /\ Spare(o) \in {0, 1}
  BY <1>2 DEF RefundUndo, Spare, TypeOK
<1>7. \E d \in {-1, 0} : Balanced(o, d)
  <2>1. CASE Spare(o) = 1
    <3>1. Cardinality(Claims(o)') + Spare(o)' = Cardinality(Claims(o)) + Spare(o) + (-1)
      BY <1>4, <1>6, <2>1
    <3>2. credited'[o] + (-1) * Price + charged[o] <= credited[o] + charged'[o]
      BY <1>5, NumbersAssumption
    <3>3. Balanced(o, -1)
      BY <3>1, <3>2, Zenon DEF Balanced
    <3> QED
      BY <3>3
  <2>2. CASE Spare(o) = 0
    <3>1. Balanced(o, 0)
      BY <1>4, <1>5, <1>6, <2>2, NumbersAssumption DEF Balanced
    <3> QED
      BY <3>1
  <2> QED
    BY <1>6, <2>1, <2>2
<1>8. /\ \A x \in Orders : Created(x)' => Created(x)
      /\ \A x \in Orders \ {o} : UNCHANGED refunded[x]
  BY <1>2 DEF RefundUndo, Created, TypeOK
<1> QED
  BY <1>3, <1>5, <1>7, <1>8, LedgerOfOne

\* The failure of the credit leaves the claim where it was; if the credit was
\* applied after all, the slack pays for it.
LEMMA AbortLedger ==
    ASSUME TypeOK, TypeOK', WorkersInv, LedgerInv,
           NEW w \in Orders \cup Instances, RefundAbort(w)
    PROVE  LedgerInv'
<1>1. w \in Workers /\ target[w] \in Orders /\ w \notin Calls
  BY WorkersAssumption DEF RefundAbort, WorkersInv, Workers
<1>2. \A x \in Orders : Claims(x)' = Claims(x)
  BY <1>1 DEF RefundAbort, Claims, TypeOK
<1>3. /\ UNCHANGED <<status, refunded, charged>>
      /\ \A x \in Orders : Created(x)' => Created(x)
  BY DEF RefundAbort, orderVars, Created
<1>4. CASE UNCHANGED <<credited, lostAcks>>
  BY <1>2, <1>3, <1>4, LedgerUntouched
<1>5. CASE /\ credited' = [credited EXCEPT ![target[w]] = @ + Price]
           /\ lostAcks' = lostAcks + 1
  <2> SUFFICES ASSUME NEW x \in Orders, Created(x)
               PROVE  credited'[x] + Owed(x)' <= charged'[x] + Slack'
    BY <1>3 DEF LedgerInv
  <2>1. Owed(x)' = Owed(x) /\ Owed(x) \in Nat
    BY <1>2, <1>3, OwedType DEF Owed, Spare
  <2>2. lostAcks \in Nat /\ Price \in Nat
    BY NumbersAssumption DEF TypeOK
  <2>3. Slack' = Slack + Price /\ Slack \in Nat
    BY <1>5, <2>2, SlackType DEF Slack
  <2>4. /\ credited[x] \in Nat /\ charged[x] \in Nat
        /\ credited'[x] \in {credited[x], credited[x] + Price}
    BY <1>5 DEF TypeOK
  <2>5. credited[x] + Owed(x) <= charged[x] + Slack
    BY DEF LedgerInv
  <2> QED
    BY <1>3, <2>1, <2>2, <2>3, <2>4, <2>5
<1> QED
  BY <1>4, <1>5 DEF RefundAbort

\* A refund given up, and the crash of a worker, only lose claims.
LEMMA LedgerDrops ==
    ASSUME TypeOK, TypeOK', LedgerInv, NEW w \in Workers,
           UNCHANGED <<status, refunded, credited, charged, lostAcks>>,
           \A x \in Orders : /\ Claims(x)' \ {w} = Claims(x) \ {w}
                             /\ w \in Claims(x)' => w \in Claims(x)
    PROVE  LedgerInv'
<1> SUFFICES ASSUME NEW x \in Orders
             PROVE  \E e \in {-1, 0, 1} : Balanced(x, e)
  BY LedgerKept DEF Created
<1>1. /\ credited[x] \in Nat /\ charged[x] \in Nat
      /\ Spare(x)' = Spare(x) /\ Spare(x) \in Nat
      /\ Cardinality(Claims(x)) \in Nat
  BY ClaimsType DEF TypeOK, Spare
<1>2. CASE w \in Claims(x) /\ w \notin Claims(x)'
  <2>1. Cardinality(Claims(x)') = Cardinality(Claims(x)) - 1
    BY <1>2, ClaimsChange, Zenon
  <2>2. Balanced(x, -1)
    BY <1>1, <2>1, NumbersAssumption DEF Balanced
  <2> QED
    BY <2>2
<1>3. CASE ~(w \in Claims(x) /\ w \notin Claims(x)')
  <2>1. w \in Claims(x) <=> w \in Claims(x)'
    BY <1>3
  <2>2. Cardinality(Claims(x)') = Cardinality(Claims(x))
    BY <2>1, ClaimsChange, Zenon
  <2>3. Balanced(x, 0)
    BY <1>1, <2>2, NumbersAssumption DEF Balanced
  <2> QED
    BY <2>3
<1> QED
  BY <1>2, <1>3

\* A database error in the swap or the undo.
LEMMA GivenUpLedger ==
    ASSUME TypeOK, TypeOK', WorkersInv, LedgerInv, UNCHANGED lostAcks,
           NEW w \in Orders \cup Instances, RefundGivenUp(w)
    PROVE  LedgerInv'
<1>1. w \in Workers
  BY DEF Workers
<1>2. \A x \in Orders : /\ Claims(x)' \ {w} = Claims(x) \ {w}
                        /\ w \in Claims(x)' => w \in Claims(x)
  BY <1>1, WorkersAssumption DEF RefundGivenUp, Claims, TypeOK, Workers
<1> QED
  BY <1>1, <1>2, LedgerDrops DEF RefundGivenUp, orderVars, ledgerVars

\* A crash of any worker, at any step.
LEMMA CrashLedger ==
    ASSUME TypeOK, TypeOK', WorkersInv, LedgerInv, Crash
    PROVE  LedgerInv'
<1>1. UNCHANGED <<status, refunded, credited, charged, lostAcks>>
  BY DEF Crash, CrashExecutor, CrashPoller, CrashCall, Crashed, orderVars,
         ledgerVars
<1> SUFFICES \E w \in Workers : \A x \in Orders :
               /\ Claims(x)' \ {w} = Claims(x) \ {w}
               /\ w \in Claims(x)' => w \in Claims(x)
  BY <1>1, LedgerDrops
<1>2. ASSUME NEW o \in Orders, CrashExecutor(o)
      PROVE  \A x \in Orders : /\ Claims(x)' \ {o} = Claims(x) \ {o}
                               /\ o \in Claims(x)' => o \in Claims(x)
  BY <1>2, WorkersAssumption DEF CrashExecutor, Claims, TypeOK, Workers
<1>3. ASSUME NEW i \in Instances, CrashPoller(i)
      PROVE  \A x \in Orders : /\ Claims(x)' \ {i} = Claims(x) \ {i}
                               /\ i \in Claims(x)' => i \in Claims(x)
  BY <1>3, WorkersAssumption DEF CrashPoller, Claims, TypeOK, Workers
<1>4. ASSUME NEW c \in Calls, CrashCall(c)
      PROVE  \A x \in Orders : /\ Claims(x)' \ {c} = Claims(x) \ {c}
                               /\ c \in Claims(x)' => c \in Claims(x)
  BY <1>4, WorkersAssumption DEF CrashCall, Claims, TypeOK, Workers, pollVars
<1> QED
  BY <1>2, <1>3, <1>4 DEF Crash, Workers

\* processOrderRefund pays at most the price, and only an unmarked order.
LEMMA ProcessRefundLedger ==
    ASSUME TypeOK, TypeOK', WorkersInv, LedgerInv, UNCHANGED lostAcks,
           NEW i \in Instances, ProcessOrderRefund(i)
    PROVE  LedgerInv'
<1>1. i \in Workers /\ target[i] \in Orders /\ i \notin Calls
  BY WorkersAssumption DEF ProcessOrderRefund, WorkersInv, Workers
<1>2. PICK o \in Orders : o = target[i]
  BY <1>1
<1>3. /\ \A x \in Orders : Claims(x)' = Claims(x)
      /\ \A x \in Orders : Created(x)' => Created(x)
  BY <1>1 DEF ProcessOrderRefund, Claims, Created, TypeOK
<1>4. PICK a \in 0..Price : a = RefundAmount(remains[i])
  BY RefundAmountBound DEF TypeOK
<1>5. CASE CanSwap(o) /\ a > 0
  <2>1. Spare(o) = 1 /\ Spare(o)' = 0
    BY <1>2, <1>4, <1>5 DEF ProcessOrderRefund, CanSwap, Spare, TypeOK
  <2>2. /\ credited[o] \in Nat /\ charged[o] \in Nat
        /\ credited'[o] = credited[o] + a
        /\ UNCHANGED charged
        /\ \A x \in Orders \ {o} : UNCHANGED <<credited[x], refunded[x]>>
    BY <1>2, <1>4, <1>5 DEF ProcessOrderRefund, CanSwap, TypeOK
  <2>3. Cardinality(Claims(o)) \in Nat /\ Cardinality(Claims(o)') = Cardinality(Claims(o))
    BY <1>3, ClaimsType
  <2>4. Balanced(o, -1)
    BY <2>1, <2>2, <2>3, NumbersAssumption DEF Balanced
  <2> QED
    BY <1>3, <2>2, <2>4, LedgerOfOne
<1>6. CASE ~(CanSwap(o) /\ a > 0)
  <2>1. UNCHANGED <<refunded, credited, charged>>
    BY <1>2, <1>4, <1>6 DEF ProcessOrderRefund
  <2> QED
    BY <1>3, <2>1, LedgerUntouched
<1> QED
  BY <1>5, <1>6

\* markOrderAsFailed pays the price, and only an unmarked order.
LEMMA FailLedger ==
    ASSUME TypeOK, TypeOK', FlagsInv, LedgerInv, UNCHANGED lostAcks,
           NEW o \in Orders, MarkOrderAsFailed(o)
    PROVE  LedgerInv'
<1>1. /\ \A x \in Orders : Claims(x)' = Claims(x)
      /\ \A x \in Orders : Created(x)' => Created(x)
  BY DEF MarkOrderAsFailed, CanFail, Claims, Created, TypeOK
<1>2. Spare(o) = 1 /\ Spare(o)' = 0
  BY DEF MarkOrderAsFailed, CanFail, FlagsInv, Spare, TypeOK
<1>3. /\ credited[o] \in Nat /\ charged[o] \in Nat
      /\ credited'[o] = credited[o] + Price
      /\ UNCHANGED charged
      /\ \A x \in Orders \ {o} : UNCHANGED <<credited[x], refunded[x]>>
  BY DEF MarkOrderAsFailed, TypeOK
<1>4. Cardinality(Claims(o)) \in Nat /\ Cardinality(Claims(o)') = Cardinality(Claims(o))
  BY <1>1, ClaimsType
<1>5. Balanced(o, -1)
  BY <1>2, <1>3, <1>4, NumbersAssumption DEF Balanced
<1> QED
  BY <1>1, <1>3, <1>5, LedgerOfOne

\* completeOrder: the second charge covers the mark it is about to clear ...
LEMMA DebitLedger ==
    ASSUME TypeOK, TypeOK', WorkersInv, LedgerInv, UNCHANGED lostAcks,
           NEW c \in Calls, CompleteDebit(c)
    PROVE  LedgerInv'
<1>1. c \in Workers /\ target[c] \in Orders
  BY DEF CompleteDebit, WorkersInv, Workers
<1>2. PICK o \in Orders : o = target[c]
  BY <1>1
<1>3. /\ \A x \in Orders : Claims(x)' \ {c} = Claims(x) \ {c}
      /\ \A x \in Orders \ {o} : Claims(x)' = Claims(x)
      /\ c \notin Claims(o)
  BY <1>1, <1>2 DEF CompleteDebit, Claims, TypeOK, WorkersInv
<1>4. UNCHANGED <<refunded, credited>>
  BY DEF CompleteDebit, orderVars
<1>5. Spare(o)' = Spare(o) /\ Spare(o) \in Nat
  BY <1>4 DEF Spare
<1>6. /\ credited[o] \in Nat /\ charged[o] \in Nat
      /\ charged'[o] = charged[o] + Price
      /\ \A x \in Orders \ {o} : UNCHANGED charged[x]
  BY <1>2 DEF CompleteDebit, TypeOK
<1>7. \E d \in {0, 1} : Balanced(o, d)
  <2>1. CASE c \in Claims(o)'
    <3>1. Cardinality(Claims(o)) \in Nat /\ Cardinality(Claims(o)') = Cardinality(Claims(o)) + 1
      BY <1>1, <1>3, <2>1, ClaimsChange, Zenon
    <3>2. Balanced(o, 1)
      BY <1>4, <1>5, <1>6, <3>1, NumbersAssumption DEF Balanced
    <3> QED
      BY <3>2
  <2>2. CASE c \notin Claims(o)'
    <3>1. Claims(o)' = Claims(o)
      BY <1>3, <2>2
    <3>2. Cardinality(Claims(o)) \in Nat /\ Cardinality(Claims(o)') = Cardinality(Claims(o))
      BY <3>1, ClaimsType
    <3>3. Balanced(o, 0)
      BY <1>4, <1>5, <1>6, <3>2, NumbersAssumption DEF Balanced
    <3> QED
      BY <3>3
  <2> QED
    BY <2>1, <2>2
<1>8. \A x \in Orders : Created(x)' => Created(x)
  BY DEF CompleteDebit, Created, orderVars
<1> QED
  BY <1>3, <1>4, <1>6, <1>7, <1>8, LedgerOfOne

\* ... and the save clears it.
LEMMA SaveLedger ==
    ASSUME TypeOK, TypeOK', WorkersInv, LedgerInv, UNCHANGED lostAcks,
           NEW c \in Calls, CompleteSave(c)
    PROVE  LedgerInv'
<1>1. c \in Workers /\ target[c] \in Orders /\ Created(target[c])
  BY DEF CompleteSave, WorkersInv, Workers
<1>2. PICK o \in Orders : o = target[c]
  BY <1>1
<1>3. /\ \A x \in Orders : Claims(x)' \ {c} = Claims(x) \ {c}
      /\ \A x \in Orders \ {o} : Claims(x)' = Claims(x)
      /\ c \notin Claims(o)'
      /\ c \in Claims(o) <=> sawRefunded[c]
  BY <1>1, <1>2, WorkersAssumption DEF CompleteSave, Claims, TypeOK, WorkersInv
<1>4. /\ credited[o] \in Nat /\ charged[o] \in Nat
      /\ UNCHANGED <<credited, charged>>
  BY DEF CompleteSave, TypeOK, ledgerVars
<1>5. /\ \A x \in Orders : Created(x)' => Created(x)
      /\ \A x \in Orders \ {o} : UNCHANGED refunded[x]
  BY <1>1, <1>2 DEF CompleteSave, Created, TypeOK
<1>6. CASE sawRefunded[c]
  <2>1. Cardinality(Claims(o)) \in Nat /\ Cardinality(Claims(o)') = Cardinality(Claims(o)) - 1
    BY <1>1, <1>3, <1>6, ClaimsChange, Zenon
  <2>2. Spare(o)' = 1 /\ Spare(o) \in {0, 1}
    BY <1>2, <1>6 DEF CompleteSave, Spare, TypeOK
  <2>3. \E d \in {-1, 0} : Balanced(o, d)
    <3>1. CASE Spare(o) = 1
      <4>1. Cardinality(Claims(o)') + Spare(o)' = Cardinality(Claims(o)) + Spare(o) + (-1)
        BY <2>1, <2>2, <3>1
      <4>2. credited'[o] + (-1) * Price + charged[o] <= credited[o] + charged'[o]
        BY <1>4, NumbersAssumption
      <4>3. Balanced(o, -1)
        BY <4>1, <4>2, Zenon DEF Balanced
      <4> QED
        BY <4>3
    <3>2. CASE Spare(o) = 0
      <4>1. Balanced(o, 0)
        BY <1>4, <2>1, <2>2, <3>2, NumbersAssumption DEF Balanced
      <4> QED
        BY <4>1
    <3> QED
      BY <2>2, <3>1, <3>2
  <2> QED
    BY <1>3, <1>4, <1>5, <2>3, LedgerOfOne
<1>7. CASE ~sawRefunded[c]
  <2>1. Claims(o)' = Claims(o)
    BY <1>3, <1>7
  <2>2. refunded'[o] = refunded[o]
    BY <1>2, <1>7 DEF CompleteSave, TypeOK
  <2>3. Cardinality(Claims(o)) \in Nat /\ Cardinality(Claims(o)') = Cardinality(Claims(o))
    BY <2>1, ClaimsType
  <2>4. Spare(o)' = Spare(o) /\ Spare(o) \in Nat
    BY <2>2 DEF Spare
  <2>5. Balanced(o, 0)
    BY <1>4, <2>3, <2>4, NumbersAssumption DEF Balanced
  <2> QED
    BY <1>3, <1>4, <1>5, <2>5, LedgerOfOne
<1> QED
  BY <1>6, <1>7


\* Every other step leaves the money and the claims alone.
Still ==
    /\ UNCHANGED <<refunded, credited, charged, lostAcks>>
    /\ \A x \in Orders : Claims(x)' = Claims(x) /\ (Created(x)' => Created(x))

\* Every action keeps the account.
LEMMA LedgerStep ==
    ASSUME TypeOK, WorkersInv, FreshInv, FlagsInv, NeverExhausted, LedgerInv,
           TypeOK', [Next]_vars
    PROVE  LedgerInv'
<1>0. Still => LedgerInv'
  BY LedgerUntouched DEF Still
<1>1. ASSUME NEW o \in Orders, CreateOrder(o)
      PROVE  LedgerInv'
  BY <1>1, CreateLedger DEF CreateOrder, boundVars
<1>2. ASSUME NEW o \in Orders, ExecuteRead(o)
      PROVE  Still
  BY <1>2, WorkersAssumption, NumbersAssumption
     DEF ExecuteRead,
         Still, TypeOK, WorkersInv, NeverExhausted, Settled, Created, Queued,
         Claims, Workers, orderVars, ledgerVars, pollVars, boundVars
<1>3. ASSUME NEW o \in Orders, ExecutePlace(o)
      PROVE  Still
  BY <1>3, WorkersAssumption, NumbersAssumption
     DEF ExecutePlace,
         Still, TypeOK, WorkersInv, NeverExhausted, Settled, Created, Queued,
         Claims, Workers, orderVars, ledgerVars, pollVars, boundVars
<1>4. ASSUME NEW o \in Orders, ExecutePersist(o)
      PROVE  Still
  <2>1. \A x \in Orders : Created(x)' => Created(x)
    BY <1>4 DEF ExecutePersist, Created, TypeOK, WorkersInv
  <2>2. /\ refundPc[o] = "no"
        /\ refundPc'[o] \in {"no", "swap"}
        /\ \A w \in Workers : w # o => refundPc'[w] = refundPc[w]
    BY <1>4, WorkersAssumption DEF ExecutePersist, TypeOK, WorkersInv, Workers
  <2>3. UNCHANGED <<target, sawRefunded>> /\ \A c \in Calls : pc'[c] = pc[c]
    BY <1>4, WorkersAssumption DEF ExecutePersist, TypeOK, Workers
  <2>4. \A x \in Orders : Claims(x)' = Claims(x)
    BY <2>2, <2>3, WorkersAssumption DEF Claims
  <2> QED
    BY <1>4, <2>1, <2>4 DEF Still, ExecutePersist, ledgerVars, boundVars
<1>5. ASSUME NEW o \in Orders, ExecuteFatal(o)
      PROVE  Still
  BY <1>5, WorkersAssumption, NumbersAssumption
     DEF ExecuteFatal,
         Still, TypeOK, WorkersInv, NeverExhausted, Settled, Created, Queued,
         Claims, Workers, orderVars, ledgerVars, pollVars, boundVars
<1>6. ASSUME NEW o \in Orders, ExecuteCleanup(o)
      PROVE  Still
  <2>1. \A x \in Orders : Created(x)' => Created(x)
    BY <1>6 DEF ExecuteCleanup, Created, TypeOK, WorkersInv
  <2>2. /\ refundPc[o] = "no"
        /\ refundPc'[o] = "swap"
        /\ \A w \in Workers : w # o => refundPc'[w] = refundPc[w]
    BY <1>6, WorkersAssumption DEF ExecuteCleanup, TypeOK, WorkersInv, Workers
  <2>3. UNCHANGED <<target, sawRefunded>> /\ \A c \in Calls : pc'[c] = pc[c]
    BY <1>6, WorkersAssumption DEF ExecuteCleanup, TypeOK, Workers
  <2>4. \A x \in Orders : Claims(x)' = Claims(x)
    BY <2>2, <2>3, WorkersAssumption DEF Claims
  <2> QED
    BY <1>6, <2>1, <2>4 DEF Still, ExecuteCleanup, ledgerVars, boundVars
<1>7. ASSUME NEW o \in Orders, ExecuteCleanupFails(o)
      PROVE  Still
  BY <1>7, WorkersAssumption, NumbersAssumption
     DEF ExecuteCleanupFails,
         Still, TypeOK, WorkersInv, NeverExhausted, Settled, Created, Queued,
         Claims, Workers, orderVars, ledgerVars, pollVars, boundVars
<1>8. ASSUME NEW o \in Orders, ExecuteReturn(o)
      PROVE  Still
  BY <1>8, WorkersAssumption, NumbersAssumption
     DEF ExecuteReturn,
         Still, TypeOK, WorkersInv, NeverExhausted, Settled, Created, Queued,
         Claims, Workers, orderVars, ledgerVars, pollVars, boundVars
<1>9. ASSUME NEW w \in Orders \cup Instances, RefundSwap(w)
      PROVE  LedgerInv'
  BY <1>9, SwapLedger DEF RefundSwap, boundVars
<1>10. ASSUME NEW w \in Orders \cup Instances, RefundCredit(w)
       PROVE  LedgerInv'
  BY <1>10, CreditLedger DEF RefundCredit, boundVars
<1>11. ASSUME NEW w \in Orders \cup Instances, RefundAbort(w)
       PROVE  LedgerInv'
  BY <1>11, AbortLedger
<1>12. ASSUME NEW w \in Orders \cup Instances, RefundUndo(w)
       PROVE  LedgerInv'
  BY <1>12, UndoLedger DEF RefundUndo, boundVars
<1>13. ASSUME NEW w \in Orders \cup Instances, RefundGivenUp(w)
       PROVE  LedgerInv'
  BY <1>13, GivenUpLedger DEF RefundGivenUp, boundVars
<1>14. ASSUME NEW i \in Instances, ProcessOrderRefund(i)
       PROVE  LedgerInv'
  BY <1>14, ProcessRefundLedger DEF ProcessOrderRefund, boundVars
<1>15. ASSUME NEW i \in Instances, ProcessOrderRefundAbort(i)
       PROVE  Still
  BY <1>15, WorkersAssumption, NumbersAssumption
     DEF ProcessOrderRefundAbort,
         Still, TypeOK, WorkersInv, NeverExhausted, Settled, Created, Queued,
         Claims, Workers, orderVars, ledgerVars, pollVars, boundVars
<1>16. ASSUME NEW i \in Instances, PollFind(i)
       PROVE  Still
  BY <1>16, WorkersAssumption, NumbersAssumption
     DEF PollFind, Pollable,
         Still, TypeOK, WorkersInv, NeverExhausted, Settled, Created, Queued,
         Claims, Workers, orderVars, ledgerVars, pollVars, boundVars
<1>17. ASSUME NEW i \in Instances, NEW absent \in SUBSET batch[i],
              PollAnswer(i, absent)
       PROVE  Still
  BY <1>17, WorkersAssumption, NumbersAssumption
     DEF PollAnswer,
         Still, TypeOK, WorkersInv, NeverExhausted, Settled, Created, Queued,
         Claims, Workers, orderVars, ledgerVars, pollVars, boundVars
<1>18. ASSUME NEW i \in Instances, PollFail(i)
       PROVE  Still
  BY <1>18, WorkersAssumption, NumbersAssumption
     DEF PollFail,
         Still, TypeOK, WorkersInv, NeverExhausted, Settled, Created, Queued,
         Claims, Workers, orderVars, ledgerVars, pollVars, boundVars
<1>19. ASSUME NEW i \in Instances, NEW o \in Orders, PollSkip(i, o)
       PROVE  Still
  BY <1>19, WorkersAssumption, NumbersAssumption
     DEF PollSkip, TakeOrder,
         Still, TypeOK, WorkersInv, NeverExhausted, Settled, Created, Queued,
         Claims, Workers, orderVars, ledgerVars, pollVars, boundVars
<1>20. ASSUME NEW i \in Instances, NEW o \in Orders, PollPending(i, o)
       PROVE  Still
  BY <1>20, WorkersAssumption, NumbersAssumption
     DEF PollPending, TakeOrder,
         Still, TypeOK, WorkersInv, NeverExhausted, Settled, Created, Queued,
         Claims, Workers, orderVars, ledgerVars, pollVars, boundVars
<1>21. ASSUME NEW i \in Instances, NEW o \in Orders, PollExhaust(i, o)
       PROVE  Still
  BY <1>21, WorkersAssumption, NumbersAssumption
     DEF PollExhaust, TakeOrder,
         Still, TypeOK, WorkersInv, NeverExhausted, Settled, Created, Queued,
         Claims, Workers, orderVars, ledgerVars, pollVars, boundVars
<1>22. ASSUME NEW i \in Instances, NEW o \in Orders, PollComplete(i, o)
       PROVE  Still
  BY <1>22, WorkersAssumption, NumbersAssumption
     DEF PollComplete, Settle, TakeOrder, toInternalStatus,
         Still, TypeOK, WorkersInv, NeverExhausted, Settled, Created, Queued,
         Claims, Workers, orderVars, ledgerVars, pollVars, boundVars
<1>23. ASSUME NEW i \in Instances, NEW o \in Orders, PollPartial(i, o)
       PROVE  Still
  BY <1>23, WorkersAssumption, NumbersAssumption
     DEF PollPartial, Settle, TakeOrder, toInternalStatus,
         Still, TypeOK, WorkersInv, NeverExhausted, Settled, Created, Queued,
         Claims, Workers, orderVars, ledgerVars, pollVars, boundVars
<1>24. ASSUME NEW i \in Instances, NEW o \in Orders, PollCancel(i, o)
       PROVE  Still
  BY <1>24, WorkersAssumption, NumbersAssumption
     DEF PollCancel, Settle, TakeOrder, toInternalStatus,
         Still, TypeOK, WorkersInv, NeverExhausted, Settled, Created, Queued,
         Claims, Workers, orderVars, ledgerVars, pollVars, boundVars
<1>25. ASSUME NEW i \in Instances, NEW o \in Orders, PollReject(i, o)
       PROVE  Still
  BY <1>25, WorkersAssumption, NumbersAssumption
     DEF PollReject, Settle, TakeOrder, toInternalStatus,
         Still, TypeOK, WorkersInv, NeverExhausted, Settled, Created, Queued,
         Claims, Workers, orderVars, ledgerVars, pollVars, boundVars
<1>26. ASSUME NEW i \in Instances, PollDone(i)
       PROVE  Still
  BY <1>26, WorkersAssumption, NumbersAssumption
     DEF PollDone,
         Still, TypeOK, WorkersInv, NeverExhausted, Settled, Created, Queued,
         Claims, Workers, orderVars, ledgerVars, pollVars, boundVars
<1>27. ASSUME NEW o \in Orders, MarkOrderAsFailed(o)
       PROVE  LedgerInv'
  BY <1>27, FailLedger DEF MarkOrderAsFailed, boundVars
<1>28. ASSUME NEW c \in Calls, NEW o \in Orders, CompleteRead(c, o)
       PROVE  Still
  BY <1>28, WorkersAssumption, NumbersAssumption
     DEF CompleteRead, MayHaveBeenRefunded,
         Still, TypeOK, WorkersInv, NeverExhausted, Settled, Created, Queued,
         Claims, Workers, orderVars, ledgerVars, pollVars, boundVars
<1>29. ASSUME NEW c \in Calls, CompleteDebit(c)
       PROVE  LedgerInv'
  BY <1>29, DebitLedger DEF CompleteDebit, boundVars
<1>30. ASSUME NEW c \in Calls, CompleteSave(c)
       PROVE  LedgerInv'
  BY <1>30, SaveLedger DEF CompleteSave, boundVars
<1>31. ASSUME NEW o \in Orders, ProviderSettles(o)
       PROVE  Still
  BY <1>31, WorkersAssumption, NumbersAssumption
     DEF ProviderSettles,
         Still, TypeOK, WorkersInv, NeverExhausted, Settled, Created, Queued,
         Claims, Workers, orderVars, ledgerVars, pollVars, boundVars
<1>32. CASE Crash
  BY <1>32, CrashLedger
<1>33. CASE UNCHANGED vars
  <2>1. Still
    BY <1>33 DEF vars, Still, Claims, Created, orderVars, ledgerVars, boundVars
  <2> QED
    BY <1>0, <2>1
<1> QED
  BY <1>0, <1>1, <1>2, <1>3, <1>4, <1>5, <1>6, <1>7, <1>8, <1>9, <1>10,
     <1>11, <1>12, <1>13, <1>14, <1>15, <1>16, <1>17, <1>18, <1>19, <1>20,
     <1>21, <1>22, <1>23, <1>24, <1>25, <1>26, <1>27, <1>28, <1>29, <1>30,
     <1>31, <1>32, <1>33
     DEF Next, ExecutorStep, PollStep, PollApply, RefundStep, AdminStep,
         Fault

\* No order is ever credited more than it was charged, but for one price for each
\* commit that was reported as failed after it was applied: not by an executor, pollers of
\* several processes and administrators acting at once, and not across crashes.
THEOREM NoOverRefund == Spec => []NeverOverRefunded
<1>1. Init => IInv
  <2>1. Init => BaseInv /\ \A o \in Orders : ~Created(o)
    <3>1. Init => TypeOK
      BY WorkersAssumption, NumbersAssumption
         DEF Init, TypeOK, Workers, Statuses, Words, Verdicts, Replies, Rejections, Pcs, RefundPcs
    <3> QED
      BY <3>1, WorkersAssumption, NumbersAssumption
         DEF Init, BaseInv, WorkersInv, FreshInv, FlagsInv, RefundedLeavesQueue,
             NeverExhausted, Created, Queued, Settled, Workers
  <2> QED
    BY <2>1 DEF IInv, LedgerInv
<1>2. IInv /\ [Next]_vars => IInv'
  <2> SUFFICES ASSUME IInv, [Next]_vars
               PROVE  IInv'
    OBVIOUS
  <2>1. TypeOK'
    BY TypeStep DEF IInv, BaseInv
  <2> QED
    BY <2>1, BaseStep, LedgerStep DEF IInv, BaseInv
<1>3. IInv => NeverOverRefunded
  <2> SUFFICES ASSUME IInv, NEW o \in Orders
               PROVE  credited[o] <= charged[o] + Slack
    BY DEF NeverOverRefunded, Slack
  <2>1. credited[o] \in Nat /\ charged[o] \in Nat /\ Owed(o) \in Nat /\ Slack \in Nat
    BY OwedType, SlackType DEF IInv, BaseInv, TypeOK
  <2>2. CASE Created(o)
    BY <2>1, <2>2 DEF IInv, LedgerInv
  <2>3. CASE ~Created(o)
    BY <2>1, <2>3 DEF IInv, BaseInv, FreshInv
  <2> QED
    BY <2>2, <2>3
<1> QED
  BY <1>1, <1>2, <1>3, PTL DEF Spec

---------------------------------------------------------------------------
(* Marks and money.                                                         *)

\* A step that marks no order, takes no credit back and lets no refund drop
\* leaves every mark paid.
LEMMA PaidKept ==
    ASSUME PaidInv, BaseInv, TypeOK',
           UNCHANGED <<refunded, credited>>,
           faults <= faults', crashes <= crashes',
           \A w \in Workers : refundPc[w] \in {"credit", "undo"}
                                => refundPc'[w] = refundPc[w] /\ target'[w] = target[w],
           \A w \in Workers : refundPc'[w] = "undo" => refundPc[w] = "undo"
    PROVE  PaidInv'
<1>1. faults \in Nat /\ crashes \in Nat /\ faults' \in Nat /\ crashes' \in Nat
  BY NumbersAssumption DEF BaseInv, TypeOK
<1>2. \A o \in Orders : InFlight(o) \subseteq InFlight(o)'
  BY DEF InFlight
<1>3. RefundedMeansCredited'
  BY <1>1, <1>2 DEF PaidInv, RefundedMeansCredited
<1>4. UndoInv'
  BY <1>1 DEF PaidInv, UndoInv
<1> QED
  BY <1>3, <1>4 DEF PaidInv

\* Every action keeps every mark paid.
LEMMA PaidStep ==
    ASSUME PaidInv, BaseInv, TypeOK', [Next]_vars
    PROVE  PaidInv'
<1>0. /\ faults \in Nat /\ crashes \in Nat /\ faults' \in Nat /\ crashes' \in Nat
      /\ \A o \in Orders : credited[o] \in Nat
  BY NumbersAssumption DEF BaseInv, TypeOK
<1>1. ASSUME NEW w \in Orders \cup Instances, RefundSwap(w)
      PROVE  PaidInv'
  <2>1. PICK o \in Orders : o = target[w]
    BY <1>1 DEF RefundSwap, BaseInv, WorkersInv, Workers
  <2>2. /\ UNCHANGED <<credited, faults, crashes, target>>
        /\ refundPc[w] = "swap" /\ w \in Workers
    BY <1>1 DEF RefundSwap, ledgerVars, boundVars, Workers
  <2>3. CASE CanSwap(o)
    <3>1. /\ refunded' = [refunded EXCEPT ![o] = TRUE]
          /\ refundPc' = [refundPc EXCEPT ![w] = "credit"]
      BY <1>1, <2>1, <2>3 DEF RefundSwap
    <3>2. w \in InFlight(o)'
      BY <2>1, <2>2, <3>1 DEF InFlight, BaseInv, TypeOK
    <3>3. \A x \in Orders \ {o} : /\ refunded'[x] = refunded[x]
                                  /\ InFlight(x)' = InFlight(x)
      BY <2>1, <2>2, <3>1 DEF InFlight, BaseInv, TypeOK
    <3>4. RefundedMeansCredited'
      BY <2>2, <3>2, <3>3 DEF PaidInv, RefundedMeansCredited
    <3>5. UndoInv'
      BY <2>2, <3>1 DEF PaidInv, UndoInv, BaseInv, TypeOK
    <3> QED
      BY <3>4, <3>5 DEF PaidInv
  <2>4. CASE ~CanSwap(o)
    BY <1>0, <1>1, <2>1, <2>2, <2>4, PaidKept DEF RefundSwap, BaseInv, TypeOK
  <2> QED
    BY <2>3, <2>4
<1>2. ASSUME NEW w \in Orders \cup Instances, RefundCredit(w)
      PROVE  PaidInv'
  <2>1. PICK o \in Orders : o = target[w]
    BY <1>2 DEF RefundCredit, BaseInv, WorkersInv, Workers
  <2>2. /\ credited' = [credited EXCEPT ![o] = @ + Price]
        /\ refundPc' = [refundPc EXCEPT ![w] = "no"]
        /\ refundPc[w] = "credit" /\ w \in Workers
        /\ UNCHANGED <<refunded, target, faults, crashes>>
    BY <1>2, <2>1 DEF RefundCredit, orderVars, boundVars, Workers
  <2>3. credited'[o] > 0
    BY <1>0, <2>2, NumbersAssumption DEF BaseInv, TypeOK
  <2>4. \A x \in Orders \ {o} : /\ credited'[x] = credited[x]
                                /\ InFlight(x)' = InFlight(x)
    BY <2>1, <2>2 DEF InFlight, BaseInv, TypeOK
  <2>5. RefundedMeansCredited'
    BY <2>2, <2>3, <2>4 DEF PaidInv, RefundedMeansCredited
  <2>6. UndoInv'
    BY <2>2 DEF PaidInv, UndoInv, BaseInv, TypeOK
  <2> QED
    BY <2>5, <2>6 DEF PaidInv
<1>3. ASSUME NEW w \in Orders \cup Instances, RefundUndo(w)
      PROVE  PaidInv'
  <2>1. PICK o \in Orders : o = target[w]
    BY <1>3 DEF RefundUndo, BaseInv, WorkersInv, Workers
  <2>2. /\ refunded' = [refunded EXCEPT ![o] = FALSE]
        /\ refundPc' = [refundPc EXCEPT ![w] = "no"]
        /\ refundPc[w] = "undo" /\ w \in Workers
        /\ UNCHANGED <<credited, target, faults, crashes>>
    BY <1>3, <2>1 DEF RefundUndo, ledgerVars, boundVars, Workers
  <2>3. ~refunded'[o]
    BY <2>2 DEF BaseInv, TypeOK
  <2>4. \A x \in Orders \ {o} : /\ refunded'[x] = refunded[x]
                                /\ InFlight(x)' = InFlight(x)
    BY <2>1, <2>2 DEF InFlight, BaseInv, TypeOK
  <2>5. RefundedMeansCredited'
    BY <2>2, <2>3, <2>4 DEF PaidInv, RefundedMeansCredited
  <2>6. UndoInv'
    BY <2>2 DEF PaidInv, UndoInv, BaseInv, TypeOK
  <2> QED
    BY <2>5, <2>6 DEF PaidInv
<1>4. ASSUME NEW w \in Orders \cup Instances, RefundAbort(w)
      PROVE  PaidInv'
  <2>1. PICK o \in Orders : o = target[w]
    BY <1>4 DEF RefundAbort, BaseInv, WorkersInv, Workers
  <2>2. /\ refundPc' = [refundPc EXCEPT ![w] = "undo"]
        /\ refundPc[w] = "credit" /\ w \in Workers
        /\ faults' = faults + 1
        /\ UNCHANGED <<refunded, target, crashes>>
    BY <1>4 DEF RefundAbort, orderVars, Workers
  <2>3. \A x \in Orders : InFlight(x)' = InFlight(x)
    BY <2>2 DEF InFlight, BaseInv, TypeOK
  <2>4. \A x \in Orders : credited'[x] >= credited[x]
    <3>1. CASE UNCHANGED credited
      BY <1>0, <3>1
    <3>2. CASE credited' = [credited EXCEPT ![o] = @ + Price]
      BY <1>0, <3>2, NumbersAssumption DEF BaseInv, TypeOK
    <3> QED
      BY <1>4, <2>1, <3>1, <3>2 DEF RefundAbort
  <2>5. \A x \in Orders : credited'[x] \in Nat
    BY DEF TypeOK
  <2>6. RefundedMeansCredited'
    BY <1>0, <2>2, <2>3, <2>4, <2>5 DEF PaidInv, RefundedMeansCredited
  <2>7. UndoInv'
    BY <1>0, <2>2 DEF UndoInv
  <2> QED
    BY <2>6, <2>7 DEF PaidInv
<1>5. ASSUME NEW w \in Orders \cup Instances, RefundGivenUp(w)
      PROVE  PaidInv'
  <2>1. /\ refundPc' = [refundPc EXCEPT ![w] = "no"]
        /\ refundPc[w] \in {"swap", "undo"} /\ w \in Workers
        /\ faults' = faults + 1
        /\ UNCHANGED <<refunded, credited, target, crashes>>
    BY <1>5 DEF RefundGivenUp, orderVars, ledgerVars, Workers
  <2>2. CASE refundPc[w] = "swap"
    BY <1>0, <2>1, <2>2, PaidKept DEF BaseInv, TypeOK
  <2>3. CASE refundPc[w] = "undo"
    <3>1. faults' >= 2
      BY <1>0, <2>1, <2>3 DEF PaidInv, UndoInv
    <3>2. RefundedMeansCredited' /\ UndoInv'
      BY <1>0, <3>1 DEF RefundedMeansCredited, UndoInv
    <3> QED
      BY <3>2 DEF PaidInv
  <2> QED
    BY <2>1, <2>2, <2>3
<1>6. ASSUME NEW i \in Instances, ProcessOrderRefund(i)
      PROVE  PaidInv'
  <2>1. PICK o \in Orders : o = target[i]
    BY <1>6 DEF ProcessOrderRefund, BaseInv, WorkersInv, Workers
  <2>2. PICK a \in Nat : a = RefundAmount(remains[i])
    BY RefundAmountBound DEF BaseInv, TypeOK
  <2>3. /\ refundPc' = [refundPc EXCEPT ![i] = "no"]
        /\ refundPc[i] = "txn" /\ i \in Workers
        /\ UNCHANGED <<target, faults, crashes>>
    BY <1>6 DEF ProcessOrderRefund, boundVars, Workers
  <2>4. CASE CanSwap(o) /\ a > 0
    <3>1. /\ refunded' = [refunded EXCEPT ![o] = TRUE]
          /\ credited' = [credited EXCEPT ![o] = @ + a]
      BY <1>6, <2>1, <2>2, <2>4 DEF ProcessOrderRefund
    <3>2. credited'[o] > 0
      BY <1>0, <2>4, <3>1 DEF BaseInv, TypeOK
    <3>3. \A x \in Orders \ {o} : /\ credited'[x] = credited[x]
                                  /\ refunded'[x] = refunded[x]
      BY <3>1 DEF BaseInv, TypeOK
    <3>4. \A x \in Orders : InFlight(x)' = InFlight(x)
      BY <2>3 DEF InFlight, BaseInv, TypeOK
    <3>5. RefundedMeansCredited'
      BY <2>3, <3>2, <3>3, <3>4 DEF PaidInv, RefundedMeansCredited
    <3>6. UndoInv'
      BY <2>3 DEF PaidInv, UndoInv, BaseInv, TypeOK
    <3> QED
      BY <3>5, <3>6 DEF PaidInv
  <2>5. CASE ~(CanSwap(o) /\ a > 0)
    <3>1. UNCHANGED <<refunded, credited>>
      BY <1>6, <2>1, <2>2, <2>5 DEF ProcessOrderRefund
    <3> QED
      BY <1>0, <2>3, <3>1, PaidKept DEF BaseInv, TypeOK
  <2> QED
    BY <2>4, <2>5
<1>7. ASSUME NEW o \in Orders, MarkOrderAsFailed(o)
      PROVE  PaidInv'
  <2>1. /\ refunded' = [refunded EXCEPT ![o] = TRUE]
        /\ credited' = [credited EXCEPT ![o] = @ + Price]
        /\ UNCHANGED <<refundPc, target, faults, crashes>>
    BY <1>7 DEF MarkOrderAsFailed
  <2>2. credited'[o] > 0
    BY <1>0, <2>1, NumbersAssumption DEF BaseInv, TypeOK
  <2>3. \A x \in Orders \ {o} : /\ credited'[x] = credited[x]
                                /\ refunded'[x] = refunded[x]
    BY <2>1 DEF BaseInv, TypeOK
  <2>4. \A x \in Orders : InFlight(x)' = InFlight(x)
    BY <2>1 DEF InFlight
  <2>5. RefundedMeansCredited'
    BY <2>1, <2>2, <2>3, <2>4 DEF PaidInv, RefundedMeansCredited
  <2>6. UndoInv'
    BY <2>1 DEF PaidInv, UndoInv
  <2> QED
    BY <2>5, <2>6 DEF PaidInv
<1>8. ASSUME NEW c \in Calls, CompleteSave(c)
      PROVE  PaidInv'
  <2>1. PICK o \in Orders : o = target[c]
    BY <1>8 DEF CompleteSave, BaseInv, WorkersInv
  <2>2. /\ refunded' = [refunded EXCEPT ![o] = @ /\ ~sawRefunded[c]]
        /\ target' = [target EXCEPT ![c] = NoOrder]
        /\ UNCHANGED <<credited, refundPc, faults, crashes>>
    BY <1>8, <2>1 DEF CompleteSave, ledgerVars, boundVars
  <2>3. \A x \in Orders : refunded'[x] => refunded[x]
    BY <2>2 DEF BaseInv, TypeOK
  <2>4. \A x \in Orders : InFlight(x)' = InFlight(x)
    BY <2>2 DEF InFlight, BaseInv, TypeOK, WorkersInv
  <2>5. RefundedMeansCredited'
    BY <2>2, <2>3, <2>4 DEF PaidInv, RefundedMeansCredited
  <2>6. UndoInv'
    BY <2>2 DEF PaidInv, UndoInv
  <2> QED
    BY <2>5, <2>6 DEF PaidInv
<1>9. ASSUME Crash
      PROVE  PaidInv'
  <2>1. crashes' = crashes + 1 /\ UNCHANGED faults
    BY <1>9 DEF Crash, CrashExecutor, CrashPoller, CrashCall, Crashed
  <2>2. \A w \in Workers : refundPc'[w] = "undo" => refundPc[w] = "undo"
    BY <1>9 DEF Crash, CrashExecutor, CrashPoller, CrashCall, BaseInv, TypeOK
  <2>3. RefundedMeansCredited' /\ UndoInv'
    BY <1>0, <2>1, <2>2 DEF RefundedMeansCredited, UndoInv, PaidInv
  <2> QED
    BY <2>3 DEF PaidInv
<1>10. ASSUME NEW o \in Orders,
              \/ CreateOrder(o) \/ ExecutorStep(o) \/ ProviderSettles(o)
              \/ ExecuteFatal(o) \/ ExecuteCleanupFails(o)
       PROVE  PaidInv'
  <2>1. /\ UNCHANGED <<refunded, credited, target, crashes>>
        /\ faults <= faults'
    BY <1>0, <1>10
       DEF CreateOrder, ExecutorStep, ExecuteRead, ExecutePlace,
           ExecutePersist, ExecuteCleanup, ExecuteReturn, ProviderSettles,
           ExecuteFatal, ExecuteCleanupFails, orderVars, ledgerVars, boundVars
  <2>2. \/ UNCHANGED refundPc
        \/ /\ refundPc[o] = "no"
           /\ \E p \in {"no", "swap"} : refundPc' = [refundPc EXCEPT ![o] = p]
    <3>1. pc[o] \in {"reply", "fatal"} => refundPc[o] = "no"
      BY DEF BaseInv, WorkersInv
    <3> QED
      BY <1>10, <3>1
         DEF CreateOrder, ExecutorStep, ExecuteRead, ExecutePlace,
             ExecutePersist, ExecuteCleanup, ExecuteReturn, ProviderSettles,
             ExecuteFatal, ExecuteCleanupFails
  <2> QED
    BY <1>0, <2>1, <2>2, PaidKept DEF BaseInv, TypeOK
<1>11. ASSUME NEW i \in Instances, PollStep(i) \/ ProcessOrderRefundAbort(i)
       PROVE  PaidInv'
  <2>1. /\ UNCHANGED <<refunded, credited, crashes>>
        /\ faults <= faults'
    BY <1>0, <1>11
       DEF PollStep, PollFind, PollAnswer, PollFail, PollApply, PollSkip,
           PollPending, PollExhaust, PollComplete, PollPartial, PollCancel,
           PollReject, Settle, TakeOrder, PollDone, ProcessOrderRefundAbort,
           orderVars, ledgerVars, boundVars
  <2>2. \/ UNCHANGED <<refundPc, target>>
        \/ /\ refundPc[i] \in {"no", "txn"}
           /\ \/ UNCHANGED refundPc
              \/ \E p \in {"no", "swap", "txn"} :
                    refundPc' = [refundPc EXCEPT ![i] = p]
           /\ \/ UNCHANGED target
              \/ \E o \in Orders \cup {NoOrder} :
                    target' = [target EXCEPT ![i] = o]
    BY <1>11
       DEF PollStep, PollFind, PollAnswer, PollFail, PollApply, PollSkip,
           PollPending, PollExhaust, PollComplete, PollPartial, PollCancel,
           PollReject, Settle, TakeOrder, PollDone, ProcessOrderRefundAbort
  <2> QED
    BY <1>0, <2>1, <2>2, PaidKept DEF BaseInv, TypeOK
<1>12. ASSUME NEW c \in Calls, \/ \E o \in Orders : CompleteRead(c, o)
                               \/ CompleteDebit(c)
       PROVE  PaidInv'
  <2>1. /\ UNCHANGED <<refunded, credited, refundPc, faults, crashes>>
        /\ \A w \in Workers \ {c} : target'[w] = target[w]
    BY <1>12 DEF CompleteRead, CompleteDebit, BaseInv, TypeOK, orderVars,
                 ledgerVars, boundVars
  <2>2. refundPc[c] = "no"
    BY DEF BaseInv, WorkersInv
  <2> QED
    BY <1>0, <2>1, <2>2, PaidKept
<1>13. CASE UNCHANGED vars
  BY <1>0, <1>13, PaidKept DEF vars, orderVars, ledgerVars, boundVars
<1>14. CASE Next
  BY <1>14, <1>1, <1>2, <1>3, <1>4, <1>5, <1>6, <1>7, <1>8, <1>9, <1>10, <1>11,
     <1>12
     DEF Next, RefundStep, AdminStep, Fault
<1> QED
  BY <1>13, <1>14

\* A refund that is marked and not under way was paid, unless a process died or
\* the database failed twice.
THEOREM MarkedIsPaid == Spec => []RefundedMeansCredited
<1>1. Init => PaidInv
  BY DEF Init, PaidInv, RefundedMeansCredited, UndoInv
<1>2. PaidInv /\ BaseInv /\ TypeOK' /\ [Next]_vars => PaidInv'
  BY PaidStep
<1>3. BaseInv => TypeOK
  BY DEF BaseInv
<1>4. PaidInv => RefundedMeansCredited
  BY DEF PaidInv
<1> QED
  BY <1>1, <1>2, <1>3, <1>4, BaseInvariant, PTL DEF Spec

---------------------------------------------------------------------------
(* An undisturbed server.                                                   *)

\* No database error and no administrator's call is left to an undisturbed server.
LEMMA NothingHappens ==
    ASSUME Undisturbed, TypeOK
    PROVE  faults = 0 /\ ~(faults < MaxFaults) /\ calls = 0 /\ ~(calls < MaxCalls)
  BY DEF Undisturbed, TypeOK

\* On an undisturbed server a step of an executor changes its own order only, and
\* its order is still in the queue when it persists the reply.
LEMMA CalmExecutor ==
    ASSUME CalmInv, BaseInv, TypeOK', NEW o \in Orders,
           CreateOrder(o) \/ ExecutorStep(o)
    PROVE  /\ UNCHANGED <<refunded, credited, batch, target, retryCount>>
           /\ \A w \in Workers \ {o} : pc'[w] = pc[w] /\ refundPc'[w] = refundPc[w]
           /\ \A x \in Orders \ {o} : /\ status'[x] = status[x]
                                      /\ sent'[x] = sent[x]
                                      /\ charged'[x] = charged[x]
                                      /\ fate'[x] = fate[x]
                                      /\ reply'[x] = reply[x]
           /\ status'[o] # status[o] => ~Settled(o)
<1> USE DEF BaseInv, TypeOK, CalmInv, Placing, orderVars, ledgerVars, pollVars,
        Workers, Settled, Created, Queued
<1>1. CASE CreateOrder(o)
  BY <1>1 DEF CreateOrder
<1>2. CASE ExecuteRead(o)
  BY <1>2 DEF ExecuteRead
<1>3. CASE ExecutePlace(o)
  BY <1>3 DEF ExecutePlace
<1>4. CASE ExecutePersist(o)
  BY <1>4 DEF ExecutePersist
<1>5. CASE ExecuteCleanup(o)
  BY <1>5 DEF ExecuteCleanup
<1>6. CASE ExecuteReturn(o)
  BY <1>6 DEF ExecuteReturn
<1> QED
  BY <1>1, <1>2, <1>3, <1>4, <1>5, <1>6 DEF ExecutorStep

\* Where the executor is when it has taken a step, and what its order became.
LEMMA CalmExecutes ==
    ASSUME CalmInv, BaseInv, TypeOK', NEW o \in Orders,
           CreateOrder(o) \/ ExecutorStep(o)
    PROVE  /\ pc'[o] \notin {"fatal", "cleanup"}
           /\ Placing(o)' => status'[o] = "PROCESSING" /\ ~sent'[o]
           /\ Created(o)'
           /\ refundPc'[o] # "no" => Unpaid(o)'
           /\ o \notin UNION {batch[i] : i \in Instances}
              \/ UNCHANGED <<status, sent>>
           /\ ~Unpaid(o)' => charged'[o] >= Price /\ ~Unpaid(o)
<1> USE NumbersAssumption
    DEF BaseInv, TypeOK, WorkersInv, FreshInv, CalmInv, Placing, orderVars,
        ledgerVars, pollVars, Workers, Created, Unpaid, Pollable
<1>1. CASE CreateOrder(o)
  BY <1>1 DEF CreateOrder
<1>2. CASE ExecuteRead(o)
  BY <1>2 DEF ExecuteRead
<1>3. CASE ExecutePlace(o)
  BY <1>3 DEF ExecutePlace
<1>4. CASE ExecutePersist(o)
  <2>1. PICK s \in {"FAILED", "COMPLETED", "PROCESSING"} :
          /\ status' = [status EXCEPT ![o] = IF s = "PROCESSING" THEN @ ELSE s]
          /\ refundPc' = [refundPc EXCEPT ![o] = IF s = "FAILED" THEN "swap"
                                                                  ELSE "no"]
    BY <1>4 DEF ExecutePersist, PersistedStatus, toInternalStatus
  <2>2. /\ pc[o] = "reply" /\ pc' = [pc EXCEPT ![o] = "persisted"]
        /\ UNCHANGED <<charged, batch>>
    BY <1>4 DEF ExecutePersist
  <2> QED
    BY <2>1, <2>2
<1>5. CASE ExecuteCleanup(o)
  BY <1>5 DEF ExecuteCleanup
<1>6. CASE ExecuteReturn(o)
  BY <1>6 DEF ExecuteReturn
<1> QED
  BY <1>1, <1>2, <1>3, <1>4, <1>5, <1>6 DEF ExecutorStep

\* The kill switch of a poll finds no order to move: the query changes nothing.
LEMMA KillSwitchIdle ==
    ASSUME BaseInv, NEW i \in Instances, PollFind(i)
    PROVE  UNCHANGED status /\ batch' = [batch EXCEPT ![i] = Pollable]
<1> DEFINE exhausted == {o \in Pollable : retryCount[o] >= MaxRetry}
<1>1. exhausted = {}
  <2>1. MaxRetry \in Nat /\ \A o \in Orders : retryCount[o] \in Nat
    BY NumbersAssumption DEF BaseInv, TypeOK
  <2> QED
    BY <2>1 DEF BaseInv, NeverExhausted, Queued, Pollable
<1>2. /\ status' = [o \in Orders |->
                      IF o \in exhausted THEN "MANUAL_REVIEW" ELSE status[o]]
      /\ batch' = [batch EXCEPT ![i] = Pollable \ exhausted]
  BY Zenon DEF PollFind
<1> HIDE DEF exhausted
<1> QED
  BY <1>1, <1>2 DEF BaseInv, TypeOK

\* A poll of the only process writes the status of the order it takes, and of no
\* other; that order was in the queue.
LEMMA CalmPoll ==
    ASSUME Undisturbed, CalmInv, BaseInv, TypeOK', NEW i \in Instances, PollStep(i)
    PROVE  /\ UNCHANGED <<refunded, credited, charged, sent, fate, reply>>
           /\ \A w \in Workers \ {i} : /\ pc'[w] = pc[w]
                                       /\ refundPc'[w] = refundPc[w]
                                       /\ target'[w] = target[w]
           /\ \A x \in Orders : status'[x] # status[x] => /\ x \in batch[i]
                                                          /\ x \notin batch'[i]
           /\ \A x \in Orders : Created(x) => Created(x)'
           /\ \A x \in Orders : ~Unpaid(x)' => ~Unpaid(x)
           /\ batch'[i] \subseteq Pollable
           /\ \A j \in Instances \ {i} : batch'[j] = batch[j]
           /\ refundPc'[i] # "no" => \/ Unpaid(target[i])'
                                     \/ UNCHANGED <<refundPc, target, status>>
<1> USE NothingHappens, WorkersAssumption
    DEF BaseInv, TypeOK, CalmInv, orderVars, ledgerVars, pollVars, boundVars,
        Workers, Created, Unpaid, Pollable
<1>1. CASE PollFind(i)
  <2>1. /\ UNCHANGED <<refunded, credited, charged, sent, fate, reply, refundPc,
                       target>>
        /\ \A w \in Workers \ {i} : pc'[w] = pc[w]
    BY <1>1 DEF PollFind
  <2>2. UNCHANGED status /\ batch' = [batch EXCEPT ![i] = Pollable]
    BY <1>1, KillSwitchIdle
  <2> QED
    BY <2>1, <2>2
<1>2. CASE \E absent \in SUBSET batch[i] : PollAnswer(i, absent)
  BY <1>2 DEF PollAnswer
<1>3. CASE PollFail(i)
  BY <1>3 DEF PollFail
<1>4. ASSUME NEW o \in Orders, PollSkip(i, o) \/ PollPending(i, o)
      PROVE  /\ UNCHANGED <<refunded, credited, charged, sent, fate, reply, pc,
                            refundPc, status>>
             /\ refundPc[i] = "no"
             /\ \A w \in Workers \ {i} : target'[w] = target[w]
             /\ batch' = [batch EXCEPT ![i] = @ \ {o}]
  BY <1>4 DEF PollSkip, PollPending, TakeOrder
<1>5. ASSUME NEW o \in Orders,
             \/ PollExhaust(i, o) \/ PollComplete(i, o) \/ PollPartial(i, o)
             \/ PollCancel(i, o) \/ PollReject(i, o)
      PROVE  /\ UNCHANGED <<refunded, credited, charged, sent, fate, reply, pc>>
             /\ target' = [target EXCEPT ![i] = o]
             /\ batch' = [batch EXCEPT ![i] = @ \ {o}]
             /\ o \in batch[i]
             /\ \E s \in {"FAILED", "COMPLETED", "CANCELED", "PARTIAL"},
                   p \in {"no", "swap", "txn"} :
                  /\ status' = [status EXCEPT ![o] = s]
                  /\ refundPc' = [refundPc EXCEPT ![i] = p]
                  /\ p # "no" => s # "COMPLETED"
  <2>1. /\ o \in batch[i]
        /\ target' = [target EXCEPT ![i] = o]
        /\ batch' = [batch EXCEPT ![i] = @ \ {o}]
        /\ UNCHANGED <<refunded, credited, charged, sent, fate, reply, pc>>
    BY <1>5 DEF PollExhaust, PollComplete, PollPartial, PollCancel, PollReject,
                Settle, TakeOrder
  <2>2. \E s \in {"FAILED", "COMPLETED", "CANCELED", "PARTIAL"},
           p \in {"no", "swap", "txn"} :
          /\ status' = [status EXCEPT ![o] = s]
          /\ refundPc' = [refundPc EXCEPT ![i] = p]
          /\ p # "no" => s # "COMPLETED"
    BY <1>5, Zenon DEF PollExhaust, PollComplete, PollPartial, PollCancel,
                PollReject, Settle, toInternalStatus
  <2> QED
    BY <2>1, <2>2
<1>6. CASE \E o \in Orders : PollSkip(i, o) \/ PollPending(i, o)
  BY <1>4, <1>6
<1>7. ASSUME NEW o \in Orders,
             \/ PollExhaust(i, o) \/ PollComplete(i, o) \/ PollPartial(i, o)
             \/ PollCancel(i, o) \/ PollReject(i, o)
      PROVE  /\ UNCHANGED <<refunded, credited, charged, sent, fate, reply>>
             /\ \A w \in Workers \ {i} : /\ pc'[w] = pc[w]
                                         /\ refundPc'[w] = refundPc[w]
                                         /\ target'[w] = target[w]
             /\ \A x \in Orders : status'[x] # status[x] => /\ x \in batch[i]
                                                            /\ x \notin batch'[i]
             /\ \A x \in Orders : Created(x) => Created(x)'
             /\ \A x \in Orders : ~Unpaid(x)' => ~Unpaid(x)
             /\ batch'[i] \subseteq Pollable
             /\ \A j \in Instances \ {i} : batch'[j] = batch[j]
             /\ refundPc'[i] # "no" => Unpaid(target[i])'
  <2>1. status[o] = "PROCESSING"
    BY <1>5, <1>7
  <2>2. PICK s \in {"FAILED", "COMPLETED", "CANCELED", "PARTIAL"},
             p \in {"no", "swap", "txn"} :
               /\ status' = [status EXCEPT ![o] = s]
               /\ refundPc' = [refundPc EXCEPT ![i] = p]
               /\ p # "no" => s # "COMPLETED"
    BY <1>5, <1>7
  <2>3. /\ UNCHANGED <<refunded, credited, charged, sent, fate, reply, pc>>
        /\ target' = [target EXCEPT ![i] = o]
        /\ batch' = [batch EXCEPT ![i] = @ \ {o}]
        /\ o \in batch[i]
    BY <1>5, <1>7
  <2>4. \A w \in Workers \ {i} : /\ pc'[w] = pc[w]
                                 /\ refundPc'[w] = refundPc[w]
                                 /\ target'[w] = target[w]
    BY <2>2, <2>3
  <2>5. \A x \in Orders : status'[x] # status[x] => x \in batch[i] /\ x \notin batch'[i]
    BY <2>2, <2>3
  <2>6. /\ \A x \in Orders : Created(x) => Created(x)'
        /\ \A x \in Orders : ~Unpaid(x)' => ~Unpaid(x)
    BY <2>1, <2>2
  <2>7. batch'[i] \subseteq Pollable /\ \A j \in Instances \ {i} : batch'[j] = batch[j]
    BY <2>3
  <2>8. refundPc'[i] # "no" => Unpaid(target[i])'
    BY <2>2, <2>3
  <2> HIDE DEF BaseInv, TypeOK, CalmInv, Pollable
  <2> QED
    BY <2>3, <2>4, <2>5, <2>6, <2>7, <2>8
<1>8. CASE PollDone(i)
  BY <1>8 DEF PollDone
<1> QED
  BY <1>1, <1>2, <1>3, <1>6, <1>7, <1>8 DEF PollStep, PollApply

\* ... and no administrator and no fault takes a step there.
LEMMA NothingElse ==
    ASSUME Undisturbed, CalmInv, BaseInv
    PROVE  /\ ~Fault /\ \A o \in Orders : ~MarkOrderAsFailed(o)
           /\ \A c \in Calls : ~AdminStep(c)
<1>1. ~(faults < MaxFaults) /\ ~(calls < MaxCalls)
  BY NothingHappens DEF BaseInv
<1>2. ~Fault
  BY <1>1 DEF Fault, ExecuteFatal, ExecuteCleanupFails, RefundAbort,
              RefundGivenUp, ProcessOrderRefundAbort, CalmInv
<1>3. \A o \in Orders : ~MarkOrderAsFailed(o)
  BY <1>1 DEF MarkOrderAsFailed
<1>4. \A c \in Calls : ~AdminStep(c)
  BY <1>1 DEF AdminStep, CompleteRead, CompleteDebit, CompleteSave, CalmInv
<1> QED
  BY <1>2, <1>3, <1>4

\* The invariant of an undisturbed server is kept by every step.
LEMMA CalmStep ==
    ASSUME Undisturbed, CalmInv, BaseInv, TypeOK', [Next]_vars
    PROVE  CalmInv'
<1>1. ASSUME NEW o \in Orders, CreateOrder(o) \/ ExecutorStep(o)
      PROVE  CalmInv'
  <2>1. o \in Workers /\ o \notin Calls /\ o \notin Instances
    BY WorkersAssumption DEF Workers
  <2>2. \A c \in Calls : pc'[c] = "idle"
    BY <1>1, <2>1, CalmExecutor DEF CalmInv, Workers
  <2>3. ASSUME NEW x \in Orders \ {o}
        PROVE  /\ pc'[x] \notin {"fatal", "cleanup"}
               /\ Placing(x)' => status'[x] = "PROCESSING"
               /\ Placing(x)' \/ ~Created(x)' => ~sent'[x]
               /\ Created(x)' /\ ~Unpaid(x)' => /\ ~refunded'[x]
                                               /\ credited'[x] = 0
                                               /\ charged'[x] >= Price
    BY <1>1, CalmExecutor DEF CalmInv, Workers, Placing, Created, Unpaid
  <2>4. Created(o) /\ ~Unpaid(o) => ~refunded[o] /\ credited[o] = 0
    BY DEF CalmInv
  <2>5. ~Created(o) => ~refunded[o] /\ credited[o] = 0
    BY DEF BaseInv, FreshInv
  <2>6. /\ pc'[o] \notin {"fatal", "cleanup"}
        /\ Placing(o)' => status'[o] = "PROCESSING"
        /\ Placing(o)' \/ ~Created(o)' => ~sent'[o]
        /\ Created(o)' /\ ~Unpaid(o)' => /\ ~refunded'[o]
                                        /\ credited'[o] = 0
                                        /\ charged'[o] >= Price
    BY <1>1, <2>4, <2>5, CalmExecutor, CalmExecutes
  <2>7. ASSUME NEW i \in Instances
        PROVE  batch'[i] \subseteq Pollable'
    <3>1. batch'[i] = batch[i] /\ batch[i] \subseteq Pollable
      BY <1>1, CalmExecutor DEF CalmInv
    <3>2. CASE o \in batch[i]
      BY <1>1, <3>1, <3>2, CalmExecutes DEF Pollable
    <3>3. CASE o \notin batch[i]
      BY <1>1, <3>1, <3>3, CalmExecutor DEF Pollable
    <3> QED
      BY <3>2, <3>3
  <2>8. ASSUME NEW w \in Workers, refundPc'[w] # "no"
        PROVE  Unpaid(target[w])'
    <3>1. CASE w = o
      <4>1. target'[o] = o
        BY <1>1, CalmExecutor DEF BaseInv, WorkersInv
      <4> QED
        BY <1>1, <2>8, <3>1, <4>1, CalmExecutes
    <3>2. CASE w # o
      <4>1. refundPc'[w] = refundPc[w] /\ target'[w] = target[w]
        BY <1>1, <3>2, CalmExecutor
      <4>2. Unpaid(target[w]) /\ target[w] \in Orders /\ Settled(target[w])
        BY <2>8, <4>1 DEF CalmInv, BaseInv, WorkersInv
      <4>3. status'[target[w]] = status[target[w]]
        BY <1>1, <4>2, CalmExecutor
      <4> QED
        BY <4>1, <4>2, <4>3 DEF Unpaid
    <3> QED
      BY <3>1, <3>2
  <2> QED
    BY <2>2, <2>3, <2>6, <2>7, <2>8 DEF CalmInv
<1>2. ASSUME NEW i \in Instances, PollStep(i)
      PROVE  CalmInv'
  <2>1. i \in Workers /\ i \notin Calls /\ i \notin Orders
    BY WorkersAssumption DEF Workers
  <2>2. \A c \in Calls : pc'[c] = "idle"
    BY <1>2, <2>1, CalmPoll DEF CalmInv, Workers
  <2>3. ASSUME NEW x \in Orders
        PROVE  /\ pc'[x] \notin {"fatal", "cleanup"}
               /\ Placing(x)' => status'[x] = "PROCESSING"
               /\ Placing(x)' \/ ~Created(x)' => ~sent'[x]
               /\ Created(x)' /\ ~Unpaid(x)' => /\ ~refunded'[x]
                                               /\ credited'[x] = 0
                                               /\ charged'[x] >= Price
    <3>1. /\ pc'[x] = pc[x]
          /\ UNCHANGED <<refunded, credited, charged, sent>>
          /\ ~Unpaid(x)' => ~Unpaid(x)
      BY <1>2, <2>1, CalmPoll DEF Workers
    <3>2. CASE status'[x] = status[x]
      BY <3>1, <3>2 DEF CalmInv, Placing, Created, Unpaid
    <3>3. CASE status'[x] # status[x]
      <4>1. x \in Pollable
        BY <1>2, <3>3, CalmPoll DEF CalmInv
      <4>2. ~Placing(x) /\ Created(x) /\ sent[x]
        BY <4>1 DEF CalmInv, Pollable, Created
      <4>3. Created(x)'
        BY <1>2, <4>2, CalmPoll
      <4> QED
        BY <3>1, <4>2, <4>3 DEF CalmInv, Placing
    <3> QED
      BY <3>2, <3>3
  <2>4. ASSUME NEW j \in Instances
        PROVE  batch'[j] \subseteq Pollable'
    <3>1. j = i
      BY DEF Undisturbed
    <3> QED
      BY <1>2, <3>1, CalmPoll DEF Pollable
  <2>5. ASSUME NEW w \in Workers, refundPc'[w] # "no"
        PROVE  Unpaid(target[w])'
    <3>1. CASE w = i
      BY <1>2, <2>5, <3>1, CalmPoll DEF CalmInv, Unpaid
    <3>2. CASE w # i
      <4>1. refundPc'[w] = refundPc[w] /\ target'[w] = target[w]
        BY <1>2, <3>2, CalmPoll
      <4>2. Unpaid(target[w]) /\ target[w] \in Orders
        BY <2>5, <4>1 DEF CalmInv, BaseInv, WorkersInv
      <4> QED
        BY <1>2, <4>1, <4>2, CalmPoll DEF Unpaid
    <3> QED
      BY <3>1, <3>2
  <2> QED
    BY <2>2, <2>3, <2>4, <2>5 DEF CalmInv
<1>3. ASSUME NEW w \in Orders \cup Instances,
             \/ RefundStep(w)
             \/ w \in Instances /\ ProcessOrderRefund(w)
      PROVE  CalmInv'
  <2>1. w \in Workers /\ refundPc[w] # "no" /\ target[w] \in Orders /\ Unpaid(target[w])
    BY <1>3 DEF RefundStep, RefundSwap, RefundCredit, RefundUndo,
                ProcessOrderRefund, CalmInv, BaseInv, WorkersInv, Workers
  <2>2. /\ UNCHANGED <<status, sent, pc, target, batch, charged>>
        /\ \A x \in Workers : refundPc'[x] # "no" => refundPc[x] # "no"
    BY <1>3, <2>1 DEF RefundStep, RefundSwap, RefundCredit, RefundUndo,
                ProcessOrderRefund, BaseInv, TypeOK, orderVars, pollVars, ledgerVars
  <2>3. \A x \in Orders : x # target[w] => /\ refunded'[x] = refunded[x]
                                          /\ credited'[x] = credited[x]
    BY <1>3 DEF RefundStep, RefundSwap, RefundCredit, RefundUndo,
                ProcessOrderRefund, BaseInv, TypeOK, orderVars, ledgerVars
  <2> QED
    BY <2>1, <2>2, <2>3 DEF CalmInv, Placing, Created, Unpaid, Pollable
<1>4. ASSUME Crash
      PROVE  CalmInv'
  <2>1. UNCHANGED <<status, sent, refunded, credited, charged>>
    BY <1>4 DEF Crash, CrashExecutor, CrashPoller, CrashCall, Crashed, orderVars,
                ledgerVars
  <2>2. /\ \A w \in Workers : pc'[w] = pc[w] \/ pc'[w] \in {"idle", "done"}
        /\ \A c \in Calls : pc'[c] = pc[c] \/ pc'[c] = "idle"
        /\ \A i \in Instances : batch'[i] \subseteq batch[i]
        /\ \A w \in Workers : refundPc'[w] # "no" => /\ refundPc'[w] = refundPc[w]
                                                   /\ target'[w] = target[w]
    <3>1. CASE \E o \in Orders : CrashExecutor(o)
      BY <3>1, WorkersAssumption DEF CrashExecutor, BaseInv, TypeOK, Workers, pollVars
    <3>2. CASE \E i \in Instances : CrashPoller(i)
      BY <3>2, WorkersAssumption DEF CrashPoller, BaseInv, TypeOK, Workers
    <3>3. CASE \E c \in Calls : CrashCall(c)
      BY <3>3, WorkersAssumption DEF CrashCall, CalmInv
    <3> QED
      BY <1>4, <3>1, <3>2, <3>3 DEF Crash
  <2>3. \A o \in Orders : Placing(o)' => Placing(o)
    BY <2>2 DEF Placing, Workers
  <2> QED
    BY <2>1, <2>2, <2>3 DEF CalmInv, Placing, Created, Unpaid, Pollable, Workers
<1>5. ASSUME NEW o \in Orders, ProviderSettles(o)
      PROVE  CalmInv'
  BY <1>5 DEF ProviderSettles, CalmInv, Placing, Created, Unpaid, Pollable,
              orderVars, ledgerVars, pollVars
<1>6. CASE UNCHANGED vars
  BY <1>6 DEF vars, CalmInv, Placing, Created, Unpaid, Pollable, orderVars,
              ledgerVars, pollVars
<1>7. /\ ~Fault /\ \A o \in Orders : ~MarkOrderAsFailed(o)
      /\ \A c \in Calls : ~AdminStep(c)
  BY NothingElse
<1> QED
  BY <1>1, <1>2, <1>3, <1>4, <1>5, <1>6, <1>7 DEF Next

\* A provider other than Alkasr is quoted as it answered: a refused order was not
\* taken, one that failed at once is known to have failed.
LEMMA HonestPlace ==
    ASSUME Slug # "alkasr", NEW answer \in Answers,
           NEW r \in Classified(placeOrder(Slug, answer)), NEW f \in Taken(answer)
    PROVE  (r = "Rejected" => f = "none") /\ (r = "Failed" => f = "Failed")
<1>1. Slug \in Slugs
  BY WorkersAssumption
<1>2. \/ /\ placeOrder(Slug, answer) = RoyalCrownPlaceOrder(answer)
         /\ getProviderAdapter(Slug) # "mock"
      \/ placeOrder(Slug, answer) \in {"Pending", "Threw"}
  BY <1>1 DEF placeOrder, getProviderAdapter, RoyalCrownPlaceOrder,
              TorosPlaceOrder, MockPlaceOrder, Slugs
<1>3. CASE /\ placeOrder(Slug, answer) = RoyalCrownPlaceOrder(answer)
           /\ getProviderAdapter(Slug) # "mock"
  <2>1. r = RoyalCrownPlaceOrder(answer)
    BY <1>3 DEF RoyalCrownPlaceOrder, Failure, PassedOn, Classified, Answers,
                Words, Verdicts
  <2>2. CASE answer \in Words
    <3>1. r = PassedOn(answer) /\ f = answer
      BY <1>3, <2>1, <2>2 DEF RoyalCrownPlaceOrder, Taken, Words, Verdicts
    <3> QED
      BY <2>2, <3>1 DEF PassedOn, Words, Verdicts
  <2>3. CASE answer \in {"Silent", "Refused", "NoId", "Lost"}
    BY <1>3, <2>1, <2>3 DEF RoyalCrownPlaceOrder, Failure, Taken, Words, Verdicts
  <2> QED
    BY <2>2, <2>3 DEF Answers
<1>4. CASE placeOrder(Slug, answer) \in {"Pending", "Threw"}
  BY <1>4 DEF Classified
<1> QED
  BY <1>2, <1>3, <1>4

\* A status check of such a provider reports an end only of an order that has ended
\* in just this way.
LEMMA HonestCheck ==
    ASSUME Slug # "alkasr", NEW word, checkOrders(Slug, word) \in Final
    PROVE  word = checkOrders(Slug, word)
  BY DEF Final, checkOrders, getProviderAdapter, RoyalCrownCheckOrders, TorosCheckOrders,
         MockCheckOrders, PassedOn

\* What is known of the orders stays true.
LEMMA KnownStep ==
    ASSUME Slug # "alkasr", Undisturbed, CalmInv, KnownInv, BaseInv, TypeOK',
           [Next]_vars
    PROVE  KnownInv'
<1> USE DEF KnownInv, Alive, Unpaid, Created
<1>1. ASSUME NEW o \in Orders, CreateOrder(o) \/ ExecutorStep(o)
      PROVE  KnownInv'
  <2>1. /\ \A i \in Instances : pc'[i] = pc[i]
        /\ UNCHANGED <<batch, verdict, retryCount>>
        /\ \A x \in Orders \ {o} : /\ status'[x] = status[x]
                                   /\ fate'[x] = fate[x]
                                   /\ reply'[x] = reply[x]
                                   /\ pc'[x] = pc[x]
    <3>1. UNCHANGED pollVars
      BY <1>1 DEF CreateOrder, ExecutorStep, ExecuteRead, ExecutePlace,
                  ExecutePersist, ExecuteCleanup, ExecuteReturn
    <3>2. \A i \in Instances : i \in Workers \ {o}
      BY WorkersAssumption DEF Workers
    <3> QED
      BY <1>1, <3>1, <3>2, CalmExecutor DEF pollVars, Workers
  <2>2. \A i \in Instances : o \in batch[i] => ~Placing(o) /\ Created(o)
    BY DEF CalmInv, Pollable
  <2>3. /\ ~Created(o)' \/ pc'[o] \in {"start", "placing"} => fate'[o] = "none"
        /\ pc'[o] = "reply" => /\ reply'[o] = "Rejected" => fate'[o] = "none"
                               /\ reply'[o] = "Failed" => fate'[o] = "Failed"
        /\ Unpaid(o)' /\ Alive(o)' => \/ reply'[o] \in {"Cut", "Unnamed"}
                                     \/ retryCount'[o] >= MaxRetry
        /\ Placing(o) \/ ~Created(o) \/ UNCHANGED <<fate, reply>>
    <3> USE DEF BaseInv, TypeOK, CalmInv, Placing, orderVars, Workers
    <3>1. CASE CreateOrder(o)
      BY <3>1 DEF CreateOrder
    <3>2. CASE ExecuteRead(o)
      BY <3>2 DEF ExecuteRead
    <3>3. CASE ExecutePlace(o)
      <4>1. PICK answer \in Answers :
              /\ \E r \in Classified(placeOrder(Slug, answer)) :
                    reply' = [reply EXCEPT ![o] = r]
              /\ \E f \in Taken(answer) : fate' = [fate EXCEPT ![o] = f]
        BY <3>3 DEF ExecutePlace
      <4>2. /\ reply'[o] = "Rejected" => fate'[o] = "none"
            /\ reply'[o] = "Failed" => fate'[o] = "Failed"
        BY <4>1, HonestPlace
      <4>3. /\ pc[o] = "placing" /\ pc' = [pc EXCEPT ![o] = "reply"]
            /\ UNCHANGED status
        BY <3>3 DEF ExecutePlace
      <4> QED
        BY <4>2, <4>3
    <3>4. CASE ExecutePersist(o)
      <4>1. /\ pc[o] = "reply" /\ pc' = [pc EXCEPT ![o] = "persisted"]
            /\ UNCHANGED <<fate, reply>>
        BY <3>4 DEF ExecutePersist
      <4>2. status'[o] \in {"PROCESSING", "COMPLETED", "FAILED"}
        BY <3>4 DEF ExecutePersist, PersistedStatus, toInternalStatus
      <4>3. status'[o] = "FAILED" => reply[o] \in Rejections \cup {"Failed"}
        BY <3>4 DEF ExecutePersist, PersistedStatus, toInternalStatus
      <4> QED
        BY <4>1, <4>2, <4>3 DEF Rejections
    <3>5. CASE ExecuteCleanup(o)
      BY <3>5 DEF ExecuteCleanup
    <3>6. CASE ExecuteReturn(o)
      BY <3>6, <2>1 DEF ExecuteReturn
    <3> QED
      BY <1>1, <3>1, <3>2, <3>3, <3>4, <3>5, <3>6 DEF ExecutorStep
  <2>4. ASSUME NEW i \in Instances, pc'[i] = "applying", o \in batch'[i],
               verdict'[i][o] \in {"Cancelled", "Partial", "Failed"}
        PROVE  fate'[o] = verdict'[i][o]
    BY <2>1, <2>2, <2>3, <2>4
  <2>5. ASSUME NEW x \in Orders \ {o}
        PROVE  /\ ~Created(x)' \/ pc'[x] \in {"start", "placing"} => fate'[x] = "none"
               /\ pc'[x] = "reply" => /\ reply'[x] = "Rejected" => fate'[x] = "none"
                                      /\ reply'[x] = "Failed" => fate'[x] = "Failed"
               /\ \A i \in Instances :
                    /\ pc'[i] = "applying" /\ x \in batch'[i]
                    /\ verdict'[i][x] \in {"Cancelled", "Partial", "Failed"}
                    => fate'[x] = verdict'[i][x]
               /\ Unpaid(x)' /\ Alive(x)'
                    => \/ reply'[x] \in {"Cut", "Unnamed"}
                       \/ retryCount'[x] >= MaxRetry
    BY <2>1
  <2> QED
    BY <2>3, <2>4, <2>5
<1>2. ASSUME NEW i \in Instances, PollStep(i)
      PROVE  KnownInv'
  <2>0. \A x \in Orders : pc'[x] = pc[x]
    BY <1>2, WorkersAssumption, CalmPoll DEF Workers
  <2>1. UNCHANGED <<fate, reply>>
    BY <1>2, CalmPoll
  <2>2. \A j \in Instances : j = i
    BY DEF Undisturbed
  <2>3. ASSUME NEW x \in Orders
        PROVE  /\ pc'[i] = "applying" /\ x \in batch'[i]
               /\ verdict'[i][x] \in {"Cancelled", "Partial", "Failed"}
               => fate'[x] = verdict'[i][x]
    <3> USE DEF BaseInv, TypeOK, Workers, pollVars
    <3>1. CASE PollFind(i)
      BY <3>1 DEF PollFind
    <3>2. ASSUME NEW absent \in SUBSET batch[i], PollAnswer(i, absent)
          PROVE  /\ pc'[i] = "applying" /\ x \in batch'[i]
                 /\ verdict'[i][x] \in {"Cancelled", "Partial", "Failed"}
                 => fate'[x] = verdict'[i][x]
      <4>1. verdict'[i][x] \in {checkOrders(Slug, fate[x]), "none"}
        BY <3>2 DEF PollAnswer
      <4> QED
        BY <2>1, <4>1, HonestCheck DEF Final
    <3>3. CASE PollFail(i)
      BY <3>3 DEF PollFail
    <3>4. CASE \E o \in Orders : TakeOrder(i, o)
      BY <2>1, <3>4 DEF TakeOrder
    <3>5. CASE PollDone(i)
      BY <3>5 DEF PollDone
    <3> QED
      BY <1>2, <3>1, <3>2, <3>3, <3>4, <3>5
         DEF PollStep, PollApply, PollSkip, PollPending, PollExhaust,
             PollComplete, PollPartial, PollCancel, PollReject, Settle
  <2>4. ASSUME NEW x \in Orders, Unpaid(x)', Alive(x)
        PROVE  reply[x] \in {"Cut", "Unnamed"} \/ retryCount'[x] >= MaxRetry
    <3>1. CASE Unpaid(x)
      <4>1. x \notin batch[i]
        BY <3>1 DEF CalmInv, Pollable
      <4>2. retryCount'[x] = retryCount[x]
        BY <1>2, <4>1
           DEF PollStep, PollFind, PollAnswer, PollFail, PollApply, PollSkip,
               PollPending, PollExhaust, PollComplete, PollPartial, PollCancel,
               PollReject, Settle, TakeOrder, PollDone, orderVars, BaseInv, TypeOK
      <4> QED
        BY <2>4, <3>1, <4>2
    <3>2. CASE ~Unpaid(x)
      <4>1. status'[x] # status[x] /\ x \in batch[i]
        BY <1>2, <2>4, <3>2, CalmPoll
      <4>2. PICK o \in Orders : \/ PollExhaust(i, o) \/ PollComplete(i, o)
                                \/ PollPartial(i, o) \/ PollCancel(i, o)
                                \/ PollReject(i, o)
        <5>1. x \in batch[i] /\ x \notin batch'[i]
          BY <1>2, <4>1, CalmPoll
        <5>2. ~PollFind(i)
          BY <4>1, KillSwitchIdle
        <5> QED
          BY <1>2, <4>1, <5>1, <5>2
             DEF PollStep, PollAnswer, PollFail, PollApply, PollSkip,
                 PollPending, PollDone, orderVars
      <4>3. x = o
        BY <1>2, <4>1, <4>2, CalmPoll
           DEF PollExhaust, PollComplete, PollPartial, PollCancel, PollReject,
               Settle, TakeOrder, BaseInv, TypeOK
      <4>4. CASE PollExhaust(i, o)
        BY <4>3, <4>4 DEF PollExhaust, BaseInv, TypeOK
      <4>5. CASE PollComplete(i, o)
        BY <2>4, <4>3, <4>5
           DEF PollComplete, Settle, toInternalStatus, BaseInv, TypeOK
      <4>6. CASE PollPartial(i, o) \/ PollCancel(i, o) \/ PollReject(i, o)
        <5>1. /\ pc[i] = "applying"
              /\ verdict[i][o] \in {"Cancelled", "Partial", "Failed"}
          BY <4>6 DEF PollPartial, PollCancel, PollReject, Settle, TakeOrder
        <5>2. fate[x] = verdict[i][x]
          BY <4>1, <4>3, <5>1
        <5> QED
          BY <2>4, <4>3, <5>1, <5>2
      <4> QED
        BY <4>2, <4>4, <4>5, <4>6
    <3> QED
      BY <3>1, <3>2
  <2>5. \A x \in Orders : ~Created(x)' => ~Created(x)
    BY <1>2, CalmPoll
  <2> QED
    BY <2>0, <2>1, <2>2, <2>3, <2>4, <2>5
<1>3. ASSUME NEW w \in Orders \cup Instances,
             \/ RefundStep(w)
             \/ w \in Instances /\ ProcessOrderRefund(w)
      PROVE  KnownInv'
  BY <1>3 DEF RefundStep, RefundSwap, RefundCredit, RefundUndo,
              ProcessOrderRefund, orderVars, pollVars
<1>4. ASSUME Crash
      PROVE  KnownInv'
  <2>1. UNCHANGED <<status, retryCount, fate, reply>>
    BY <1>4 DEF Crash, CrashExecutor, CrashPoller, CrashCall, Crashed, orderVars
  <2>2. /\ \A o \in Orders : pc'[o] = pc[o] \/ pc'[o] = "done"
        /\ \A i \in Instances : \/ pc'[i] = "idle"
                                \/ /\ pc'[i] = pc[i]
                                   /\ batch'[i] = batch[i]
                                   /\ verdict'[i] = verdict[i]
    <3>1. CASE \E o \in Orders : CrashExecutor(o)
      BY <3>1, WorkersAssumption DEF CrashExecutor, BaseInv, TypeOK, Workers, pollVars
    <3>2. CASE \E i \in Instances : CrashPoller(i)
      BY <3>2, WorkersAssumption DEF CrashPoller, BaseInv, TypeOK, Workers
    <3>3. CASE \E c \in Calls : CrashCall(c)
      BY <3>3, WorkersAssumption DEF CrashCall, CalmInv
    <3> QED
      BY <1>4, <3>1, <3>2, <3>3 DEF Crash
  <2> QED
    BY <2>1, <2>2
<1>5. ASSUME NEW o \in Orders, ProviderSettles(o)
      PROVE  KnownInv'
  <2>1. /\ fate[o] \in {"Pending", "Unlisted"}
        /\ UNCHANGED <<status, retryCount, pc, reply, batch, verdict>>
        /\ \A x \in Orders \ {o} : fate'[x] = fate[x]
    BY <1>5 DEF ProviderSettles, orderVars, pollVars, BaseInv, TypeOK
  <2> QED
    BY <2>1
<1>6. CASE UNCHANGED vars
  BY <1>6 DEF vars, orderVars, pollVars
<1>7. ~Fault /\ \A o \in Orders : ~MarkOrderAsFailed(o)
  BY NothingElse
<1>8. \A c \in Calls : ~AdminStep(c)
  BY NothingElse
<1> QED
  BY <1>1, <1>2, <1>3, <1>4, <1>5, <1>6, <1>7, <1>8 DEF Next

\* On an undisturbed server nothing is lost: the invariant holds throughout.
LEMMA CalmInvariant ==
    ASSUME Undisturbed
    PROVE  Spec => []CalmInv
<1>1. Init => CalmInv
  BY WorkersAssumption DEF Init, CalmInv, Placing, Created, Unpaid, Workers
<1>2. CalmInv /\ BaseInv /\ TypeOK' /\ [Next]_vars => CalmInv'
  BY CalmStep
<1>3. BaseInv => TypeOK
  BY DEF BaseInv
<1> QED
  BY <1>1, <1>2, <1>3, BaseInvariant, PTL DEF Spec

\* Where no administrator completes orders by hand, a single process polls and the
\* database answers, a completed order was paid and no part of it was returned,
\* whatever the provider answers and whenever the process dies.
THEOREM NothingForFree ==
    ASSUME Undisturbed
    PROVE  Spec => []CompletedKeepsCharge
<1>1. CalmInv /\ BaseInv => CompletedKeepsCharge
  <2> SUFFICES ASSUME CalmInv, BaseInv, NEW o \in Orders, status[o] = "COMPLETED"
               PROVE  charged[o] - credited[o] >= Price
    BY DEF CompletedKeepsCharge
  <2>1. credited[o] = 0 /\ charged[o] >= Price
    BY DEF CalmInv, Created, Unpaid
  <2>2. charged[o] \in Nat
    BY DEF BaseInv, TypeOK
  <2> QED
    BY <2>1, <2>2
<1> QED
  BY <1>1, CalmInvariant, BaseInvariant, PTL

\* ... and an order of a provider other than Alkasr that is delivered after all was
\* not refunded, unless its placement call failed, its placement was accepted
\* without an order id, or its retries ran out.
THEOREM DeliveredOnceOrRefunded ==
    ASSUME Undisturbed, Slug # "alkasr"
    PROVE  Spec => []DeliveredIsPaid
<1>1. Init => KnownInv
  BY DEF Init, KnownInv, Created, Unpaid
<1>2. CalmInv /\ KnownInv /\ BaseInv /\ TypeOK' /\ [Next]_vars => KnownInv'
  BY KnownStep
<1>3. BaseInv => TypeOK
  BY DEF BaseInv
<1>4. CalmInv /\ KnownInv /\ BaseInv => DeliveredIsPaid
  <2> SUFFICES ASSUME CalmInv, KnownInv, BaseInv, NEW o \in Orders,
                      fate[o] = "Completed", credited[o] > 0
               PROVE  reply[o] \in {"Cut", "Unnamed"} \/ retryCount[o] >= MaxRetry
    BY DEF DeliveredIsPaid
  <2>1. Created(o)
    BY DEF BaseInv, FreshInv
  <2>2. Unpaid(o)
    BY <2>1 DEF CalmInv
  <2> QED
    BY <2>2 DEF KnownInv, Alive
<1> QED
  BY <1>1, <1>2, <1>3, <1>4, CalmInvariant, BaseInvariant, PTL DEF Spec

---------------------------------------------------------------------------
(* What a batch overwrites.                                                 *)

\* Only the calls of administrators are counted.
LEMMA CallsGrow ==
    ASSUME TypeOK, [Next]_vars
    PROVE  calls' = calls \/ calls' = calls + 1
<1> USE DEF boundVars
<1>1. ASSUME NEW o \in Orders,
             CreateOrder(o) \/ ExecutorStep(o) \/ ProviderSettles(o)
      PROVE  calls' = calls
  BY <1>1 DEF CreateOrder, ExecutorStep, ProviderSettles, ExecuteRead, ExecutePlace,
              ExecutePersist, ExecuteCleanup, ExecuteReturn
<1>2. ASSUME NEW w \in Orders \cup Instances, RefundStep(w)
      PROVE  calls' = calls
  BY <1>2 DEF RefundStep, RefundSwap, RefundCredit, RefundUndo
<1>3. ASSUME NEW i \in Instances, PollStep(i) \/ ProcessOrderRefund(i)
      PROVE  calls' = calls
  BY <1>3 DEF ProcessOrderRefund, PollStep, PollFind, PollAnswer, PollFail, PollDone,
              PollApply, PollSkip, PollPending, PollExhaust, PollComplete,
              PollPartial, PollCancel, PollReject, Settle, TakeOrder
<1>4. CASE Fault
  BY <1>4 DEF Fault, ExecuteFatal, ExecuteCleanupFails, RefundAbort, RefundGivenUp,
              ProcessOrderRefundAbort
<1>5. CASE Crash
  BY <1>5 DEF Crash, CrashExecutor, CrashPoller, CrashCall, Crashed
<1>6. CASE \E o \in Orders : MarkOrderAsFailed(o)
  BY <1>6 DEF MarkOrderAsFailed
<1>7. ASSUME NEW c \in Calls, AdminStep(c)
      PROVE  calls' = calls \/ calls' = calls + 1
  BY <1>7 DEF AdminStep, CompleteRead, CompleteDebit, CompleteSave
<1>8. CASE UNCHANGED vars
  BY <1>8 DEF vars
<1> QED
  BY <1>1, <1>2, <1>3, <1>4, <1>5, <1>6, <1>7, <1>8 DEF Next

\* Before the first call nothing is done on behalf of an administrator.
LEMMA NoAdministrator ==
    ASSUME TypeOK, TruthInv, [Next]_vars, calls' = 0
    PROVE  /\ calls = 0
           /\ \A c \in Calls : ~AdminStep(c)
           /\ \A o \in Orders : ~MarkOrderAsFailed(o)
<1>1. calls = 0
  <2>1. calls \in Nat
    BY NumbersAssumption DEF TypeOK
  <2> QED
    BY <2>1, CallsGrow
<1>2. \A o \in Orders : ~MarkOrderAsFailed(o)
  BY <1>1 DEF MarkOrderAsFailed
<1>3. \A c \in Calls : ~AdminStep(c)
  BY <1>1 DEF TruthInv, AdminStep, CompleteRead, CompleteDebit, CompleteSave
<1> QED
  BY <1>1, <1>2, <1>3

\* The order whose end a poll writes, and the end.
LEMMA PollWrites ==
    ASSUME BaseInv, TypeOK', NEW i \in Instances, PollStep(i)
    PROVE  /\ UNCHANGED <<sent, fate>>
           /\ \A w \in Workers \ {i} : pc'[w] = pc[w]
           /\ \A j \in Instances \ {i} : batch'[j] = batch[j] /\ verdict'[j] = verdict[j]
           /\ \/ /\ UNCHANGED status
                 /\ \/ batch'[i] = Pollable /\ pc'[i] # "applying"
                    \/ /\ UNCHANGED batch
                       /\ \A x \in Orders :
                            verdict'[i][x] \in {checkOrders(Slug, fate[x]), "none"}
                    \/ batch'[i] = {}
                    \/ /\ batch'[i] \subseteq batch[i]
                       /\ UNCHANGED <<verdict, pc>>
              \/ \E x \in Orders :
                   /\ pc[i] = "applying" /\ x \in batch[i]
                   /\ batch'[i] = batch[i] \ {x}
                   /\ UNCHANGED <<verdict, pc>>
                   /\ \/ /\ status' = [status EXCEPT ![x] = "FAILED"]
                         /\ retryCount'[x] >= MaxRetry
                      \/ /\ verdict[i][x] \in Final
                         /\ status' = [status EXCEPT ![x] =
                                          toInternalStatus(verdict[i][x])]
<1> DEFINE Others == /\ UNCHANGED <<sent, fate>>
                     /\ \A w \in Workers \ {i} : pc'[w] = pc[w]
                     /\ \A j \in Instances \ {i} : /\ batch'[j] = batch[j]
                                                   /\ verdict'[j] = verdict[j]
           Ends(x) == /\ pc[i] = "applying" /\ x \in batch[i]
                      /\ batch'[i] = batch[i] \ {x}
                      /\ UNCHANGED <<verdict, pc>>
                      /\ \/ /\ status' = [status EXCEPT ![x] = "FAILED"]
                            /\ retryCount'[x] >= MaxRetry
                         \/ /\ verdict[i][x] \in Final
                            /\ status' = [status EXCEPT ![x] =
                                             toInternalStatus(verdict[i][x])]
<1> USE WorkersAssumption
    DEF BaseInv, TypeOK, orderVars, ledgerVars, pollVars, boundVars, Workers
<1>1. CASE PollFind(i)
  <2>1. /\ UNCHANGED <<sent, fate, verdict>>
        /\ \A w \in Workers \ {i} : pc'[w] = pc[w]
        /\ pc'[i] # "applying"
    BY <1>1 DEF PollFind
  <2>2. UNCHANGED status /\ batch' = [batch EXCEPT ![i] = Pollable]
    BY <1>1, KillSwitchIdle
  <2> QED
    BY <2>1, <2>2
<1>2. CASE \E absent \in SUBSET batch[i] : PollAnswer(i, absent)
  BY <1>2 DEF PollAnswer
<1>3. CASE PollFail(i)
  BY <1>3 DEF PollFail
<1>4. CASE PollDone(i)
  BY <1>4 DEF PollDone
<1>5. CASE \E o \in Orders : PollSkip(i, o) \/ PollPending(i, o)
  BY <1>5 DEF PollSkip, PollPending, TakeOrder
<1>6. ASSUME NEW o \in Orders, PollExhaust(i, o)
      PROVE  /\ UNCHANGED <<sent, fate, verdict, pc>>
             /\ pc[i] = "applying" /\ o \in batch[i]
             /\ batch' = [batch EXCEPT ![i] = @ \ {o}]
             /\ status' = [status EXCEPT ![o] = "FAILED"]
             /\ retryCount'[o] >= MaxRetry
  <2>1. /\ UNCHANGED <<sent, fate, verdict, pc>>
        /\ pc[i] = "applying" /\ o \in batch[i]
        /\ batch' = [batch EXCEPT ![i] = @ \ {o}]
        /\ status' = [status EXCEPT ![o] = "FAILED"]
    BY <1>6 DEF PollExhaust, TakeOrder
  <2>2. retryCount' = [retryCount EXCEPT ![o] = seenRetry[i][o] + 1]
        /\ seenRetry[i][o] + 1 >= MaxRetry
    BY <1>6 DEF PollExhaust
  <2>3. retryCount'[o] = seenRetry[i][o] + 1
    BY <2>2
  <2> QED
    BY <2>1, <2>2, <2>3
<1>7. ASSUME NEW o \in Orders,
             \/ PollComplete(i, o) \/ PollPartial(i, o)
             \/ PollCancel(i, o) \/ PollReject(i, o)
      PROVE  /\ UNCHANGED <<sent, fate, verdict, pc>>
             /\ pc[i] = "applying" /\ o \in batch[i]
             /\ batch' = [batch EXCEPT ![i] = @ \ {o}]
             /\ verdict[i][o] \in Final
             /\ status' = [status EXCEPT ![o] = toInternalStatus(verdict[i][o])]
  BY <1>7 DEF PollComplete, PollPartial, PollCancel, PollReject, Settle, TakeOrder,
              Final
<1>8. ASSUME NEW o \in Orders, PollExhaust(i, o)
      PROVE  Others /\ Ends(o)
  <2>1. batch'[i] = batch[i] \ {o} /\ \A j \in Instances \ {i} : batch'[j] = batch[j]
    BY <1>6, <1>8
  <2> QED
    BY <1>6, <1>8, <2>1
<1>9. ASSUME NEW o \in Orders,
             \/ PollComplete(i, o) \/ PollPartial(i, o)
             \/ PollCancel(i, o) \/ PollReject(i, o)
      PROVE  Others /\ Ends(o)
  <2>1. batch'[i] = batch[i] \ {o} /\ \A j \in Instances \ {i} : batch'[j] = batch[j]
    BY <1>7, <1>9
  <2> QED
    BY <1>7, <1>9, <2>1
<1>10. CASE \E o \in Orders : \/ PollExhaust(i, o) \/ PollComplete(i, o)
                              \/ PollPartial(i, o) \/ PollCancel(i, o)
                              \/ PollReject(i, o)
  <2>1. Others /\ \E x \in Orders : Ends(x)
    BY <1>8, <1>9, <1>10
  <2> QED
    BY <2>1
<1> QED
  BY <1>1, <1>2, <1>3, <1>4, <1>5, <1>10 DEF PollStep, PollApply

\* A step of an executor, its errors included, concerns its order only; once the
\* reply is persisted it writes nothing but FAILED.
LEMMA ExecutorWrites ==
    ASSUME TypeOK, TypeOK', NEW o \in Orders,
           \/ CreateOrder(o) \/ ExecutorStep(o)
           \/ ExecuteFatal(o) \/ ExecuteCleanupFails(o)
    PROVE  /\ UNCHANGED <<batch, verdict>>
           /\ \A w \in Workers \ {o} : pc'[w] = pc[w]
           /\ \A x \in Orders \ {o} : /\ status'[x] = status[x]
                                      /\ sent'[x] = sent[x]
                                      /\ fate'[x] = fate[x]
           /\ \/ /\ ~Created(o) /\ UNCHANGED <<sent, fate>>
                 /\ status'[o] \in {"PENDING", "PROCESSING"}
                 /\ pc'[o] \in {"start", "done"}
                 /\ pc'[o] = "start" => status'[o] = "PROCESSING"
              \/ /\ pc[o] \in {"start", "placing"}
                 /\ UNCHANGED <<status, sent>>
              \/ /\ pc[o] = "reply"
                 /\ pc'[o] \in {"persisted", "fatal"}
                 /\ status[o] # "none" => status'[o] # "none"
              \/ /\ pc[o] \in {"persisted", "fatal", "cleanup"}
                 /\ pc'[o] \notin {"start", "placing", "reply"}
                 /\ UNCHANGED <<sent, fate>>
                 /\ \/ UNCHANGED status
                    \/ /\ pc[o] = "fatal"
                       /\ status' = [status EXCEPT ![o] = "FAILED"]
<1> USE DEF TypeOK, orderVars, ledgerVars, pollVars, Workers, Created
<1>1. CASE CreateOrder(o)
  BY <1>1 DEF CreateOrder
<1>2. CASE ExecuteRead(o)
  BY <1>2 DEF ExecuteRead
<1>3. CASE ExecutePlace(o)
  BY <1>3 DEF ExecutePlace
<1>4. CASE ExecutePersist(o)
  <2>1. PICK s \in {"FAILED", "COMPLETED", "PROCESSING"} :
          status' = [status EXCEPT ![o] = IF s = "PROCESSING" THEN @ ELSE s]
    BY <1>4 DEF ExecutePersist, PersistedStatus, toInternalStatus
  <2> QED
    BY <1>4, <2>1 DEF ExecutePersist
<1>5. CASE ExecuteCleanup(o)
  BY <1>5 DEF ExecuteCleanup
<1>6. CASE ExecuteReturn(o)
  BY <1>6 DEF ExecuteReturn
<1>7. CASE ExecuteFatal(o)
  BY <1>7 DEF ExecuteFatal
<1>8. CASE ExecuteCleanupFails(o)
  BY <1>8 DEF ExecuteCleanupFails
<1> QED
  BY <1>1, <1>2, <1>3, <1>4, <1>5, <1>6, <1>7, <1>8 DEF ExecutorStep

\* Every step keeps what polls hold true, as long as no administrator has called.
LEMMA TruthStep ==
    ASSUME Slug # "alkasr", TruthInv, BaseInv, TypeOK', [Next]_vars
    PROVE  TruthInv'
<1> SUFFICES ASSUME calls' = 0
             PROVE  TruthInv'
  BY DEF TruthInv
<1>0. /\ calls = 0 /\ TypeOK
      /\ \A c \in Calls : ~AdminStep(c)
      /\ \A o \in Orders : ~MarkOrderAsFailed(o)
  BY NoAdministrator DEF BaseInv
<1> DEFINE Idle == \A c \in Calls : pc[c] = "idle"
           Own(o) == /\ ~Created(o) => ~sent[o]
                     /\ pc[o] \in {"start", "placing", "reply"}
                           => status[o] = "PROCESSING" /\ ~sent[o]
           Held(i, o) == /\ o \in batch[i] => sent[o]
                         /\ /\ pc[i] = "applying" /\ o \in batch[i]
                            /\ verdict[i][o] \in Final
                            => fate[o] = verdict[i][o]
                         /\ /\ status[o] \in {"COMPLETED", "CANCELED", "PARTIAL"}
                            /\ o \in batch[i]
                            => status[o] = toInternalStatus(fate[o])
<1>1. Idle /\ (\A o \in Orders : Own(o)) /\ \A i \in Instances, o \in Orders : Held(i, o)
  BY <1>0 DEF TruthInv
<1>2. SUFFICES Idle' /\ (\A o \in Orders : Own(o)')
               /\ \A i \in Instances, o \in Orders : Held(i, o)'
  BY DEF TruthInv
<1>3. ASSUME NEW o \in Orders,
             \/ CreateOrder(o) \/ ExecutorStep(o)
             \/ ExecuteFatal(o) \/ ExecuteCleanupFails(o)
      PROVE  Idle' /\ (\A x \in Orders : Own(x)')
             /\ \A i \in Instances, x \in Orders : Held(i, x)'
  <2>1. /\ UNCHANGED <<batch, verdict>>
        /\ \A w \in Workers \ {o} : pc'[w] = pc[w]
        /\ \A x \in Orders \ {o} : /\ status'[x] = status[x]
                                   /\ sent'[x] = sent[x]
                                   /\ fate'[x] = fate[x]
    BY <1>0, <1>3, ExecutorWrites
  <2>2. \/ /\ ~Created(o) /\ UNCHANGED <<sent, fate>>
           /\ status'[o] \in {"PENDING", "PROCESSING"}
           /\ pc'[o] \in {"start", "done"}
           /\ pc'[o] = "start" => status'[o] = "PROCESSING"
        \/ /\ pc[o] \in {"start", "placing"}
           /\ UNCHANGED <<status, sent>>
        \/ /\ pc[o] = "reply"
           /\ pc'[o] \in {"persisted", "fatal"}
           /\ status[o] # "none" => status'[o] # "none"
        \/ /\ pc[o] \in {"persisted", "fatal", "cleanup"}
           /\ pc'[o] \notin {"start", "placing", "reply"}
           /\ UNCHANGED <<sent, fate>>
           /\ \/ UNCHANGED status
              \/ /\ pc[o] = "fatal"
                 /\ status' = [status EXCEPT ![o] = "FAILED"]
    BY <1>0, <1>3, ExecutorWrites
  <2>3. \A w \in Instances \cup Calls : w \in Workers \ {o}
    BY WorkersAssumption DEF Workers
  <2>4. Idle'
    BY <1>1, <2>1, <2>3
  <2>5. pc[o] # "idle" => Created(o)
    BY DEF BaseInv, WorkersInv
  <2>6. Own(o)'
    BY <1>0, <1>1, <2>2, <2>5 DEF Created, TypeOK
  <2>7. ASSUME NEW i \in Instances, o \in batch[i]
        PROVE  Held(i, o)'
    <3>1. sent[o] /\ Created(o) /\ pc[o] \notin {"start", "placing", "reply"}
      BY <1>1, <2>7
    <3>2. /\ UNCHANGED <<sent, fate>>
          /\ status'[o] = status[o] \/ status'[o] = "FAILED"
      BY <1>0, <2>2, <3>1 DEF TypeOK
    <3> QED
      BY <1>1, <2>1, <2>3, <2>7, <3>2
  <2>8. ASSUME NEW i \in Instances
        PROVE  Held(i, o)'
    BY <2>1, <2>7
  <2>9. ASSUME NEW x \in Orders \ {o}
        PROVE  Own(x)' /\ \A i \in Instances : Held(i, x)'
    BY <1>1, <2>1, <2>3 DEF Workers, Created
  <2> QED
    BY <2>4, <2>6, <2>8, <2>9
<1>4. ASSUME NEW i \in Instances, PollStep(i)
      PROVE  Idle' /\ (\A x \in Orders : Own(x)')
             /\ \A j \in Instances, x \in Orders : Held(j, x)'
  <2>1. /\ UNCHANGED <<sent, fate>>
        /\ \A w \in Workers \ {i} : pc'[w] = pc[w]
        /\ \A j \in Instances \ {i} : batch'[j] = batch[j] /\ verdict'[j] = verdict[j]
    BY <1>4, PollWrites
  <2>2. \A w \in Orders \cup Calls : w \in Workers \ {i}
    BY WorkersAssumption DEF Workers
  <2>3. Idle'
    BY <1>1, <2>1, <2>2
  <2>4. CASE /\ UNCHANGED status
             /\ \/ batch'[i] = Pollable /\ pc'[i] # "applying"
                \/ /\ UNCHANGED batch
                   /\ \A x \in Orders :
                        verdict'[i][x] \in {checkOrders(Slug, fate[x]), "none"}
                \/ batch'[i] = {}
                \/ batch'[i] \subseteq batch[i] /\ UNCHANGED <<verdict, pc>>
    <3>1. \A x \in Orders : Own(x)'
      BY <1>1, <2>1, <2>2, <2>4 DEF Created
    <3>2. ASSUME NEW x \in Orders
          PROVE  Held(i, x)'
      <4>1. CASE batch'[i] = Pollable /\ pc'[i] # "applying"
        BY <2>1, <2>4, <4>1 DEF Pollable
      <4>2. CASE /\ UNCHANGED batch
                 /\ \A y \in Orders :
                      verdict'[i][y] \in {checkOrders(Slug, fate[y]), "none"}
        <5>1. verdict'[i][x] \in Final => fate[x] = verdict'[i][x]
          BY <4>2, HonestCheck DEF Final
        <5> QED
          BY <1>1, <2>1, <2>4, <4>2, <5>1
      <4>3. CASE batch'[i] = {}
        BY <4>3
      <4>4. CASE batch'[i] \subseteq batch[i] /\ UNCHANGED <<verdict, pc>>
        BY <1>1, <2>1, <2>4, <4>4
      <4> QED
        BY <2>4, <4>1, <4>2, <4>3, <4>4
    <3>3. ASSUME NEW j \in Instances \ {i}, NEW x \in Orders
          PROVE  Held(j, x)'
      <4>1. j \in Workers \ {i}
        BY DEF Workers
      <4> QED
        BY <1>1, <2>1, <2>4, <4>1
    <3> QED
      BY <2>3, <3>1, <3>2, <3>3
  <2>5. ASSUME NEW o \in Orders, o \in batch[i], pc[i] = "applying",
               batch'[i] = batch[i] \ {o}, UNCHANGED <<verdict, pc>>,
               NEW s, status' = [status EXCEPT ![o] = s],
               \/ s = "FAILED"
               \/ verdict[i][o] \in Final /\ s = toInternalStatus(verdict[i][o])
        PROVE  Idle' /\ (\A x \in Orders : Own(x)')
               /\ \A j \in Instances, x \in Orders : Held(j, x)'
    <3>1. /\ sent[o] /\ Created(o) /\ pc[o] \notin {"start", "placing", "reply"}
          /\ status'[o] = s /\ s # "none"
          /\ s = "FAILED" \/ s = toInternalStatus(fate[o])
      BY <1>0, <1>1, <2>5 DEF TypeOK, toInternalStatus
    <3>2. \A x \in Orders \ {o} : status'[x] = status[x]
      BY <1>0, <2>5 DEF TypeOK
    <3>3. \A x \in Orders : Own(x)'
      BY <1>1, <2>1, <2>5, <3>1, <3>2 DEF Created
    <3>4. ASSUME NEW j \in Instances, NEW x \in Orders
          PROVE  Held(j, x)'
      <4>1. batch'[j] \subseteq batch[j]
        BY <2>1, <2>5
      <4>2. CASE x = o
        BY <1>1, <2>1, <2>5, <3>1, <4>1, <4>2
      <4>3. CASE x # o
        BY <1>1, <2>1, <2>5, <3>2, <4>1, <4>3
      <4> QED
        BY <4>2, <4>3
    <3> QED
      BY <2>3, <3>3, <3>4
  <2>6. CASE \E x \in Orders :
               /\ pc[i] = "applying" /\ x \in batch[i]
               /\ batch'[i] = batch[i] \ {x}
               /\ UNCHANGED <<verdict, pc>>
               /\ \/ /\ status' = [status EXCEPT ![x] = "FAILED"]
                     /\ retryCount'[x] >= MaxRetry
                  \/ /\ verdict[i][x] \in Final
                     /\ status' = [status EXCEPT ![x] =
                                      toInternalStatus(verdict[i][x])]
    BY <2>5, <2>6
  <2> QED
    BY <1>4, <2>4, <2>6, PollWrites
<1>5. ASSUME UNCHANGED <<status, sent, fate, pc, batch, verdict>>
      PROVE  Idle' /\ (\A x \in Orders : Own(x)')
             /\ \A i \in Instances, x \in Orders : Held(i, x)'
  BY <1>1, <1>5 DEF Created
<1>6. ASSUME NEW w \in Orders \cup Instances,
             \/ RefundStep(w) \/ RefundAbort(w) \/ RefundGivenUp(w)
             \/ w \in Instances /\ ProcessOrderRefund(w)
             \/ w \in Instances /\ ProcessOrderRefundAbort(w)
      PROVE  UNCHANGED <<status, sent, fate, pc, batch, verdict>>
  BY <1>6 DEF RefundStep, RefundSwap, RefundCredit, RefundUndo, RefundAbort,
              RefundGivenUp, ProcessOrderRefund, ProcessOrderRefundAbort, orderVars,
              pollVars
<1>7. ASSUME Crash
      PROVE  Idle' /\ (\A x \in Orders : Own(x)')
             /\ \A i \in Instances, x \in Orders : Held(i, x)'
  <2>1. UNCHANGED <<status, sent, fate>>
    BY <1>7 DEF Crash, CrashExecutor, CrashPoller, CrashCall, Crashed, orderVars
  <2>2. /\ \A c \in Calls : pc'[c] = pc[c]
        /\ \A o \in Orders : pc'[o] = pc[o] \/ pc'[o] = "done"
        /\ \A i \in Instances : \/ pc'[i] = "idle" /\ batch'[i] = {}
                                \/ /\ pc'[i] = pc[i]
                                   /\ batch'[i] = batch[i]
                                   /\ verdict'[i] = verdict[i]
    <3>1. CASE \E o \in Orders : CrashExecutor(o)
      BY <1>0, <3>1, WorkersAssumption DEF CrashExecutor, TypeOK, Workers, pollVars
    <3>2. CASE \E i \in Instances : CrashPoller(i)
      BY <1>0, <3>2, WorkersAssumption DEF CrashPoller, TypeOK, Workers
    <3>3. CASE \E c \in Calls : CrashCall(c)
      BY <1>1, <3>3 DEF CrashCall
    <3> QED
      BY <1>7, <3>1, <3>2, <3>3 DEF Crash
  <2> QED
    BY <1>1, <2>1, <2>2 DEF Created
<1>8. ASSUME NEW o \in Orders, ProviderSettles(o)
      PROVE  Idle' /\ (\A x \in Orders : Own(x)')
             /\ \A i \in Instances, x \in Orders : Held(i, x)'
  <2>1. /\ fate[o] \in {"Pending", "Unlisted"}
        /\ UNCHANGED <<status, sent, pc, batch, verdict>>
        /\ \A x \in Orders \ {o} : fate'[x] = fate[x]
    BY <1>0, <1>8 DEF ProviderSettles, orderVars, pollVars, TypeOK
  <2>2. \A i \in Instances : Held(i, o)'
    BY <1>1, <2>1 DEF Final, toInternalStatus
  <2> QED
    BY <1>1, <2>1, <2>2 DEF Created
<1>9. CASE UNCHANGED vars
  BY <1>5, <1>9 DEF vars, orderVars, pollVars
<1> QED
  BY <1>0, <1>3, <1>4, <1>5, <1>6, <1>7, <1>8, <1>9 DEF Next, Fault

\* For any number of processes, errors and crashes, before the first call of an
\* administrator and with a provider other than Alkasr: what a poll or an executor
\* writes over a settled order is the end the provider reports, over a FAILED of
\* giving up, or a FAILED of giving up itself.
THEOREM NoVerdictUndone ==
    ASSUME Slug # "alkasr"
    PROVE  Spec => OverwritesAreTrue
<1>1. Init => TruthInv
  BY WorkersAssumption DEF Init, TruthInv, Created, Workers
<1>2. TruthInv /\ BaseInv /\ TypeOK' /\ [Next]_vars => TruthInv'
  BY TruthStep
<1>3. BaseInv => TypeOK
  BY DEF BaseInv
<1>4. ASSUME TruthInv, BaseInv, TypeOK', [Next]_vars
      PROVE  [calls' = 0 =>
                \A o \in Orders :
                    Settled(o) /\ status'[o] # status[o] =>
                        \/ status[o] = "FAILED" /\ status'[o] = toInternalStatus(fate[o])
                        \/ status'[o] = "FAILED" /\ GivenUp(o)]_vars
  <2> SUFFICES ASSUME calls' = 0, NEW o \in Orders, Settled(o),
                      status'[o] # status[o]
               PROVE  \/ /\ status[o] = "FAILED"
                         /\ status'[o] = toInternalStatus(fate[o])
                      \/ status'[o] = "FAILED" /\ GivenUp(o)
    OBVIOUS
  <2>0. /\ calls = 0 /\ TypeOK
        /\ \A c \in Calls : ~AdminStep(c)
        /\ \A x \in Orders : ~MarkOrderAsFailed(x)
    BY <1>4, NoAdministrator DEF BaseInv
  <2>1. status[o] \in {"COMPLETED", "CANCELED", "PARTIAL", "FAILED"}
    BY <1>4, <2>0 DEF TypeOK, Statuses, Settled, Created, Queued, BaseInv,
                      NeverExhausted
  <2>2. ASSUME NEW x \in Orders,
               \/ CreateOrder(x) \/ ExecutorStep(x)
               \/ ExecuteFatal(x) \/ ExecuteCleanupFails(x)
        PROVE  status'[o] = "FAILED" /\ GivenUp(o)
    <3>1. x = o
      BY <1>4, <2>0, <2>2, ExecutorWrites
    <3>2. Created(o) /\ pc[o] \notin {"start", "placing", "reply"}
      BY <1>4, <2>0, <2>1 DEF TruthInv, Created
    <3>3. pc[o] = "fatal" /\ status' = [status EXCEPT ![o] = "FAILED"]
      BY <1>4, <2>0, <2>2, <3>1, <3>2, ExecutorWrites
    <3> QED
      BY <2>0, <3>3 DEF GivenUp, TypeOK
  <2>3. ASSUME NEW i \in Instances, PollStep(i)
        PROVE  \/ /\ status[o] = "FAILED"
                  /\ status'[o] = toInternalStatus(fate[o])
               \/ status'[o] = "FAILED" /\ GivenUp(o)
    <3>1. PICK x \in Orders :
            /\ pc[i] = "applying" /\ x \in batch[i]
            /\ \/ /\ status' = [status EXCEPT ![x] = "FAILED"]
                  /\ retryCount'[x] >= MaxRetry
               \/ /\ verdict[i][x] \in Final
                  /\ status' = [status EXCEPT ![x] = toInternalStatus(verdict[i][x])]
      BY <1>4, <2>3, PollWrites
    <3>2. x = o
      BY <2>0, <3>1 DEF TypeOK
    <3>3. CASE status' = [status EXCEPT ![o] = "FAILED"] /\ retryCount'[o] >= MaxRetry
      BY <2>0, <3>3 DEF GivenUp, TypeOK
    <3>4. CASE /\ verdict[i][o] \in Final
               /\ status' = [status EXCEPT ![o] = toInternalStatus(verdict[i][o])]
      <4>1. fate[o] = verdict[i][o]
        BY <1>4, <2>0, <3>1, <3>2, <3>4 DEF TruthInv
      <4>2. status'[o] = toInternalStatus(fate[o])
        BY <2>0, <3>4, <4>1 DEF TypeOK
      <4>3. status[o] = "FAILED"
        BY <1>4, <2>0, <2>1, <3>1, <3>2, <4>2 DEF TruthInv
      <4> QED
        BY <4>2, <4>3
    <3> QED
      BY <3>1, <3>2, <3>3, <3>4
  <2>4. ASSUME NEW w \in Orders \cup Instances,
               \/ RefundStep(w) \/ RefundAbort(w) \/ RefundGivenUp(w)
               \/ w \in Instances /\ ProcessOrderRefund(w)
               \/ w \in Instances /\ ProcessOrderRefundAbort(w)
        PROVE  FALSE
    BY <2>4 DEF RefundStep, RefundSwap, RefundCredit, RefundUndo, RefundAbort,
                RefundGivenUp, ProcessOrderRefund, ProcessOrderRefundAbort, orderVars
  <2>5. ~Crash
    BY DEF Crash, CrashExecutor, CrashPoller, CrashCall, Crashed, orderVars
  <2>6. \A x \in Orders : ~ProviderSettles(x)
    BY DEF ProviderSettles, orderVars
  <2>7. ~UNCHANGED vars
    BY DEF vars, orderVars
  <2> QED
    BY <1>4, <2>0, <2>2, <2>3, <2>4, <2>5, <2>6, <2>7 DEF Next, Fault
<1> QED
  BY <1>1, <1>2, <1>3, <1>4, BaseInvariant, PTL DEF Spec, OverwritesAreTrue

===========================================================================
