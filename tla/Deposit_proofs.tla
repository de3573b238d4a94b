--------------------------- MODULE Deposit_proofs ---------------------------
(***************************************************************************)
(* Theorems about Deposit, for every number of customers, requests and     *)
(* administrators.  IInv is inductive: a call that holds a won swap is the *)
(* only one that does, and its request has not been credited; and without  *)
(* a race one request of a customer is pending or about to be.             *)
(***************************************************************************)
EXTENDS Deposit, TLAPS

\* Amounts converted and rounded are amounts.
LEMMA AmountsNat ==
    ASSUME NEW a \in Nat
    PROVE  /\ \A rate \in Rates : Usd(a, rate) \in Nat
           /\ WalletCredits(a) \subseteq Nat
<1>1. \A x \in Nat, y \in Nat \ {0} : Rounded(x, y) \in Nat
  BY DEF Rounded
<1>2. \A to \in Rates : a * to \in Nat
  BY DepositAssumption
<1> QED
  BY <1>1, <1>2, DepositAssumption DEF Usd, WalletCredits

\* A call that ends leaves its own variables typed.
LEMMA EndTypes ==
    ASSUME TypeOK, NEW r \in Reviewers, End(r)
    PROVE  /\ pc' \in [Reviewers -> Pcs]
           /\ target' \in [Reviewers -> Deposits \cup {NoDeposit}]
           /\ amount' \in [Reviewers -> Nat]
           /\ seenUsd' \in [Reviewers -> Nat]
           /\ override' \in [Reviewers -> BOOLEAN]
  BY DEF TypeOK, End, Pcs

\* Every step keeps the variables' types.
LEMMA TypeStep ==
    ASSUME TypeOK, PayersInv, AskingInv, [Next]_vars
    PROVE  TypeOK'
<1> USE DepositAssumption
<1>0. ASSUME NEW r \in Reviewers, pc[r] # "idle"
      PROVE  target[r] \in Deposits
  BY <1>0 DEF PayersInv
<1>13. ASSUME NEW d \in Deposits, CreateDeposit(d)
       PROVE  TypeOK'
  BY <1>13 DEF TypeOK, CreateDeposit, FreezeRate, walletVars, callVars, askingVars
<1>1. ASSUME NEW d \in Deposits, CreateCheck(d)
      PROVE  TypeOK'
  <2>1. Owner[d] \in Users
    OBVIOUS
  <2> QED
    BY <1>1, <2>1 DEF TypeOK, CreateCheck, documentVars, walletVars, callVars, askingVars
<1>2. ASSUME NEW d \in Deposits, CreateInsert(d)
      PROVE  TypeOK'
  <2>1. PICK a \in Amounts :
          \/ /\ status' = [status EXCEPT ![d] = "PENDING"]
             /\ requestedAmount' = [requestedAmount EXCEPT ![d] = a]
             /\ amountUsd' = [amountUsd EXCEPT ![d] = Usd(a, exchangeRate[d])]
          \/ UNCHANGED <<status, requestedAmount, amountUsd>>
    BY <1>2 DEF CreateInsert
  <2>2. exchangeRate[d] \in Rates
    BY <1>2 DEF CreateInsert, AskingInv, TypeOK
  <2>3. a \in Nat /\ Usd(a, exchangeRate[d]) \in Nat
    BY <2>2, AmountsNat
  <2>4. /\ status' \in [Deposits -> Statuses]
        /\ requestedAmount' \in [Deposits -> Nat]
        /\ amountUsd' \in [Deposits -> Nat]
    BY <2>1, <2>3 DEF TypeOK, Statuses
  <2> QED
    BY <1>2, <2>4 DEF TypeOK, CreateInsert, walletVars, callVars, askingVars
<1>3. ASSUME NEW r \in Reviewers, NEW d \in Deposits, ApproveRead(r, d)
      PROVE  TypeOK'
  <2>1. pc' \in [Reviewers -> Pcs] /\ target' \in [Reviewers -> Deposits \cup {NoDeposit}]
        /\ calls' \in 0..MaxCalls
    BY <1>3 DEF TypeOK, ApproveRead, Begin, Pcs
  <2>2. amount' \in [Reviewers -> Nat] /\ override' \in [Reviewers -> BOOLEAN]
    BY <1>3 DEF TypeOK, ApproveRead
  <2> QED
    BY <1>3, <2>1, <2>2 DEF TypeOK, ApproveRead, Begin, documentVars, walletVars, askingVars
<1>4. ASSUME NEW r \in Reviewers, NEW d \in Deposits, RejectRead(r, d)
      PROVE  TypeOK'
  BY <1>4 DEF TypeOK, RejectRead, Begin, Pcs, documentVars, walletVars, askingVars
<1>5. ASSUME NEW r \in Reviewers, NEW d \in Deposits, EditRead(r, d)
      PROVE  TypeOK'
  BY <1>5 DEF TypeOK, EditRead, Begin, Pcs, documentVars, walletVars, askingVars
<1>6. ASSUME NEW r \in Reviewers, ApproveSwap(r)
      PROVE  TypeOK'
  <2>1. target[r] \in Deposits /\ amount[r] \in Nat
    BY <1>6, <1>0 DEF ApproveSwap, TypeOK
  <2>2. UNCHANGED <<exchangeRate, amountUsd, walletVars, askingVars, calls, faults>>
    BY <1>6 DEF ApproveSwap
  <2>3. CASE End(r) /\ UNCHANGED <<status, requestedAmount>>
    BY <2>2, <2>3, EndTypes DEF TypeOK, walletVars, askingVars
  <2>4. CASE CanApprove(target[r])
    <3>1. /\ status' = [status EXCEPT ![target[r]] = "APPROVED"]
          /\ requestedAmount' = [requestedAmount EXCEPT
                                    ![target[r]] = IF override[r] THEN amount[r] ELSE @]
          /\ pc' = [pc EXCEPT ![r] = "convert"]
          /\ UNCHANGED <<target, amount, seenUsd, override>>
      BY <1>6, <2>4 DEF ApproveSwap
    <3>2. status' \in [Deposits -> Statuses] /\ pc' \in [Reviewers -> Pcs]
      BY <3>1, <2>1 DEF TypeOK, Statuses, Pcs
    <3>3. requestedAmount' \in [Deposits -> Nat]
      BY <3>1, <2>1 DEF TypeOK
    <3> QED
      BY <2>2, <3>1, <3>2, <3>3 DEF TypeOK, walletVars, askingVars
  <2> QED
    BY <1>6, <2>3, <2>4 DEF ApproveSwap
<1>7. ASSUME NEW r \in Reviewers, ApproveConvert(r)
      PROVE  TypeOK'
  <2>1. WalletCredits(amount[r]) \subseteq Nat
    BY AmountsNat DEF TypeOK
  <2>2. UNCHANGED <<documentVars, walletVars, askingVars, calls, faults>>
    BY <1>7 DEF ApproveConvert
  <2>3. CASE End(r)
    BY <2>2, <2>3, EndTypes DEF TypeOK, documentVars, walletVars, askingVars
  <2>4. CASE ~End(r)
    <3>1. PICK credit \in WalletCredits(amount[r]) :
            /\ amount' = [amount EXCEPT ![r] = credit]
            /\ pc' = [pc EXCEPT ![r] = "credit"]
            /\ UNCHANGED <<target, seenUsd, override>>
      BY <1>7, <2>4 DEF ApproveConvert
    <3>2. amount' \in [Reviewers -> Nat] /\ pc' \in [Reviewers -> Pcs]
      BY <3>1, <2>1 DEF TypeOK, Pcs
    <3> QED
      BY <2>2, <3>1, <3>2 DEF TypeOK, documentVars, walletVars, askingVars
  <2> QED
    BY <2>3, <2>4
<1>8. ASSUME NEW r \in Reviewers, ApproveCredit(r)
      PROVE  TypeOK'
  BY <1>8, <1>0, EndTypes DEF TypeOK, ApproveCredit, documentVars, askingVars
<1>9. ASSUME NEW r \in Reviewers, RejectSave(r)
      PROVE  TypeOK'
  BY <1>9, EndTypes DEF TypeOK, RejectSave, walletVars, Statuses, askingVars
<1>10. ASSUME NEW r \in Reviewers, EditSave(r)
       PROVE  TypeOK'
  <2>1. exchangeRate[target[r]] \in Rates
    BY <1>10, <1>0 DEF EditSave, PayersInv, AskingInv, TypeOK
  <2>2. Usd(amount[r], exchangeRate[target[r]]) \in Nat
    BY <2>1, AmountsNat DEF TypeOK
  <2>3. /\ requestedAmount' \in [Deposits -> Nat]
        /\ amountUsd' \in [Deposits -> Nat]
    BY <1>10, <2>2 DEF TypeOK, EditSave
  <2> QED
    BY <1>10, <2>3, EndTypes DEF TypeOK, EditSave, walletVars, askingVars
<1>11. ASSUME NEW r \in Reviewers, Abandon(r)
       PROVE  TypeOK'
  BY <1>11, EndTypes DEF TypeOK, Abandon, documentVars, walletVars, askingVars
<1>12. CASE UNCHANGED vars
  BY <1>12 DEF TypeOK, vars, documentVars, walletVars, callVars, askingVars
<1> QED
  BY <1>1, <1>2, <1>3, <1>4, <1>5, <1>6, <1>7, <1>8, <1>9, <1>10, <1>11, <1>12, <1>13
     DEF Next, Review

\* Every step keeps what an administrator's call relies on.
LEMMA PayersStep ==
    ASSUME IInv, [Next]_vars
    PROVE  PayersInv'
<1> USE DEF IInv, PayersInv, Paying
<1>0. TypeOK
  OBVIOUS
<1>1. ASSUME NEW d \in Deposits, CreateDeposit(d) \/ CreateCheck(d)
      PROVE  PayersInv'
  BY <1>1 DEF CreateDeposit, CreateCheck, documentVars, walletVars, callVars
<1>2. ASSUME NEW d \in Deposits, CreateInsert(d)
      PROVE  PayersInv'
  <2>1. status[d] = "none"
    BY <1>2 DEF CreateInsert, AskingInv
  <2>2. \A r \in Reviewers : pc[r] # "idle" => target[r] # d
    BY <2>1
  <2>3. UNCHANGED <<pc, target, credits>>
    BY <1>2 DEF CreateInsert, walletVars, callVars
  <2>4. \A e \in Deposits \ {d} : status'[e] = status[e]
    BY <1>2 DEF CreateInsert, TypeOK, documentVars
  <2> QED
    BY <2>2, <2>3, <2>4, <1>0 DEF TypeOK
<1>3. ASSUME NEW r \in Reviewers, NEW d \in Deposits, NEW n \in {"swap", "reject", "edit"},
             Begin(r, d, n)
      PROVE  PayersInv'
  BY <1>3, <1>0 DEF Begin, TypeOK, documentVars, walletVars
<1>4. ASSUME NEW r \in Reviewers, End(r), UNCHANGED credits,
             \A d \in Deposits : status[d] # "PENDING" => status'[d] # "PENDING",
             \A d \in Deposits : status[d] # "none" => status'[d] # "none"
      PROVE  PayersInv'
  BY <1>4, <1>0 DEF End, TypeOK
<1>5. ASSUME NEW r \in Reviewers, ApproveSwap(r)
      PROVE  PayersInv'
  <2>1. CASE CanApprove(target[r])
    <3>1. target[r] \in Deposits /\ status[target[r]] = "PENDING"
      BY <1>5, <2>1 DEF ApproveSwap, CanApprove
    <3>2. /\ status' = [status EXCEPT ![target[r]] = "APPROVED"]
          /\ pc' = [pc EXCEPT ![r] = "convert"]
          /\ target' = target /\ credits' = credits
      BY <1>5, <2>1 DEF ApproveSwap, walletVars
    <3>3. credits[target[r]] = 0
      <4>1. credits[target[r]] \in Nat
        BY <3>1, <1>0 DEF TypeOK
      <4>2. credits[target[r]] <= 1 /\ credits[target[r]] # 1
        BY <3>1 DEF CreditedOnce
      <4> QED
        BY <4>1, <4>2
    <3>4. \A q \in Reviewers : Paying(q) => target[q] # target[r]
      BY <3>1
    <3> QED
      BY <3>1, <3>2, <3>3, <3>4, <1>0 DEF TypeOK
  <2>2. CASE ~CanApprove(target[r])
    BY <1>5, <2>2, <1>4 DEF ApproveSwap, walletVars
  <2> QED
    BY <2>1, <2>2
<1>6. ASSUME NEW r \in Reviewers, ApproveConvert(r)
      PROVE  PayersInv'
  <2>1. CASE End(r)
    BY <1>6, <2>1, <1>4 DEF ApproveConvert, documentVars, walletVars
  <2>2. CASE /\ pc' = [pc EXCEPT ![r] = "credit"]
             /\ UNCHANGED <<target, status, credits>>
    BY <1>6, <2>2, <1>0 DEF ApproveConvert, TypeOK
  <2> QED
    BY <1>6, <2>1, <2>2 DEF ApproveConvert, documentVars, walletVars
<1>7. ASSUME NEW r \in Reviewers, ApproveCredit(r)
      PROVE  PayersInv'
  <2>1. \A q \in Reviewers \ {r} : Paying(q) => target[q] # target[r]
    BY <1>7 DEF ApproveCredit
  <2>2. /\ pc' = [pc EXCEPT ![r] = "idle"]
        /\ target' = [target EXCEPT ![r] = NoDeposit]
        /\ credits' = [credits EXCEPT ![target[r]] = @ + 1]
        /\ status' = status
    BY <1>7 DEF ApproveCredit, End, documentVars
  <2> QED
    BY <2>1, <2>2, <1>0 DEF TypeOK
<1>8. ASSUME NEW r \in Reviewers, RejectSave(r)
      PROVE  PayersInv'
  <2>1. \A d \in Deposits : status'[d] = status[d] \/ status'[d] = "REJECTED"
    BY <1>8, <1>0 DEF RejectSave, TypeOK
  <2> QED
    BY <1>8, <2>1, <1>4 DEF RejectSave, walletVars
<1>9. ASSUME NEW r \in Reviewers, EditSave(r) \/ Abandon(r)
      PROVE  PayersInv'
  BY <1>9, <1>4 DEF EditSave, Abandon, documentVars, walletVars
<1>10. CASE UNCHANGED vars
  BY <1>10 DEF vars, documentVars, walletVars, callVars
<1> QED
  BY <1>1, <1>2, <1>3, <1>5, <1>6, <1>7, <1>8, <1>9, <1>10
     DEF Next, Review, ApproveRead, RejectRead, EditRead

\* Every step keeps the count of credits, and the requests not made without a
\* document.
LEMMA CreditStep ==
    ASSUME IInv, [Next]_vars
    PROVE  CreditedOnce' /\ AskingInv'
<1> USE DEF IInv, CreditedOnce, AskingInv
<1>0. TypeOK
  OBVIOUS
<1>1. ASSUME NEW d \in Deposits, CreateDeposit(d)
      PROVE  CreditedOnce' /\ AskingInv'
  <2>1. status[d] = "none" /\ asking[d] = "no"
    BY <1>1 DEF CreateDeposit
  <2>2. \A e \in Deposits \ {d} : /\ asking'[e] = asking[e]
                                 /\ exchangeRate'[e] = exchangeRate[e]
    BY <1>1, <1>0 DEF CreateDeposit, FreezeRate, TypeOK
  <2>3. UNCHANGED <<status, credits>>
    BY <1>1 DEF CreateDeposit, walletVars
  <2>4. ASSUME asking' = [asking EXCEPT ![d] = "done"]
        PROVE  CreditedOnce' /\ AskingInv'
    <3>1. asking'[d] = "done"
      BY <2>4, <1>0 DEF TypeOK
    <3> QED
      BY <2>1, <2>2, <2>3, <3>1
  <2>5. ASSUME NEW rate \in Rates,
               asking' = [asking EXCEPT ![d] = "look"],
               exchangeRate' = [exchangeRate EXCEPT ![d] = rate]
        PROVE  CreditedOnce' /\ AskingInv'
    <3>1. exchangeRate'[d] # 0
      BY <2>5, <1>0, DepositAssumption DEF TypeOK
    <3> QED
      BY <2>1, <2>2, <2>3, <3>1
  <2> QED
    BY <1>1, <2>4, <2>5 DEF CreateDeposit, FreezeRate
<1>2. ASSUME NEW d \in Deposits, CreateCheck(d)
      PROVE  CreditedOnce' /\ AskingInv'
  BY <1>2, <1>0 DEF CreateCheck, TypeOK, documentVars, walletVars
<1>3. ASSUME NEW d \in Deposits, CreateInsert(d)
      PROVE  CreditedOnce' /\ AskingInv'
  <2>1. status[d] = "none" /\ asking[d] = "insert"
    BY <1>3 DEF CreateInsert
  <2>2. credits[d] # 1
    BY <2>1
  <2>3. \A e \in Deposits \ {d} : status'[e] = status[e] /\ asking'[e] = asking[e]
    BY <1>3, <1>0 DEF CreateInsert, TypeOK
  <2>4. asking'[d] = "done" /\ UNCHANGED <<credits, exchangeRate>>
    BY <1>3, <1>0 DEF CreateInsert, TypeOK, walletVars
  <2> QED
    BY <2>1, <2>2, <2>3, <2>4
<1>4. ASSUME NEW r \in Reviewers, ApproveCredit(r)
      PROVE  CreditedOnce' /\ AskingInv'
  <2>1. /\ target[r] \in Deposits
        /\ credits[target[r]] = 0
        /\ status[target[r]] \in {"APPROVED", "REJECTED"}
    BY <1>4, <1>0 DEF ApproveCredit, PayersInv, Paying, TypeOK, Statuses
  <2>2. /\ credits' = [credits EXCEPT ![target[r]] = @ + 1]
        /\ UNCHANGED <<status, exchangeRate, asking>>
    BY <1>4 DEF ApproveCredit, documentVars, askingVars
  <2> QED
    BY <2>1, <2>2, <1>0 DEF TypeOK
<1>5. ASSUME NEW r \in Reviewers, ApproveSwap(r) \/ RejectSave(r)
      PROVE  CreditedOnce' /\ AskingInv'
  <2>1. target[r] \in Deposits /\ status[target[r]] # "none"
    BY <1>5 DEF ApproveSwap, RejectSave, PayersInv
  <2>2. \A d \in Deposits : \/ status'[d] = status[d]
                            \/ d = target[r] /\ status'[d] \in {"APPROVED", "REJECTED"}
    BY <1>5, <1>0 DEF ApproveSwap, RejectSave, TypeOK
  <2>3. UNCHANGED <<credits, exchangeRate, asking>>
    BY <1>5 DEF ApproveSwap, RejectSave, walletVars, askingVars
  <2> QED
    BY <2>1, <2>2, <2>3
<1>6. CASE UNCHANGED <<status, exchangeRate, credits, asking>>
  BY <1>6
<1> QED
  BY <1>1, <1>2, <1>3, <1>4, <1>5, <1>6
     DEF Next, Review, ApproveRead, RejectRead, EditRead, Begin, ApproveConvert,
         EditSave, Abandon, vars, documentVars, walletVars, askingVars

\* Every step keeps a customer whose submissions did not race to one request that
\* is pending or about to be: the look lets a submission through only when there is
\* none, and no call of an administrator makes a request pending.
LEMMA PendingStep ==
    ASSUME IInv, [Next]_vars
    PROVE  PendingInv'
<1> USE DEF IInv, PendingInv, Occupies
<1>0. TypeOK
  OBVIOUS
<1>1. ASSUME NEW d \in Deposits, CreateDeposit(d)
      PROVE  PendingInv'
  <2>1. \A e \in Deposits : asking'[e] = "insert" => asking[e] = "insert"
    BY <1>1, <1>0 DEF CreateDeposit, FreezeRate, TypeOK
  <2> QED
    BY <1>1, <2>1 DEF CreateDeposit
<1>2. ASSUME NEW d \in Deposits, CreateCheck(d)
      PROVE  PendingInv'
  <2>1. status' = status
    BY <1>2 DEF CreateCheck, documentVars
  <2>2. \A e \in Deposits \ {d} : asking'[e] = asking[e]
    BY <1>2, <1>0 DEF CreateCheck, TypeOK
  <2>3. CASE HasPending(Owner[d])
    <3>1. asking'[d] = "done" /\ raced' = raced /\ status[d] = "none"
      BY <1>2, <2>3, <1>0 DEF CreateCheck, TypeOK, AskingInv
    <3> QED
      BY <2>1, <2>2, <3>1
  <2>4. CASE ~HasPending(Owner[d]) /\ Inserting(Owner[d])
    <3>1. raced' = raced \cup {Owner[d]}
      BY <1>2, <2>4 DEF CreateCheck
    <3> QED
      BY <2>1, <2>2, <3>1
  <2>5. CASE ~HasPending(Owner[d]) /\ ~Inserting(Owner[d])
    <3>1. raced' = raced
      BY <1>2, <2>5 DEF CreateCheck
    <3>2. \A e \in Deposits : Owner[e] = Owner[d] => ~Occupies(e)
      BY <2>5 DEF HasPending, Inserting
    <3> QED
      BY <2>1, <2>2, <3>1, <3>2
  <2> QED
    BY <2>3, <2>4, <2>5
<1>3. ASSUME NEW d \in Deposits, CreateInsert(d)
      PROVE  PendingInv'
  <2>1. Occupies(d) /\ raced' = raced
    BY <1>3 DEF CreateInsert
  <2>2. \A e \in Deposits \ {d} : status'[e] = status[e] /\ asking'[e] = asking[e]
    BY <1>3, <1>0 DEF CreateInsert, TypeOK
  <2> QED
    BY <2>1, <2>2
<1>4. ASSUME NEW r \in Reviewers, ApproveSwap(r) \/ RejectSave(r)
      PROVE  PendingInv'
  <2>1. \A d \in Deposits : status'[d] = status[d] \/ status'[d] \in {"APPROVED", "REJECTED"}
    BY <1>4, <1>0 DEF ApproveSwap, RejectSave, TypeOK
  <2>2. UNCHANGED <<asking, raced>>
    BY <1>4 DEF ApproveSwap, RejectSave, askingVars
  <2> QED
    BY <2>1, <2>2
<1>5. CASE UNCHANGED <<status, asking, raced>>
  BY <1>5
<1> QED
  BY <1>1, <1>2, <1>3, <1>4, <1>5
     DEF Next, Review, ApproveRead, RejectRead, EditRead, Begin, ApproveConvert,
         ApproveCredit, EditSave, Abandon, vars, documentVars, askingVars

\* The inductive invariant.
THEOREM Invariant == Spec => []IInv
<1>1. Init => IInv
  BY DepositAssumption
     DEF Init, IInv, TypeOK, CreditedOnce, PayersInv, Paying, AskingInv, PendingInv,
         Occupies, Statuses, Pcs
<1>2. IInv /\ [Next]_vars => IInv'
  BY TypeStep, PayersStep, CreditStep, PendingStep DEF IInv
<1> QED
  BY <1>1, <1>2, PTL DEF Spec

\* The variables keep their types.
THEOREM TypeCorrect == Spec => []TypeOK
<1>1. IInv => TypeOK
  BY DEF IInv
<1> QED
  BY <1>1, Invariant, PTL

\* No request is credited twice, or before it was reviewed, whatever approvals,
\* rejections, edits and failures it goes through.
THEOREM NoDoubleCredit == Spec => []CreditedOnce
<1>1. IInv => CreditedOnce
  BY DEF IInv
<1> QED
  BY <1>1, Invariant, PTL

\* A customer whose submissions did not race has one pending request at most.
THEOREM OnePendingHolds == Spec => []OnePendingUnlessRaced
<1>1. IInv => OnePendingUnlessRaced
  BY DEF IInv, PendingInv, Occupies, OnePendingUnlessRaced
<1> QED
  BY <1>1, Invariant, PTL

===========================================================================
