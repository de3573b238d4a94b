------------------------------ MODULE Deposit ------------------------------
(***************************************************************************)
(* Deposit requests: a customer asks for a top-up, administrators approve, *)
(* reject or edit it, and an approval credits the wallet.  No transaction  *)
(* is used anywhere, so that every await of the code separates two         *)
(* actions, and a call may end after any of them.                          *)
(*                                                                         *)
(* Sources: src/src/modules/deposits/deposit.service.js, deposit.model.js, *)
(* deposit.controller.js, createDeposit of src/src/modules/me, and         *)
(* creditWalletDirect of src/src/modules/wallet/wallet.service.js.         *)
(* Amounts are in hundredths, the precision the code rounds to.  The       *)
(* platform rates change under the requests: every read of a currency may  *)
(* find any of Rates.                                                      *)
(***************************************************************************)
EXTENDS Integers, FiniteSets

CONSTANTS
    Users,
    Deposits,       \* the requests that may be created
    Owner,          \* the customer of each
    Reviewers,      \* slots for concurrent administrator calls
    NoDeposit,      \* the target of an idle slot
    Amounts,        \* what customers ask for and administrators write
    Rates,          \* platform rates per USD that a read may find
    MaxCalls,       \* bound: administrator calls in a behaviour
    MaxFaults       \* bound: calls ended by an error or a crash

ASSUME DepositAssumption ==
    /\ Owner \in [Deposits -> Users]
    /\ NoDeposit \notin Deposits
    /\ Amounts \subseteq Nat \ {0}
    /\ Rates \subseteq Nat \ {0}
    /\ MaxCalls \in Nat /\ MaxFaults \in Nat

VARIABLES
    \* The request documents.
    status, requestedAmount, exchangeRate, amountUsd,
    \* The wallet entries that reference them: how many credits, and how much.
    credits, credited,
    \* The submission of each request.
    asking,
    \* History: the customers two of whose submissions were between the look for
    \* a pending request and the insertion together.
    raced,
    \* Where an administrator's call stands, its request, the amount it read or
    \* was given, the USD equivalent it read, and whether it overrides.
    pc, target, amount, seenUsd, override,
    calls, faults

documentVars == <<status, requestedAmount, exchangeRate, amountUsd>>
askingVars == <<asking, raced>>
walletVars == <<credits, credited>>
callVars == <<pc, target, amount, seenUsd, override>>
vars == <<documentVars, walletVars, askingVars, callVars, calls, faults>>

Statuses == {"none", "PENDING", "APPROVED", "REJECTED"}

Pcs == {"idle", "swap", "convert", "credit", "reject", "edit"}

\* x / y, rounded to the nearest hundredth.
Rounded(x, y) == (2 * x + y) \div (2 * y)

Usd(a, rate) == Rounded(a, rate)

\* What approveDeposit may credit for an amount: the amount itself when the wallet
\* has the deposit's currency, or else its value by way of USD, at the rates of
\* the moment and not the one the request has frozen.
WalletCredits(a) == {a} \cup {Rounded(a * to, from) : to \in Rates, from \in Rates}

TypeOK ==
    /\ status \in [Deposits -> Statuses]
    /\ requestedAmount \in [Deposits -> Nat]
    /\ exchangeRate \in [Deposits -> Rates \cup {0}]
    /\ amountUsd \in [Deposits -> Nat]
    /\ credits \in [Deposits -> Nat]
    /\ credited \in [Deposits -> Nat]
    /\ asking \in [Deposits -> {"no", "look", "insert", "done"}]
    /\ raced \subseteq Users
    /\ pc \in [Reviewers -> Pcs]
    /\ target \in [Reviewers -> Deposits \cup {NoDeposit}]
    /\ amount \in [Reviewers -> Nat]
    /\ seenUsd \in [Reviewers -> Nat]
    /\ override \in [Reviewers -> BOOLEAN]
    /\ calls \in 0..MaxCalls
    /\ faults \in 0..MaxFaults

Init ==
    /\ status = [d \in Deposits |-> "none"]
    /\ requestedAmount = [d \in Deposits |-> 0]
    /\ exchangeRate = [d \in Deposits |-> 0]
    /\ amountUsd = [d \in Deposits |-> 0]
    /\ credits = [d \in Deposits |-> 0]
    /\ credited = [d \in Deposits |-> 0]
    /\ asking = [d \in Deposits |-> "no"] /\ raced = {}
    /\ pc = [r \in Reviewers |-> "idle"]
    /\ target = [r \in Reviewers |-> NoDeposit]
    /\ amount = [r \in Reviewers |-> 0]
    /\ seenUsd = [r \in Reviewers |-> 0]
    /\ override = [r \in Reviewers |-> FALSE]
    /\ calls = 0 /\ faults = 0

---------------------------------------------------------------------------
(* A submission: the currency is read, a pending request is looked for, and *)
(* the request is inserted.                                                 *)

\* The platform rate as the currency's document has it, kept for good.
FreezeRate(d) ==
    \E rate \in Rates : exchangeRate' = [exchangeRate EXCEPT ![d] = rate]

\* createDeposit: a currency that is inactive or unknown is refused.
CreateDeposit(d) ==
    /\ asking[d] = "no"
    /\ \/ /\ asking' = [asking EXCEPT ![d] = "look"]
          /\ FreezeRate(d)
       \/ /\ asking' = [asking EXCEPT ![d] = "done"]
          /\ UNCHANGED exchangeRate
    /\ UNCHANGED <<status, requestedAmount, amountUsd, walletVars, raced, callVars,
                   calls, faults>>

\* Mutant: the look finds the requests that were decided.
HasDecided(u) ==
    \E d \in Deposits : Owner[d] = u /\ status[d] \in {"APPROVED", "REJECTED"}

HasPending(u) == \E d \in Deposits : Owner[d] = u /\ status[d] = "PENDING"

Inserting(u) == \E d \in Deposits : Owner[d] = u /\ asking[d] = "insert"

CreateCheck(d) ==
    /\ asking[d] = "look"
    /\ IF HasPending(Owner[d])
       THEN /\ asking' = [asking EXCEPT ![d] = "done"]
            /\ UNCHANGED raced
       ELSE /\ asking' = [asking EXCEPT ![d] = "insert"]
            /\ raced' = IF Inserting(Owner[d]) THEN raced \cup {Owner[d]} ELSE raced
    /\ UNCHANGED <<documentVars, walletVars, callVars, calls, faults>>

\* An amount below a cent of USD fails the schema's validation.
CreateInsert(d) ==
    /\ asking[d] = "insert"
    /\ \E a \in Amounts :
        LET usd == Usd(a, exchangeRate[d]) IN
        IF usd > 0
        THEN /\ status' = [status EXCEPT ![d] = "PENDING"]
             /\ requestedAmount' = [requestedAmount EXCEPT ![d] = a]
             /\ amountUsd' = [amountUsd EXCEPT ![d] = usd]
        ELSE UNCHANGED <<status, requestedAmount, amountUsd>>
    /\ asking' = [asking EXCEPT ![d] = "done"]
    /\ UNCHANGED <<exchangeRate, walletVars, raced, callVars, calls, faults>>

---------------------------------------------------------------------------
(* The administrator's calls.  Each begins with a read of the request.      *)

\* The read, and the check that the request is pending.
Begin(r, d, next) ==
    /\ calls < MaxCalls
    /\ pc[r] = "idle"
    /\ status[d] = "PENDING"
    /\ pc' = [pc EXCEPT ![r] = next]
    /\ target' = [target EXCEPT ![r] = d]
    /\ calls' = calls + 1
    /\ UNCHANGED <<documentVars, walletVars, askingVars, faults>>

\* What the call kept in memory goes with it.
End(r) ==
    /\ pc' = [pc EXCEPT ![r] = "idle"]
    /\ target' = [target EXCEPT ![r] = NoDeposit]
    /\ amount' = [amount EXCEPT ![r] = 0]
    /\ seenUsd' = [seenUsd EXCEPT ![r] = 0]
    /\ override' = [override EXCEPT ![r] = FALSE]

\* approveDeposit: the amount to credit is the administrator's, or else the one
\* read before the swap.
ApproveRead(r, d) ==
    /\ Begin(r, d, "swap")
    /\ \/ /\ amount' = [amount EXCEPT ![r] = requestedAmount[d]]
          /\ UNCHANGED override
       \/ /\ \E a \in Amounts : amount' = [amount EXCEPT ![r] = a]
          /\ override' = [override EXCEPT ![r] = TRUE]
    /\ UNCHANGED seenUsd

\* Mutant: the update has no condition on the status.
CanApproveAlways(d) == status[d] # "none"

CanApprove(d) == status[d] = "PENDING"

\* Mutant: the approval ends with the swap.
ApproveSwapOnly(r) ==
    /\ pc[r] = "swap"
    /\ LET d == target[r] IN
        status' = [status EXCEPT ![d] = IF CanApprove(d) THEN "APPROVED" ELSE @]
    /\ End(r)
    /\ UNCHANGED <<requestedAmount, exchangeRate, amountUsd, walletVars, askingVars,
                   calls, faults>>

\* findOneAndUpdate on { _id, status: PENDING }.
ApproveSwap(r) ==
    /\ pc[r] = "swap"
    /\ LET d == target[r] IN
        IF CanApprove(d)
        THEN /\ status' = [status EXCEPT ![d] = "APPROVED"]
             /\ requestedAmount' = [requestedAmount EXCEPT
                                        ![d] = IF override[r] THEN amount[r] ELSE @]
             /\ pc' = [pc EXCEPT ![r] = "convert"]
             /\ UNCHANGED <<target, amount, seenUsd, override>>
        ELSE /\ End(r)
             /\ UNCHANGED <<status, requestedAmount>>
    /\ UNCHANGED <<exchangeRate, amountUsd, walletVars, askingVars, calls, faults>>

\* The wallet's currency is read only now; an amount that rounds to nothing is
\* refused by creditWalletDirect.  The converter's error for a currency that has
\* no rate ends the call like any other (Abandon).
ApproveConvert(r) ==
    /\ pc[r] = "convert"
    /\ \E credit \in WalletCredits(amount[r]) :
        IF credit > 0
        THEN /\ amount' = [amount EXCEPT ![r] = credit]
             /\ pc' = [pc EXCEPT ![r] = "credit"]
             /\ UNCHANGED <<target, seenUsd, override>>
        ELSE End(r)
    /\ UNCHANGED <<documentVars, walletVars, askingVars, calls, faults>>

ApproveCredit(r) ==
    /\ pc[r] = "credit"
    /\ credits' = [credits EXCEPT ![target[r]] = @ + 1]
    /\ credited' = [credited EXCEPT ![target[r]] = @ + amount[r]]
    /\ End(r)
    /\ UNCHANGED <<documentVars, askingVars, calls, faults>>

RejectRead(r, d) ==
    /\ Begin(r, d, "reject")
    /\ UNCHANGED <<amount, seenUsd, override>>

\* deposit.save() has no condition on the status it overwrites.
RejectSave(r) ==
    /\ pc[r] = "reject"
    /\ status' = [status EXCEPT ![target[r]] = "REJECTED"]
    /\ End(r)
    /\ UNCHANGED <<requestedAmount, exchangeRate, amountUsd, walletVars, askingVars,
                   calls, faults>>

\* updatePendingDeposit: an edit that changes the amount read.
EditRead(r, d) ==
    /\ Begin(r, d, "edit")
    /\ \E a \in Amounts \ {requestedAmount[d]} :
        amount' = [amount EXCEPT ![r] = a]
    /\ seenUsd' = [seenUsd EXCEPT ![r] = amountUsd[d]]
    /\ UNCHANGED override

\* The equivalent is computed at the frozen rate.  save() validates, and writes the
\* paths whose value is not the one read.
EditSave(r) ==
    /\ pc[r] = "edit"
    /\ LET d == target[r]
           usd == Usd(amount[r], exchangeRate[d]) IN
        IF usd > 0
        THEN /\ requestedAmount' = [requestedAmount EXCEPT ![d] = amount[r]]
             /\ amountUsd' = [amountUsd EXCEPT
                                ![d] = IF usd # seenUsd[r] THEN usd ELSE @]
        ELSE UNCHANGED <<requestedAmount, amountUsd>>
    /\ End(r)
    /\ UNCHANGED <<status, exchangeRate, walletVars, askingVars, calls, faults>>

\* A database error ends the call with what it has done so far; so does the end
\* of its process.
Abandon(r) ==
    /\ faults < MaxFaults
    /\ pc[r] # "idle"
    /\ End(r)
    /\ faults' = faults + 1
    /\ UNCHANGED <<documentVars, walletVars, askingVars, calls>>

---------------------------------------------------------------------------
Review(r) ==
    \/ ApproveSwap(r)
    \/ ApproveConvert(r)
    \/ ApproveCredit(r)
    \/ RejectSave(r)
    \/ EditSave(r)

Next ==
    \/ \E d \in Deposits : CreateDeposit(d) \/ CreateCheck(d) \/ CreateInsert(d)
    \/ \E r \in Reviewers, d \in Deposits :
            ApproveRead(r, d) \/ RejectRead(r, d) \/ EditRead(r, d)
    \/ \E r \in Reviewers : Review(r) \/ Abandon(r)

Spec == Init /\ [][Next]_vars

\* A call that was received runs to its end.
FairSpec == Spec /\ \A r \in Reviewers : WF_vars(Review(r))

---------------------------------------------------------------------------
(* Properties.                                                              *)

\* Calls that approved a request and have not credited it yet.
Paying(r) == pc[r] \in {"convert", "credit"}

\* However approvals, rejections and edits interleave and fail, a request is
\* credited at most once, and never before it was reviewed: approveDeposit's
\* only guard is the swap from PENDING, and nothing may lead back to it.
CreditedOnce ==
    \A d \in Deposits : /\ credits[d] <= 1
                        /\ credits[d] = 1 => status[d] \in {"APPROVED", "REJECTED"}

\* A customer has one pending request at most, however many submissions, reviews and
\* edits there are, as long as no two of the submissions stood between the look for
\* a pending request and the insertion together: no review or edit, not even one
\* that saves over another, makes a request pending again.
OnePendingUnlessRaced ==
    \A d, e \in Deposits :
        /\ Owner[d] = Owner[e] /\ Owner[d] \notin raced
        /\ status[d] = "PENDING" /\ status[e] = "PENDING"
        => d = e

\* An approval that no fault interrupts ends in the credit, whoever rejects or
\* edits the request meanwhile, provided that no amount is so small that it
\* rounds to nothing in the wallet's currency.
ApprovedIsPaid ==
    \A d \in Deposits : status[d] = "APPROVED" ~> credits[d] = 1 \/ faults > 0

\* A call acts on a request, and one that credits is alone: it holds the swap
\* that no other can make again.
PayersInv ==
    \A r \in Reviewers :
        /\ pc[r] # "idle" => /\ target[r] \in Deposits
                             /\ status[target[r]] # "none"
        /\ Paying(r) => /\ credits[target[r]] = 0
                        /\ status[target[r]] # "PENDING"
                        /\ \A q \in Reviewers :
                              Paying(q) /\ target[q] = target[r] => q = r

\* A request that is being made has no document yet, and a frozen rate once its
\* currency was read.
AskingInv ==
    \A d \in Deposits : /\ asking[d] # "done" => status[d] = "none"
                        /\ asking[d] \in {"look", "insert"} \/ status[d] # "none"
                              => exchangeRate[d] # 0

\* Pending, or past the look for one that is.
Occupies(d) == status[d] = "PENDING" \/ asking[d] = "insert"

\* A customer whose submissions did not race has one such request.
PendingInv ==
    \A d, e \in Deposits :
        Owner[d] = Owner[e] /\ Owner[d] \notin raced /\ Occupies(d) /\ Occupies(e)
            => d = e

IInv == TypeOK /\ CreditedOnce /\ PayersInv /\ AskingInv /\ PendingInv

===========================================================================
