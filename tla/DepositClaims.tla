--------------------------- MODULE DepositClaims ---------------------------
(***************************************************************************)
(* What the comments and the documentation say of deposits, where the code *)
(* does something else.                                                    *)
(***************************************************************************)
EXTENDS Deposit

Idle(d) == \A r \in Reviewers : target[r] # d

\* "A user may NOT have more than one PENDING deposit at a time"
\* (deposit.service.js:33).  The look and the insertion are two steps, and no
\* index makes the second one fail.
OnePending ==
    \A d, e \in Deposits :
        Owner[d] = Owner[e] /\ status[d] = "PENDING" /\ status[e] = "PENDING"
            => d = e

\* "An approved deposit cannot be rejected. It has already been credited."
\* (deposit.service.js:362).  The check is made on the document read, not by the
\* save.
ApprovedNotRejected ==
    [][\A d \in Deposits : status[d] = "APPROVED" => status'[d] # "REJECTED"]_status

\* "the balance change and the associated document write (order, deposit) are
\* atomic" (docs/wallet-system.md:14).  approveDeposit passes no session.
ApprovedMeansCredited ==
    \A d \in Deposits : status[d] = "APPROVED" /\ Idle(d) => credits[d] = 1

\* "Only PENDING deposits can be edited." (deposit.service.js:520).
EditsOnlyPending ==
    [][\A d \in Deposits :
        requestedAmount'[d] # requestedAmount[d]
            => status[d] \in {"none", "PENDING"}]_<<status, requestedAmount>>

\* "deposits now credit requestedAmount directly" (deposit.service.js:15).  The
\* amount credited is the one read before the swap, whatever the request says now,
\* and even when the conversion is accounted for.
CreditsRequestedAmount ==
    \A d \in Deposits :
        status[d] = "APPROVED" /\ credits[d] = 1
            => credited[d] \in WalletCredits(requestedAmount[d])

\* "USD equivalent: requestedAmount / exchangeRate." (deposit.model.js:75).  An
\* approval that overrides the amount leaves the equivalent alone.
UsdEquivalent ==
    \A d \in Deposits : status[d] # "none" => amountUsd[d] = Usd(requestedAmount[d], exchangeRate[d])

\* "Frozen at creation time so future rate changes don't affect the value of this
\* pending deposit." (deposit.model.js:66).  An approval converts at the rates of
\* its moment: what it credits is not what the frozen rate makes of the amount.
FrozenRatePays ==
    \A d \in Deposits :
        credits[d] = 1 /\ status[d] = "APPROVED" =>
            \/ credited[d] = requestedAmount[d]
            \/ \E to \in Rates :
                  credited[d] = Rounded(requestedAmount[d] * to, exchangeRate[d])

===========================================================================
