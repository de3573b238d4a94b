------------------------------- MODULE Wallet -------------------------------
(***************************************************************************)
(* One user's wallet and everything that moves it: checkouts and refunds   *)
(* in their transactions, deposit credits and re-deductions that update    *)
(* the balance and record it in two steps, and the administrator's         *)
(* adjustments, which read the user, compute a balance and write it.       *)
(*                                                                         *)
(* Sources: src/src/modules/wallet/wallet.service.js,                      *)
(* src/src/modules/admin/admin.wallet.service.js, admin.users.service.js,  *)
(* and the callers in orders and deposits.  Amounts are in hundredths, the *)
(* precision every balance is rounded to.  That an order is not refunded   *)
(* twice is the matter of OrderLifecycle; here it is a guard.              *)
(***************************************************************************)
EXTENDS Integers, FiniteSets, FiniteSetsExt

CONSTANTS
    Orders,         \* the user's orders
    Callers,        \* slots for calls that take several steps
    Opening,        \* the balance before the first of them
    Limit,          \* the credit limit before any change of it
    Limits,         \* what an administrator may change it to
    Amounts,        \* prices, deposits, adjustments
    Targets,        \* the balances that setBalance sets
    Percents,       \* of the bulk debt adjustments
    HomeRate,       \* platform rates of the two currencies a wallet can have
    AwayRate,
    MaxCalls,       \* bound: administrator's and deposit calls in a behaviour
    MaxFaults       \* bound: calls ended by an error or a crash

ASSUME WalletAssumption ==
    /\ IsFiniteSet(Callers)
    /\ Opening \in Int
    /\ Limit \in Nat /\ Limits \subseteq Nat
    /\ Amounts \subseteq Nat \ {0}
    /\ Targets \subseteq Int
    /\ Percents \subseteq 1..100
    /\ HomeRate \in Nat \ {0} /\ AwayRate \in Nat \ {0}
    /\ MaxCalls \in Nat /\ MaxFaults \in Nat

VARIABLES
    \* The user document.
    balance, creditLimit, creditUsed, currency, active,
    \* The WalletTransactions: the sum of what they record, with its sign.
    recorded,
    \* The order documents: chargedAmount (0 before checkout), creditUsedAmount,
    \* the currency snapshot, and whether it was refunded.
    charge, drawn, chargedIn, returned,
    \* Calls under way: what they are about to write, and to record.
    pc, newBalance, newUsed, entry,
    calls, faults,
    \* History: was an operation used that does not look at the credit limit?
    \* Did the balance move without an entry of that amount to explain it?
    limitIgnored, unexplained

userVars == <<balance, creditLimit, creditUsed, currency, active>>
orderVars == <<charge, drawn, chargedIn, returned>>
callVars == <<pc, newBalance, newUsed, entry>>
boundVars == <<calls, faults>>
historyVars == <<limitIgnored, unexplained>>
vars == <<userVars, recorded, orderVars, callVars, boundVars, historyVars>>

---------------------------------------------------------------------------
AtMost(x, y) == IF x <= y THEN x ELSE y
AtLeast(x, y) == IF x >= y THEN x ELSE y
Magnitude(x) == IF x < 0 THEN -x ELSE x

\* x / y rounded to the nearest hundredth, away from zero.
Rounded(x, y) ==
    LET r == (2 * Magnitude(x) + y) \div (2 * y) IN IF x < 0 THEN -r ELSE r

Currencies == {"home", "away"}
RateOf(c) == IF c = "home" THEN HomeRate ELSE AwayRate
Other(c) == IF c = "home" THEN "away" ELSE "home"

TypeOK ==
    /\ balance \in Int /\ recorded \in Int
    /\ creditLimit \in Nat /\ creditUsed \in Nat
    /\ currency \in Currencies /\ active \in BOOLEAN
    /\ charge \in [Orders -> Nat] /\ drawn \in [Orders -> Nat]
    /\ chargedIn \in [Orders -> Currencies]
    /\ returned \in [Orders -> BOOLEAN]
    /\ pc \in [Callers -> {"idle", "write", "convert", "record"}]
    /\ newBalance \in [Callers -> Int]
    /\ newUsed \in [Callers -> Nat]
    /\ entry \in [Callers -> Int]
    /\ calls \in 0..MaxCalls /\ faults \in 0..MaxFaults
    /\ limitIgnored \in BOOLEAN /\ unexplained \in BOOLEAN

Init ==
    /\ balance = Opening /\ recorded = 0
    /\ creditLimit = Limit /\ creditUsed = 0
    /\ currency = "home" /\ active = TRUE
    /\ charge = [o \in Orders |-> 0] /\ drawn = [o \in Orders |-> 0]
    /\ chargedIn = [o \in Orders |-> "home"]
    /\ returned = [o \in Orders |-> FALSE]
    /\ pc = [w \in Callers |-> "idle"]
    /\ newBalance = [w \in Callers |-> 0]
    /\ newUsed = [w \in Callers |-> 0]
    /\ entry = [w \in Callers |-> 0]
    /\ calls = 0 /\ faults = 0
    /\ limitIgnored = FALSE /\ unexplained = FALSE

---------------------------------------------------------------------------
(* Inside a transaction: balance and record change together.                *)

CanDebit(a) == active /\ balance + creditLimit >= a

\* debitWalletAtomic, in the checkout's transaction.  The order keeps what part
\* of its price was not covered by the balance; creditUsed is left alone.
Checkout(o) ==
    /\ charge[o] = 0
    /\ \E a \in Amounts :
        /\ CanDebit(a)
        /\ balance' = balance - a
        /\ recorded' = recorded - a
        /\ charge' = [charge EXCEPT ![o] = a]
        /\ drawn' = [drawn EXCEPT ![o] = a - AtMost(a, AtLeast(0, balance))]
    /\ chargedIn' = [chargedIn EXCEPT ![o] = currency]
    /\ UNCHANGED <<creditLimit, creditUsed, currency, active, returned,
                   callVars, boundVars, historyVars>>

\* refundWalletAtomic, with the amounts the order was charged, or with a part
\* of them and no credit (processOrderRefund).
RefundOrder(o) ==
    /\ charge[o] > 0 /\ ~returned[o]
    /\ \E refund \in {<<charge[o], drawn[o]>>} \cup {<<a, 0>> : a \in 1..charge[o]} :
        /\ balance' = balance + refund[1]
        /\ creditUsed' = AtLeast(0, creditUsed - refund[2])
        /\ recorded' = recorded + refund[1]
    /\ returned' = [returned EXCEPT ![o] = TRUE]
    /\ UNCHANGED <<creditLimit, currency, active, charge, drawn, chargedIn,
                   callVars, boundVars, historyVars>>

---------------------------------------------------------------------------
(* An update that is relative to the balance, then its record, without a     *)
(* transaction.                                                             *)

Call(w) ==
    /\ calls < MaxCalls
    /\ pc[w] = "idle"
    /\ calls' = calls + 1
    /\ UNCHANGED faults

\* creditWalletDirect and forcedDebitWallet: the second one reads the user
\* first, for its record's sake.
Increment(w, amount) ==
    /\ Call(w)
    /\ balance' = balance + amount
    /\ entry' = [entry EXCEPT ![w] = amount]
    /\ pc' = [pc EXCEPT ![w] = "record"]
    /\ UNCHANGED <<creditLimit, creditUsed, currency, active, recorded,
                   newBalance, newUsed, unexplained>>

\* approveDeposit
CreditDeposit(w) ==
    /\ \E a \in Amounts : Increment(w, a)
    /\ UNCHANGED <<orderVars, limitIgnored>>

\* completeOrder charges an order again that is refunded, or merely FAILED,
\* PARTIAL or CANCELED, and clears the refund.
Redebit(w, o) ==
    /\ charge[o] > 0
    /\ Increment(w, -charge[o])
    /\ returned' = [returned EXCEPT ![o] = FALSE]
    /\ limitIgnored' = TRUE
    /\ UNCHANGED <<charge, drawn, chargedIn>>

---------------------------------------------------------------------------
(* The administrator's adjustments: a read of the user, the new balance      *)
(* computed from it, an unconditional $set, and the record.                 *)

\* What the call will write, and what its record will say.
Plan(w, b, used, amount) ==
    /\ Call(w)
    /\ pc' = [pc EXCEPT ![w] = "write"]
    /\ newBalance' = [newBalance EXCEPT ![w] = b]
    /\ newUsed' = [newUsed EXCEPT ![w] = used]
    /\ entry' = [entry EXCEPT ![w] = amount]
    /\ UNCHANGED <<userVars, recorded, orderVars, unexplained>>

\* Mutant: more credit is repaid than was drawn.
RepaidAll(a) == IF creditUsed > 0 /\ balance < 0 THEN a ELSE 0

\* addFunds: what is added to a debt repays drawn credit.
Repaid(a) == IF creditUsed > 0 /\ balance < 0 THEN AtMost(a, creditUsed) ELSE 0

AddFunds(w, a) ==
    /\ Plan(w, balance + a, creditUsed - Repaid(a), a)
    /\ UNCHANGED limitIgnored

\* Mutant: credit in use can be drawn again.
AvailableLine == creditLimit

AvailableCredit == creditLimit - creditUsed

\* deductFunds: a deficit is drawn from the credit line.
DrawnBy(after) == IF after < 0 THEN AtMost(-after, AvailableCredit) ELSE 0

DeductFunds(w, a) ==
    /\ a <= balance + AvailableCredit
    /\ Plan(w, balance - a, creditUsed + DrawnBy(balance - a), -a)
    /\ UNCHANGED limitIgnored

\* The credit in use at a balance, as setBalance and the bulk adjustments see it.
UsedAt(b) == IF b < 0 THEN AtMost(-b, creditLimit) ELSE 0

SetBalance(w, b) ==
    /\ Plan(w, b, UsedAt(b), b - balance)
    /\ limitIgnored' = TRUE

\* adjustNegativeBalancesForInflation and ...ForDeflation, as they meet one user
\* in debt; an adjustment that rounds to nothing is skipped.
Adjustment(p) == Rounded(-balance * p, 100)

Inflate(w, p) ==
    /\ balance < 0 /\ Adjustment(p) > 0
    /\ Plan(w, balance - Adjustment(p), UsedAt(balance - Adjustment(p)),
            -Adjustment(p))
    /\ limitIgnored' = TRUE

Deflate(w, p) ==
    /\ balance < 0 /\ Adjustment(p) > 0
    /\ Plan(w, balance + Adjustment(p), UsedAt(balance + Adjustment(p)),
            Adjustment(p))
    /\ UNCHANGED limitIgnored

\* Another change of the balance since the read is overwritten.
Overwrites(w) == balance # newBalance[w] - entry[w]

WriteBalance(w) ==
    /\ pc[w] = "write"
    /\ balance' = newBalance[w]
    /\ creditUsed' = newUsed[w]
    /\ pc' = [pc EXCEPT ![w] = "record"]
    /\ unexplained' = (unexplained \/ Overwrites(w))
    /\ UNCHANGED <<creditLimit, currency, active, recorded, orderVars,
                   newBalance, newUsed, entry, boundVars, limitIgnored>>

\* What the call kept in memory goes with it.
End(w) ==
    /\ pc' = [pc EXCEPT ![w] = "idle"]
    /\ newBalance' = [newBalance EXCEPT ![w] = 0]
    /\ newUsed' = [newUsed EXCEPT ![w] = 0]
    /\ entry' = [entry EXCEPT ![w] = 0]

\* Mutant: a debit's record loses its sign.
RecordUnsigned(w) ==
    /\ pc[w] = "record"
    /\ recorded' = recorded + Magnitude(entry[w])
    /\ End(w)
    /\ UNCHANGED <<userVars, orderVars, boundVars, historyVars>>

\* WalletTransaction.create.  An amount of zero fails its validation, and
\* changes nothing in the sum.
RecordEntry(w) ==
    /\ pc[w] = "record"
    /\ recorded' = recorded + entry[w]
    /\ End(w)
    /\ UNCHANGED <<userVars, orderVars, boundVars, historyVars>>

\* An error or a crash ends a call with what it has done so far.
Abandon(w) ==
    /\ faults < MaxFaults
    /\ pc[w] # "idle"
    /\ End(w)
    /\ faults' = faults + 1
    /\ unexplained' = (unexplained \/ pc[w] = "record")
    /\ UNCHANGED <<userVars, recorded, orderVars, calls, limitIgnored>>

---------------------------------------------------------------------------
(* Changes of the user document that touch the wallet.                      *)

\* updateUserCurrency: read and conversion, then one $set of both fields.
ConvertRead(w) ==
    /\ Call(w)
    /\ pc' = [pc EXCEPT ![w] = "convert"]
    /\ newBalance' = [newBalance EXCEPT ![w] =
            Rounded(balance * RateOf(Other(currency)), RateOf(currency))]
    /\ limitIgnored' = TRUE
    /\ UNCHANGED <<userVars, recorded, orderVars, newUsed, entry, unexplained>>

ConvertWrite(w) ==
    /\ pc[w] = "convert"
    /\ currency' = Other(currency)
    /\ balance' = newBalance[w]
    /\ End(w)
    /\ unexplained' = TRUE
    /\ UNCHANGED <<creditLimit, creditUsed, active, recorded, orderVars,
                   boundVars, limitIgnored>>

\* updateUserCreditLimit: the save writes the limit alone.
SetLimit ==
    /\ calls < MaxCalls
    /\ \E l \in Limits : creditLimit' = l
    /\ calls' = calls + 1
    /\ limitIgnored' = TRUE
    /\ UNCHANGED <<balance, creditUsed, currency, active, recorded, orderVars,
                   callVars, faults, unexplained>>

\* Approval, rejection and deletion of the account, as the wallet sees them.
SetActive ==
    /\ calls < MaxCalls
    /\ active' = ~active
    /\ calls' = calls + 1
    /\ UNCHANGED <<balance, creditLimit, creditUsed, currency, recorded,
                   orderVars, callVars, faults, historyVars>>

---------------------------------------------------------------------------
Adjust(w) ==
    \/ \E a \in Amounts : AddFunds(w, a) \/ DeductFunds(w, a)
    \/ \E b \in Targets : SetBalance(w, b)
    \/ \E p \in Percents : Inflate(w, p) \/ Deflate(w, p)
    \/ ConvertRead(w)

Next ==
    \/ \E o \in Orders : Checkout(o) \/ RefundOrder(o)
    \/ \E w \in Callers : \/ CreditDeposit(w)
                          \/ \E o \in Orders : Redebit(w, o)
                          \/ Adjust(w)
                          \/ WriteBalance(w)
                          \/ RecordEntry(w)
                          \/ ConvertWrite(w)
                          \/ Abandon(w)
    \/ SetLimit
    \/ SetActive

Spec == Init /\ [][Next]_vars

---------------------------------------------------------------------------
(* Properties.                                                              *)

\* The user never owes more than the credit line, nor has more of it in use than
\* there is: the checkout's guard and the administrator's arithmetic agree on
\* it, even when an adjustment overwrites a checkout with a balance computed
\* before it.  It holds until an operation is used that does not look at the
\* line: a re-deduction, a set balance, inflation, a new limit or currency.
CreditLine ==
    ~limitIgnored => balance >= -creditLimit /\ creditUsed <= creditLimit

\* The sum of what the calls of a set are to record.
Total(f, S) == MapThenSumSet(LAMBDA w : f[w], S)

\* The calls that have changed the balance and not recorded it yet.
Recording == {w \in Callers : pc[w] = "record"}

\* The wallet transactions explain the balance, however checkouts, refunds,
\* deposits, re-deductions and adjustments interleave: the entries recorded, and
\* those that are still to be recorded, add up to it.  It holds until an adjustment overwrites a change it did not read,
\* a call ends before its record, or the currency changes.
BooksBalance ==
    ~unexplained => balance = Opening + recorded + Total(entry, Recording)

\* What an adjustment is about to write is within the line, as it was when the
\* user was read, and the line has not moved; a new currency ignores it.
PlansInv ==
    \A w \in Callers :
        /\ ~limitIgnored /\ pc[w] = "write" => /\ newBalance[w] >= -creditLimit
                                               /\ newUsed[w] <= creditLimit
        /\ pc[w] = "convert" => limitIgnored

IInv == TypeOK /\ CreditLine /\ PlansInv

===========================================================================
