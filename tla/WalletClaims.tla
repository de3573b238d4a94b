---------------------------- MODULE WalletClaims ----------------------------
(***************************************************************************)
(* What the comments and the documentation say of the wallet, where the    *)
(* code does something else.                                               *)
(***************************************************************************)
EXTENDS Wallet

\* "The balance can never go negative." (docs/wallet-system.md:11).  Checkouts
\* draw on the credit limit.
NeverNegative == balance >= 0

\* "Minimum effective balance = -(creditLimit)." (user.model.js:228).
\* updateUserCurrency converts the balance but neither the limit nor the credit
\* in use.
ConversionKeepsMinimum ==
    [][currency' # currency /\ balance >= -creditLimit
            => balance' >= -creditLimit']_vars

\* "Both operations use the same atomic wrappers." (docs/wallet-system.md:198):
\* an addition or a deduction moves the balance by its amount.  The code writes a
\* balance computed from an earlier read.
NoLostUpdate ==
    [][\A w \in Callers : pc[w] = "write" /\ pc'[w] = "record"
            => balance' = balance + entry[w]]_vars

\* "every balance change creates a `WalletTransaction` document"
\* (docs/wallet-system.md:13).  Between the update and the record of a deposit's
\* credit there is no transaction.
EveryChangeRecorded ==
    (\A w \in Callers : pc[w] = "idle") => balance = Opening + recorded

\* "creditUsed: the amount of the credit line currently drawn."
\* (user.model.js:242).  Checkouts draw on the line without raising it.
DrawnCreditIsUsed ==
    (\A w \in Callers : pc[w] = "idle") => creditUsed = AtLeast(0, -balance)

\* "available = walletBalance + (creditLimit - creditUsed)" (user.model.js:245):
\* what can be spent, as CanDebit decides it.  A deduction into the credit line
\* is counted twice.
SpendableFormula ==
    active => \A a \in Amounts :
        CanDebit(a) <=> a <= balance + creditLimit - creditUsed

\* "The user must receive back exactly what was taken from their wallet."
\* (orderFulfillment.service.js:83).  The amount is the order's, whatever
\* currency the wallet has by now.
RefundedInItsCurrency ==
    [][\A o \in Orders : ~returned[o] /\ returned'[o] => currency = chargedIn[o]]_vars

===========================================================================
