---------------------------- MODULE Wallet_proofs ----------------------------
(***************************************************************************)
(* Theorems about Wallet, for every amount, limit, number of orders and of *)
(* concurrent calls.  CreditLine is made inductive by PlansInv: a stale    *)
(* balance may be written, but it was computed within the line.            *)
(* BooksBalance is inductive with the types; what it needs are the facts   *)
(* about sums over a finite set (Total), for which an induction on the     *)
(* set is replaced by the least subset that would be a counterexample.     *)
(***************************************************************************)
EXTENDS Wallet, FiniteSetTheorems, TLAPS

\* Rounding an amount gives an amount.
LEMMA RoundedInt ==
    ASSUME NEW x \in Int, NEW y \in Nat \ {0}
    PROVE  Rounded(x, y) \in Int
<1>1. Magnitude(x) \in Nat
  BY DEF Magnitude
<1>2. (2 * Magnitude(x) + y) \div (2 * y) \in Int
  BY <1>1
<1> QED
  BY <1>2 DEF Rounded

\* The amounts that the operations compute have their types.
LEMMA Computed ==
    ASSUME TypeOK
    PROVE  /\ \A a \in Amounts : a \in Nat /\ a > 0 /\ Repaid(a) \in 0..creditUsed
           /\ \A b \in Int : creditUsed + DrawnBy(b) \in Nat
           /\ \A b \in Int : UsedAt(b) \in 0..creditLimit
           /\ \A p \in Percents : Adjustment(p) \in Int
           /\ Rounded(balance * RateOf(Other(currency)), RateOf(currency)) \in Int
<1> USE WalletAssumption DEF TypeOK
<1>1. \A a \in Amounts : a \in Nat /\ a > 0 /\ Repaid(a) \in 0..creditUsed
  BY DEF Repaid, AtMost
<1>2. \A b \in Int : creditUsed + DrawnBy(b) \in Nat
  BY DEF DrawnBy, AtMost, AvailableCredit
<1>3. \A b \in Int : UsedAt(b) \in 0..creditLimit
  BY DEF UsedAt, AtMost
<1>4. \A p \in Percents : Adjustment(p) \in Int
  <2> SUFFICES ASSUME NEW p \in Percents
               PROVE  Adjustment(p) \in Int
    OBVIOUS
  <2>1. -balance * p \in Int
    OBVIOUS
  <2> QED
    BY <2>1, RoundedInt DEF Adjustment
<1>5. Rounded(balance * RateOf(Other(currency)), RateOf(currency)) \in Int
  <2>1. \A c : RateOf(c) \in Nat \ {0}
    BY DEF RateOf
  <2>2. balance * RateOf(Other(currency)) \in Int
    BY <2>1
  <2> QED
    BY <2>1, <2>2, RoundedInt
<1> QED
  BY <1>1, <1>2, <1>3, <1>4, <1>5

\* The types of the initial state.
LEMMA InitTypes == Init => TypeOK
<1>1. Init => active \in BOOLEAN /\ limitIgnored \in BOOLEAN /\ unexplained \in BOOLEAN
  BY Zenon DEF Init
<1>2. Init => returned \in [Orders -> BOOLEAN]
  BY DEF Init
<1> QED
  BY <1>1, <1>2, WalletAssumption DEF Init, TypeOK, Currencies

\* A planned adjustment is typed, and changes nothing but its call.
LEMMA PlanTypes ==
    ASSUME TypeOK, NEW w \in Callers, NEW b \in Int, NEW u \in Nat, NEW a \in Int,
           Plan(w, b, u, a), limitIgnored' \in BOOLEAN
    PROVE  TypeOK'
<1>1. calls' \in 0..MaxCalls /\ faults' = faults
  BY WalletAssumption DEF TypeOK, Plan, Call
<1>2. /\ pc' \in [Callers -> {"idle", "write", "convert", "record"}]
      /\ newBalance' \in [Callers -> Int]
      /\ newUsed' \in [Callers -> Nat]
      /\ entry' \in [Callers -> Int]
  BY DEF TypeOK, Plan
<1> QED
  BY <1>1, <1>2 DEF TypeOK, Plan, userVars, orderVars

\* A call that ends leaves its variables typed.
LEMMA EndTypes ==
    ASSUME TypeOK, NEW w \in Callers, End(w)
    PROVE  /\ pc' \in [Callers -> {"idle", "write", "convert", "record"}]
           /\ newBalance' \in [Callers -> Int]
           /\ newUsed' \in [Callers -> Nat]
           /\ entry' \in [Callers -> Int]
  BY DEF TypeOK, End

\* A relative change is typed.
LEMMA IncrementTypes ==
    ASSUME TypeOK, NEW w \in Callers, NEW a \in Int, Increment(w, a)
    PROVE  /\ balance' \in Int
           /\ pc' \in [Callers -> {"idle", "write", "convert", "record"}]
           /\ entry' \in [Callers -> Int]
           /\ calls' \in 0..MaxCalls
           /\ UNCHANGED <<creditLimit, creditUsed, currency, active, recorded,
                          newBalance, newUsed, faults, unexplained>>
<1>1. calls' \in 0..MaxCalls
  BY WalletAssumption DEF TypeOK, Increment, Call
<1> QED
  BY <1>1 DEF TypeOK, Increment, Call

\* Every step keeps the variables' types.
LEMMA TypeStep ==
    ASSUME TypeOK, [Next]_vars
    PROVE  TypeOK'
<1> USE WalletAssumption
<1>1. ASSUME NEW o \in Orders, Checkout(o)
      PROVE  TypeOK'
  <2>1. PICK a \in Amounts :
          /\ balance' = balance - a
          /\ recorded' = recorded - a
          /\ charge' = [charge EXCEPT ![o] = a]
          /\ drawn' = [drawn EXCEPT ![o] = a - AtMost(a, AtLeast(0, balance))]
    BY <1>1 DEF Checkout
  <2>2. a \in Nat /\ a - AtMost(a, AtLeast(0, balance)) \in Nat
    BY DEF AtMost, AtLeast, TypeOK
  <2>3. /\ balance' \in Int /\ recorded' \in Int
        /\ charge' \in [Orders -> Nat] /\ drawn' \in [Orders -> Nat]
    BY <2>1, <2>2 DEF TypeOK
  <2>4. chargedIn' \in [Orders -> Currencies]
    BY <1>1 DEF TypeOK, Checkout
  <2> QED
    BY <1>1, <2>3, <2>4 DEF TypeOK, Checkout, callVars, boundVars, historyVars
<1>2. ASSUME NEW o \in Orders, RefundOrder(o)
      PROVE  TypeOK'
  <2>1. PICK refund \in {<<charge[o], drawn[o]>>} \cup {<<a, 0>> : a \in 1..charge[o]} :
          /\ balance' = balance + refund[1]
          /\ creditUsed' = AtLeast(0, creditUsed - refund[2])
          /\ recorded' = recorded + refund[1]
    BY <1>2 DEF RefundOrder
  <2>2. charge[o] \in Nat /\ drawn[o] \in Nat
    BY DEF TypeOK
  <2>3. refund[1] \in Nat /\ refund[2] \in Nat
    BY <2>2
  <2>4. balance' \in Int /\ recorded' \in Int /\ creditUsed' \in Nat
    BY <2>1, <2>3 DEF TypeOK, AtLeast
  <2> QED
    BY <1>2, <2>4 DEF TypeOK, RefundOrder, callVars, boundVars, historyVars
<1>3. ASSUME NEW w \in Callers, CreditDeposit(w)
      PROVE  TypeOK'
  <2>1. PICK a \in Amounts : Increment(w, a)
    BY <1>3 DEF CreditDeposit
  <2>2. a \in Int
    OBVIOUS
  <2> QED
    BY <1>3, <2>1, <2>2, IncrementTypes DEF TypeOK, CreditDeposit, orderVars
<1>4. ASSUME NEW w \in Callers, NEW o \in Orders, Redebit(w, o)
      PROVE  TypeOK'
  <2>1. -charge[o] \in Int
    BY DEF TypeOK
  <2>2. /\ returned' \in [Orders -> BOOLEAN] /\ limitIgnored' \in BOOLEAN
        /\ UNCHANGED <<charge, drawn, chargedIn>>
    BY <1>4 DEF TypeOK, Redebit
  <2>3. Increment(w, -charge[o])
    BY <1>4 DEF Redebit
  <2> QED
    BY <2>1, <2>2, <2>3, IncrementTypes DEF TypeOK
<1>5. ASSUME NEW w \in Callers, NEW a \in Amounts, AddFunds(w, a)
      PROVE  TypeOK'
  <2>1. balance + a \in Int /\ creditUsed - Repaid(a) \in Nat /\ a \in Int
    BY Computed DEF TypeOK
  <2> QED
    BY <1>5, <2>1, PlanTypes DEF AddFunds, TypeOK
<1>6. ASSUME NEW w \in Callers, NEW a \in Amounts, DeductFunds(w, a)
      PROVE  TypeOK'
  <2>1. balance - a \in Int /\ -a \in Int
    BY DEF TypeOK
  <2>2. creditUsed + DrawnBy(balance - a) \in Nat
    BY <2>1, Computed
  <2> QED
    BY <1>6, <2>1, <2>2, PlanTypes DEF DeductFunds, TypeOK
<1>7. ASSUME NEW w \in Callers, NEW b \in Targets, SetBalance(w, b)
      PROVE  TypeOK'
  <2>1. b \in Int /\ b - balance \in Int
    BY DEF TypeOK
  <2>2. UsedAt(b) \in Nat
    BY <2>1, Computed
  <2> QED
    BY <1>7, <2>1, <2>2, PlanTypes DEF SetBalance
<1>8. ASSUME NEW w \in Callers, NEW p \in Percents, Inflate(w, p) \/ Deflate(w, p)
      PROVE  TypeOK'
  <2>1. Adjustment(p) \in Int
    BY Computed
  <2>2. /\ balance - Adjustment(p) \in Int /\ -Adjustment(p) \in Int
        /\ balance + Adjustment(p) \in Int
    BY <2>1 DEF TypeOK
  <2>3. UsedAt(balance - Adjustment(p)) \in Nat /\ UsedAt(balance + Adjustment(p)) \in Nat
    BY <2>2, Computed
  <2> QED
    BY <1>8, <2>1, <2>2, <2>3, PlanTypes DEF Inflate, Deflate, TypeOK
<1>9. ASSUME NEW w \in Callers, ConvertRead(w)
      PROVE  TypeOK'
  <2>1. newBalance' \in [Callers -> Int]
    BY <1>9, Computed DEF TypeOK, ConvertRead
  <2>2. /\ pc' \in [Callers -> {"idle", "write", "convert", "record"}]
        /\ calls' \in 0..MaxCalls /\ faults' = faults
    BY <1>9 DEF TypeOK, ConvertRead, Call
  <2> QED
    BY <1>9, <2>1, <2>2 DEF TypeOK, ConvertRead, userVars, orderVars
<1>10. ASSUME NEW w \in Callers, WriteBalance(w)
       PROVE  TypeOK'
  <2>1. unexplained' \in BOOLEAN
    BY <1>10, Zenon DEF TypeOK, WriteBalance
  <2> QED
    BY <1>10, <2>1 DEF TypeOK, WriteBalance, orderVars, boundVars
<1>11. ASSUME NEW w \in Callers, RecordEntry(w)
       PROVE  TypeOK'
  <2>1. recorded' \in Int
    BY <1>11 DEF TypeOK, RecordEntry
  <2> QED
    BY <1>11, <2>1, EndTypes DEF TypeOK, RecordEntry, userVars, orderVars, boundVars, historyVars
<1>12. ASSUME NEW w \in Callers, ConvertWrite(w)
       PROVE  TypeOK'
  <2>1. balance' \in Int /\ currency' \in Currencies
    BY <1>12 DEF TypeOK, ConvertWrite, Other, Currencies
  <2> QED
    BY <1>12, <2>1, EndTypes DEF TypeOK, ConvertWrite, orderVars, boundVars
<1>13. ASSUME NEW w \in Callers, Abandon(w)
       PROVE  TypeOK'
  <2>1. faults' \in 0..MaxFaults
    BY <1>13 DEF TypeOK, Abandon
  <2>2. unexplained' \in BOOLEAN
    BY <1>13, Zenon DEF TypeOK, Abandon
  <2> QED
    BY <1>13, <2>1, <2>2, EndTypes DEF TypeOK, Abandon, userVars, orderVars
<1>14. CASE SetLimit
  BY <1>14 DEF TypeOK, SetLimit, orderVars, callVars
<1>15. CASE SetActive
  BY <1>15 DEF TypeOK, SetActive, orderVars, callVars, historyVars
<1>16. CASE UNCHANGED vars
  BY <1>16 DEF TypeOK, vars, userVars, orderVars, callVars, boundVars, historyVars
<1> QED
  BY <1>1, <1>2, <1>3, <1>4, <1>5, <1>6, <1>7, <1>8, <1>9, <1>10, <1>11, <1>12,
     <1>13, <1>14, <1>15, <1>16 DEF Next, Adjust

\* A plan within the line is one more plan within the line.
LEMMA PlanKept ==
    ASSUME IInv, NEW w \in Callers, NEW b \in Int, NEW u \in Nat, NEW a \in Int,
           Plan(w, b, u, a), UNCHANGED limitIgnored,
           ~limitIgnored => b >= -creditLimit /\ u <= creditLimit
    PROVE  CreditLine' /\ PlansInv'
<1>1. UNCHANGED <<balance, creditLimit, creditUsed>>
  BY DEF Plan, userVars
<1>2. \A v \in Callers \ {w} : /\ pc'[v] = pc[v]
                               /\ newBalance'[v] = newBalance[v]
                               /\ newUsed'[v] = newUsed[v]
  BY DEF Plan, IInv, TypeOK
<1>3. pc'[w] = "write" /\ newBalance'[w] = b /\ newUsed'[w] = u
  BY DEF Plan, IInv, TypeOK
<1>4. CreditLine'
  BY <1>1 DEF IInv, CreditLine
<1>5. PlansInv'
  BY <1>1, <1>2, <1>3 DEF IInv, PlansInv
<1> QED
  BY <1>4, <1>5

\* The end of a call takes its plan with it.
LEMMA EndKept ==
    ASSUME IInv, NEW w \in Callers, End(w),
           UNCHANGED <<balance, creditLimit, creditUsed, limitIgnored>>
    PROVE  CreditLine' /\ PlansInv'
<1>1. \A v \in Callers : pc'[v] \in {"write", "convert"} =>
                            /\ pc'[v] = pc[v]
                            /\ newBalance'[v] = newBalance[v]
                            /\ newUsed'[v] = newUsed[v]
  BY DEF End, IInv, TypeOK
<1> QED
  BY <1>1 DEF IInv, CreditLine, PlansInv

\* Every step keeps the credit line, or ignores it.
LEMMA LineStep ==
    ASSUME IInv, [Next]_vars
    PROVE  CreditLine' /\ PlansInv'
<1> USE WalletAssumption
<1>0. TypeOK /\ CreditLine
  BY DEF IInv
<1>12. ASSUME limitIgnored'
       PROVE  CreditLine' /\ PlansInv'
  BY <1>12, Zenon DEF CreditLine, PlansInv
<1>1. ASSUME UNCHANGED <<creditLimit, callVars, limitIgnored>>,
             ~limitIgnored => balance' >= -creditLimit /\ creditUsed' <= creditLimit
      PROVE  CreditLine' /\ PlansInv'
  BY <1>1 DEF IInv, CreditLine, PlansInv, callVars
<1>2. ASSUME NEW o \in Orders, Checkout(o)
      PROVE  CreditLine' /\ PlansInv'
  <2>1. PICK a \in Amounts : balance + creditLimit >= a /\ balance' = balance - a
    BY <1>2 DEF Checkout, CanDebit
  <2>2. UNCHANGED <<creditLimit, creditUsed, callVars, limitIgnored>>
    BY <1>2 DEF Checkout, historyVars
  <2>3. balance' >= -creditLimit
    BY <2>1, <1>0 DEF TypeOK
  <2> QED
    BY <2>2, <2>3, <1>1, <1>0 DEF CreditLine
<1>3. ASSUME NEW o \in Orders, RefundOrder(o)
      PROVE  CreditLine' /\ PlansInv'
  <2>1. PICK refund \in {<<charge[o], drawn[o]>>} \cup {<<a, 0>> : a \in 1..charge[o]} :
          /\ balance' = balance + refund[1]
          /\ creditUsed' = AtLeast(0, creditUsed - refund[2])
    BY <1>3 DEF RefundOrder
  <2>2. charge[o] \in Nat /\ drawn[o] \in Nat
    BY <1>0 DEF TypeOK
  <2>3. refund[1] \in Nat /\ refund[2] \in Nat
    BY <2>2
  <2>4. ~limitIgnored => balance' >= -creditLimit /\ creditUsed' <= creditLimit
    BY <2>1, <2>3, <1>0 DEF TypeOK, CreditLine, AtLeast
  <2> QED
    BY <1>3, <2>4, <1>1 DEF RefundOrder, historyVars
<1>4. ASSUME NEW w \in Callers, CreditDeposit(w)
      PROVE  CreditLine' /\ PlansInv'
  <2>1. PICK a \in Amounts : Increment(w, a)
    BY <1>4 DEF CreditDeposit
  <2>2. /\ balance' = balance + a
        /\ UNCHANGED <<creditLimit, creditUsed, newBalance, newUsed, limitIgnored>>
    BY <1>4, <2>1 DEF Increment, CreditDeposit
  <2>3. ~limitIgnored => balance' >= -creditLimit
    BY <2>2, <1>0 DEF TypeOK, CreditLine
  <2>4. \A v \in Callers : pc'[v] \in {"write", "convert"} => pc'[v] = pc[v]
    BY <2>1, <1>0 DEF Increment, TypeOK
  <2> QED
    BY <2>2, <2>3, <2>4, <1>0 DEF IInv, CreditLine, PlansInv
<1>5. ASSUME NEW w \in Callers, NEW a \in Amounts, AddFunds(w, a)
      PROVE  CreditLine' /\ PlansInv'
  <2>1. a \in Nat /\ Repaid(a) \in 0..creditUsed
    BY <1>0, Computed
  <2>2. balance + a \in Int /\ creditUsed - Repaid(a) \in Nat
    BY <2>1, <1>0 DEF TypeOK
  <2>3. ~limitIgnored => /\ balance + a >= -creditLimit
                         /\ creditUsed - Repaid(a) <= creditLimit
    BY <2>1, <1>0 DEF TypeOK, CreditLine
  <2> QED
    BY <1>5, <2>1, <2>2, <2>3, PlanKept DEF AddFunds
<1>6. ASSUME NEW w \in Callers, NEW a \in Amounts, DeductFunds(w, a)
      PROVE  CreditLine' /\ PlansInv'
  <2>1. a <= balance + (creditLimit - creditUsed)
    BY <1>6 DEF DeductFunds, AvailableCredit
  <2>2. balance - a \in Int /\ -a \in Int /\ balance - a >= -creditLimit
    BY <2>1, <1>0 DEF TypeOK
  <2>3. creditUsed + DrawnBy(balance - a) \in Nat
    BY <2>2, <1>0, Computed
  <2>4. ~limitIgnored => creditUsed + DrawnBy(balance - a) <= creditLimit
    BY <2>2, <1>0 DEF DrawnBy, AtMost, AvailableCredit, TypeOK, CreditLine
  <2> QED
    BY <1>6, <2>2, <2>3, <2>4, PlanKept DEF DeductFunds
<1>7. ASSUME NEW w \in Callers, NEW p \in Percents, Deflate(w, p)
      PROVE  CreditLine' /\ PlansInv'
  <2>1. Adjustment(p) \in Int /\ Adjustment(p) > 0
    BY <1>7, <1>0, Computed DEF Deflate
  <2>2. /\ balance + Adjustment(p) \in Int
        /\ ~limitIgnored => balance + Adjustment(p) >= -creditLimit
    BY <2>1, <1>0 DEF TypeOK, CreditLine
  <2>3. UsedAt(balance + Adjustment(p)) \in 0..creditLimit
    BY <2>2, <1>0, Computed
  <2>4. /\ UsedAt(balance + Adjustment(p)) \in Nat
        /\ UsedAt(balance + Adjustment(p)) <= creditLimit
    BY <2>3, <1>0 DEF TypeOK
  <2> QED
    BY <1>7, <2>1, <2>2, <2>4, PlanKept DEF Deflate
<1>8. ASSUME NEW w \in Callers, WriteBalance(w)
      PROVE  CreditLine' /\ PlansInv'
  <2>1. /\ balance' = newBalance[w] /\ creditUsed' = newUsed[w]
        /\ pc' = [pc EXCEPT ![w] = "record"]
        /\ UNCHANGED <<creditLimit, newBalance, newUsed, limitIgnored>>
    BY <1>8 DEF WriteBalance
  <2>2. ~limitIgnored => newBalance[w] >= -creditLimit /\ newUsed[w] <= creditLimit
    BY <1>8 DEF WriteBalance, IInv, PlansInv
  <2>3. \A v \in Callers : pc'[v] \in {"write", "convert"} => pc'[v] = pc[v]
    BY <2>1, <1>0 DEF TypeOK
  <2> QED
    BY <2>1, <2>2, <2>3 DEF IInv, CreditLine, PlansInv
<1>9. ASSUME NEW w \in Callers, RecordEntry(w) \/ Abandon(w)
      PROVE  CreditLine' /\ PlansInv'
  BY <1>9, EndKept DEF RecordEntry, Abandon, userVars, historyVars
<1>10. ASSUME NEW w \in Callers, ConvertWrite(w)
       PROVE  CreditLine' /\ PlansInv'
  <2>1. limitIgnored'
    BY <1>10 DEF ConvertWrite, IInv, PlansInv
  <2> QED
    BY <1>12, <2>1
<1>11. CASE SetActive \/ UNCHANGED vars
  BY <1>11, <1>1, <1>0 DEF SetActive, vars, userVars, CreditLine, callVars, historyVars
<1>13. ASSUME \/ SetLimit
              \/ \E w \in Callers : \/ ConvertRead(w)
                                    \/ \E o \in Orders : Redebit(w, o)
                                    \/ \E b \in Targets : SetBalance(w, b)
                                    \/ \E p \in Percents : Inflate(w, p)
       PROVE  CreditLine' /\ PlansInv'
  <2>1. limitIgnored'
    BY <1>13 DEF SetLimit, ConvertRead, Redebit, SetBalance, Inflate
  <2> QED
    BY <1>12, <2>1
<1> QED
  BY <1>2, <1>3, <1>4, <1>5, <1>6, <1>7, <1>8, <1>9, <1>10, <1>11, <1>13
     DEF Next, Adjust

---------------------------------------------------------------------------
(* Totals over finite sets.                                                *)

\* The least of the subsets of a finite set that are not of a kind.
LEMMA LeastSubset ==
    ASSUME NEW S, IsFiniteSet(S), NEW bad \in SUBSET SUBSET S, bad # {}
    PROVE  \E T \in bad : \A x \in T : T \ {x} \notin bad
<1>1. \A T \in SUBSET S : IsFiniteSet(T)
  BY FS_Subset
<1>2. bad \subseteq FiniteSubsetsOf(S)
  BY <1>1 DEF FiniteSubsetsOf
<1>3. IsWellFoundedOn(StrictSubsetOrdering(S), FiniteSubsetsOf(S))
  BY FS_StrictSubsetOrderingWellFounded
<1>4. PICK T \in bad : \A U \in bad : <<U, T>> \notin StrictSubsetOrdering(S)
  BY <1>2, <1>3, WFMin
<1>5. ASSUME NEW x \in T PROVE T \ {x} \notin bad
  <2>1. T \ {x} \in SUBSET S /\ T \in SUBSET S /\ T \ {x} # T
    OBVIOUS
  <2>2. <<T \ {x}, T>> \in StrictSubsetOrdering(S)
    BY <2>1 DEF StrictSubsetOrdering
  <2> QED
    BY <1>4, <2>2
<1> QED
  BY <1>4, <1>5

\* A function on the subsets that adds up the values of f.
Adds(g, f, S) ==
    /\ g \in [SUBSET S -> Int] /\ g[{}] = 0
    /\ \A T \in SUBSET S : \A x \in T : g[T] = f[x] + g[T \ {x}]

\* There is one on the subsets of a finite set.
LEMMA AddsExists ==
    ASSUME NEW S, IsFiniteSet(S), NEW f \in [S -> Int]
    PROVE  \E g : Adds(g, f, S)
<1> DEFINE bad == {T \in SUBSET S : ~ \E g : Adds(g, f, T)}
<1>1. SUFFICES ASSUME bad # {} PROVE FALSE
  OBVIOUS
<1>2. PICK T \in bad : \A x \in T : T \ {x} \notin bad
  <2>1. bad \in SUBSET SUBSET S
    OBVIOUS
  <2> HIDE DEF bad
  <2> QED
    BY <1>1, <2>1, LeastSubset
<1>3. CASE T = {}
  <2> DEFINE g == [U \in SUBSET T |-> 0]
  <2>1. Adds(g, f, T)
    BY <1>3 DEF Adds
  <2> QED
    BY <2>1
<1>4. ASSUME NEW x \in T PROVE FALSE
  <2>1. PICK h : Adds(h, f, T \ {x})
    BY <1>2
  <2> DEFINE g == [U \in SUBSET T |-> IF x \in U THEN f[x] + h[U \ {x}] ELSE h[U]]
  <2>2. \A U \in SUBSET T : U \ {x} \in SUBSET (T \ {x})
    OBVIOUS
  <2>3. f[x] \in Int
    OBVIOUS
  <2>4. \A U \in SUBSET (T \ {x}) : h[U] \in Int
    BY <2>1 DEF Adds
  <2>5. g \in [SUBSET T -> Int]
    <3>1. ASSUME NEW U \in SUBSET T
          PROVE  (IF x \in U THEN f[x] + h[U \ {x}] ELSE h[U]) \in Int
      <4>1. h[U \ {x}] \in Int
        BY <2>2, <2>4
      <4>2. CASE x \in U
        <5>1. f[x] + h[U \ {x}] \in Int
          BY <2>3, <4>1
        <5> QED
          BY <4>2, <5>1
      <4>3. CASE x \notin U
        <5>1. U \in SUBSET (T \ {x})
          BY <4>3
        <5> QED
          BY <4>3, <5>1, <2>4
      <4> QED
        BY <4>2, <4>3
    <3> QED
      BY <3>1
  <2>6. g[{}] = 0
    BY <2>1 DEF Adds
  <2>7. ASSUME NEW U \in SUBSET T, NEW y \in U PROVE g[U] = f[y] + g[U \ {y}]
    <3>0. U \ {y} \in SUBSET T
      OBVIOUS
    <3>1. CASE y = x
      <4>1. g[U] = f[x] + h[U \ {x}] /\ g[U \ {x}] = h[U \ {x}]
        BY <3>0, <3>1
      <4> QED
        BY <3>1, <4>1
    <3>2. CASE y # x /\ x \notin U
      <4>1. U \in SUBSET (T \ {x})
        BY <3>2
      <4>2. g[U] = h[U] /\ g[U \ {y}] = h[U \ {y}]
        BY <3>0, <3>2
      <4> QED
        BY <2>1, <4>1, <4>2 DEF Adds
    <3>3. CASE y # x /\ x \in U
      <4> DEFINE V == U \ {x}
      <4>1. V \in SUBSET (T \ {x}) /\ y \in V /\ V \ {y} \in SUBSET (T \ {x})
        BY <3>3
      <4>2. h[V] = f[y] + h[V \ {y}]
        BY <2>1, <4>1 DEF Adds
      <4>3. (U \ {y}) \ {x} = V \ {y}
        OBVIOUS
      <4>4. g[U] = f[x] + h[V] /\ g[U \ {y}] = f[x] + h[V \ {y}]
        BY <3>0, <3>3, <4>3
      <4>5. f[y] \in Int /\ h[V] \in Int /\ h[V \ {y}] \in Int
        BY <2>4, <4>1
      <4> HIDE DEF g, V
      <4> QED
        BY <2>3, <4>2, <4>4, <4>5
    <3> QED
      BY <3>1, <3>2, <3>3
  <2> HIDE DEF g
  <2>8. Adds(g, f, T)
    BY <2>5, <2>6, <2>7 DEF Adds
  <2> QED
    BY <2>8
<1> QED
  BY <1>3, <1>4

\* The total of the finite fold is the one of any function that adds up.
LEMMA TotalIs ==
    ASSUME NEW S, IsFiniteSet(S), NEW f, NEW g, Adds(g, f, S)
    PROVE  Total(f, S) = g[S]
<1> DEFINE step(h) == [s \in SUBSET S |->
            IF s = {} THEN 0 ELSE f[CHOOSE x \in s : TRUE] + h[s \ {CHOOSE x \in s : TRUE}]]
<1>1. g = step(g)
  <2>1. g = [s \in SUBSET S |-> g[s]]
    BY DEF Adds
  <2>2. \A s \in SUBSET S : s # {} =>
            g[s] = f[CHOOSE x \in s : TRUE] + g[s \ {CHOOSE x \in s : TRUE}]
    BY DEF Adds
  <2> QED
    BY <2>1, <2>2 DEF Adds
<1> DEFINE iter == CHOOSE h : h = step(h)
<1>2. iter = step(iter)
  BY <1>1
<1>3. Total(f, S) = iter[S]
  BY DEF Total, MapThenSumSet, MapThenFoldSet
<1> HIDE DEF iter
<1>4. iter[S] = g[S]
  <2> DEFINE bad == {s \in SUBSET S : iter[s] # g[s]}
  <2>1. SUFFICES ASSUME bad # {} PROVE FALSE
    OBVIOUS
  <2>2. PICK s \in bad : \A x \in s : s \ {x} \notin bad
    <3>1. bad \in SUBSET SUBSET S
      OBVIOUS
    <3> HIDE DEF bad
    <3> QED
      BY <2>1, <3>1, LeastSubset
  <2>3. iter[{}] = g[{}]
    BY <1>2 DEF Adds
  <2>4. s # {} /\ (CHOOSE x \in s : TRUE) \in s
    BY <2>3
  <2>5. iter[s \ {CHOOSE x \in s : TRUE}] = g[s \ {CHOOSE x \in s : TRUE}]
    BY <2>2, <2>4
  <2>6. iter[s] = f[CHOOSE x \in s : TRUE] + iter[s \ {CHOOSE x \in s : TRUE}]
    BY <1>2, <2>4
  <2>7. g[s] = f[CHOOSE x \in s : TRUE] + g[s \ {CHOOSE x \in s : TRUE}]
    BY <2>4 DEF Adds
  <2> QED
    BY <2>5, <2>6, <2>7
<1> QED
  BY <1>3, <1>4

\* A total over a larger set restricts to the subsets.
LEMMA AddsRestrict ==
    ASSUME NEW S, NEW T \in SUBSET S, NEW f, NEW g, Adds(g, f, S)
    PROVE  Adds([U \in SUBSET T |-> g[U]], f, T)
<1> DEFINE h == [U \in SUBSET T |-> g[U]]
<1>1. \A U \in SUBSET T : g[U] \in Int
  BY DEF Adds
<1>2. h \in [SUBSET T -> Int] /\ h[{}] = 0
  BY <1>1 DEF Adds
<1>3. ASSUME NEW U \in SUBSET T, NEW x \in U
      PROVE  h[U] = f[x] + h[U \ {x}]
  <2>1. g[U] = f[x] + g[U \ {x}]
    BY DEF Adds
  <2>2. U \ {x} \in SUBSET T
    OBVIOUS
  <2> QED
    BY <2>1, <2>2
<1> HIDE DEF h
<1>4. Adds(h, f, T)
  BY <1>2, <1>3 DEF Adds
<1> QED
  BY <1>4 DEF h

\* Totals over the subsets of a finite set.
LEMMA TotalFacts ==
    ASSUME NEW S, IsFiniteSet(S), NEW f \in [S -> Int]
    PROVE  /\ Total(f, {}) = 0
           /\ \A T \in SUBSET S : Total(f, T) \in Int
           /\ \A T \in SUBSET S : \A x \in T : Total(f, T) = f[x] + Total(f, T \ {x})
<1>1. PICK g : Adds(g, f, S)
  BY AddsExists
<1>2. ASSUME NEW T \in SUBSET S
      PROVE  Total(f, T) = g[T]
  <2> DEFINE h == [U \in SUBSET T |-> g[U]]
  <2>1. Adds(h, f, T)
    BY <1>1, AddsRestrict
  <2>2. IsFiniteSet(T)
    BY FS_Subset
  <2>3. h[T] = g[T]
    OBVIOUS
  <2> HIDE DEF h
  <2>4. Total(f, T) = h[T]
    BY <2>1, <2>2, TotalIs
  <2> QED
    BY <2>3, <2>4
<1>3. Total(f, {}) = 0
  BY <1>1, <1>2 DEF Adds
<1>4. \A T \in SUBSET S : Total(f, T) \in Int
  BY <1>1, <1>2 DEF Adds
<1>5. ASSUME NEW T \in SUBSET S, NEW x \in T
      PROVE  Total(f, T) = f[x] + Total(f, T \ {x})
  <2>1. T \ {x} \in SUBSET S
    OBVIOUS
  <2>2. g[T] = f[x] + g[T \ {x}]
    BY <1>1 DEF Adds
  <2> QED
    BY <1>2, <2>1, <2>2
<1> QED
  BY <1>3, <1>4, <1>5

\* A total depends on the values in its set alone.
LEMMA TotalSame ==
    ASSUME NEW S, IsFiniteSet(S), NEW f \in [S -> Int], NEW h \in [S -> Int],
           NEW T \in SUBSET S, \A x \in T : f[x] = h[x]
    PROVE  Total(f, T) = Total(h, T)
<1> DEFINE bad == {U \in SUBSET T : Total(f, U) # Total(h, U)}
<1>1. SUFFICES ASSUME bad # {} PROVE FALSE
  OBVIOUS
<1>2. IsFiniteSet(T)
  BY FS_Subset
<1>3. PICK U \in bad : \A x \in U : U \ {x} \notin bad
  <2>1. bad \in SUBSET SUBSET T
    OBVIOUS
  <2> HIDE DEF bad
  <2> QED
    BY <1>1, <1>2, <2>1, LeastSubset
<1>4. U # {}
  BY TotalFacts
<1>5. PICK x \in U : TRUE
  BY <1>4
<1>6. U \in SUBSET S /\ U \ {x} \in SUBSET T
  OBVIOUS
<1>7. Total(f, U) = f[x] + Total(f, U \ {x}) /\ Total(h, U) = h[x] + Total(h, U \ {x})
  BY <1>6, TotalFacts
<1>8. Total(f, U \ {x}) = Total(h, U \ {x})
  BY <1>3, <1>6
<1>9. f[x] = h[x]
  OBVIOUS
<1> QED
  BY <1>7, <1>8, <1>9

\* A call joins the ones that are to record.
LEMMA TotalJoins ==
    ASSUME NEW f \in [Callers -> Int], NEW h \in [Callers -> Int],
           NEW R \in SUBSET Callers, NEW w \in Callers \ R,
           \A v \in R : h[v] = f[v]
    PROVE  Total(h, R \cup {w}) = Total(f, R) + h[w]
<1>1. IsFiniteSet(Callers)
  BY WalletAssumption
<1>2. R \cup {w} \in SUBSET Callers /\ (R \cup {w}) \ {w} = R /\ w \in R \cup {w}
  OBVIOUS
<1>3. Total(h, R \cup {w}) = h[w] + Total(h, R)
  BY <1>1, <1>2, TotalFacts
<1>4. Total(h, R) = Total(f, R)
  BY <1>1, TotalSame
<1>5. Total(f, R) \in Int /\ h[w] \in Int
  BY <1>1, TotalFacts
<1> QED
  BY <1>3, <1>4, <1>5

\* A call leaves them.
LEMMA TotalLeaves ==
    ASSUME NEW f \in [Callers -> Int], NEW h \in [Callers -> Int],
           NEW R \in SUBSET Callers, NEW w \in R,
           \A v \in R \ {w} : h[v] = f[v]
    PROVE  Total(f, R) = Total(h, R \ {w}) + f[w]
<1>1. IsFiniteSet(Callers)
  BY WalletAssumption
<1>2. R \ {w} \in SUBSET Callers
  OBVIOUS
<1>3. Total(f, R) = f[w] + Total(f, R \ {w})
  BY <1>1, TotalFacts
<1>4. Total(h, R \ {w}) = Total(f, R \ {w})
  BY <1>1, <1>2, TotalSame
<1>5. Total(f, R \ {w}) \in Int /\ f[w] \in Int
  BY <1>1, <1>2, TotalFacts
<1> QED
  BY <1>3, <1>4, <1>5

\* A step that leaves alone the calls that are to record, and moves the balance
\* and the sum of the records together.
LEMMA BooksTogether ==
    ASSUME TypeOK, TypeOK', BooksBalance, UNCHANGED unexplained,
           NEW d \in Int, balance' = balance + d, recorded' = recorded + d,
           Recording' = Recording, \A v \in Recording : entry'[v] = entry[v]
    PROVE  BooksBalance'
<1>1. Recording \in SUBSET Callers /\ IsFiniteSet(Callers)
  BY WalletAssumption DEF Recording
<1>2. entry \in [Callers -> Int] /\ entry' \in [Callers -> Int]
  BY DEF TypeOK
<1>3. Total(entry', Recording) = Total(entry, Recording)
  BY <1>1, <1>2, TotalSame
<1>4. Total(entry, Recording) \in Int
  BY <1>1, <1>2, TotalFacts
<1>5. balance \in Int /\ recorded \in Int /\ Opening \in Int
  BY WalletAssumption DEF TypeOK
<1>6. Total(entry', Recording') = Total(entry, Recording)
  BY <1>3
<1> HIDE DEF TypeOK
<1> QED
  BY <1>4, <1>5, <1>6 DEF BooksBalance

\* A plan leaves them alone: its call was idle.
LEMMA PlanBooks ==
    ASSUME TypeOK, TypeOK', BooksBalance,
           NEW w \in Callers, NEW b, NEW u, NEW a, Plan(w, b, u, a)
    PROVE  BooksBalance'
<1>1. /\ balance' = balance + 0 /\ recorded' = recorded + 0
      /\ UNCHANGED unexplained
  BY DEF Plan, TypeOK, userVars
<1>2. pc[w] = "idle" /\ pc'[w] = "write"
  BY DEF Plan, Call, TypeOK
<1>3. \A v \in Callers \ {w} : pc'[v] = pc[v] /\ entry'[v] = entry[v]
  BY DEF Plan, TypeOK
<1>4. Recording' = Recording /\ w \notin Recording
  BY <1>2, <1>3 DEF Recording
<1>5. \A v \in Recording : entry'[v] = entry[v]
  BY <1>3, <1>4 DEF Recording
<1> QED
  BY <1>1, <1>4, <1>5, BooksTogether

\* A change of the balance by what its call is then to record.
LEMMA BooksEntered ==
    ASSUME TypeOK, TypeOK', BooksBalance, NEW w \in Callers, pc[w] # "record",
           pc' = [pc EXCEPT ![w] = "record"],
           \A v \in Callers \ {w} : entry'[v] = entry[v],
           UNCHANGED recorded, ~unexplained' => ~unexplained /\ balance' = balance + entry'[w]
    PROVE  BooksBalance'
<1>1. Recording \in SUBSET Callers /\ w \in Callers \ Recording
  BY DEF Recording
<1>2. Recording' = Recording \cup {w}
  BY DEF Recording, TypeOK
<1>3. entry \in [Callers -> Int] /\ entry' \in [Callers -> Int]
  BY DEF TypeOK
<1>4. \A v \in Recording : entry'[v] = entry[v]
  BY <1>1
<1>5. Total(entry', Recording \cup {w}) = Total(entry, Recording) + entry'[w]
  BY <1>1, <1>3, <1>4, TotalJoins
<1>6. Total(entry, Recording) \in Int /\ entry'[w] \in Int
  BY <1>1, <1>3, TotalFacts, WalletAssumption
<1>7. balance \in Int /\ recorded \in Int /\ Opening \in Int
  BY WalletAssumption DEF TypeOK
<1>8. Total(entry', Recording') = Total(entry, Recording) + entry'[w]
  BY <1>2, <1>5
<1> QED
  BY <1>6, <1>7, <1>8 DEF BooksBalance

\* Every step keeps the books, or leaves something unexplained.
LEMMA BooksStep ==
    ASSUME TypeOK, TypeOK', BooksBalance, [Next]_vars
    PROVE  BooksBalance'
<1> USE WalletAssumption
<1>1. ASSUME UNCHANGED <<callVars, unexplained>>,
             NEW d \in Int, balance' = balance + d, recorded' = recorded + d
      PROVE  BooksBalance'
  <2>1. Recording' = Recording /\ \A v \in Recording : entry'[v] = entry[v]
    BY <1>1 DEF callVars, Recording
  <2> QED
    BY <1>1, <2>1, BooksTogether
<1>2. ASSUME NEW o \in Orders, Checkout(o)
      PROVE  BooksBalance'
  <2>1. PICK a \in Amounts : balance' = balance - a /\ recorded' = recorded - a
    BY <1>2 DEF Checkout
  <2>2. /\ -a \in Int /\ balance' = balance + -a /\ recorded' = recorded + -a
    BY <2>1 DEF TypeOK
  <2> QED
    BY <1>1, <1>2, <2>2 DEF Checkout, historyVars
<1>3. ASSUME NEW o \in Orders, RefundOrder(o)
      PROVE  BooksBalance'
  <2>1. PICK refund \in {<<charge[o], drawn[o]>>} \cup {<<a, 0>> : a \in 1..charge[o]} :
          balance' = balance + refund[1] /\ recorded' = recorded + refund[1]
    BY <1>3 DEF RefundOrder
  <2>2. charge[o] \in Nat
    BY DEF TypeOK
  <2>3. refund[1] \in Int
    BY <2>2
  <2> QED
    BY <1>1, <1>3, <2>1, <2>3 DEF RefundOrder, historyVars
<1>4. ASSUME NEW w \in Callers, NEW a \in Int, Increment(w, a)
      PROVE  BooksBalance'
  <2>1. /\ pc[w] = "idle" /\ pc' = [pc EXCEPT ![w] = "record"]
        /\ UNCHANGED <<recorded, unexplained>> /\ balance' = balance + a
    BY <1>4 DEF Increment, Call
  <2>2. entry'[w] = a /\ \A v \in Callers \ {w} : entry'[v] = entry[v]
    BY <1>4 DEF Increment, TypeOK
  <2> QED
    BY <2>1, <2>2, BooksEntered
<1>5. ASSUME NEW w \in Callers, CreditDeposit(w) \/ \E o \in Orders : Redebit(w, o)
      PROVE  BooksBalance'
  <2>1. \A a \in Amounts : a \in Int
    OBVIOUS
  <2>2. \A o \in Orders : -charge[o] \in Int
    BY DEF TypeOK
  <2> QED
    BY <1>4, <1>5, <2>1, <2>2 DEF CreditDeposit, Redebit
<1>6. ASSUME NEW w \in Callers, Adjust(w)
      PROVE  BooksBalance'
  <2>1. CASE ConvertRead(w)
    <3>1. /\ balance' = balance + 0 /\ recorded' = recorded + 0
          /\ UNCHANGED <<unexplained, entry>>
      BY <2>1 DEF ConvertRead, TypeOK, userVars
    <3>2. pc[w] = "idle" /\ pc' = [pc EXCEPT ![w] = "convert"]
      BY <2>1 DEF ConvertRead, Call
    <3>3. Recording' = Recording
      BY <3>2 DEF Recording, TypeOK
    <3> QED
      BY <3>1, <3>3, BooksTogether
  <2>2. CASE \/ \E a \in Amounts : AddFunds(w, a) \/ DeductFunds(w, a)
             \/ \E b \in Targets : SetBalance(w, b)
             \/ \E p \in Percents : Inflate(w, p) \/ Deflate(w, p)
    BY <2>2, PlanBooks DEF AddFunds, DeductFunds, SetBalance, Inflate, Deflate
  <2> QED
    BY <1>6, <2>1, <2>2 DEF Adjust
<1>7. ASSUME NEW w \in Callers, WriteBalance(w)
      PROVE  BooksBalance'
  <2>1. /\ pc[w] = "write" /\ pc' = [pc EXCEPT ![w] = "record"]
        /\ UNCHANGED <<recorded, entry>> /\ balance' = newBalance[w]
    BY <1>7 DEF WriteBalance
  <2>2. newBalance[w] \in Int /\ entry[w] \in Int /\ balance \in Int
    BY DEF TypeOK
  <2>3. ~unexplained' => ~unexplained /\ balance = newBalance[w] - entry[w]
    BY <1>7 DEF WriteBalance, Overwrites
  <2>4. ~unexplained' => ~unexplained /\ balance' = balance + entry'[w]
    BY <2>1, <2>2, <2>3
  <2> QED
    BY <2>1, <2>4, BooksEntered
<1>8. ASSUME NEW w \in Callers, RecordEntry(w)
      PROVE  BooksBalance'
  <2>1. /\ pc[w] = "record" /\ pc' = [pc EXCEPT ![w] = "idle"]
        /\ recorded' = recorded + entry[w] /\ UNCHANGED <<balance, unexplained>>
    BY <1>8 DEF RecordEntry, End, userVars, historyVars
  <2>2. \A v \in Recording \ {w} : entry'[v] = entry[v]
    BY <1>8 DEF RecordEntry, End, TypeOK, Recording
  <2>3. entry \in [Callers -> Int] /\ entry' \in [Callers -> Int]
    BY DEF TypeOK
  <2>4. /\ Recording \in SUBSET Callers /\ w \in Recording
        /\ Recording' = Recording \ {w} /\ Recording \ {w} \in SUBSET Callers
    BY <2>1 DEF Recording, TypeOK
  <2>5. Total(entry, Recording) = Total(entry', Recording \ {w}) + entry[w]
    BY <2>2, <2>3, <2>4, TotalLeaves
  <2>6. Total(entry', Recording \ {w}) \in Int /\ entry[w] \in Int
    BY <2>3, <2>4, TotalFacts
  <2>7. balance \in Int /\ recorded \in Int
    BY DEF TypeOK
  <2>8. Total(entry', Recording') = Total(entry', Recording \ {w})
    BY <2>4
  <2> QED
    BY <2>1, <2>5, <2>6, <2>7, <2>8 DEF BooksBalance
<1>9. ASSUME NEW w \in Callers, Abandon(w)
      PROVE  BooksBalance'
  <2>1. CASE pc[w] = "record"
    BY <1>9, <2>1 DEF Abandon, BooksBalance
  <2>2. CASE pc[w] # "record"
    <3>1. /\ balance' = balance + 0 /\ recorded' = recorded + 0
      BY <1>9 DEF Abandon, TypeOK, userVars
    <3>2. unexplained' = unexplained
      BY <1>9, <2>2, Zenon DEF Abandon, TypeOK
    <3>3. Recording' = Recording /\ \A v \in Recording : entry'[v] = entry[v]
      BY <1>9, <2>2 DEF Abandon, End, Recording, TypeOK
    <3> QED
      BY <3>1, <3>2, <3>3, BooksTogether
  <2> QED
    BY <2>1, <2>2
<1>10. ASSUME NEW w \in Callers, ConvertWrite(w)
       PROVE  BooksBalance'
  BY <1>10 DEF ConvertWrite, BooksBalance
<1>11. CASE SetLimit \/ SetActive \/ UNCHANGED vars
  <2>1. balance' = balance + 0 /\ recorded' = recorded + 0
    BY <1>11 DEF TypeOK, SetLimit, SetActive, vars, userVars
  <2>2. UNCHANGED <<callVars, unexplained>>
    BY <1>11 DEF SetLimit, SetActive, vars, historyVars
  <2> QED
    BY <1>1, <2>1, <2>2
<1> QED
  BY <1>2, <1>3, <1>5, <1>6, <1>7, <1>8, <1>9, <1>10, <1>11 DEF Next

---------------------------------------------------------------------------
\* The variables keep their types: credit in use is never negative, whatever the
\* operations and however they interleave.
THEOREM TypeCorrect == Spec => []TypeOK
<1>1. Init => TypeOK
  BY InitTypes
<1> QED
  BY <1>1, TypeStep, PTL DEF Spec

\* Checkouts, refunds, deposits and the administrator's additions, deductions
\* and debt reliefs keep the user within the credit line, whatever they overwrite
\* of each other, until an operation is used that does not look at the line.
THEOREM WithinCreditLine ==
    ASSUME Opening >= -Limit
    PROVE  Spec => []CreditLine
<1>1. Init => IInv
  <2>1. Init => TypeOK
    BY InitTypes
  <2>2. Init => CreditLine
    BY WalletAssumption DEF Init, CreditLine
  <2>3. Init => PlansInv
    BY DEF Init, PlansInv
  <2> QED
    BY <2>1, <2>2, <2>3 DEF IInv
<1>2. IInv /\ [Next]_vars => IInv'
  BY TypeStep, LineStep DEF IInv
<1>3. IInv => CreditLine
  BY DEF IInv
<1> QED
  BY <1>1, <1>2, <1>3, PTL DEF Spec

\* The wallet transactions, with those that are still to be written, explain the
\* balance, for any number of calls that interleave, until an adjustment
\* overwrites what it did not read, a call ends early or the currency changes.
THEOREM BooksAddUp == Spec => []BooksBalance
<1>1. Init => BooksBalance
  <2> SUFFICES ASSUME Init
               PROVE  BooksBalance
    OBVIOUS
  <2>1. Recording = {}
    BY DEF Init, Recording
  <2>2. entry \in [Callers -> Int]
    BY DEF Init
  <2>3. Total(entry, Recording) = 0
    BY <2>1, <2>2, TotalFacts, WalletAssumption
  <2> QED
    BY <2>3, WalletAssumption DEF Init, BooksBalance
<1>2. BooksBalance /\ TypeOK /\ TypeOK' /\ [Next]_vars => BooksBalance'
  BY BooksStep
<1> QED
  BY <1>1, <1>2, TypeCorrect, PTL DEF Spec

===========================================================================
