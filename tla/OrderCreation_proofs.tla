------------------------ MODULE OrderCreation_proofs ------------------------
(***************************************************************************)
(* Theorems about OrderCreation, for every number of users, requests and   *)
(* keys.  IInv is inductive.  Its centre is SnapshotInv: the transaction   *)
(* that commits was overtaken by nobody, so that the balance it subtracts  *)
(* from and the index entry it did not see are those of that moment.       *)
(***************************************************************************)
EXTENDS OrderCreation, TLAPS

\* Every step is an action of a request or another write to a wallet.
LEMMA Steps ==
    ASSUME [Next]_vars
    PROVE  \/ \E r \in Requests :
                \/ PreCheck(r) \/ ClientOrder(r) \/ CounterLook(r) \/ CounterSeed(r)
                \/ CounterTake(r) \/ Begin(r) \/ Quote(r) \/ Debit(r)
                \/ Retry(r) \/ Insert(r) \/ Commit(r) \/ Finish(r)
                \/ Reprice(r) \/ CommitUnacknowledged(r) \/ Fault(r)
           \/ \E u \in Users : TopUp(u)
           \/ UNCHANGED vars
BY DEF Next, Step

\* A price is positive.
LEMMA PricePositive ==
    ASSUME TypeOK
    PROVE  price \in Nat /\ price > 0
BY CreationAssumption DEF TypeOK

\* An aborted request's own variables keep their types.
LEMMA AbortTypes ==
    ASSUME TypeOK, NEW r \in Requests, Abort(r)
    PROVE  /\ seenBalance' \in [Requests -> Int]
           /\ seenPrice' \in [Requests -> Nat]
           /\ seenKey' \in [Requests -> BOOLEAN]
           /\ moved' \in [Requests -> BOOLEAN]
           /\ number' \in [Requests -> Nat]
           /\ charge' \in [Requests -> Nat]
BY DEF TypeOK, Abort, Close

\* So do those of one that is answered.
LEMMA AnswerTypes ==
    ASSUME TypeOK, NEW r \in Requests, NEW a \in Answers, Answer(r, a)
    PROVE  pc' \in [Requests -> Pcs] /\ answer' \in [Requests -> Answers]
BY DEF TypeOK, Answer, Goto, Pcs

\* A request that goes on keeps the type of its place.
LEMMA GotoTypes ==
    ASSUME TypeOK, NEW r \in Requests, NEW p \in Pcs, Goto(r, p)
    PROVE  pc' \in [Requests -> Pcs]
BY DEF TypeOK, Goto

\* So does one that is answered with an order found under its key.
LEMMA ExistingTypes ==
    ASSUME TypeOK, NEW r \in Requests, AnswerExisting(r)
    PROVE  /\ pc' \in [Requests -> Pcs] /\ answer' \in [Requests -> Answers]
           /\ shown' \in [Requests -> Requests \cup {NoRequest}]
           /\ UNCHANGED fired
BY AnswerTypes DEF TypeOK, AnswerExisting, Found, Answers

\* And those of one that commits.
LEMMA ApplyTypes ==
    ASSUME TypeOK, NEW r \in Requests, Apply(r)
    PROVE  /\ balance' \in [Users -> Int]
           /\ charge' \in [Requests -> Nat]
           /\ moved' \in [Requests -> BOOLEAN]
           /\ seenBalance' \in [Requests -> Int]
           /\ seenPrice' \in [Requests -> Nat]
           /\ seenKey' \in [Requests -> BOOLEAN]
<1>1. seenBalance[r] - seenPrice[r] \in Int /\ seenPrice[r] \in Nat
  BY DEF TypeOK
<1>2. moved' \in [Requests -> BOOLEAN]
  BY DEF Apply, Touch, InTransaction
<1>3. balance' \in [Users -> Int] /\ charge' \in [Requests -> Nat]
  BY <1>1 DEF TypeOK, Apply
<1>4. Close(r)
  BY DEF Apply
<1> QED
  BY <1>2, <1>3, <1>4 DEF TypeOK, Close


\* Every step keeps the variables' types.
LEMMA TypeStep ==
    ASSUME TypeOK, NumbersInv, [Next]_vars
    PROVE  TypeOK'
<1> USE DEF requestVars, orderVars, snapshotVars, answerVars, boundVars
<1>0. /\ {"none", "created", "existing", "refused", "duplicate", "error"} \subseteq Answers
      /\ {"idle", "counter", "seed", "take", "begin", "quote", "debit", "insert",
          "commit", "populate", "done"} \subseteq Pcs
  BY DEF Answers, Pcs
<1>1. ASSUME NEW r \in Requests, PreCheck(r)
      PROVE  TypeOK'
  <2>1. CASE AnswerExisting(r)
    BY <1>1, <2>1, ExistingTypes DEF TypeOK, PreCheck
  <2>2. CASE Goto(r, "counter") /\ UNCHANGED answerVars
    BY <1>0, <1>1, <2>2, GotoTypes DEF TypeOK, PreCheck
  <2> QED
    BY <1>1, <2>1, <2>2 DEF PreCheck
<1>2. ASSUME NEW r \in Requests, CounterLook(r)
      PROVE  TypeOK'
  BY <1>0, <1>2, GotoTypes DEF TypeOK, CounterLook
<1>3. ASSUME NEW r \in Requests, CounterSeed(r)
      PROVE  TypeOK'
  BY <1>0, <1>3, GotoTypes DEF TypeOK, CounterSeed, Seeded
<1>4. ASSUME NEW r \in Requests, CounterTake(r)
      PROVE  TypeOK'
  <2>1. counter \in Nat
    BY <1>4 DEF TypeOK, NumbersInv, NumberOK, CounterTake
  <2> QED
    BY <1>0, <1>4, <2>1, GotoTypes DEF TypeOK, CounterTake
<1>5. ASSUME NEW r \in Requests, Begin(r)
      PROVE  TypeOK'
  <2>1. CASE Answer(r, "refused") /\ Abort(r) /\ UNCHANGED <<shown, fired>>
    BY <1>0, <1>5, <2>1, AnswerTypes, AbortTypes DEF TypeOK, Begin
  <2>2. CASE /\ Goto(r, "quote")
             /\ seenBalance' = [seenBalance EXCEPT ![r] = balance[user[r]]]
             /\ seenPrice' = [seenPrice EXCEPT ![r] = price]
             /\ seenKey' = [seenKey EXCEPT ![r] = (Found(r) # {})]
             /\ moved' = [moved EXCEPT ![r] = FALSE]
             /\ UNCHANGED <<answerVars, orderVars>>
    <3>1. price \in Nat /\ balance[user[r]] \in Int
      BY PricePositive DEF TypeOK
    <3>2. (Found(r) # {}) \in BOOLEAN
      OBVIOUS
    <3>3. seenKey' \in [Requests -> BOOLEAN]
      BY <2>2, <3>2, Zenon DEF TypeOK
    <3> QED
      BY <1>0, <1>5, <2>2, <3>1, <3>3, GotoTypes DEF TypeOK, Begin
  <2> QED
    BY <1>5, <2>1, <2>2 DEF Begin
<1>6. ASSUME NEW r \in Requests, Quote(r)
      PROVE  TypeOK'
  <2>1. CASE /\ Goto(r, "debit")
             /\ UNCHANGED <<repricing, answerVars, orderVars, snapshotVars>>
    BY <1>0, <1>6, <2>1, GotoTypes DEF TypeOK, Quote
  <2>2. ASSUME NEW q \in Quotes,
               repricing' = [repricing EXCEPT ![r] = q],
               Answer(r, "refused"), Abort(r), UNCHANGED <<shown, fired>>
        PROVE  TypeOK'
    BY <1>0, <1>6, <2>2, AnswerTypes, AbortTypes DEF TypeOK, Quote
  <2> QED
    BY <1>6, <2>1, <2>2 DEF Quote
<1>7. ASSUME NEW r \in Requests, Debit(r)
      PROVE  TypeOK'
  <2>1. CASE Answer(r, "refused") /\ Abort(r)
    BY <1>0, <1>7, <2>1, AnswerTypes, AbortTypes DEF TypeOK, Debit
  <2>2. CASE Goto(r, "insert") /\ UNCHANGED <<answer, orderVars, snapshotVars>>
    BY <1>0, <1>7, <2>2, GotoTypes DEF TypeOK, Debit
  <2> QED
    BY <1>7, <2>1, <2>2 DEF Debit
<1>8. ASSUME NEW r \in Requests, Retry(r)
      PROVE  TypeOK'
  <2>1. CASE Answer(r, "error") /\ UNCHANGED retried
    BY <1>0, <1>8, <2>1, AnswerTypes, AbortTypes DEF TypeOK, Retry
  <2>2. CASE /\ Goto(r, "counter") /\ UNCHANGED answer
             /\ retried' = [retried EXCEPT ![r] = TRUE]
    BY <1>0, <1>8, <2>2, GotoTypes, AbortTypes DEF TypeOK, Retry
  <2> QED
    BY <1>8, <2>1, <2>2 DEF Retry
<1>9. ASSUME NEW r \in Requests, Insert(r)
      PROVE  TypeOK'
  <2>1. CASE Goto(r, "commit") /\ UNCHANGED <<answerVars, orderVars, snapshotVars>>
    BY <1>0, <1>9, <2>1, GotoTypes DEF TypeOK, Insert
  <2>2. CASE AnswerExisting(r) /\ Abort(r)
    BY <1>9, <2>2, ExistingTypes, AbortTypes DEF TypeOK, Insert
  <2>3. CASE Answer(r, "duplicate") /\ Abort(r) /\ UNCHANGED <<shown, fired>>
    BY <1>0, <1>9, <2>3, AnswerTypes, AbortTypes DEF TypeOK, Insert
  <2> QED
    BY <1>9, <2>1, <2>2, <2>3 DEF Insert
<1>10. ASSUME NEW r \in Requests, Commit(r)
       PROVE  TypeOK'
  BY <1>0, <1>10, ApplyTypes, GotoTypes DEF TypeOK, Commit, Apply
<1>11. ASSUME NEW r \in Requests, Finish(r)
       PROVE  TypeOK'
  BY <1>0, <1>11, AnswerTypes DEF TypeOK, Finish
<1>12. ASSUME NEW r \in Requests, Reprice(r)
       PROVE  TypeOK'
  BY <1>12 DEF TypeOK, Reprice, NewPrice
<1>13. ASSUME NEW r \in Requests, CommitUnacknowledged(r)
       PROVE  TypeOK'
  <2>1. faults' \in 0..MaxFaults
    BY <1>13, CreationAssumption DEF TypeOK, CommitUnacknowledged
  <2>2. pc' \in [Requests -> Pcs] /\ answer' \in [Requests -> Answers]
    BY <1>0, <1>13, AnswerTypes DEF CommitUnacknowledged
  <2>3. Apply(r) /\ UNCHANGED <<shown, fired>>
    BY <1>13 DEF CommitUnacknowledged
  <2> QED
    BY <2>1, <2>2, <2>3, ApplyTypes DEF TypeOK, Apply
<1>14. ASSUME NEW r \in Requests, Fault(r)
       PROVE  TypeOK'
  <2>1. CASE Abort(r)
    BY <1>0, <1>14, <2>1, AnswerTypes, AbortTypes, CreationAssumption DEF TypeOK, Fault
  <2>2. CASE UNCHANGED <<orderVars, snapshotVars>>
    BY <1>0, <1>14, <2>2, AnswerTypes, CreationAssumption DEF TypeOK, Fault
  <2> QED
    BY <1>14, <2>1, <2>2 DEF Fault
<1>15. ASSUME NEW u \in Users, TopUp(u)
       PROVE  TypeOK'
  <2>1. PICK a \in TopUps : balance' = [balance EXCEPT ![u] = @ + a]
    BY <1>15 DEF TopUp
  <2>2. a \in Nat
    BY CreationAssumption
  <2>3. moved' \in [Requests -> BOOLEAN]
    BY <1>15 DEF TopUp, Touch, InTransaction
  <2>4. balance' \in [Users -> Int]
    BY <2>1, <2>2 DEF TypeOK
  <2>5. topUps' \in 0..MaxTopUps
    BY <1>15, CreationAssumption DEF TypeOK, TopUp
  <2> QED
    BY <1>15, <2>3, <2>4, <2>5 DEF TypeOK, TopUp
<1>16. ASSUME NEW r \in Requests, ClientOrder(r)
       PROVE  TypeOK'
  <2>1. CASE AnswerExisting(r)
    BY <1>16, <2>1, ExistingTypes DEF TypeOK, ClientOrder
  <2>2. CASE Answer(r, "refused") /\ UNCHANGED <<shown, fired>>
    BY <1>0, <1>16, <2>2, AnswerTypes DEF TypeOK, ClientOrder
  <2> QED
    BY <1>16, <2>1, <2>2 DEF ClientOrder
<1>17. CASE UNCHANGED vars
  BY <1>17 DEF TypeOK, vars
<1> QED
  BY Steps, <1>1, <1>2, <1>3, <1>4, <1>5, <1>6, <1>7, <1>8, <1>9, <1>10,
     <1>11, <1>12, <1>13, <1>14, <1>15, <1>16, <1>17

---------------------------------------------------------------------------
(* What an action of one request leaves alone.                              *)

\* Only r's own variables change, but for whether others were overtaken.
Local(r) ==
    /\ UNCHANGED <<user, key>>
    /\ \A x \in Requests \ {r} :
         /\ pc'[x] = pc[x] /\ answer'[x] = answer[x]
         /\ shown'[x] = shown[x] /\ fired'[x] = fired[x]
         /\ charge'[x] = charge[x] /\ number'[x] = number[x]
         /\ seenBalance'[x] = seenBalance[x] /\ seenPrice'[x] = seenPrice[x]
         /\ seenKey'[x] = seenKey[x]

\* Others are not overtaken either, and there are the same orders and balances.
Private(r) ==
    /\ Local(r)
    /\ UNCHANGED <<charge, balance>>
    /\ \A x \in Requests \ {r} : moved'[x] = moved[x]

\* Aborting is local, and leaves no number.
LEMMA AbortFrame ==
    ASSUME TypeOK, NEW r \in Requests, Abort(r)
    PROVE  /\ UNCHANGED charge
           /\ \A x \in Requests \ {r} :
                /\ number'[x] = number[x] /\ moved'[x] = moved[x]
                /\ seenBalance'[x] = seenBalance[x]
                /\ seenPrice'[x] = seenPrice[x]
                /\ seenKey'[x] = seenKey[x]
           /\ number'[r] = 0
BY DEF TypeOK, Abort, Close

\* So is answering.
LEMMA AnswerFrame ==
    ASSUME TypeOK, NEW r \in Requests, NEW a, Answer(r, a)
    PROVE  /\ \A x \in Requests \ {r} : /\ pc'[x] = pc[x]
                                         /\ answer'[x] = answer[x]
           /\ pc'[r] = "done" /\ answer'[r] = a
BY DEF TypeOK, Answer, Goto

\* Going on is local.
LEMMA GotoFrame ==
    ASSUME TypeOK, NEW r \in Requests, NEW p, Goto(r, p)
    PROVE  /\ \A x \in Requests \ {r} : pc'[x] = pc[x]
           /\ pc'[r] = p
BY DEF TypeOK, Goto

\* The answer with a found order is local, and the order is one of those found.
LEMMA ExistingFrame ==
    ASSUME TypeOK, NEW r \in Requests, AnswerExisting(r)
    PROVE  /\ \A x \in Requests \ {r} : /\ pc'[x] = pc[x]
                                         /\ answer'[x] = answer[x]
                                         /\ shown'[x] = shown[x]
           /\ pc'[r] = "done" /\ answer'[r] = "existing"
           /\ shown'[r] \in Found(r)
           /\ UNCHANGED fired
<1>1. PICK o \in Found(r) : shown' = [shown EXCEPT ![r] = o]
  BY DEF AnswerExisting
<1> QED
  BY <1>1, AnswerFrame DEF TypeOK, AnswerExisting

\* Until it commits, what a request does is seen by no other.
LEMMA PrivateSteps ==
    ASSUME TypeOK, NEW r \in Requests,
           \/ PreCheck(r) \/ ClientOrder(r)
           \/ CounterLook(r) \/ CounterSeed(r) \/ CounterTake(r)
           \/ Begin(r) \/ Quote(r) \/ Debit(r) \/ Retry(r) \/ Insert(r)
           \/ Finish(r) \/ Reprice(r) \/ Fault(r)
    PROVE  Private(r)
<1> USE DEF Private, Local, requestVars, orderVars, snapshotVars, answerVars
<1>1. CASE PreCheck(r)
  <2>1. CASE AnswerExisting(r)
    BY <1>1, <2>1, ExistingFrame DEF PreCheck
  <2>2. CASE Goto(r, "counter") /\ UNCHANGED answerVars
    BY <1>1, <2>2, GotoFrame DEF PreCheck
  <2> QED
    BY <1>1, <2>1, <2>2 DEF PreCheck
<1>2. CASE CounterLook(r)
  BY <1>2, GotoFrame DEF CounterLook
<1>3. CASE CounterSeed(r)
  BY <1>3, GotoFrame DEF CounterSeed
<1>4. CASE CounterTake(r)
  BY <1>4, GotoFrame DEF CounterTake, TypeOK
<1>5. CASE Begin(r)
  <2>1. CASE Answer(r, "refused") /\ Abort(r) /\ UNCHANGED <<shown, fired>>
    BY <1>5, <2>1, AnswerFrame, AbortFrame DEF Begin
  <2>2. CASE /\ Goto(r, "quote")
             /\ seenBalance' = [seenBalance EXCEPT ![r] = balance[user[r]]]
             /\ seenPrice' = [seenPrice EXCEPT ![r] = price]
             /\ seenKey' = [seenKey EXCEPT ![r] = (Found(r) # {})]
             /\ moved' = [moved EXCEPT ![r] = FALSE]
             /\ UNCHANGED <<answerVars, orderVars>>
    BY <1>5, <2>2, GotoFrame DEF Begin, TypeOK
  <2> QED
    BY <1>5, <2>1, <2>2 DEF Begin
<1>6. CASE Quote(r)
  <2>1. CASE /\ Goto(r, "debit")
             /\ UNCHANGED <<repricing, answerVars, orderVars, snapshotVars>>
    BY <1>6, <2>1, GotoFrame DEF Quote
  <2>2. CASE Answer(r, "refused") /\ Abort(r) /\ UNCHANGED <<shown, fired>>
    BY <1>6, <2>2, AnswerFrame, AbortFrame DEF Quote
  <2> QED
    BY <1>6, <2>1, <2>2 DEF Quote
<1>7. CASE Debit(r)
  <2>1. CASE Answer(r, "refused") /\ Abort(r)
    BY <1>7, <2>1, AnswerFrame, AbortFrame DEF Debit
  <2>2. CASE Goto(r, "insert") /\ UNCHANGED <<answer, orderVars, snapshotVars>>
    BY <1>7, <2>2, GotoFrame DEF Debit
  <2> QED
    BY <1>7, <2>1, <2>2 DEF Debit
<1>8. CASE Retry(r)
  <2>1. CASE Answer(r, "error")
    BY <1>8, <2>1, AnswerFrame, AbortFrame DEF Retry
  <2>2. CASE Goto(r, "counter") /\ UNCHANGED answer
    BY <1>8, <2>2, GotoFrame, AbortFrame DEF Retry
  <2> QED
    BY <1>8, <2>1, <2>2 DEF Retry
<1>9. CASE Insert(r)
  <2>1. CASE Goto(r, "commit") /\ UNCHANGED <<answerVars, orderVars, snapshotVars>>
    BY <1>9, <2>1, GotoFrame DEF Insert
  <2>2. CASE AnswerExisting(r) /\ Abort(r)
    BY <1>9, <2>2, ExistingFrame, AbortFrame DEF Insert
  <2>3. CASE Answer(r, "duplicate") /\ Abort(r) /\ UNCHANGED <<shown, fired>>
    BY <1>9, <2>3, AnswerFrame, AbortFrame DEF Insert
  <2> QED
    BY <1>9, <2>1, <2>2, <2>3 DEF Insert
<1>10. CASE Finish(r)
  BY <1>10, AnswerFrame DEF Finish, TypeOK
<1>11. CASE Reprice(r)
  BY <1>11 DEF Reprice
<1>12. CASE Fault(r)
  <2>1. CASE Abort(r)
    BY <1>12, <2>1, AnswerFrame, AbortFrame DEF Fault
  <2>2. CASE UNCHANGED <<orderVars, snapshotVars>>
    BY <1>12, <2>2, AnswerFrame DEF Fault
  <2> QED
    BY <1>12, <2>1, <2>2 DEF Fault
<1>13. CASE ClientOrder(r)
  <2>1. CASE AnswerExisting(r)
    BY <1>13, <2>1, ExistingFrame DEF ClientOrder
  <2>2. CASE Answer(r, "refused") /\ UNCHANGED <<shown, fired>>
    BY <1>13, <2>2, AnswerFrame DEF ClientOrder
  <2> QED
    BY <1>13, <2>1, <2>2 DEF ClientOrder
<1> QED
  BY <1>1, <1>2, <1>3, <1>4, <1>5, <1>6, <1>7, <1>8, <1>9, <1>10, <1>11, <1>12,
     <1>13

\* The commit shows the order and the balance, and overtakes the transactions of
\* the same user that are open.
Commits(r) ==
    /\ Local(r)
    /\ At(r, "commit") /\ pc'[r] \in {"populate", "done"}
    /\ charge'[r] = seenPrice[r] /\ number'[r] = number[r]
    /\ balance' = [balance EXCEPT ![user[r]] = seenBalance[r] - seenPrice[r]]
    /\ \A x \in Requests \ {r} :
         moved'[x] = (InTransaction(x) /\ (moved[x] \/ user[x] = user[r]))
    /\ UNCHANGED <<counter, number>>

\* Both forms of the commit do that.
LEMMA CommitSteps ==
    ASSUME TypeOK, NEW r \in Requests, Commit(r) \/ CommitUnacknowledged(r)
    PROVE  Commits(r)
<1>1. Apply(r) /\ At(r, "commit")
  BY DEF Commit, CommitUnacknowledged
<1>2. /\ \A x \in Requests \ {r} : /\ pc'[x] = pc[x] /\ answer'[x] = answer[x]
                                    /\ shown'[x] = shown[x] /\ fired'[x] = fired[x]
      /\ pc'[r] \in {"populate", "done"}
  <2>1. CASE Commit(r)
    BY <2>1, GotoFrame DEF Commit, answerVars
  <2>2. CASE CommitUnacknowledged(r)
    BY <2>2, AnswerFrame DEF CommitUnacknowledged
  <2> QED
    BY <2>1, <2>2
<1>3. \A x \in Requests \ {r} :
        /\ charge'[x] = charge[x]
        /\ seenBalance'[x] = seenBalance[x] /\ seenPrice'[x] = seenPrice[x]
        /\ seenKey'[x] = seenKey[x]
  BY <1>1 DEF Apply, Close, TypeOK
<1>4. \A x \in Requests \ {r} :
        moved'[x] = (InTransaction(x) /\ (moved[x] \/ user[x] = user[r]))
  BY <1>1, Zenon DEF Apply, Touch
<1>5. /\ UNCHANGED <<user, key, counter, number>>
      /\ charge'[r] = seenPrice[r]
      /\ balance' = [balance EXCEPT ![user[r]] = seenBalance[r] - seenPrice[r]]
  BY <1>1 DEF Apply, requestVars, TypeOK
<1> QED
  BY <1>1, <1>2, <1>3, <1>4, <1>5 DEF Commits, Local

---------------------------------------------------------------------------
(* What clients are told.                                                   *)

\* A request that is not finished has been told nothing and started nothing.
LEMMA Unanswered ==
    ASSUME TypeOK, AnswersInv, NEW r \in Requests, pc[r] # "done"
    PROVE  /\ answer[r] = "none" /\ fired[r] = 0
           /\ pc[r] # "populate" => charge[r] = 0
<1>1. AnswerOK(r)
  BY DEF AnswersInv
<1>2. answer[r] = "none"
  BY <1>1 DEF AnswerOK, At
<1>3. fired[r] = 0
  BY <1>1, <1>2 DEF AnswerOK
<1>4. pc[r] # "populate" => charge[r] = 0
  BY <1>1 DEF AnswerOK, Ordered, TypeOK
<1> QED
  BY <1>2, <1>3, <1>4

\* What other requests were told stays true.
LEMMA AnswersOthers ==
    ASSUME TypeOK, AnswersInv, NEW r \in Requests, Local(r), AnswerOK(r)',
           Ordered(r) => Ordered(r)', faults > 0 => faults' > 0
    PROVE  AnswersInv'
<1> SUFFICES ASSUME NEW x \in Requests \ {r}
             PROVE  AnswerOK(x)'
  BY DEF AnswersInv
<1>1. AnswerOK(x)
  BY DEF AnswersInv
<1>2. Found(x) \subseteq Found(x)'
  BY DEF Found, SameKey, Ordered, Local
<1>3. /\ pc'[x] = pc[x] /\ answer'[x] = answer[x]
      /\ shown'[x] = shown[x] /\ fired'[x] = fired[x] /\ charge'[x] = charge[x]
  BY DEF Local
<1> QED
  BY <1>1, <1>2, <1>3 DEF AnswerOK, At, Ordered

\* Every step keeps what clients were told true.
LEMMA AnswersStep ==
    ASSUME TypeOK, TypeOK', AnswersInv, SnapshotInv, [Next]_vars
    PROVE  AnswersInv'
<1> USE DEF requestVars, orderVars, snapshotVars, answerVars, boundVars
<1>0. ASSUME NEW r \in Requests, Private(r)
      PROVE  Found(r)' = Found(r) /\ charge'[r] = charge[r]
  BY <1>0 DEF Private, Local, Found, SameKey, Ordered
<1>1. ASSUME NEW r \in Requests, Private(r), AnswerOK(r)', faults' = faults
      PROVE  AnswersInv'
  BY <1>1, AnswersOthers DEF Private, Ordered
<1>2. ASSUME NEW r \in Requests, PreCheck(r)
      PROVE  AnswersInv'
  <2>1. Private(r) /\ faults' = faults
    BY <1>2, PrivateSteps DEF PreCheck
  <2>2. answer[r] = "none" /\ fired[r] = 0 /\ charge[r] = 0
    BY <1>2, Unanswered DEF PreCheck, At
  <2>3. CASE AnswerExisting(r)
    BY <1>0, <2>1, <2>2, <2>3, <1>1, ExistingFrame DEF AnswerOK, At, Ordered
  <2>4. CASE Goto(r, "counter") /\ UNCHANGED answerVars
    BY <1>0, <2>1, <2>2, <2>4, <1>1, GotoFrame DEF AnswerOK, At, Ordered
  <2> QED
    BY <1>2, <2>3, <2>4 DEF PreCheck
<1>3. ASSUME NEW r \in Requests, CounterLook(r) \/ CounterSeed(r) \/ CounterTake(r)
      PROVE  AnswersInv'
  <2>1. Private(r)
    BY <1>3, PrivateSteps
  <2>2. answer[r] = "none" /\ fired[r] = 0 /\ charge[r] = 0
    BY <1>3, Unanswered DEF CounterLook, CounterSeed, CounterTake, At
  <2>3. pc'[r] \in {"seed", "take", "begin"} /\ UNCHANGED <<answerVars, faults>>
    BY <1>3, GotoFrame DEF CounterLook, CounterSeed, CounterTake
  <2> QED
    BY <1>0, <2>1, <2>2, <2>3, <1>1 DEF AnswerOK, At, Ordered
<1>4. ASSUME NEW r \in Requests,
             Begin(r) \/ Quote(r) \/ Debit(r) \/ Retry(r) \/ Insert(r)
      PROVE  AnswersInv'
  <2>1. Private(r) /\ faults' = faults
    BY <1>4, PrivateSteps DEF Begin, Quote, Debit, Retry, Insert
  <2>2. answer[r] = "none" /\ fired[r] = 0 /\ charge[r] = 0
    BY <1>4, Unanswered DEF Begin, Quote, Debit, Retry, Insert, At
  <2>3. ASSUME NEW a \in {"refused", "duplicate", "error"},
               Answer(r, a), UNCHANGED fired
        PROVE  AnswersInv'
    <3>1. pc'[r] = "done" /\ answer'[r] = a /\ fired'[r] = 0 /\ charge'[r] = 0
      BY <1>0, <2>1, <2>2, <2>3, AnswerFrame
    <3> QED
      BY <3>1, <2>1, <1>1 DEF AnswerOK, At, Ordered
  <2>4. CASE AnswerExisting(r)
    BY <1>0, <2>1, <2>2, <2>4, <1>1, ExistingFrame DEF AnswerOK, At, Ordered
  <2>5. ASSUME NEW p \in {"quote", "debit", "insert", "commit", "counter"},
               Goto(r, p), UNCHANGED <<answer, fired>>
        PROVE  AnswersInv'
    <3>1. pc'[r] = p /\ answer'[r] = "none" /\ fired'[r] = 0 /\ charge'[r] = 0
      BY <1>0, <2>1, <2>2, <2>5, GotoFrame
    <3> QED
      BY <3>1, <2>1, <1>1 DEF AnswerOK, At, Ordered
  <2> QED
    BY <1>4, <2>3, <2>4, <2>5 DEF Begin, Quote, Debit, Retry, Insert
<1>5. ASSUME NEW r \in Requests, Commit(r) \/ CommitUnacknowledged(r)
      PROVE  AnswersInv'
  <2>1. Commits(r)
    BY <1>5, CommitSteps
  <2>2. answer[r] = "none" /\ fired[r] = 0
    BY <2>1, Unanswered DEF Commits, At
  <2>3. charge'[r] > 0
    BY <2>1 DEF Commits, SnapshotInv, SnapshotOK, InTransaction, At
  <2>4. CASE Commit(r)
    <3>1. pc'[r] = "populate" /\ UNCHANGED <<answer, fired, faults>>
      BY <2>4, GotoFrame DEF Commit
    <3> QED
      BY <2>1, <2>2, <2>3, <3>1, AnswersOthers DEF AnswerOK, At, Ordered, Commits
  <2>5. CASE CommitUnacknowledged(r)
    <3>1. /\ pc'[r] = "done" /\ answer'[r] = "error" /\ UNCHANGED fired
          /\ faults' > 0
      BY <2>5, AnswerFrame, CreationAssumption DEF CommitUnacknowledged, TypeOK
    <3> QED
      BY <2>1, <2>2, <2>3, <3>1, AnswersOthers DEF AnswerOK, At, Ordered, Commits
  <2> QED
    BY <1>5, <2>4, <2>5
<1>6. ASSUME NEW r \in Requests, Finish(r)
      PROVE  AnswersInv'
  <2>1. Private(r) /\ faults' = faults
    BY <1>6, PrivateSteps DEF Finish
  <2>2. fired[r] = 0
    BY <1>6, Unanswered DEF Finish, At
  <2>3. Ordered(r)
    BY <1>6 DEF AnswersInv, AnswerOK, Finish
  <2>4. pc'[r] = "done" /\ answer'[r] = "created" /\ shown'[r] = r
    BY <1>6, AnswerFrame DEF Finish, TypeOK
  <2>5. fired'[r] = IF Automatic THEN 1 ELSE 0
    BY <1>6, <2>2 DEF Finish, StartsOrder, TypeOK
  <2> QED
    BY <1>0, <1>1, <2>1, <2>3, <2>4, <2>5, CreationAssumption DEF AnswerOK, At, Ordered
<1>7. ASSUME NEW r \in Requests, Reprice(r)
      PROVE  AnswersInv'
  BY <1>7 DEF Reprice, AnswersInv, AnswerOK, At, Ordered, Found, SameKey
<1>8. ASSUME NEW r \in Requests, Fault(r)
      PROVE  AnswersInv'
  <2>1. Private(r)
    BY <1>8, PrivateSteps
  <2>2. fired[r] = 0
    BY <1>8, Unanswered DEF Fault, At
  <2>3. pc'[r] = "done" /\ answer'[r] = "error" /\ UNCHANGED fired /\ faults' > 0
    BY <1>8, AnswerFrame, CreationAssumption DEF Fault, TypeOK
  <2>4. AnswerOK(r)'
    BY <2>2, <2>3 DEF AnswerOK, At
  <2> QED
    BY <1>0, <2>1, <2>3, <2>4, AnswersOthers DEF Private, Ordered
<1>9. ASSUME NEW u \in Users, TopUp(u)
      PROVE  AnswersInv'
  BY <1>9 DEF TopUp, AnswersInv, AnswerOK, At, Ordered, Found, SameKey
<1>10. CASE UNCHANGED vars
  BY <1>10 DEF vars, AnswersInv, AnswerOK, At, Ordered, Found, SameKey
<1>11. ASSUME NEW r \in Requests, ClientOrder(r)
       PROVE  AnswersInv'
  <2>1. Private(r) /\ faults' = faults
    BY <1>11, PrivateSteps DEF ClientOrder
  <2>2. answer[r] = "none" /\ fired[r] = 0 /\ charge[r] = 0
    BY <1>11, Unanswered DEF ClientOrder, At
  <2>3. CASE AnswerExisting(r)
    BY <1>0, <2>1, <2>2, <2>3, <1>1, ExistingFrame DEF AnswerOK, At, Ordered
  <2>4. CASE Answer(r, "refused") /\ UNCHANGED <<shown, fired>>
    BY <1>0, <2>1, <2>2, <2>4, <1>1, AnswerFrame DEF AnswerOK, At, Ordered
  <2> QED
    BY <1>11, <2>3, <2>4 DEF ClientOrder
<1> QED
  BY Steps, <1>2, <1>3, <1>4, <1>5, <1>6, <1>7, <1>8, <1>9, <1>10, <1>11

---------------------------------------------------------------------------
(* Order numbers.                                                           *)

\* Numbers in other hands stay good while the counter grows, and the number that
\* r takes is new.
LEMMA NumbersOthers ==
    ASSUME TypeOK, TypeOK', NumbersInv, NEW r \in Requests, Local(r), NumberOK(r)',
           counter' >= counter,
           number'[r] = number[r] \/ number'[r] = 0 \/ number'[r] > counter
    PROVE  NumbersInv'
<1>1. ASSUME NEW x \in Requests \ {r}
      PROVE  NumberOK(x)'
  <2>1. NumberOK(x)
    BY DEF NumbersInv
  <2>2. number'[x] = number[x] /\ pc'[x] = pc[x] /\ charge'[x] = charge[x]
    BY DEF Local
  <2>3. number[x] \in Nat /\ counter \in Int /\ counter' \in Int
    BY DEF TypeOK, NoCounter
  <2>4. counter # NoCounter => counter' # NoCounter
    BY <2>3 DEF TypeOK, NoCounter
  <2> QED
    BY <2>1, <2>2, <2>3, <2>4 DEF NumberOK, At, InTransaction, Ordered
<1>2. ASSUME NEW x \in Requests, NEW o \in Requests,
             x # o, number'[x] > 0, number'[o] > 0
      PROVE  number'[x] # number'[o]
  <2>1. \A y \in Requests \ {r} : number'[y] = number[y]
    BY DEF Local
  <2>2. \A y \in Requests : number[y] > 0 => number[y] <= counter
    BY DEF NumbersInv, NumberOK
  <2>3. \A y, z \in Requests :
          y # z /\ number[y] > 0 /\ number[z] > 0 => number[y] # number[z]
    BY DEF NumbersInv
  <2>4. /\ counter \in Int
        /\ \A y \in Requests : number[y] \in Nat /\ number'[y] \in Nat
    BY DEF TypeOK, NoCounter
  <2> QED
    BY <1>2, <2>1, <2>2, <2>3, <2>4
<1> QED
  BY <1>1, <1>2 DEF NumbersInv

\* Every step keeps numbers distinct and below the counter.
LEMMA NumbersStep ==
    ASSUME TypeOK, TypeOK', AnswersInv, NumbersInv, [Next]_vars
    PROVE  NumbersInv'
<1> USE DEF requestVars, orderVars, snapshotVars, answerVars, boundVars
<1>0. counter \in Int
  BY DEF TypeOK, NoCounter
<1>1. ASSUME NEW r \in Requests, Private(r), UNCHANGED counter,
             \/ number'[r] = 0 /\ charge[r] = 0 /\ pc'[r] \in {"done", "counter"}
             \/ /\ number'[r] = number[r]
                /\ pc'[r] = "take" => counter # NoCounter
                /\ InTransaction(r)' => InTransaction(r) \/ At(r, "begin")
                /\ pc'[r] # "begin"
      PROVE  NumbersInv'
  <2>1. Local(r) /\ charge'[r] = charge[r]
    BY <1>1 DEF Private
  <2>2. NumberOK(r)
    BY DEF NumbersInv
  <2>3. NumberOK(r)'
    BY <1>1, <2>1, <2>2 DEF NumberOK, At, InTransaction, Ordered
  <2> QED
    BY <1>0, <1>1, <2>1, <2>3, NumbersOthers
<1>2. ASSUME NEW r \in Requests, PreCheck(r) \/ ClientOrder(r)
      PROVE  NumbersInv'
  <2>1. Private(r) /\ UNCHANGED <<counter, number>>
    BY <1>2, PrivateSteps DEF PreCheck, ClientOrder, orderVars
  <2>2. pc'[r] \in {"done", "counter"}
    BY <1>2, GotoFrame, AnswerFrame, ExistingFrame DEF PreCheck, ClientOrder
  <2> QED
    BY <1>1, <2>1, <2>2 DEF InTransaction
<1>3. ASSUME NEW r \in Requests, CounterLook(r)
      PROVE  NumbersInv'
  <2>1. Private(r) /\ UNCHANGED <<counter, number>>
    BY <1>3, PrivateSteps DEF CounterLook
  <2>2. pc'[r] = IF counter = NoCounter THEN "seed" ELSE "take"
    BY <1>3, GotoFrame DEF CounterLook
  <2> QED
    BY <1>1, <2>1, <2>2 DEF InTransaction
<1>4. ASSUME NEW r \in Requests, CounterSeed(r)
      PROVE  NumbersInv'
  <2>1. Private(r) /\ UNCHANGED number
    BY <1>4, PrivateSteps DEF CounterSeed
  <2>2. counter' >= counter /\ counter' # NoCounter
    BY <1>4, <1>0 DEF CounterSeed, Seeded, NoCounter
  <2>3. pc'[r] = "take" /\ charge'[r] = charge[r]
    BY <1>4, GotoFrame DEF CounterSeed
  <2>4. NumberOK(r) /\ number[r] \in Nat /\ counter' \in Int
    BY DEF NumbersInv, TypeOK, NoCounter
  <2>5. NumberOK(r)'
    BY <2>1, <2>2, <2>3, <2>4, <1>0 DEF NumberOK, At, InTransaction, Ordered
  <2> QED
    BY <2>1, <2>2, <2>5, NumbersOthers DEF Private
<1>5. ASSUME NEW r \in Requests, CounterTake(r)
      PROVE  NumbersInv'
  <2>1. Private(r)
    BY <1>5, PrivateSteps
  <2>2. counter \in Nat
    BY <1>5 DEF CounterTake, NumbersInv, NumberOK, TypeOK
  <2>3. pc'[r] = "begin" /\ number'[r] = counter + 1 /\ counter' = counter + 1
    BY <1>5, GotoFrame DEF CounterTake, TypeOK
  <2>4. NumberOK(r)'
    BY <2>2, <2>3 DEF NumberOK, At, InTransaction
  <2> QED
    BY <2>1, <2>2, <2>3, <2>4, NumbersOthers DEF Private
<1>6. ASSUME NEW r \in Requests,
             Begin(r) \/ Quote(r) \/ Debit(r) \/ Retry(r) \/ Insert(r)
      PROVE  NumbersInv'
  <2>1. Private(r) /\ UNCHANGED counter
    BY <1>6, PrivateSteps DEF Begin, Quote, Debit, Retry, Insert
  <2>2. charge[r] = 0 /\ (InTransaction(r) \/ At(r, "begin"))
    BY <1>6, Unanswered DEF Begin, Quote, Debit, Retry, Insert, At, InTransaction
  <2>3. \/ Abort(r) /\ pc'[r] \in {"done", "counter"}
        \/ UNCHANGED number /\ pc'[r] \in {"quote", "debit", "insert", "commit"}
    <3>1. CASE Begin(r)
      BY <3>1, AnswerFrame, GotoFrame DEF Begin
    <3>2. CASE Quote(r)
      BY <3>2, AnswerFrame, GotoFrame DEF Quote
    <3>3. CASE Debit(r)
      BY <3>3, AnswerFrame, GotoFrame DEF Debit
    <3>4. CASE Retry(r)
      BY <3>4, AnswerFrame, GotoFrame DEF Retry
    <3>5. CASE Insert(r)
      BY <3>5, AnswerFrame, GotoFrame, ExistingFrame DEF Insert
    <3> QED
      BY <1>6, <3>1, <3>2, <3>3, <3>4, <3>5
  <2> QED
    BY <1>1, <2>1, <2>2, <2>3, AbortFrame
<1>7. ASSUME NEW r \in Requests, Commit(r) \/ CommitUnacknowledged(r)
      PROVE  NumbersInv'
  <2>1. Commits(r)
    BY <1>7, CommitSteps
  <2>2. NumberOK(r) /\ number[r] > 0
    BY <2>1 DEF Commits, NumbersInv, NumberOK, InTransaction, At
  <2>3. NumberOK(r)'
    BY <2>1, <2>2 DEF Commits, NumberOK, At, InTransaction
  <2> QED
    BY <1>0, <2>1, <2>3, NumbersOthers DEF Commits
<1>8. ASSUME NEW r \in Requests, Finish(r)
      PROVE  NumbersInv'
  <2>1. Private(r) /\ UNCHANGED <<counter, number>>
    BY <1>8, PrivateSteps DEF Finish
  <2>2. pc'[r] = "done"
    BY <1>8, AnswerFrame DEF Finish
  <2> QED
    BY <1>1, <2>1, <2>2 DEF InTransaction
<1>9. ASSUME NEW r \in Requests, Reprice(r)
      PROVE  NumbersInv'
  BY <1>9 DEF Reprice, NumbersInv, NumberOK, At, InTransaction, Ordered
<1>10. ASSUME NEW r \in Requests, Fault(r)
       PROVE  NumbersInv'
  <2>1. Private(r) /\ UNCHANGED counter
    BY <1>10, PrivateSteps DEF Fault
  <2>2. pc'[r] = "done"
    BY <1>10, AnswerFrame DEF Fault
  <2>3. CASE pc[r] \notin {"idle", "populate", "done"} /\ Abort(r)
    BY <1>1, <2>1, <2>2, <2>3, AbortFrame, Unanswered
  <2>4. CASE UNCHANGED <<orderVars, snapshotVars>>
    BY <1>1, <2>1, <2>2, <2>4 DEF InTransaction
  <2> QED
    BY <1>10, <2>3, <2>4 DEF Fault
<1>11. ASSUME NEW u \in Users, TopUp(u)
       PROVE  NumbersInv'
  BY <1>11 DEF TopUp, NumbersInv, NumberOK, At, InTransaction, Ordered
<1>12. CASE UNCHANGED vars
  BY <1>12 DEF vars, NumbersInv, NumberOK, At, InTransaction, Ordered
<1> QED
  BY Steps, <1>2, <1>3, <1>4, <1>5, <1>6, <1>7, <1>8, <1>9, <1>10, <1>11, <1>12

---------------------------------------------------------------------------
(* Transactions.                                                            *)

\* What a private step of r leaves as it was.
LEMMA PrivateFrame ==
    ASSUME NEW r \in Requests, Private(r)
    PROVE  /\ \A x \in Requests : Found(x)' = Found(x)
           /\ Locked(user[r], r)' = Locked(user[r], r)
           /\ UNCHANGED <<user, balance>>
BY DEF Private, Local, Found, SameKey, Ordered, Locked, Writing

\* Other transactions see what they saw, unless r commits, and r has no claim to
\* a document that one of them has written.
LEMMA SnapshotOthers ==
    ASSUME TypeOK, SnapshotInv, NEW r \in Requests, Private(r), SnapshotOK(r)',
           Writing(r)' => ~Locked(user[r], r)
    PROVE  SnapshotInv'
<1> SUFFICES ASSUME NEW x \in Requests \ {r}
             PROVE  SnapshotOK(x)'
  BY DEF SnapshotInv
<1>1. SnapshotOK(x)
  BY DEF SnapshotInv
<1>2. /\ pc'[x] = pc[x] /\ moved'[x] = moved[x]
      /\ seenBalance'[x] = seenBalance[x] /\ seenPrice'[x] = seenPrice[x]
      /\ seenKey'[x] = seenKey[x]
      /\ UNCHANGED <<user, balance>>
  BY DEF Private, Local
<1>3. Found(x)' = Found(x)
  BY PrivateFrame
<1>4. ASSUME Writing(x), Locked(user[x], x)'
      PROVE  FALSE
  <2>1. PICK o \in Requests \ {x} : user[o] = user[x] /\ Writing(o)'
    BY <1>4, <1>2 DEF Locked
  <2>2. CASE o = r
    BY <1>4, <2>1, <2>2 DEF Locked
  <2>3. CASE o # r
    <3>1. Writing(o)
      BY <2>1, <2>3 DEF Writing, Private, Local
    <3> QED
      BY <1>1, <1>4, <2>1, <3>1 DEF SnapshotOK, Locked
  <2> QED
    BY <2>2, <2>3
<1>5. Writing(x)' <=> Writing(x)
  BY <1>2 DEF Writing
<1> QED
  BY <1>1, <1>2, <1>3, <1>4, <1>5 DEF SnapshotOK, InTransaction, Covers, At

\* A request outside a transaction has no snapshot to answer for.
LEMMA SnapshotClosed ==
    ASSUME NEW r \in Requests, pc'[r] \notin {"quote", "debit", "insert", "commit"}
    PROVE  SnapshotOK(r)' /\ ~Writing(r)'
BY DEF SnapshotOK, InTransaction, Writing, At

\* Every step keeps the snapshots of open transactions as good as claimed.
LEMMA SnapshotStep ==
    ASSUME TypeOK, TypeOK', AnswersInv, SnapshotInv, [Next]_vars
    PROVE  SnapshotInv'
<1> USE DEF requestVars, orderVars, snapshotVars, answerVars, boundVars
<1>1. ASSUME NEW r \in Requests, Private(r),
             pc'[r] \notin {"quote", "debit", "insert", "commit"}
      PROVE  SnapshotInv'
  BY <1>1, SnapshotClosed, SnapshotOthers
<1>2. ASSUME NEW r \in Requests,
             \/ PreCheck(r) \/ ClientOrder(r) \/ CounterLook(r) \/ CounterSeed(r)
             \/ CounterTake(r) \/ Retry(r) \/ Finish(r) \/ Fault(r)
      PROVE  SnapshotInv'
  <2>1. Private(r)
    BY <1>2, PrivateSteps
  <2>2. pc'[r] \in {"counter", "seed", "take", "begin", "done"}
    BY <1>2, GotoFrame, AnswerFrame, ExistingFrame
       DEF PreCheck, ClientOrder, CounterLook, CounterSeed, CounterTake, Retry, Finish, Fault
  <2> QED
    BY <1>1, <2>1, <2>2
<1>3. ASSUME NEW r \in Requests, Begin(r)
      PROVE  SnapshotInv'
  <2>1. Private(r)
    BY <1>3, PrivateSteps
  <2>2. CASE Answer(r, "refused") /\ Abort(r)
    BY <1>1, <2>1, <2>2, AnswerFrame
  <2>3. CASE /\ Goto(r, "quote")
             /\ seenBalance' = [seenBalance EXCEPT ![r] = balance[user[r]]]
             /\ seenPrice' = [seenPrice EXCEPT ![r] = price]
             /\ seenKey' = [seenKey EXCEPT ![r] = (Found(r) # {})]
             /\ moved' = [moved EXCEPT ![r] = FALSE]
    <3>1. pc'[r] = "quote"
      BY <2>3, GotoFrame
    <3>2. seenBalance'[r] = balance[user[r]] /\ seenPrice'[r] > 0
      BY <2>3, PricePositive DEF TypeOK
    <3>3. seenKey'[r] <=> Found(r) # {}
      BY <2>3, Zenon DEF TypeOK
    <3>4. SnapshotOK(r)' /\ ~Writing(r)'
      BY <2>1, <3>1, <3>2, <3>3, PrivateFrame DEF SnapshotOK, Writing, At
    <3> QED
      BY <2>1, <3>4, SnapshotOthers
  <2> QED
    BY <1>3, <2>2, <2>3 DEF Begin
\* Going on within the transaction.
<1>4. ASSUME NEW r \in Requests, Private(r), InTransaction(r),
             UNCHANGED snapshotVars,
             pc'[r] \in {"debit", "insert", "commit"},
             pc'[r] # "debit" => ~moved[r] /\ Covers(r) /\ ~Locked(user[r], r),
             pc'[r] = "commit" => ~seenKey[r]
      PROVE  SnapshotInv'
  <2>1. SnapshotOK(r)
    BY DEF SnapshotInv
  <2>2. Writing(r)' => ~Locked(user[r], r)
    BY <1>4 DEF Writing
  <2>3. SnapshotOK(r)'
    <3>1. /\ Found(r)' = Found(r) /\ Locked(user[r], r)' = Locked(user[r], r)
          /\ UNCHANGED <<user, balance>>
      BY <1>4, PrivateFrame
    <3>2. /\ seenPrice[r] > 0
          /\ ~moved[r] => /\ seenBalance[r] = balance[user[r]]
                          /\ seenKey[r] <=> Found(r) # {}
      BY <1>4, <2>1 DEF SnapshotOK
    <3> QED
      BY <1>4, <3>1, <3>2 DEF SnapshotOK, Writing, At, Covers
  <2> QED
    BY <1>4, <2>2, <2>3, SnapshotOthers
<1>5. ASSUME NEW r \in Requests, Quote(r)
      PROVE  SnapshotInv'
  <2>1. Private(r) /\ InTransaction(r)
    BY <1>5, PrivateSteps DEF Quote, InTransaction, At
  <2>2. CASE Answer(r, "refused")
    BY <1>1, <2>1, <2>2, AnswerFrame
  <2>3. CASE Goto(r, "debit") /\ UNCHANGED snapshotVars
    BY <1>4, <2>1, <2>3, GotoFrame
  <2> QED
    BY <1>5, <2>2, <2>3 DEF Quote
<1>6. ASSUME NEW r \in Requests, Debit(r)
      PROVE  SnapshotInv'
  <2>1. Private(r) /\ InTransaction(r)
    BY <1>6, PrivateSteps DEF Debit, InTransaction, At
  <2>2. CASE Answer(r, "refused")
    BY <1>1, <2>1, <2>2, AnswerFrame
  <2>3. CASE Covers(r) /\ ~Conflict(r) /\ Goto(r, "insert") /\ UNCHANGED snapshotVars
    BY <1>4, <2>1, <2>3, GotoFrame DEF Conflict
  <2> QED
    BY <1>6, <2>2, <2>3 DEF Debit
<1>7. ASSUME NEW r \in Requests, Insert(r)
      PROVE  SnapshotInv'
  <2>1. Private(r) /\ InTransaction(r) /\ Writing(r)
    BY <1>7, PrivateSteps DEF Insert, InTransaction, Writing, At
  <2>2. ~moved[r] /\ Covers(r) /\ ~Locked(user[r], r)
    BY <2>1 DEF SnapshotInv, SnapshotOK
  <2>3. CASE pc'[r] = "done"
    BY <1>1, <2>1, <2>3
  <2>4. CASE KeyIsFree(r) /\ Goto(r, "commit") /\ UNCHANGED snapshotVars
    BY <1>4, <2>1, <2>2, <2>4, GotoFrame DEF KeyIsFree
  <2> QED
    BY <1>7, <2>3, <2>4, AnswerFrame, ExistingFrame DEF Insert
<1>8. ASSUME NEW r \in Requests, Commit(r) \/ CommitUnacknowledged(r)
      PROVE  SnapshotInv'
  <2>1. Commits(r)
    BY <1>8, CommitSteps
  <2>2. ~Locked(user[r], r)
    BY <2>1 DEF Commits, SnapshotInv, SnapshotOK, Writing, At
  <2>3. ASSUME NEW x \in Requests \ {r}
        PROVE  SnapshotOK(x)'
    <3>1. SnapshotOK(x)
      BY DEF SnapshotInv
    <3>2. /\ pc'[x] = pc[x] /\ UNCHANGED <<user, key>>
          /\ seenBalance'[x] = seenBalance[x] /\ seenPrice'[x] = seenPrice[x]
          /\ seenKey'[x] = seenKey[x]
          /\ moved'[x] = (InTransaction(x) /\ (moved[x] \/ user[x] = user[r]))
      BY <2>1 DEF Commits, Local
    <3>3. Writing(x) => user[x] # user[r]
      BY <2>2 DEF Locked
    <3>4. ASSUME user[x] # user[r]
          PROVE  Found(x)' = Found(x) /\ balance'[user[x]] = balance[user[x]]
      <4>1. Found(x)' = Found(x)
        BY <2>1, <3>4 DEF Commits, Local, Found, SameKey, Ordered
      <4> QED
        BY <2>1, <3>4, <4>1 DEF Commits, TypeOK
    <3>5. Locked(user[x], x)' => Locked(user[x], x)
      BY <2>1 DEF Commits, Local, Locked, Writing
    <3>6. /\ InTransaction(x)' <=> InTransaction(x)
          /\ Writing(x)' <=> Writing(x)
          /\ Writing(x) => InTransaction(x)
      BY <3>2 DEF InTransaction, Writing
    <3>7. CASE user[x] = user[r]
      BY <3>1, <3>2, <3>3, <3>6, <3>7 DEF SnapshotOK, Writing, At
    <3>8. CASE user[x] # user[r]
      <4>1. InTransaction(x) => (moved'[x] <=> moved[x])
        BY <3>2, <3>8
      <4> QED
        BY <3>1, <3>2, <3>4, <3>5, <3>6, <3>8, <4>1 DEF SnapshotOK, Covers, At
    <3> QED
      BY <3>7, <3>8
  <2>4. SnapshotOK(r)'
    BY <2>1, SnapshotClosed DEF Commits
  <2> QED
    BY <2>3, <2>4 DEF SnapshotInv
<1>9. ASSUME NEW r \in Requests, Reprice(r)
      PROVE  SnapshotInv'
  BY <1>9 DEF Reprice, SnapshotInv, SnapshotOK, InTransaction, Writing, Covers,
              Locked, At, Found, SameKey, Ordered
<1>10. ASSUME NEW u \in Users, TopUp(u)
       PROVE  SnapshotInv'
  <2> SUFFICES ASSUME NEW x \in Requests
               PROVE  SnapshotOK(x)'
    BY DEF SnapshotInv
  <2>1. SnapshotOK(x)
    BY DEF SnapshotInv
  <2>2. UNCHANGED <<user, key, charge, pc, seenBalance, seenPrice, seenKey>>
    BY <1>10 DEF TopUp
  <2>3. /\ Found(x)' = Found(x) /\ Locked(user[x], x)' = Locked(user[x], x)
        /\ InTransaction(x)' = InTransaction(x) /\ Writing(x)' = Writing(x)
        /\ Covers(x)' = Covers(x)
    BY <2>2 DEF Found, SameKey, Ordered, Locked, InTransaction, Writing, Covers
  <2>4. moved'[x] = (InTransaction(x) /\ (moved[x] \/ user[x] = u))
    BY <1>10, Zenon DEF TopUp, Touch
  <2>5. Writing(x) => user[x] # u /\ InTransaction(x)
    BY <1>10 DEF TopUp, Writing, InTransaction
  <2>6. user[x] # u => balance'[user[x]] = balance[user[x]]
    <3>1. PICK a \in TopUps : balance' = [balance EXCEPT ![u] = @ + a]
      BY <1>10 DEF TopUp
    <3> QED
      BY <3>1 DEF TypeOK
  <2> QED
    BY <2>1, <2>2, <2>3, <2>4, <2>5, <2>6 DEF SnapshotOK, At
<1>11. CASE UNCHANGED vars
  BY <1>11 DEF vars, SnapshotInv, SnapshotOK, InTransaction, Writing, Covers,
               Locked, At, Found, SameKey, Ordered
<1> QED
  BY Steps, <1>2, <1>3, <1>5, <1>6, <1>7, <1>8, <1>9, <1>10, <1>11

---------------------------------------------------------------------------
(* Keys and balances.                                                       *)

\* The commit of r inserts the only order of its key, and the debit it shows was
\* covered by the balance of that moment.
LEMMA CommitFinds ==
    ASSUME SnapshotInv, NEW r \in Requests, Commits(r)
    PROVE  /\ Found(r) = {}
           /\ seenBalance[r] + Limit >= seenPrice[r]
<1>1. SnapshotOK(r)
  BY DEF SnapshotInv
<1>2. InTransaction(r) /\ Writing(r) /\ At(r, "commit")
  BY DEF Commits, InTransaction, Writing, At
<1> QED
  BY <1>1, <1>2 DEF SnapshotOK, Covers

\* Every step keeps the index unique.
LEMMA IndexStep ==
    ASSUME TypeOK, SnapshotInv, IndexInv, [Next]_vars
    PROVE  IndexInv'
<1>1. CASE UNCHANGED <<user, key, charge>>
  BY <1>1 DEF IndexInv, Ordered, SameKey
<1>2. ASSUME NEW r \in Requests, Commits(r)
      PROVE  IndexInv'
  <2> SUFFICES ASSUME NEW x \in Requests, NEW o \in Requests, x # o,
                      Ordered(x)', Ordered(o)', SameKey(x, o)'
               PROVE  FALSE
    BY DEF IndexInv
  <2>1. SameKey(x, o) /\ \A y \in Requests \ {r} : Ordered(y)' = Ordered(y)
    BY <1>2 DEF Commits, Local, SameKey, Ordered
  <2>2. Found(r) = {}
    BY <1>2, CommitFinds
  <2>3. CASE x = r \/ o = r
    BY <2>1, <2>2, <2>3 DEF Found, SameKey
  <2>4. CASE x # r /\ o # r
    BY <2>1, <2>4 DEF IndexInv
  <2> QED
    BY <2>3, <2>4
<1>3. ASSUME NEW r \in Requests, Private(r)
      PROVE  IndexInv'
  BY <1>1, <1>3 DEF Private, Local
<1>4. ASSUME NEW u \in Users, TopUp(u)
      PROVE  IndexInv'
  BY <1>1, <1>4 DEF TopUp, requestVars, orderVars
<1>5. CASE UNCHANGED vars
  BY <1>1, <1>5 DEF vars, requestVars, orderVars
<1> QED
  BY Steps, PrivateSteps, CommitSteps, <1>2, <1>3, <1>4, <1>5

\* Every step keeps the wallets within the credit limit.
LEMMA LimitStep ==
    ASSUME TypeOK, SnapshotInv, WithinLimit, [Next]_vars
    PROVE  WithinLimit'
<1>1. CASE UNCHANGED balance
  BY <1>1 DEF WithinLimit
<1>2. ASSUME NEW r \in Requests, Commits(r)
      PROVE  WithinLimit'
  <2>1. seenBalance[r] + Limit >= seenPrice[r]
    BY <1>2, CommitFinds
  <2>2. seenBalance[r] - seenPrice[r] >= -Limit
    BY <2>1, CreationAssumption DEF TypeOK
  <2>3. balance' = [balance EXCEPT ![user[r]] = seenBalance[r] - seenPrice[r]]
    BY <1>2 DEF Commits
  <2> QED
    BY <2>2, <2>3 DEF WithinLimit, TypeOK
<1>3. ASSUME NEW r \in Requests, Private(r)
      PROVE  WithinLimit'
  BY <1>1, <1>3 DEF Private
<1>4. ASSUME NEW u \in Users, TopUp(u)
      PROVE  WithinLimit'
  <2>1. PICK a \in TopUps : balance' = [balance EXCEPT ![u] = @ + a]
    BY <1>4 DEF TopUp
  <2>2. a \in Nat
    BY CreationAssumption
  <2> QED
    BY <2>1, <2>2, CreationAssumption DEF WithinLimit, TypeOK
<1>5. CASE UNCHANGED vars
  BY <1>1, <1>5 DEF vars
<1> QED
  BY Steps, PrivateSteps, CommitSteps, <1>2, <1>3, <1>4, <1>5

---------------------------------------------------------------------------
(* The invariant holds at first, and every step keeps it.                   *)

\* The initial states satisfy every part.
LEMMA InvariantInit ==
    ASSUME Init
    PROVE  IInv
<1>1. TypeOK
  BY CreationAssumption DEF Init, TypeOK, Pcs, Answers, NoCounter
<1>2. AnswersInv
  BY DEF Init, AnswersInv, AnswerOK, At, Ordered
<1>3. NumbersInv
  BY DEF Init, NumbersInv, NumberOK, At, InTransaction, Ordered
<1>4. SnapshotInv
  BY DEF Init, SnapshotInv, SnapshotOK, At, InTransaction, Writing
<1>5. IndexInv
  BY DEF Init, IndexInv, Ordered
<1>6. WithinLimit
  BY CreationAssumption DEF Init, WithinLimit
<1> QED
  BY <1>1, <1>2, <1>3, <1>4, <1>5, <1>6 DEF IInv

\* The six parts together are inductive.
LEMMA InvariantStep ==
    ASSUME IInv, [Next]_vars
    PROVE  IInv'
<1>1. TypeOK'
  BY TypeStep DEF IInv
<1> QED
  BY <1>1, AnswersStep, NumbersStep, SnapshotStep, IndexStep, LimitStep DEF IInv

\* The inductive invariant of every checkout.
THEOREM Invariant == Spec => []IInv
BY InvariantInit, InvariantStep, PTL DEF Spec

\* Type correctness.
THEOREM TypeCorrect == Spec => []TypeOK
<1>1. IInv => TypeOK
  BY DEF IInv
<1> QED
  BY <1>1, Invariant, PTL

\* However often, and however concurrently, a user sends a request under a key,
\* there is one order.
THEOREM KeyBuysOnce == Spec => []OneOrderPerKey
<1>1. IInv => OneOrderPerKey
  BY DEF IInv, IndexInv, OneOrderPerKey
<1> QED
  BY <1>1, Invariant, PTL

\* No two orders bear the same number, the race to create the counter included.
THEOREM NumbersUnique == Spec => []NumbersAreUnique
<1>1. IInv => NumbersAreUnique
  BY DEF IInv, NumbersInv, NumberOK, NumbersAreUnique
<1> QED
  BY <1>1, Invariant, PTL

\* No mix of checkouts takes a wallet below its credit limit.
THEOREM NeverOverdrawn == Spec => []WithinLimit
<1>1. IInv => WithinLimit
  BY DEF IInv
<1> QED
  BY <1>1, Invariant, PTL

\* No client is told of an order that is not there or not its own, nor refused
\* while its money is taken.
THEOREM ClientsToldTruth == Spec => []AnswersAreTrue
<1>1. IInv => AnswersAreTrue
  <2> SUFFICES ASSUME IInv, NEW r \in Requests
               PROVE  /\ answer[r] \in {"created", "existing"} =>
                           /\ Ordered(shown[r]) /\ SameKey(r, shown[r])
                           /\ answer[r] = "created" => shown[r] = r
                      /\ answer[r] \in {"existing", "refused", "duplicate"} => ~Ordered(r)
                      /\ answer[r] = "error" /\ faults = 0 => ~Ordered(r)
    BY DEF AnswersAreTrue
  <2>1. AnswerOK(r) /\ faults \in Nat
    BY CreationAssumption DEF IInv, AnswersInv, TypeOK
  <2> QED
    BY <2>1 DEF AnswerOK, Found, SameKey
<1> QED
  BY <1>1, Invariant, PTL

\* An order is handed to the provider at most once, and only when it is paid.
THEOREM StartOnce == Spec => []StartedOnce
<1>1. IInv => StartedOnce
  <2> SUFFICES ASSUME IInv, NEW r \in Requests
               PROVE  fired[r] <= 1 /\ (fired[r] = 1 => Ordered(r) /\ Automatic)
    BY DEF StartedOnce
  <2>1. AnswerOK(r) /\ fired[r] \in Nat
    BY DEF IInv, AnswersInv, TypeOK
  <2> QED
    BY <2>1 DEF AnswerOK
<1> QED
  BY <1>1, Invariant, PTL

\* Without an error or a crash, a paid order is handed to its provider.
THEOREM PaidStarted == Spec => []PaidIsStarted
<1>1. IInv => PaidIsStarted
  <2> SUFFICES ASSUME IInv, NEW r \in Requests,
                      At(r, "done"), Ordered(r), Automatic
               PROVE  fired[r] = 1 \/ faults > 0
    BY DEF PaidIsStarted
  <2>1. AnswerOK(r) /\ answer[r] \in Answers
    BY DEF IInv, AnswersInv, TypeOK
  <2> QED
    BY <2>1 DEF AnswerOK, Answers
<1> QED
  BY <1>1, Invariant, PTL

---------------------------------------------------------------------------
(* The refinement: Purchase is what a checkout looks like from outside.     *)

\* A step of one request leaves the prices the others have read.
LEMMA PricesOthers ==
    ASSUME PricesInv, NEW r \in Requests, Local(r),
           InTransaction(r)' => seenPrice'[r] \in Prices
    PROVE  PricesInv'
BY DEF PricesInv, Local, InTransaction, Prices

\* A snapshot's price is one that the product has had.
LEMMA PricesStep ==
    ASSUME TypeOK, PricesInv, [Next]_vars
    PROVE  PricesInv'
<1> USE DEF requestVars, orderVars, snapshotVars, answerVars, boundVars
<1>1. ASSUME NEW r \in Requests, Local(r), ~InTransaction(r)'
      PROVE  PricesInv'
  BY <1>1, PricesOthers
<1>2. ASSUME NEW r \in Requests, Local(r), InTransaction(r), UNCHANGED seenPrice
      PROVE  PricesInv'
  <2>1. seenPrice'[r] \in Prices
    BY <1>2 DEF PricesInv
  <2> QED
    BY <1>2, <2>1, PricesOthers
<1>3. ASSUME NEW r \in Requests,
             \/ PreCheck(r) \/ ClientOrder(r) \/ CounterLook(r) \/ CounterSeed(r)
             \/ CounterTake(r) \/ Retry(r) \/ Finish(r) \/ Fault(r)
      PROVE  PricesInv'
  <2>1. Local(r)
    BY <1>3, PrivateSteps DEF Private
  <2>2. pc'[r] \in {"counter", "seed", "take", "begin", "done"}
    BY <1>3, GotoFrame, AnswerFrame, ExistingFrame
       DEF PreCheck, ClientOrder, CounterLook, CounterSeed, CounterTake, Retry, Finish, Fault
  <2> QED
    BY <1>1, <2>1, <2>2 DEF InTransaction
<1>4. ASSUME NEW r \in Requests, Begin(r)
      PROVE  PricesInv'
  <2>1. Local(r)
    BY <1>4, PrivateSteps DEF Private
  <2>2. CASE Answer(r, "refused")
    BY <1>1, <2>1, <2>2, AnswerFrame DEF InTransaction
  <2>3. CASE seenPrice' = [seenPrice EXCEPT ![r] = price]
    <3>1. seenPrice'[r] \in Prices
      BY <2>3 DEF TypeOK, Prices
    <3> QED
      BY <2>1, <3>1, PricesOthers
  <2> QED
    BY <1>4, <2>2, <2>3 DEF Begin
<1>5. ASSUME NEW r \in Requests, Quote(r) \/ Debit(r) \/ Insert(r)
      PROVE  PricesInv'
  <2>1. Local(r) /\ InTransaction(r)
    BY <1>5, PrivateSteps DEF Private, Quote, Debit, Insert, InTransaction, At
  <2>2. \/ UNCHANGED seenPrice
        \/ pc'[r] = "done"
    BY <1>5, AnswerFrame, ExistingFrame DEF Quote, Debit, Insert
  <2> QED
    BY <1>1, <1>2, <2>1, <2>2 DEF InTransaction
<1>6. ASSUME NEW r \in Requests, Commit(r) \/ CommitUnacknowledged(r)
      PROVE  PricesInv'
  <2>1. Commits(r)
    BY <1>6, CommitSteps
  <2> QED
    BY <1>1, <2>1 DEF Commits, InTransaction
<1>7. ASSUME NEW r \in Requests, Reprice(r)
      PROVE  PricesInv'
  BY <1>7 DEF Reprice, PricesInv, InTransaction, Prices
<1>8. ASSUME NEW u \in Users, TopUp(u)
      PROVE  PricesInv'
  BY <1>8 DEF TopUp, PricesInv, InTransaction, Prices
<1>9. CASE UNCHANGED vars
  BY <1>9 DEF vars, PricesInv, InTransaction, Prices
<1> QED
  BY Steps, <1>3, <1>4, <1>5, <1>6, <1>7, <1>8, <1>9

\* Without a change of charges there are the same orders.
LEMMA SameOrders ==
    ASSUME UNCHANGED <<user, key, charge>>
    PROVE  Bought' = Bought
BY DEF Bought, Ordered

\* The commit of a transaction is a purchase: the balance it subtracts from is that
\* of the moment, which covers the price, and the key is free.
LEMMA CommitBuys ==
    ASSUME TypeOK, AnswersInv, SnapshotInv, PricesInv,
           NEW r \in Requests, Commits(r)
    PROVE  Checkout!Next
<1> DEFINE u == user[r]
           k == key[r]
           p == seenPrice[r]
<1>1. /\ InTransaction(r) /\ Writing(r)
      /\ ~moved[r] /\ seenBalance[r] = balance[u] /\ p > 0
      /\ Found(r) = {} /\ seenBalance[r] + Limit >= p
  BY CommitFinds DEF Commits, SnapshotInv, SnapshotOK, InTransaction, Writing, At
<1>2. /\ u \in Users /\ k \in Keys \cup {NoKey} /\ p \in Prices
  BY <1>1 DEF TypeOK, PricesInv
<1>3. ~Ordered(r)
  BY DEF AnswersInv, AnswerOK, Commits, At
<1>4. balance[u] + Limit >= p
  BY <1>1
<1>5. balance' = [balance EXCEPT ![u] = @ - p]
  BY <1>1, <1>2 DEF Commits
<1>6. \A o \in Bought : o.request # r /\ <<o.user, o.key>> # <<u, k>>
  <2> SUFFICES ASSUME NEW q \in Requests, Ordered(q)
               PROVE  q # r /\ <<user[q], key[q]>> # <<u, k>>
    BY DEF Bought
  <2> QED
    BY <1>1, <1>3 DEF Found, SameKey
<1>7. Bought' = Bought \cup {[request |-> r, user |-> u, key |-> k, paid |-> p]}
  <2>1. /\ user' = user /\ key' = key /\ charge'[r] = p
        /\ \A x \in Requests \ {r} : charge'[x] = charge[x]
    BY DEF Commits, Local
  <2>2. {q \in Requests : Ordered(q)'} = {q \in Requests : Ordered(q)} \cup {r}
    BY <1>1, <2>1 DEF Ordered
  <2>3. ASSUME NEW q \in {x \in Requests : Ordered(x)}
        PROVE  charge'[q] = charge[q]
    BY <1>3, <2>1, <2>3
  <2>4. Bought' = {[request |-> q, user |-> user[q], key |-> key[q], paid |-> charge'[q]]
                     : q \in {x \in Requests : Ordered(x)} \cup {r}}
    BY <2>1, <2>2 DEF Bought
  <2> QED
    BY <2>1, <2>3, <2>4 DEF Bought
<1>8. Checkout!Buy(r, u, k, p)
  BY <1>4, <1>5, <1>6, <1>7 DEF Checkout!Buy
<1> HIDE DEF u, k, p
<1> QED
  BY <1>2, <1>8 DEF Checkout!Next

\* Every step of a checkout is a purchase, a payment into a wallet, or invisible.
LEMMA CheckoutStep ==
    ASSUME TypeOK, AnswersInv, SnapshotInv, PricesInv, [Next]_vars
    PROVE  [Checkout!Next]_<<balance, Bought>>
<1> USE DEF requestVars, orderVars
<1>1. ASSUME NEW r \in Requests, Private(r)
      PROVE  UNCHANGED <<balance, Bought>>
  BY <1>1, SameOrders DEF Private, Local
<1>2. ASSUME NEW r \in Requests, Commits(r)
      PROVE  Checkout!Next
  BY <1>2, CommitBuys
<1>3. ASSUME NEW u \in Users, TopUp(u)
      PROVE  Checkout!Next
  <2>1. Bought' = Bought
    BY <1>3, SameOrders DEF TopUp
  <2>2. PICK a \in TopUps : balance' = [balance EXCEPT ![u] = @ + a]
    BY <1>3 DEF TopUp
  <2>3. Checkout!PayIn(u, a)
    BY <2>1, <2>2 DEF Checkout!PayIn
  <2> QED
    BY <2>3 DEF Checkout!Next
<1>4. CASE UNCHANGED vars
  BY <1>4, SameOrders DEF vars
<1> QED
  BY Steps, PrivateSteps, CommitSteps, <1>1, <1>2, <1>3, <1>4

\* OrderCreation implements Purchase: for any number of users, requests and keys, a
\* checkout is one step in which the wallet pays for the order that appears.
THEOREM Refinement == Spec => PurchasesAreAtomic
<1>1. Init => Checkout!Init /\ PricesInv
  BY DEF Init, Checkout!Init, Bought, Ordered, PricesInv, InTransaction
<1>2. IInv /\ PricesInv /\ [Next]_vars => PricesInv' /\ [Checkout!Next]_<<balance, Bought>>
  BY PricesStep, CheckoutStep DEF IInv
<1> QED
  BY <1>1, <1>2, Invariant, PTL DEF Spec, PurchasesAreAtomic, Checkout!Spec

===========================================================================
