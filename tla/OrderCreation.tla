--------------------------- MODULE OrderCreation ---------------------------
(***************************************************************************)
(* Checkout: requests to buy a product, some of them the same request sent *)
(* again under its idempotency key.  A request looks for its key, takes an *)
(* order number, and in a transaction of its own reads the product, asks   *)
(* the provider's price, debits the wallet and inserts the order.          *)
(*                                                                         *)
(* Sources: createOrder and _attemptCreateOrder of                         *)
(* src/src/modules/orders/order.service.js, counter.model.js,              *)
(* order.model.js, createOrder of src/src/modules/client, and              *)
(* debitWalletAtomic of src/src/modules/wallet/wallet.service.js.          *)
(*                                                                         *)
(* A transaction of MongoDB reads the snapshot of its first operation.     *)
(* Writing a document that another open transaction has written, or that   *)
(* changed since the snapshot, is a write conflict (code 112).  What an    *)
(* open transaction wrote is kept in the variables of its request until    *)
(* the commit.  The price is that of the product and quantity together, in *)
(* the currency of the wallet.                                             *)
(***************************************************************************)
EXTENDS Integers

CONSTANTS
    Users,
    Requests,       \* HTTP requests, each served once
    Keys,           \* idempotency keys
    NoKey,          \* of the requests without the header
    Automatic,      \* whether a provider delivers the product
    Opening,        \* balance of every wallet at first
    Limit,          \* credit limit of every user
    ListPrice,      \* the product's price at first
    Quotes,         \* what the provider's catalogue may say
    TopUps,         \* amounts by which other operations raise a balance
    NoRequest,      \* no order returned
    MaxTopUps,      \* bound: such operations in a behaviour
    MaxFaults       \* bound: requests ended by a database error or a crash

ASSUME CreationAssumption ==
    /\ NoKey \notin Keys
    /\ Automatic \in BOOLEAN
    /\ NoRequest \notin Requests
    /\ Opening \in Int /\ Limit \in Nat /\ Opening >= -Limit
    /\ ListPrice \in Nat \ {0} /\ Quotes \subseteq Nat \ {0}
    /\ TopUps \subseteq Nat \ {0}
    /\ MaxTopUps \in Nat /\ MaxFaults \in Nat

VARIABLES
    \* What the requests are: who sends each, under which key.
    user, key,
    \* Documents: wallets, the product's price, the counter of order numbers,
    \* and the orders: what was charged for each (0: no order) and its number.
    balance, price, counter, charge, number,
    \* Where a request stands, and whether this is the second attempt.
    pc, retried,
    \* Its transaction: the snapshot of balance, price and index entry, and
    \* whether the user's document changed since.
    seenBalance, seenPrice, seenKey, moved,
    \* The update of the product's price that a request left behind (0: none).
    repricing,
    \* What the client was told, the order it was shown, and the number of
    \* times executeOrder was called for the order.
    answer, shown, fired,
    topUps, faults

requestVars == <<user, key>>
orderVars == <<charge, number>>
snapshotVars == <<seenBalance, seenPrice, seenKey, moved>>
answerVars == <<answer, shown, fired>>
boundVars == <<topUps, faults>>
vars == <<requestVars, balance, price, counter, orderVars, pc, retried,
          snapshotVars, repricing, answerVars, boundVars>>

---------------------------------------------------------------------------
Pcs == {"idle", "counter", "seed", "take", "begin", "quote", "debit",
        "insert", "commit", "populate", "done"}

Answers == {"none", "created", "existing", "refused", "duplicate", "error"}

Ordered(r) == charge[r] > 0

SameKey(r, o) == user[r] = user[o] /\ key[r] = key[o]

\* No counter document: a new installation.
NoCounter == -1

TypeOK ==
    /\ user \in [Requests -> Users]
    /\ key \in [Requests -> Keys \cup {NoKey}]
    /\ balance \in [Users -> Int]
    /\ price \in Quotes \cup {ListPrice}
    /\ counter \in Nat \cup {NoCounter}
    /\ charge \in [Requests -> Nat] /\ number \in [Requests -> Nat]
    /\ pc \in [Requests -> Pcs] /\ retried \in [Requests -> BOOLEAN]
    /\ seenBalance \in [Requests -> Int]
    /\ seenPrice \in [Requests -> Nat]
    /\ seenKey \in [Requests -> BOOLEAN] /\ moved \in [Requests -> BOOLEAN]
    /\ repricing \in [Requests -> Quotes \cup {0}]
    /\ answer \in [Requests -> Answers]
    /\ shown \in [Requests -> Requests \cup {NoRequest}]
    /\ fired \in [Requests -> Nat]
    /\ topUps \in 0..MaxTopUps /\ faults \in 0..MaxFaults

Init ==
    /\ user \in [Requests -> Users]
    /\ key \in [Requests -> Keys \cup {NoKey}]
    /\ balance = [u \in Users |-> Opening]
    /\ price = ListPrice
    /\ counter = NoCounter
    /\ charge = [r \in Requests |-> 0] /\ number = [r \in Requests |-> 0]
    /\ pc = [r \in Requests |-> "idle"]
    /\ retried = [r \in Requests |-> FALSE]
    /\ seenBalance = [r \in Requests |-> 0]
    /\ seenPrice = [r \in Requests |-> 0]
    /\ seenKey = [r \in Requests |-> FALSE]
    /\ moved = [r \in Requests |-> FALSE]
    /\ repricing = [r \in Requests |-> 0]
    /\ answer = [r \in Requests |-> "none"]
    /\ shown = [r \in Requests |-> NoRequest]
    /\ fired = [r \in Requests |-> 0]
    /\ topUps = 0 /\ faults = 0

---------------------------------------------------------------------------
At(r, place) == pc[r] = place
Goto(r, place) == pc' = [pc EXCEPT ![r] = place]

\* The transaction is over, and its snapshot with it.
Close(r) ==
    /\ seenBalance' = [seenBalance EXCEPT ![r] = 0]
    /\ seenPrice' = [seenPrice EXCEPT ![r] = 0]
    /\ seenKey' = [seenKey EXCEPT ![r] = FALSE]

\* What an aborted attempt leaves: the number it took is lost, the rest is as if
\* it had not been.
Abort(r) ==
    /\ Close(r)
    /\ moved' = [moved EXCEPT ![r] = FALSE]
    /\ number' = [number EXCEPT ![r] = 0]
    /\ UNCHANGED charge

\* The request ends and its client is told a.
Answer(r, a) ==
    /\ Goto(r, "done")
    /\ answer' = [answer EXCEPT ![r] = a]

\* Mutant: keys are compared, and not whose they are.
FoundForAnyone(r) == {o \in Requests : Ordered(o) /\ key[o] = key[r]}

\* The orders that the unique index on user and key has beside r's.  It is sparse,
\* but the user is in every document: the absent key is a value like any other.
Found(r) == {o \in Requests : Ordered(o) /\ SameKey(r, o)}

\* The order found under the request's key is returned in place of a new one.
AnswerExisting(r) ==
    /\ Answer(r, "existing")
    /\ \E o \in Found(r) : shown' = [shown EXCEPT ![r] = o]
    /\ UNCHANGED fired

\* The look for an order with the key, before anything else.
PreCheck(r) ==
    /\ At(r, "idle")
    /\ \/ /\ key[r] # NoKey /\ Found(r) # {}
          /\ AnswerExisting(r)
       \/ /\ key[r] = NoKey \/ Found(r) = {}
          /\ Goto(r, "counter") /\ UNCHANGED answerVars
    /\ UNCHANGED <<requestVars, balance, price, counter, orderVars, retried,
                   snapshotVars, repricing, boundVars>>

\* The client API looks for the key, which it always has, and for a product offered
\* to it, before it calls createOrder, which looks for the key again.
ClientOrder(r) ==
    /\ At(r, "idle") /\ key[r] # NoKey
    /\ \/ /\ Found(r) # {}
          /\ AnswerExisting(r)
       \/ /\ Found(r) = {}
          /\ Answer(r, "refused") /\ UNCHANGED <<shown, fired>>
    /\ UNCHANGED <<requestVars, balance, price, counter, orderVars, retried,
                   snapshotVars, repricing, boundVars>>

---------------------------------------------------------------------------
(* getNextSequence: the counter is created if need be, then incremented.    *)

CounterLook(r) ==
    /\ At(r, "counter")
    /\ Goto(r, IF counter = NoCounter THEN "seed" ELSE "take")
    /\ UNCHANGED <<requestVars, balance, price, counter, orderVars, retried,
                   snapshotVars, repricing, answerVars, boundVars>>

\* Mutant: whoever found no counter writes the first value.
SeedAnyway == 0

\* What the counter is after the creation: a duplicate key is swallowed.
Seeded == IF counter = NoCounter THEN 0 ELSE counter

CounterSeed(r) ==
    /\ At(r, "seed")
    /\ counter' = Seeded
    /\ Goto(r, "take")
    /\ UNCHANGED <<requestVars, balance, price, orderVars, retried,
                   snapshotVars, repricing, answerVars, boundVars>>

CounterTake(r) ==
    /\ At(r, "take")
    /\ counter' = counter + 1
    /\ number' = [number EXCEPT ![r] = counter + 1]
    /\ Goto(r, "begin")
    /\ UNCHANGED <<requestVars, balance, price, charge, retried, snapshotVars,
                   repricing, answerVars, boundVars>>

---------------------------------------------------------------------------
(* The transaction.                                                         *)

\* The first read, of the product, opens the snapshot.  An inactive product, a
\* quantity out of range or a bad field value refuses the request.
Begin(r) ==
    /\ At(r, "begin")
    /\ \/ /\ Goto(r, "quote")
          /\ seenBalance' = [seenBalance EXCEPT ![r] = balance[user[r]]]
          /\ seenPrice' = [seenPrice EXCEPT ![r] = price]
          /\ seenKey' = [seenKey EXCEPT ![r] = (Found(r) # {})]
          /\ moved' = [moved EXCEPT ![r] = FALSE]
          /\ UNCHANGED <<answerVars, orderVars>>
       \/ /\ Answer(r, "refused") /\ Abort(r)
          /\ UNCHANGED <<shown, fired>>
    /\ UNCHANGED <<requestVars, balance, price, counter, retried, repricing,
                   boundVars>>

\* The provider's price, when there is a provider and it answers.  One above the
\* product's stops the order and is written to the product, not awaited.
Quote(r) ==
    /\ At(r, "quote")
    /\ \/ /\ Goto(r, "debit")
          /\ UNCHANGED <<repricing, answerVars, orderVars, snapshotVars>>
       \/ \E q \in Quotes :
            /\ q > seenPrice[r]
            /\ repricing' = [repricing EXCEPT ![r] = q]
            /\ Answer(r, "refused") /\ Abort(r)
            /\ UNCHANGED <<shown, fired>>
    /\ UNCHANGED <<requestVars, balance, price, counter, retried, boundVars>>

\* Mutant: the new price is added to the old one.
RaisedPrice(r) == price + repricing[r]

NewPrice(r) == repricing[r]

\* _autoUpdateProductPrice, whose failure is swallowed.
Reprice(r) ==
    /\ repricing[r] > 0
    /\ \/ price' = NewPrice(r)
       \/ UNCHANGED price
    /\ repricing' = [repricing EXCEPT ![r] = 0]
    /\ UNCHANGED <<requestVars, balance, counter, orderVars, pc, retried,
                   snapshotVars, answerVars, boundVars>>

\* The transaction has written the user's document.
Writing(r) == pc[r] \in {"insert", "commit"}

\* The user's document carries the uncommitted write of another checkout.
Locked(u, r) == \E o \in Requests \ {r} : user[o] = u /\ Writing(o)

\* Mutant: only uncommitted writes are seen, not those since the snapshot.
ConflictOfOpenOnly(r) == Locked(user[r], r)

Conflict(r) == moved[r] \/ Locked(user[r], r)

\* Mutant: any wallet that is not in debt will do.
CoversBySign(r) == seenBalance[r] >= 0

\* The filter of the debit, on the snapshot.
Covers(r) == seenBalance[r] + Limit >= seenPrice[r]

\* debitWalletAtomic.  A filter that does not match writes nothing, so that it
\* cannot conflict either.
Debit(r) ==
    /\ At(r, "debit")
    /\ \/ /\ ~Covers(r)
          /\ Answer(r, "refused") /\ Abort(r)
       \/ /\ Covers(r) /\ ~Conflict(r)
          /\ Goto(r, "insert")
          /\ UNCHANGED <<answer, orderVars, snapshotVars>>
    /\ UNCHANGED <<requestVars, balance, price, counter, retried, repricing,
                   shown, fired, boundVars>>

\* A write conflict: the whole attempt once more, without the look for the key,
\* then an error.
Retry(r) ==
    /\ At(r, "debit")
    /\ Covers(r) /\ Conflict(r)
    /\ Abort(r)
    /\ \/ /\ retried[r]
          /\ Answer(r, "error")
          /\ UNCHANGED retried
       \/ /\ ~retried[r]
          /\ Goto(r, "counter")
          /\ retried' = [retried EXCEPT ![r] = TRUE]
          /\ UNCHANGED answer
    /\ UNCHANGED <<requestVars, balance, price, counter, repricing, shown,
                   fired, boundVars>>

\* Mutant: there is no unique index.
AnyKeyIsFree(r) == TRUE

\* An entry that came after the snapshot would have been found by the debit:
\* every order writes its user's document.
KeyIsFree(r) == ~seenKey[r]

\* Mutant: executeOrder is called as soon as the order is inserted.
InsertThenStart(r) ==
    /\ At(r, "insert")
    /\ KeyIsFree(r)
    /\ Goto(r, "commit")
    /\ fired' = [fired EXCEPT ![r] = @ + 1]
    /\ UNCHANGED <<requestVars, balance, price, counter, orderVars, retried,
                   snapshotVars, repricing, answer, shown, boundVars>>

\* Order.create.  On a duplicate key the transaction is aborted and, when the
\* request has a key, the order that bears it is returned.
Insert(r) ==
    /\ At(r, "insert")
    /\ \/ /\ KeyIsFree(r)
          /\ Goto(r, "commit")
          /\ UNCHANGED <<answerVars, orderVars, snapshotVars>>
       \/ /\ ~KeyIsFree(r) /\ key[r] # NoKey
          /\ AnswerExisting(r) /\ Abort(r)
       \/ /\ ~KeyIsFree(r) /\ key[r] = NoKey
          /\ Answer(r, "duplicate") /\ Abort(r)
          /\ UNCHANGED <<shown, fired>>
    /\ UNCHANGED <<requestVars, balance, price, counter, retried, repricing,
                   boundVars>>

InTransaction(r) == pc[r] \in {"quote", "debit", "insert", "commit"}

\* A write to u's document becomes visible: the other transactions that are open
\* are behind it.
Touch(u, others) ==
    moved' = [o \in Requests |-> /\ o \in others
                                 /\ InTransaction(o)
                                 /\ moved[o] \/ user[o] = u]

\* The debit and the order become visible together.
Apply(r) ==
    /\ balance' = [balance EXCEPT ![user[r]] = seenBalance[r] - seenPrice[r]]
    /\ charge' = [charge EXCEPT ![r] = seenPrice[r]]
    /\ Touch(user[r], Requests \ {r})
    /\ Close(r)
    /\ UNCHANGED <<requestVars, price, counter, number, retried, repricing,
                   topUps>>

Commit(r) ==
    /\ At(r, "commit")
    /\ Apply(r)
    /\ Goto(r, "populate")
    /\ UNCHANGED <<answerVars, faults>>

\* The commit is applied and its acknowledgement is an error.
CommitUnacknowledged(r) ==
    /\ At(r, "commit")
    /\ faults < MaxFaults /\ faults' = faults + 1
    /\ Apply(r)
    /\ Answer(r, "error")
    /\ UNCHANGED <<shown, fired>>

\* Mutant: the second attempt returns its order and no more.
StartsFirstAttempt(r) == Automatic /\ ~retried[r]

StartsOrder(r) == Automatic

\* After the commit the product is read for the answer, executeOrder is called
\* and not awaited, and the client is told of its order.
Finish(r) ==
    /\ At(r, "populate")
    /\ fired' = [fired EXCEPT ![r] = IF StartsOrder(r) THEN @ + 1 ELSE @]
    /\ shown' = [shown EXCEPT ![r] = r]
    /\ Answer(r, "created")
    /\ UNCHANGED <<requestVars, balance, price, counter, orderVars, retried,
                   snapshotVars, repricing, boundVars>>

\* An error of the database other than those above, or the end of the process,
\* before the commit and after it.
Fault(r) ==
    /\ faults < MaxFaults /\ faults' = faults + 1
    /\ Answer(r, "error")
    /\ \/ pc[r] \notin {"idle", "populate", "done"} /\ Abort(r)
       \/ At(r, "populate") /\ UNCHANGED <<orderVars, snapshotVars>>
    /\ UNCHANGED <<requestVars, balance, price, counter, retried, repricing,
                   shown, fired, topUps>>

\* Deposits, refunds and adjustments write the same document.  A single write
\* waits for a transaction that has written it.
TopUp(u) ==
    /\ topUps < MaxTopUps /\ topUps' = topUps + 1
    /\ ~\E o \in Requests : user[o] = u /\ Writing(o)
    /\ \E a \in TopUps : balance' = [balance EXCEPT ![u] = @ + a]
    /\ Touch(u, Requests)
    /\ UNCHANGED <<requestVars, price, counter, orderVars, pc, retried,
                   seenBalance, seenPrice, seenKey, repricing, answerVars,
                   faults>>

---------------------------------------------------------------------------
Step(r) ==
    \/ PreCheck(r) \/ ClientOrder(r)
    \/ CounterLook(r) \/ CounterSeed(r) \/ CounterTake(r)
    \/ Begin(r) \/ Quote(r) \/ Debit(r) \/ Retry(r) \/ Insert(r)
    \/ Commit(r) \/ Finish(r)

Next ==
    \/ \E r \in Requests :
        Step(r) \/ Reprice(r) \/ CommitUnacknowledged(r) \/ Fault(r)
    \/ \E u \in Users : TopUp(u)

Spec == Init /\ [][Next]_vars

---------------------------------------------------------------------------
(* What the checkout promises.                                              *)

\* A key buys once: requests that a user sends again under one key, whether
\* together or one after the other, leave a single order.
OneOrderPerKey ==
    \A r, o \in Requests :
        r # o /\ Ordered(r) /\ Ordered(o) /\ SameKey(r, o) => key[r] = NoKey

\* Concurrent checkouts do not overdraw what one alone could not.
WithinLimit == \A u \in Users : balance[u] >= -Limit

\* An order number names one order, from the very first.
NumbersAreUnique ==
    \A r, o \in Requests : r # o /\ Ordered(r) /\ Ordered(o) => number[r] # number[o]

\* What clients are told is so: the order they are shown exists, is theirs and
\* bears their key, and a refusal leaves no order.
AnswersAreTrue ==
    \A r \in Requests :
        /\ answer[r] \in {"created", "existing"} =>
             /\ Ordered(shown[r]) /\ SameKey(r, shown[r])
             /\ answer[r] = "created" => shown[r] = r
        /\ answer[r] \in {"existing", "refused", "duplicate"} => ~Ordered(r)
        /\ answer[r] = "error" /\ faults = 0 => ~Ordered(r)

\* The provider is asked once for an order, and only for one that was paid.
StartedOnce ==
    \A r \in Requests : /\ fired[r] <= 1
                         /\ fired[r] = 1 => Ordered(r) /\ Automatic

\* A paid order for a provider's product is handed to the provider, unless an
\* error or a crash came between the commit and the call.
PaidIsStarted ==
    \A r \in Requests :
        At(r, "done") /\ Ordered(r) /\ Automatic => fired[r] = 1 \/ faults > 0

---------------------------------------------------------------------------
(* The abstract specification.                                              *)

Prices == Quotes \cup {ListPrice}

\* An order exists from the commit of its transaction on.
Bought ==
    {[request |-> r, user |-> user[r], key |-> key[r], paid |-> charge[r]]
        : r \in {q \in Requests : Ordered(q)}}

Checkout ==
    INSTANCE Purchase WITH Keys <- Keys \cup {NoKey}, Payments <- TopUps,
                           orders <- Bought

\* Seen from outside, a purchase is one step: the wallet as it is pays the price
\* that the order shows, nobody else's order has the key, and attempts that end
\* otherwise leave no trace, however the transactions of concurrent requests,
\* their second attempts, and errors of the commit interleave.
PurchasesAreAtomic == Checkout!Spec

---------------------------------------------------------------------------
(* The inductive invariant.                                                 *)

\* An order appears with the commit, and what a client was told agrees.
AnswerOK(r) ==
    /\ answer[r] = "none" <=> ~At(r, "done")
    /\ pc[r] \notin {"populate", "done"} => ~Ordered(r)
    /\ At(r, "populate") => Ordered(r)
    /\ answer[r] = "created" => /\ Ordered(r) /\ shown[r] = r
                                /\ Automatic => fired[r] = 1
    /\ answer[r] = "existing" => shown[r] \in Found(r) /\ ~Ordered(r)
    /\ answer[r] \in {"refused", "duplicate"} => ~Ordered(r)
    /\ answer[r] = "error" /\ Ordered(r) => faults > 0
    /\ fired[r] # 0 => fired[r] = 1 /\ Automatic /\ answer[r] = "created"

AnswersInv == \A r \in Requests : AnswerOK(r)

\* A number in hand is not above the counter, which exists when it is taken.
NumberOK(r) ==
    /\ number[r] > 0 => number[r] <= counter
    /\ At(r, "take") => counter # NoCounter
    /\ InTransaction(r) \/ At(r, "begin") \/ Ordered(r) => number[r] > 0

NumbersInv ==
    /\ \A r \in Requests : NumberOK(r)
    /\ \A r, o \in Requests :
         r # o /\ number[r] > 0 /\ number[o] > 0 => number[r] # number[o]

\* A transaction that nothing overtook sees what there is, one that has written
\* was not overtaken, and one of them at most has written a user's document.
SnapshotOK(r) ==
    /\ InTransaction(r) => seenPrice[r] > 0
    /\ InTransaction(r) /\ ~moved[r] =>
         seenBalance[r] = balance[user[r]] /\ (seenKey[r] <=> Found(r) # {})
    /\ Writing(r) => ~moved[r] /\ Covers(r) /\ ~Locked(user[r], r)
    /\ At(r, "commit") => ~seenKey[r]

SnapshotInv == \A r \in Requests : SnapshotOK(r)

\* The price in a snapshot is one the product has had.
PricesInv == \A r \in Requests : InTransaction(r) => seenPrice[r] \in Prices

\* The index is unique, also for the absent key.
IndexInv ==
    \A r, o \in Requests : r # o /\ Ordered(r) /\ Ordered(o) => ~SameKey(r, o)

IInv == TypeOK /\ AnswersInv /\ NumbersInv /\ SnapshotInv /\ IndexInv /\ WithinLimit

===========================================================================
