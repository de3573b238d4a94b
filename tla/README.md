# Formal models of the ibra backend

The repository is an Express and MongoDB back end of a shop for digital goods:
customers hold a wallet, top it up through deposit requests that administrators
review, and buy products that providers deliver over HTTP. This directory holds
TLA+ models of the parts that move money and orders, decide prices, admit people and
tell them what happened; TLC configurations that check them on small instances; and
proofs that TLAPS checks for every instance.

Paths in this file are relative to `src/src/modules/` unless they begin with
`src/`, `docs/` or `tests/` (the latter two are `src/docs/`, `src/src/tests/`).

    tlc -workers 2 -config MCOrderLifecycle_cluster.cfg MCOrderLifecycle
    tlapm OrderCreation_proofs.tla

Contents: 1 inventory, 2 plan, 3 modules, 4 runs, 5 fairness, 6 proofs,
7 known divergences, 8 what is not modelled.

## 1. Inventory

The process is single-threaded, but PM2 runs one process per core
(`src/ecosystem.config.js:17`), every one of which serves requests and starts the
cron jobs (`src/src/server.js`). Within a process, whatever stands between two
`await`s is atomic; between them anything else may run. MongoDB is the only shared
state. A single-document update is atomic, a transaction sees one snapshot and
aborts when it writes a document that changed since. What a process has in memory
dies with it, and nothing on start-up looks for work left behind.

| Component | State | Operations | Interacts with | Hard behaviour | What makes it correct |
|---|---|---|---|---|---|
| Order creation (`orders/order.service.js`, `orders/counter.model.js`) | order documents, the counter of order numbers, the unique index on user and key | `createOrder`, `_attemptCreateOrder`, `getNextSequence`, `_autoUpdateProductPrice` | debits the wallet in its transaction, asks the provider price cache, starts fulfillment without awaiting it | repeated requests, concurrent checkouts of a wallet, write conflicts and the one retry, errors after the debit and after the commit | a key buys once; the wallet loses exactly what was ordered; answers are true; a paid order is started once |
| Order fulfillment and refunds (`orders/orderFulfillment.service.js`, `orders/fulfillmentJob.js`) | `status`, `refunded`, `refundedAt`, `providerOrderId`, `retryCount` | `executeOrder`, `refundFailedOrder`, `pollProcessingOrders`, `processOrderStatusResult` | provider adapters; `refundWalletAtomic`; shares orders with the administrator and with the other processes | stale snapshots applied after a provider call, refund races, crashes between mark and credit, retries | never refunded beyond the charge; a refund leaves the queue; the queue drains |
| Administrator's order operations (`admin/admin.orders.service.js`, `orders/order.service.js`) | the same documents | `completeOrder`, `markOrderAsFailed`, `refundOrder`, `retryOrder`, `syncOrderProviderStatus` | `forcedDebitWallet`, `refundWalletAtomic` | read, debit and save without a transaction while pollers run | as above |
| Second poller (`orders/orderPolling.service.js`) | the same documents | `pollPendingOrders` | not started by any process | as the first | as above |
| Deposits (`deposits/`, `me/me.controller.js`) | request documents with the rate frozen by the controllers | submit, create, approve, reject, edit | `creditWalletDirect`, currency converter | no transactions; two submissions race; approve, reject and edit race; an approval stops half-way; rates move | credited once, and only after its review; one pending request of a customer; an approval is paid |
| Wallet (`wallet/wallet.service.js`) | `walletBalance`, `creditLimit`, `creditUsed`; wallet transactions | `debitWalletAtomic`, `refundWalletAtomic`, `creditWalletDirect`, `forcedDebitWallet` | everything above | concurrent spending; balance and record in two steps | within the credit line; the records explain the balance |
| Administrator's wallet operations (`admin/admin.wallet.service.js`) | the same | `addFunds`, `deductFunds`, `setBalance`, the adjustments for inflation and deflation | the wallet | balances computed from stale reads | the same |
| Administration of users (`admin/admin.users.service.js`, `users/`) | user documents | approve, reject, delete, restore, group, currency, credit limit | wallet, sessions | concurrent administrators; conversion of a moving balance | the last decision stands; permissions are a supervisor's; nothing lost in a conversion |
| Authentication (`auth/`) | codes, challenges, tokens and their expiry | register, verify, log in, second factor, reset | users, mail | saves of documents read before another save; expiry, repeated attempts, replaced challenges | a session is given only for an account an administrator activated; a code opens one session; a decision stands |
| Currencies (`currency/`, `src/src/services/currencyConverter.service.js`, `exchangeRateSync.service.js`) | rates, a cache for each process | synchronise, approve, set a rate, convert | deposits, wallet (adjustment of debts) | stale caches, two synchronisations, partial adjustments | a change takes effect where it was made, and everywhere in the end; a pegged debt keeps its value |
| Provider catalogue (`providers/providerProductSync.service.js`, `syncProvidersJob.js`) | provider products, product prices, in-memory locks | synchronise one or all | adapters, products | locks of one process only; failed upserts; stale mark-ups | copies are never replaced by older ones; in the end copies and prices are the provider's |
| Provider price cache (`providers/providerPriceCache.js`) | entries with a lifetime, requests in flight | get, invalidate | order creation | shared requests, failures | nothing is sold below the price that was checked |
| Provider adapters (`providers/adapters/`) | none | place, status, products | external services | four vocabularies, timeouts, failed calls reported as rejections | what is delivered is not refunded |
| Provider administration (`providers/provider.service.js`) | provider documents | create, update, toggle, delete | sync | none | single-document updates |
| Products, categories, groups (`products/`, `categories/`, `groups/`) | catalogue documents | create, update, reorder, reprice | sync, users | reordering, the last group | prices follow mark-ups; a save undoes nobody else's |
| Pricing arithmetic (`src/src/shared/utils/`) | none | decimal and currency arithmetic | all of these | rounding | exact to the precision claimed |
| Notifications (`notifications/`) | notification documents | create once per event key, mark read | all of these | two triggers of one event | one notification per event and person; everyone concerned is told |
| Audit log (`audit/`) | insertions | create | all of these | not awaited | never blocks its caller |
| Client API (`client/`) | none of its own | the order creation for other callers | order creation | as order creation | as order creation |
| Middleware and process (`src/src/app.js`, `server.js`, `shared/`) | process | start, stop, error answers | all of these | a shutdown in the middle of anything | errors answer as documented |

`PROJECT.json` lists the hazards of this code line by line, with the properties
that cover each.

## 2. Plan

Money first, then what decides prices, then accounts and messages. All of it is done;
the column on the right says what composes with what.

| Order | Module | Subject | Composes with |
|---|---|---|---|
| 1 | `OrderLifecycle`, `OrderClaims` | fulfillment, polling, refunds, administrator | EXTENDS `ProviderAdapters` |
| 2 | `ProviderAdapters` | the four adapters and the status mapper as functions | |
| 3 | `Deposit`, `DepositClaims` | submission and review of deposit requests | reads rates as `CurrencyRates` may serve them |
| 4 | `Wallet`, `WalletClaims` | one wallet and everything that moves it | checkouts, refunds, deposits and administrators meet here |
| 5 | `OrderCreation`, `CreationClaims` | checkout, from the site and from the client API | implements `Purchase` |
| 6 | `Purchase` | what a checkout promises, in one step | |
| 7 | `Accounts` | authentication and administration of one account | |
| 8 | `Catalogue`, `CatalogueClaims` | synchronisation, products, price cache, the check of an order | all four in one module |
| 9 | `CurrencyRates` | documents, caches, changes, pegging, market synchronisation | debts of the wallets |
| 10 | `Notifications` | triggers, recipients, event keys, inboxes | |

Left undone, with the reasons: the second poller, which no process starts; `Payout`
(requested, approved, paid once) as a refinement of `Deposit`, because
`CreditedOnce` and `ApprovedIsPaid` are its safety and its liveness already; a
refinement of `OrderLifecycle` by a ledger, because lost acknowledgements break it
and `NeverOverRefunded` says by exactly how much; one module of orders and wallet
together, whose state space is the product of two that are checked apart, and whose
seam is one guard (an order is returned once), which `NeverOverRefunded` justifies.

## 3. Modules

Each module names its sources in its header, and `PROJECT.json` "map" gives the lines
of every definition. In all of them an action is what the code does between two
awaits, or one MongoDB transaction; slots for concurrent calls (`Instances`, `Calls`,
`Reviewers`, `Callers`, `Requests`) are the processes and HTTP requests under way; what
a slot remembers between its actions is what the code holds in local variables. Counters
named `calls`, `faults`, `crashes`, `lostAcks` and `topUps` bound choices and mean
nothing else. A formula named "Mutant" in a comment is a plausible wrong version of
the definition below it; it is part of no specification.

**OrderLifecycle.** An order after checkout. `pc` and `refundPc` say where each worker
stands: the `executeOrder` of an order, the poll of a process, an administrator's
completion. A poll takes its query's documents (`batch`, `seenRetry`), awaits the
provider (`verdict`, `remains`) and then applies the results one by one with updates
that do not look at the order again. `refundFailedOrder` is swap, credit, undo;
`processOrderRefund` and `markOrderAsFailed` are one transaction each; `completeOrder`
is read, debit, save. Abstractions:

- The provider's answer is a word of its own, of which `ProviderAdapters` makes a
  verdict. `fate` is what the provider really does with the order; `reply` is what
  `placeOrder` made of its answer.
- Amounts are whole currency units, because `processOrderRefund` floors them. A share
  floored to 0 is an error after the status was written (`orders/order.service.js:717`), so
  that such an order is never credited. The floating-point quotient is taken as exact. `remains` below 0 or above the quantity
  takes the branch of 0.
- `walletDeducted` is the whole price, so that `refundFailedOrder` and
  `markOrderAsFailed` return `Price`.
- A transaction is one action, because each reads and writes the order it depends on:
  a concurrent writer aborts it. An abort is a fault; the loss of the acknowledgement
  of a commit is a fault of its own kind (`MaxLostAcks`).
- The kill switch's write belongs to the query (`PollFind`), which is harmless because
  `NeverExhausted` shows that it has nothing to write.
- `retryOrder` and `syncOrderProviderStatus` are no actions: they rely on fields and
  paths the schema does not have, and end in an error before they change anything.
  `refundOrder` without `remains` is `markOrderAsFailed`, and no caller gives it `remains`,
  so that `processOrderRefund` is reached from the poll only; `updateOrderStatus` dispatches to the two calls modelled.
- The cap of 200 orders for a batch and the grouping by provider are left out: an order
  that is not in this batch is in a later one.

**ProviderAdapters.** Pure functions of one module, which `OrderLifecycle` extends: the
class `adapter.factory.js` chooses by slug, what `placeOrder` and `checkOrders` of each
class make of a word, of silence, of a refusal and of a failed call, and the status it
stands for. A word stands for all its spellings. No adapter throws: a failed call is
reported as success=false, which `Failure` keeps apart from a refusal as "Cut"; an answer
of success without an order id (`providers/adapters/royalCrown.adapter.js:230`,
`toros.adapter.js:189`, `alkasr.adapter.js:236`) is handed on as a rejection too, and kept
apart as "Unnamed", because the provider may have taken the order. The code tells neither
from a refusal; the properties do. The slug "plugin" is a class added by `registerAdapter`,
which may throw; with it `OrderLifecycle` reaches the branch for retryable errors.

**Deposit.** A submission first reads its currency and freezes its rate (`CreateDeposit`, of
both controllers), then `createDepositRequest` looks for a pending request and inserts;
a rate that is unknown ends it. `approveDeposit` is read, compare-and-swap on PENDING,
conversion, credit; `rejectDeposit` and `updatePendingDeposit` are read and save, and a
Mongoose save writes the changed paths only. Rates move: every read of a currency may
find any of `Rates`. A converter error and a failing validation (an amount that rounds
to zero) are `Abandon`, with everything done so far left as it is. The currency of the
wallet against that of the deposit is chosen when it is read. The intermediate rounding
to six decimals is left out. `raced` is history: the customers two of whose submissions
were between the look and the insertion together.

**Wallet.** One user. Checkout and order refund are transactions. A deposit's credit and a
re-deduction are a relative update and a record. The administrator's adjustments read,
compute, `$set`, record. `recorded` is the sum of the wallet transactions. Two history
variables delimit the properties: `limitIgnored`, once an operation was used that does not
look at the credit limit (re-deduction, set balance, inflation, a new limit, a new
currency), and `unexplained`, once an adjustment overwrote what it had not read, a call
ended before its record, or the currency changed. The before and after values in a
record are left out; so is the number of the orders' refunds (a matter of
`OrderLifecycle`).

**OrderCreation.** Requests, some under the same key, chosen in the initial state. A
request looks for its key, takes a number outside the transaction, and then reads the
product, asks the price, debits and inserts in a transaction. The transaction keeps the
snapshot of its first read (`seenBalance`, `seenPrice`, `seenKey`); `moved` says that the
user's document changed since. Writing it then, or while another open transaction has
written it, is a write conflict, which aborts the attempt and repeats it once without the
look for the key. A lock timeout (code 24) takes the same branch and is not a case of its
own. Every order writes its user's document first, and orders compete for an index entry
only within a user, so that the insertion meets no conflict the debit has not met.
One product, its price in the wallet's currency; the provider's price is any of
`Quotes`. `TopUp` stands for every other single write of the user's document, which
waits for an open transaction that has written it. Errors of the database and the end of
a process are `Fault`. It takes requests one at a time, a superset of what the death of a
process takes. `ClientOrder` is a request that comes through the client API, which looks
for the key and reads the product itself before it calls `createOrder`.

**Purchase.** The abstract specification of a checkout: an order appears and its price
leaves the wallet, which covers it, in one step. `OrderCreation` implements it under the
mapping that forgets snapshots, open transactions and numbers (`PurchasesAreAtomic`).

**Accounts.** One account. Every handler reads the user document, decides, and saves; what
it saves (`intent`) is what Mongoose found changed, or what the handler's read did not
select. Two slots interleave any two handlers. Links and codes are serial numbers
(`issued`), of which some arrive (`mailed`) and some grow old (`expired`); the code a caller
brings is any that was mailed. An error, or the end of a process, is `Fail`. `crossed` is
history: which kinds of saves were decided on values that another call had replaced. `ruling`
is what a handler decided about the status, whether or not its save has anything to write:
an approval of an account that is ACTIVE when it is read leaves the status out, and has
decided all the same. Hashes,
the contents of a JWT and its expiry, and the texts of mails are left out; a session, once
given, is not revoked but by the status, which `authenticate` reads every time (`Admit`).

**Catalogue.** One provider. `Tick` and `Trigger` start a synchronisation by cron and by hand;
it takes the lock of its process, loads the provider, fetches the catalogue, upserts the
items side by side, sweeps what was not written, and reprices the products that follow an
item one by one (`Load`, `Fetch`, `Upsert`, `Sweep`, `Look`, `Update`, `End`). An entry of the
catalogue is a price and whether the provider gives it as active (`isActive`), which is what
an upsert writes. Administrators read a product with its item and save what they changed
(`Updated`), link it to another item (`Relinked`), or make one, from an item or without. A
`manualPriceAdjustment` is any integer, or `Off` when `enableManualPrice` is; one below zero
is an administrator's way to sell below cost (`Lowers`), which the schema, the validation and
the service all allow (`products/product.model.js:255`, `products/product.validation.js:112`,
`products/product.service.js:448`). An order reads the product, asks
the cache of its process (`cache`, `pending`), and is placed, or refused and the product
repriced; one whose price is not above zero is refused at the end (`orders/order.service.js:331`). A failed request behind the cache is an unhandled rejection: the process shuts
down (`draining`) and PM2 restarts it. Markups are the fixed type; `asOf` counts the
provider's catalogues, so that an older copy is told from a newer one; `hand`, `mixed` and
`losses` say how a sale below the checked price came about.

**CurrencyRates.** One currency but USD. `Ask`, `Find` and `Fill` are a conversion through a
cache with a lifetime, in one of several processes. `PATCH /admin/currencies/:code` reads,
saves the rate, invalidates the cache of its own process, looks for wallets in debt,
adjusts them one by one, and saves the status; `PATCH .../status` is the other route. The
market synchronisation looks, then updates or creates. `asOf` counts changes of the
document, `told` the last change a process made itself.

**Notifications.** A trigger (`Launched`) is the notifications that one event sends off, each
with recipients, a needed permission and an event key. A send finds its people, looks
whom the event was told already, and inserts; it runs beside all other sends. People read,
delete and clear; staff are blocked, and supervisors given other permissions, meanwhile.
`owed` and `told` are history: who was to be told what when it happened, and was.

**\*Claims.** What comments, documents and tests of the repository say, word for word,
where the code does otherwise (section 7).

**MC\*.** Symmetry and the constants a configuration cannot write.

**\*_proofs.** Theorems (section 6).

## 4. Runs

| Run | Instance | What it shows |
|---|---|---|
| `MCOrderLifecycle_cluster` | a plugin adapter; 1 order, 2 processes, 2 administrator's calls, 1 fault, 1 crash, 1 lost acknowledgement, 2 retries; 1.8 million states | no refund beyond the charge, no marked refund unpaid but after a crash or a second fault, no refund of a queued order, no order at `MAX_RETRY_COUNT`; while no administrator intervenes, a stale batch writes over a settled order only where one of the two writes is a FAILED of giving up |
| `MCOrderLifecycle_batch` | Toros; 3 orders, 2 of them automatic, 1 process, 3 retries; 330 thousand states | without administrators and faults a completed order stays paid, although the poller applies its batch unconditionally; what the provider delivers is not refunded but after a failed call, after a placement accepted without an id, or at the retry limit |
| `MCOrderLifecycle_settle` | Royal Crown; 1 order, 2 processes, 1 administrator's call, no fault, 3 units for the price of 2; 120 thousand states | the queue drains; failed and canceled orders are credited, and partial ones whose floored share is not 0 |
| `MCDeposit_review` | 2 requests of a customer, 2 slots, 4 calls, 1 fault, rates 2 and 3; 750 thousand states | credited once and after review; two pending requests only of submissions that raced; an approval that no fault interrupts is paid |
| `MCWallet_wallet` | 1 order, 2 slots, 3 calls, 1 fault; 510 thousand states | types (creditUsed stays non-negative), credit line, books |
| `MCOrderCreation_checkout` | 3 requests, 2 users, 1 key, 1 other write, 1 fault; 1.5 million states | all properties of a checkout, the refinement of `Purchase` among them |
| `MCAccounts_accounts` | 1 account, 2 slots, 4 requests, 2 links or codes; 620 thousand states | a decision stands unless its call found the status as it wanted it and another changed it meanwhile; sessions are earned; verdicts, permissions and codes are as they should be but where a save was made over a change it had not seen |
| `MCCatalogue_catalogue` | 2 items, 1 product, 1 process with its cron and its synchronisation by hand, 1 slot for an administrator, 1 for an order, adjustment -1, 2 requests, 1 event; 850 thousand states | copies move forward; a sale below the checked price has an administrator behind it, by a price, a lowering adjustment or a save over prices not seen; in the end copies and prices are the provider's |
| `MCCurrencyRates_rates` | 2 processes, one of them with the market synchronisation, 1 slot for an administrator, 1 for an order, 2 users in debt, rates 1, 2 and 4, 2 changes, 1 fault; 1.1 million states | a process converts by its own changes, all of them in the end; pegged debts keep their value |
| `MCNotifications_notifications` | a customer, an administrator, a supervisor; 2 events, 2 acts of readers, 1 trouble; 1.3 million states | nobody is told twice but of events reported at once; everyone concerned is told |
| `MCOrderLifecycle_blip`, `MCOrderCreation_keyless` | the smallest instance | a statement of the repository that the code contradicts; TLC is expected to refute it |

Why the bounds are enough. The order documents of `OrderLifecycle` are independent but
for a poller's batch, hence many actors on one order (`cluster`), and several orders with
one poller (`batch`). Two of a kind suffice for each race in the hazards: two pollers,
two completions, two completions against a poller and the executor. A second fault is
what the code does not claim to survive (`RefundedMeansCredited` says so); the proofs of
the other properties have no bound. `MaxRetry` 2 or 3 reaches both the counting and the
exhausting branch, from equal and from stale counts; the three slugs reach every adapter
class that is not the mock. Three units for the price of 2 make the share of one remaining
unit 0 and that of two 1. In `Deposit` two slots hold any pair of an approval, a
rejection and an edit, and the four calls follow them by two more; amounts 1 and 3 at
rates 2 and 3 make one amount vanish when converted. In `Wallet` two calls
overwrite each other and a third comes after; the amounts make the balance cross zero,
the line and back. In `OrderCreation` three requests give two with a key and one
without, or three with it, of one user or two; a price rise, one other write and one
fault can fall anywhere between them; balance and
credit together pay for three orders at the first price, for one at the risen price, and
for the mixtures up to the line exactly. In `Accounts` two overlapping handlers are every
race between two saves, and two more requests prepare or use what they did; two serials
are an old code and the one that replaced it. In `Catalogue` one event is a price change, an item
dropped, added or given as inactive, a failed write or fetch, or a lost process, anywhere in a cycle; two
requests are an administrator's and an order's, or two in a row; the markup is 1, or 0 by an
update, and an adjustment of -1 takes a price below the cost and to 0. One process means that
the exemption in `RawNeverGoesBack` is not exercised: the theorem covers any number. In
`CurrencyRates` two changes are one that overtakes another or a change crossed by the
market; rate 4 from 1 more than doubles. In `Notifications` two events are the same one
reported twice, or two that share a person.

`CHECK_DEADLOCK FALSE`: each bounded system stops when its requests are served and its
budget of calls is spent. Symmetry is used in safety runs only.

## 5. Fairness

`FairSpec` of `OrderLifecycle`: weak fairness of each executor, poller and refund. A live
process runs its promises to the end, and node-cron starts a poll at every interval
(`fulfillmentJob.js`). Administrators are not fair. `ResponsiveSpec` adds strong fairness
of an answer that covers the whole batch: an assumption on the provider, without which an
order may stay in the queue for ever, since a failed call does not count as a retry.

`FairSpec` of `Deposit`: weak fairness of a review under way. A call begins only if
somebody makes it.

`Catalogue`: weak fairness of each cron tick (`syncProvidersJob.js`), of the steps of a
synchronisation under way, and of the restart of a process that shuts down (PM2).
Administrators and orders may stop half-way. That the provider's catalogue changes and
calls fail finitely often is the bound `MaxEvents`, and that is what "once the provider
leaves it alone" means.

`CurrencyRates`: weak fairness of time alone. No conversion, no administrator and no
synchronisation has to go on.

`Notifications`: weak fairness of `Deliver`, the steps of the sends together. A send ends
after three of them, new ones are bounded, so that none is starved.

The wallet, checkout and account models state safety only: nothing in them has to
happen but an answer to a request, which a caller may not wait for.

## 6. Proofs

All proofs are checked by TLAPS with Z3, Zenon and LS4; they assume the named ASSUMEs of
each module, and what a theorem itself assumes, which the following names. Every theorem
is about all values of the constants, the bounds on faults and calls included. All the
safety properties of section 4 are proved; the liveness properties are model-checked.

**OrderLifecycle_proofs.** `NoOverRefund`: credits never exceed charges but by the price
times the number of lost acknowledgements. As it stands that is not inductive: a worker
between the swap and the credit has yet to spend. `LedgerInv` counts, for every order,
the claims under way (refunds in flight, completions that will clear the mark they saw)
and the refund an unmarked order may still have, and says that credits and claims
together are covered. A swap turns the spare refund into a claim, a credit a claim into
a credit, `completeOrder` pays before it claims. That needs the cardinality of the set of
claims to change by at most one in a step, and `BaseInv`: both refund marks agree
(`FlagsInv`), a refund is started only for an order that left the queue (`WorkersInv`),
and an uncreated order has no history (`FreshInv`). `RefundedOrdersLeaveQueue`,
`ManualReviewUnreachable` and `TypeCorrect` follow from `BaseInv`, which is proved for any
number of pollers with stale counts and for every adapter. `MarkedIsPaid` (a marked
refund is paid or under way) needs only that a mark is taken back after a fault (`PaidInv`).

`NoVerdictUndone` (`OverwritesAreTrue`) is about the unconditional writes of stale batches by
any number of processes, with faults, crashes and lost acknowledgements; only
administrators have not intervened so far, and the adapter is not Alkasr's. A
write over a settled order then either is a FAILED of giving up - the retry limit, or the
cleanup of an execution that met a database error - or replaces a FAILED by the end the
provider reports: it never brings an order back to
the queue, nor replaces one verdict of the provider by another. `TruthInv` carries it: a
final answer that a poll holds, however old, is still what the provider says, and so is
any end but FAILED of an order that a poll may hold.

`NothingForFree` and `DeliveredOnceOrRefunded` assume `Undisturbed`: one process
that polls, no completion by an administrator, no database error; crashes, lost
acknowledgements, any adapter and any number of orders in a batch stay. The hypothesis is
needed, as section 7 shows: a second poller's retry limit may fail and refund an order that was completed meanwhile;
`completeOrder` completes what is being refunded; and an error while the
result of a placement is stored refunds an order that the provider works on. `CalmInv`
says what such a server has over the others: nobody but its executor has an order whose
reply is not stored, a poll holds orders of the queue only, and every refund under way is
of an order that was not delivered in full. For `DeliveredOnceOrRefunded` `KnownInv` adds
that such an order was told its end by the provider, unless the placement was cut, was
accepted without an id, or its retries ran out; it excludes Alkasr, whose adapter takes
words it does not list for a cancellation.

**Deposit_proofs.** `NoDoubleCredit`. `PayersInv`: a call that won the swap has its
request to itself and nothing was credited before it. `OnePendingHolds`: `PendingInv` counts
a submission past its look as pending (`Occupies`), so that the second of two is either
stopped by the look or makes its customer `raced`; no review or edit brings a request
back to PENDING.

**Wallet_proofs.** `TypeCorrect` (creditUsed never below zero, although the updates skip
the schema's check) and `WithinCreditLine`, for an opening balance within the line.
`PlansInv` is what makes it inductive: a balance about to be written over newer ones was
itself within the line when it was computed, and the line has not moved. `BooksAddUp`: a
relative update and a write that overwrites nothing add their entry to what is still to be
recorded, and the record takes it from there. It is about a sum over the calls under way,
and rests on facts about sums over finite sets (`TotalFacts`, `TotalSame`). The library's
induction over finite sets takes an operator, which these provers cannot instantiate; the
proofs take instead the least subset that would be a counterexample (`LeastSubset`), from
the well-foundedness of strict inclusion.

**OrderCreation_proofs.** The inductive invariant `IInv` has six parts. `SnapshotInv` is its
centre: a transaction that nothing overtook sees the balance and the index entry there
are, and one that has written was not overtaken and is alone in having written its user.
`KeyBuysOnce` and `NeverOverdrawn` need it at the commit. `NumbersInv` (numbers in hand
are distinct and not above the counter, which exists once it is incremented) gives
`NumbersUnique`; `AnswersInv` gives `ClientsToldTruth`, `StartOnce` and `PaidStarted`.
The steps before the commit are shown once to be invisible to other requests
(`PrivateSteps`), which leaves each proof with the commit and the writes of others.
`Refinement` is the step-by-step proof that `OrderCreation` implements `Purchase`: the commit
maps to `Buy`, whose guard on the balance is `SnapshotInv` at work, another write to
`PayIn`, every other step to a stutter.

**Accounts_proofs.** `LastDecision` and `SessionsEarned`. The invariant adds that an account
whose status is ACTIVE was approved once, and that a document about to be inserted is
PENDING. `RulingInv` relates what a handler decided to what its save writes: the status is
among the paths written, or the handler has read it as it wants it. `LastDecision` is then
about the document: after a save its status is the last decision's, although handlers that
decide nothing save what they read long before - unless the deciding call left the status
out of its save and another call changed it in between (`"status" \in crossed`).
`AccountsTypes`, `VerdictsExclude`, `PermissionsGoWithRole` and `CodesOpenOnce` share `RightInv`:
what a handler has in mind to write, laid over the document it read, is right wherever the
handler has a say (`PlansInv`), what an insertion will write is a fresh account
(`NewcomersInv`), and a code is stored once and gone when it opens a session (`CodesInv`). A
save that crossed no other of its kind therefore leaves a document that is right.

**Catalogue_proofs.** `CopiesMoveForward`. `LockInv`: one synchronisation is busy in a
process, and one in all while no two processes overlapped, although a synchronisation that
fails releases the lock and cron and administrators start others at any time. `FreshInv`: the
catalogue being written is at least as new as every copy. `CatalogueTypes` and
`CheckedSalesPay` rest on `SaleInv`: every product is sold at its cost or above, unless an
administrator chose its price - as a base price or by an adjustment below zero; adjustments
are any integers - or saved it over another one, and what a synchronisation, a save
or a refused order is about to write is of that kind too; so the product an order read is
not below the price it was checked against. The proof showed that the history of a price
set by hand has to follow what a save wrote even if that is the value it had read
(`ByHand`), which three requests reach and two do not.

**CurrencyRates_proofs.** `UpdatesApply`, and `CurrencyTypes`, the types of the module. The
invariant says that nobody is told of a change the document has not seen (`NoneAhead`), that
a conversion reads no older document than its process knew (`ReadsFresh`), and that a cache
entry no conversion crossed is as new as its process was told (`EntriesFresh`).
`DebtsKeepTheirWorth` is about debts that follow the rate: `PegInv` says where the one change
under way stands, and whose debts it has adjusted. It assumes `Exact`: at every rate a debt
of the first value is a whole number of hundredths. Without it an adjustment is rounded and
a debt is worth what it was to the half of a hundredth only, and not even that after several
changes. The share by which debts change is exact in the model; the code's has four decimals
of a percent, so that the theorem speaks of debts below 10000.

**Notifications_proofs.** `NotifiedOnce`. `SendsInv`: what is on its way under one key is one
send; `LookedInv`: those whom a send takes for untold after its look still are. `KeysDiffer`
shows that the notifications one event sends off have different keys, which is
needed before either can hold.

Model-checked only: liveness (`QueueDrains`, `RefundsSettle`, `ApprovedIsPaid`, `CatalogueFollows`,
`PricesFollow`, `RatesTakeEffect`, `EveryoneIsTold`), because fairness and ENABLED are beyond
this prover; and the refutations of section 7.

No module that is proved about reaches a RECURSIVE operator; the models need none.

## 7. Known divergences

Statements of the repository that the models contradict. Those with a run are in
`PROJECT.json` "findings"; for the others, name the formula as INVARIANT or PROPERTY in a
copy of a configuration of its module's MC module, and TLC shows the behaviour.

| Formula | Said by | What the code does |
|---|---|---|
| `BlipIsNotRefunded` (run) | `orders/orderFulfillment.service.js:313` | the adapters report a failed call as a rejection, which is refunded at once |
| `CaseCFails` | `orders/orderFulfillment.service.js:185` | a placement answered with Cancelled is COMPLETED |
| `TransientIsRetried` | `orders/orderFulfillment.service.js:312` | an order without a provider's id is not polled (only a plugin adapter gets there) |
| `AppliedInProcess` | `orders/orderFulfillment.service.js:530` | only the query's document is looked at: a poll at the retry limit fails and refunds an order that another one completed |
| `PartialIsRefunded` | `src/README.md:1455` | a share floored to 0 is an error, and the order is never credited |
| `RefundIsAtomic` | `orders/orderFulfillment.service.js:48` | a crash between mark and credit loses the refund |
| `ExhaustedGoesToReview` | `orders/order.model.js:23` | the poll that reaches the limit fails and refunds the order |
| `UndoneRefundIsRetried` | `orders/orderFulfillment.service.js:163` | nothing retries a FAILED order |
| `FailedIsNotCompleted` | `admin/admin.orders.service.js:430` | only COMPLETED is refused |
| `NeverOvercharged` | `admin/admin.orders.service.js:444` | the whole price is deducted again though less, or nothing yet, was returned |
| `AdminCanRefund` | `docs/order-system.md:31` | a FAILED order that was not credited cannot be failed again (`orders/order.service.js:542`) |
| `ApprovedMeansCredited` | `docs/wallet-system.md:14` | approval and credit are two steps |
| `OnePending` | `deposits/deposit.service.js:33` | a look and an insertion |
| `ApprovedNotRejected` | `deposits/deposit.service.js:362` | checked on the document read |
| `EditsOnlyPending` | `deposits/deposit.service.js:520` | the same |
| `CreditsRequestedAmount` | `deposits/deposit.service.js:15` | the amount read before the swap |
| `UsdEquivalent` | `deposits/deposit.model.js:75` | not recomputed by an approval with another amount |
| `FrozenRatePays` | `deposits/deposit.model.js:66` | an approval converts at the rates of its moment |
| `NoLostUpdate` | `docs/wallet-system.md:198` | an absolute balance is written |
| `NeverNegative` | `docs/wallet-system.md:11` | checkouts draw on the credit limit |
| `ConversionKeepsMinimum` | `users/user.model.js:228` | limit and credit in use are not converted |
| `EveryChangeRecorded` | `docs/wallet-system.md:13` | a credit and its record are two steps |
| `DrawnCreditIsUsed`, `SpendableFormula` | `users/user.model.js:242`, `:245` | checkouts do not raise creditUsed |
| `RefundedInItsCurrency` | `orders/orderFulfillment.service.js:83` | the order's amount, in whatever currency the wallet has |
| `KeylessIsNotEnforced` (run) | `docs/order-system.md:233` | the compound sparse index holds the absent key |
| `AgainIsConflict` | `docs/order-system.md:147` | the order is returned |
| `AlwaysFires` | `orders/order.service.js:458` | not after an error of the read at :409 |
| `CheckPreventsLoss` | `orders/order.service.js:263` | a save of a product over a change of its prices keeps a lower price for the next order |

Met while modelling, and part of the models as the code has them:

- The lock of a synchronisation is of one process, PM2 runs several: copies can go back
  then (the exemption in `RawNeverGoesBack`).
- A failed upsert is taken out of the seen set, and the item is no longer listed until the
  next cycle, whatever the comment at `providers/providerProductSync.service.js:228` intends.
- A placement that the provider answers with success but without an order id is failed and
  refunded, though the provider may deliver it (`providers/adapters/royalCrown.adapter.js:230`,
  `toros.adapter.js:189`, `alkasr.adapter.js:236`).
- An adjustment below zero sells below the provider's price, by choice; the check of an order
  compares the provider's price with the one copied, and does not look at the product's own.
- `createProduct` checks neither that the provider and its item are active, nor that the item
  is for sale in one product only, as `publishFromProviderProduct` does.
- Two administrators who approve and reject at once: the one who found the status as it wanted
  it writes no status, and is told that the decision was taken.
- A manual price is overwritten when an order finds that the provider's rose.
- After a failed fetch behind the price cache the order goes on without the check, as
  `orders/order.service.js:268` says; but the cache's own promise is rejected with nobody to
  handle it, and the process shuts down.
- `PATCH /admin/currencies/:code` saves the status without invalidating the cache, and without
  the guard that keeps USD active, which only the other route has.
- Other processes are not told of a rate: they convert by the old one until their entry
  expires. A conversion that read the document before a change refills the cache of the
  same process with the old rate after it.
- A rate that more than doubles makes the adjustment of debts throw; the error is swallowed.
  Two overlapping changes adjust debts from the same old rate. Both are outside of
  `DebtsPegged`.
- The exchange-rate job is not started by `server.js`; `Schedulers` may be empty.
- Alkasr makes a new order_uuid for every call, so that a repeated placement is a new order;
  it maps words it does not list to Cancelled, the other adapters to Pending. A provider
  with an unknown slug is served by the mock, which delivers nothing.
- `retryOrder` and `syncOrderProviderStatus` end in an error whenever they are called.
- The notification that an order needs review has the event key of a manual order's
  creation, and is not sent to those who had that one.

## 8. Not modelled

`PROJECT.json` "components" lists every part with its status.

- The second poller (`orders/orderPolling.service.js`): nothing starts it.
- Categories and groups, and the parts of provider administration beside the switch and the
  synchronisation by hand: single-document writes without a protocol. A group's percentage
  enters a price as a markup does.
- The audit log: insertions nobody awaits or reads back.
- Routing, parsing, rate limits, uploads, texts of mails, listings and statistics: no state
  of their own. The HTTP of the adapters is external; the models take what it may answer.
- Floating-point error and arbitrary-precision decimal strings: amounts are integers of the
  precision the code rounds to.
- The display order, pictures and order fields of a product: no property is about them.
