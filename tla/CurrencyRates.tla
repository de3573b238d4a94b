--------------------------- MODULE CurrencyRates ---------------------------
(***************************************************************************)
(* One currency: its document, the cache every process keeps of it, the    *)
(* conversions that orders make, the administrator's changes and the       *)
(* pegging of debts that may follow one, and the synchronisation of market *)
(* rates.                                                                  *)
(*                                                                         *)
(* Sources: currency.service.js and currency.model.js of                   *)
(* src/src/modules/currency, currencyConverter.service.js and              *)
(* exchangeRateSync.service.js of src/src/services,                        *)
(* src/src/jobs/exchangeRateSync.job.js, the currency routes of            *)
(* admin.routes.js, which come before those of currency.routes.js, and the *)
(* bulk adjustments of admin.wallet.service.js.                            *)
(*                                                                         *)
(* USD has no document to look up: its rate is 1 and nothing changes it.   *)
(***************************************************************************)
EXTENDS Integers, FiniteSets

CONSTANTS
    Processes,      \* server processes (PM2 cluster)
    Schedulers,     \* those that start the exchange-rate job: server.js does
                    \* not, an operator may
    Admins,         \* slots for requests of administrators
    Orders,         \* slots for conversions
    Users,          \* users whose wallets are in this currency
    NoProcess,
    Rates,          \* rates an administrator or the market may set
    FirstRate,      \* the rate in the beginning
    Debt,           \* what a user in debt owes in the beginning
    MaxAge,         \* CACHE_TTL_MS, in ticks
    MaxChanges,     \* bound: requests of administrators, and synchronisations
    MaxFaults       \* bound: database errors and lost processes

ASSUME RatesAssumption ==
    /\ Rates \subseteq Nat \ {0}
    /\ FirstRate \in Rates
    /\ Debt \in Nat
    /\ MaxAge \in Nat \ {0}
    /\ MaxChanges \in Nat /\ MaxFaults \in Nat
    /\ Schedulers \subseteq Processes
    /\ NoProcess \notin Processes

VARIABLES
    doc,        \* the currency's document
    cache,      \* per process: _cache
    order,      \* conversions under way
    edit,       \* requests of administrators under way
    sync,       \* per process: syncRates
    debt,       \* what each user owes, in this currency
    spent,
    \* History: the change of the document a process has been told of; what
    \* keeps debts from following the rate.
    told, slipped

vars == <<doc, cache, order, edit, sync, debt, spent, told, slipped>>

---------------------------------------------------------------------------
\* asOf is history: how many changes of rate or status the document has seen.
Document == [here : BOOLEAN, rate : Rates, active : BOOLEAN, asOf : Nat]

\* crossed is history: the entry was filled with a document read before the last
\* change the process has been told of.
Entry == [here : BOOLEAN, rate : Rates, age : 0..MaxAge, asOf : Nat,
          crossed : BOOLEAN]
NoEntry == [here |-> FALSE, rate |-> FirstRate, age |-> 0, asOf |-> 0,
            crossed |-> FALSE]

\* since is history: what the process had been told when the conversion started.
Conversion == [stage : {"idle", "finding", "filling", "done"},
               home : Processes \cup {NoProcess}, since : Nat, rate : Rates,
               asOf : Nat, crossed : BOOLEAN]
NoOrder == [stage |-> "idle", home |-> NoProcess, since |-> 0, rate |-> FirstRate,
            asOf |-> 0, crossed |-> FALSE]

\* debts are those still to be adjusted; asOf is history: the change it made.
Request == [stage : {"idle", "saving", "switching", "saved", "looking",
                     "adjusting", "status"},
            home : Processes \cup {NoProcess}, old : Rates, new : Rates,
            peg : BOOLEAN, was : BOOLEAN, want : BOOLEAN, asOf : Nat,
            debts : [Users -> Int]]
NoEdit == [stage |-> "idle", home |-> NoProcess, old |-> FirstRate,
           new |-> FirstRate, peg |-> FALSE, was |-> TRUE, want |-> TRUE,
           asOf |-> 0, debts |-> [u \in Users |-> 0]]

TypeOK ==
    /\ doc \in Document
    /\ cache \in [Processes -> Entry]
    /\ order \in [Orders -> Conversion]
    /\ edit \in [Admins -> Request]
    /\ debt \in [Users -> Int]
    /\ told \in [Processes -> Nat]

Init ==
    /\ \E here \in BOOLEAN :
        /\ doc = [here |-> here, rate |-> FirstRate, active |-> here, asOf |-> 0]
        /\ debt = [u \in Users |-> IF here THEN Debt ELSE 0]
    /\ cache = [p \in Processes |-> NoEntry]
    /\ order = [o \in Orders |-> NoOrder]
    /\ edit = [a \in Admins |-> NoEdit]
    /\ sync = [p \in Processes |-> "idle"]
    /\ spent = [changes |-> 0, faults |-> 0]
    /\ told = [p \in Processes |-> 0]
    /\ slipped = {}

Change == spent.changes < MaxChanges /\ spent' = [spent EXCEPT !.changes = @ + 1]
Fault == spent.faults < MaxFaults /\ spent' = [spent EXCEPT !.faults = @ + 1]

---------------------------------------------------------------------------
(* Conversions: _getCurrency and its callers.                              *)

Advance(o, record) == order' = [order EXCEPT ![o] = record]
OutsideOrder == UNCHANGED <<doc, edit, sync, debt, spent, told, slipped>>

\* Mutant: a hit renews the entry.
Renews(entry) == [entry EXCEPT !.age = 0]

Hit(entry) == entry

\* A conversion ends here when the process has the currency.
Ask(o, p) ==
    /\ order[o].stage \in {"idle", "done"}
    /\ LET new == [NoOrder EXCEPT !.home = p, !.since = told[p]]
       IN  IF cache[p].here
           THEN /\ Advance(o, [new EXCEPT !.stage = "done", !.rate = cache[p].rate,
                                          !.asOf = cache[p].asOf,
                                          !.crossed = cache[p].crossed])
                /\ cache' = [cache EXCEPT ![p] = Hit(@)]
           ELSE /\ Advance(o, [new EXCEPT !.stage = "finding"])
                /\ UNCHANGED cache
    /\ OutsideOrder

\* Currency.findOne: a missing or a disabled currency ends the order.
Find(o) ==
    /\ order[o].stage = "finding"
    /\ IF doc.here /\ doc.active
       THEN Advance(o, [order[o] EXCEPT !.stage = "filling", !.rate = doc.rate,
                                        !.asOf = doc.asOf])
       ELSE Advance(o, NoOrder)
    /\ UNCHANGED cache
    /\ OutsideOrder

Fill(o) ==
    LET p == order[o].home
    IN  /\ order[o].stage = "filling"
        /\ cache' = [cache EXCEPT ![p] =
                        [here |-> TRUE, rate |-> order[o].rate, age |-> 0,
                         asOf |-> order[o].asOf,
                         crossed |-> order[o].asOf < told[p]]]
        /\ Advance(o, [order[o] EXCEPT !.stage = "done"])
        /\ OutsideOrder

\* Time passes: every entry grows older, and is not used from MaxAge on.
Tick ==
    /\ \E p \in Processes : cache[p].here
    /\ cache' = [p \in Processes |->
                    IF cache[p].age + 1 < MaxAge /\ cache[p].here
                    THEN [cache[p] EXCEPT !.age = @ + 1] ELSE NoEntry]
    /\ UNCHANGED order
    /\ OutsideOrder

---------------------------------------------------------------------------
(* Administrators.                                                         *)

Progress(a, record) == edit' = [edit EXCEPT ![a] = record]
OutsideEdit == UNCHANGED <<order, sync>>

\* A save writes what the handler changed in the document it read.
Written(rate, active) ==
    doc' = [doc EXCEPT !.rate = rate, !.active = active,
                       !.asOf = @ + IF <<rate, active>> = <<doc.rate, doc.active>>
                                    THEN 0 ELSE 1]

\* Mutant: the process keeps its entry.
KeepsEntry(p) == UNCHANGED cache

Invalidated(p) == cache' = [cache EXCEPT ![p] = NoEntry]

\* PATCH /admin/currencies/:code, with or without pegging, and with a status or
\* the one it has.
ReadRate(a, p) ==
    /\ edit[a].stage = "idle" /\ doc.here
    /\ Change
    /\ \E rate \in Rates, peg \in BOOLEAN, want \in BOOLEAN :
        Progress(a, [NoEdit EXCEPT !.stage = "saving", !.home = p,
                                   !.old = doc.rate, !.new = rate, !.peg = peg,
                                   !.was = doc.active, !.want = want])
    /\ slipped' = slipped \cup
                  (IF \E b \in Admins \ {a} : edit[b].stage # "idle"
                   THEN {"overlap"} ELSE {})
    /\ OutsideEdit
    /\ UNCHANGED <<doc, cache, debt, told>>

SaveRate(a) ==
    LET e == edit[a]
    IN  /\ e.stage = "saving"
        /\ Written(IF e.new = e.old THEN doc.rate ELSE e.new, doc.active)
        /\ Progress(a, [e EXCEPT !.stage = "saved", !.asOf = doc'.asOf])
        /\ OutsideEdit
        /\ UNCHANGED <<cache, debt, spent, told, slipped>>

Told(p, version) ==
    told' = [told EXCEPT ![p] = IF version > @ THEN version ELSE @]

\* adjustNegativeBalancesForInflation takes no more than 100 per cent.
Refused(e) == e.new > 2 * e.old

Invalidate(a) ==
    LET e == edit[a]
    IN  /\ e.stage = "saved"
        /\ Invalidated(e.home)
        /\ Told(e.home, e.asOf)
        /\ IF e.new = e.old
           THEN Progress(a, [e EXCEPT !.stage = "status"]) /\ UNCHANGED slipped
           ELSE IF ~e.peg \/ Refused(e)
           THEN /\ Progress(a, [e EXCEPT !.stage = "status"])
                /\ slipped' = slipped \cup {IF e.peg THEN "refused" ELSE "declined"}
           ELSE Progress(a, [e EXCEPT !.stage = "looking"]) /\ UNCHANGED slipped
        /\ OutsideEdit
        /\ UNCHANGED <<doc, debt, spent>>

\* User.find of those in debt, with their balances: whoever owes nothing is left
\* out.
FindDebts(a) ==
    /\ edit[a].stage = "looking"
    /\ Progress(a, [edit[a] EXCEPT !.stage = "adjusting", !.debts = debt])
    /\ OutsideEdit
    /\ UNCHANGED <<doc, cache, debt, spent, told, slipped>>

\* Mutant: the change is a share of the new rate.
AdjustedByNew(e, owed) == owed + (owed * (e.new - e.old)) \div e.new

\* The change of the rate, as a share of the old one, of the debt read.  The share
\* is taken as exact: the code's has four decimals of a percent, which is less than
\* half a hundredth of any debt below 10000.  Instances and the theorem about debts
\* are of amounts that need no rounding.
Adjusted(e, owed) == owed + (owed * (e.new - e.old)) \div e.old

\* One user after the other.  An error is collected, and leaves the balance as it
\* was, or changed and without a transaction that tells of it.
Adjust(a, u) ==
    LET e == edit[a]
        after == [debt EXCEPT ![u] = Adjusted(e, e.debts[u])]
    IN  /\ e.stage = "adjusting" /\ e.debts[u] > 0
        /\ \/ debt' = after /\ UNCHANGED <<spent, slipped>>
           \/ /\ Fault
              /\ slipped' = slipped \cup {"fault"}
              /\ debt' \in {debt, after}
        /\ Progress(a, [e EXCEPT !.debts[u] = 0])
        /\ OutsideEdit
        /\ UNCHANGED <<doc, cache, told>>

Adjusting(a) ==
    edit[a].stage = "adjusting" /\ \E u \in Users : edit[a].debts[u] > 0

\* The status is compared with the one read in the beginning, and saved; no
\* cache is told of it.
SaveStatus(a) ==
    LET e == edit[a]
    IN  /\ e.stage \in {"status", "adjusting"} /\ ~Adjusting(a)
        /\ Written(doc.rate, IF e.want = e.was THEN doc.active ELSE e.want)
        /\ Progress(a, NoEdit)
        /\ OutsideEdit
        /\ UNCHANGED <<cache, debt, spent, told, slipped>>

\* PATCH /admin/currencies/:code/status: setCurrencyStatus, which invalidates.
ReadStatus(a, p) ==
    /\ edit[a].stage = "idle" /\ doc.here
    /\ Change
    /\ \E want \in BOOLEAN :
        Progress(a, [NoEdit EXCEPT !.stage = "switching", !.home = p,
                                   !.was = doc.active, !.want = want])
    /\ OutsideEdit
    /\ UNCHANGED <<doc, cache, debt, told, slipped>>

SetStatus(a) ==
    LET e == edit[a]
    IN  /\ e.stage = "switching"
        /\ Written(doc.rate, IF e.want = e.was THEN doc.active ELSE e.want)
        /\ Progress(a, [e EXCEPT !.stage = "saved", !.was = e.want,
                                 !.asOf = doc'.asOf])
        /\ OutsideEdit
        /\ UNCHANGED <<cache, debt, spent, told, slipped>>

\* POST /admin/currencies: the code is unique, whoever looked first.
CreateCurrency(rate, active) ==
    doc' = [here |-> TRUE, rate |-> rate, active |-> active, asOf |-> doc.asOf + 1]

Create(a) ==
    /\ edit[a].stage = "idle" /\ ~doc.here
    /\ Change
    /\ \E rate \in Rates, active \in BOOLEAN : CreateCurrency(rate, active)
    /\ OutsideEdit
    /\ UNCHANGED <<cache, edit, debt, told, slipped>>

---------------------------------------------------------------------------
(* The synchronisation: one at a time in a process.                        *)

OutsideSync == UNCHANGED <<order, edit, debt, slipped>>

SyncLook(p) ==
    /\ p \in Schedulers /\ sync[p] = "idle"
    /\ Change
    /\ sync' = [sync EXCEPT ![p] = IF doc.here THEN "update" ELSE "create"]
    /\ OutsideSync
    /\ UNCHANGED <<doc, cache, told>>

\* The market rate alone is written, and the entry dropped.
SyncUpdate(p) ==
    /\ sync[p] = "update"
    /\ cache' = [cache EXCEPT ![p] = NoEntry]
    /\ sync' = [sync EXCEPT ![p] = "idle"]
    /\ OutsideSync
    /\ UNCHANGED <<doc, spent, told>>

\* A currency created meanwhile makes the insertion fail, which is collected.
SyncCreate(p) ==
    /\ sync[p] = "create"
    /\ IF doc.here THEN UNCHANGED doc
       ELSE \E rate \in Rates : CreateCurrency(rate, FALSE)
    /\ sync' = [sync EXCEPT ![p] = "idle"]
    /\ OutsideSync
    /\ UNCHANGED <<cache, spent, told>>

\* A process is lost, with its cache and what it was doing.
Restart(p) ==
    /\ Fault
    /\ cache' = [cache EXCEPT ![p] = NoEntry]
    /\ order' = [o \in Orders |-> IF order[o].home = p THEN NoOrder ELSE order[o]]
    /\ edit' = [a \in Admins |-> IF edit[a].home = p THEN NoEdit ELSE edit[a]]
    /\ sync' = [sync EXCEPT ![p] = "idle"]
    /\ slipped' = slipped \cup {"fault"}
    /\ UNCHANGED <<doc, debt, told>>

---------------------------------------------------------------------------
Convert(o) == (\E p \in Processes : Ask(o, p)) \/ Find(o) \/ Fill(o)

Administer(a) ==
    \/ \E p \in Processes : ReadRate(a, p) \/ ReadStatus(a, p)
    \/ SaveRate(a) \/ SetStatus(a) \/ Invalidate(a) \/ FindDebts(a)
    \/ \E u \in Users : Adjust(a, u)
    \/ SaveStatus(a) \/ Create(a)

Next ==
    \/ \E o \in Orders : Convert(o)
    \/ \E a \in Admins : Administer(a)
    \/ \E p \in Processes : SyncLook(p) \/ SyncUpdate(p) \/ SyncCreate(p)
                            \/ Restart(p)
    \/ Tick

\* Time passes.  Nothing else has to go on.
Spec == Init /\ [][Next]_vars /\ WF_vars(Tick)

---------------------------------------------------------------------------
\* Once nobody changes the currency, every process that has it converts at the
\* rate of the document, and none has it when it is disabled: those that were
\* not told, and one that filled its cache with what it had read before, follow
\* when the entry expires, however many conversions use it meanwhile.
RatesTakeEffect ==
    <>[](\A p \in Processes : cache[p].here =>
            cache[p].rate = doc.rate /\ doc.active)

\* The process that made a change converts by it from then on (the converter's
\* cache is invalidated "so the change takes effect for the very next order",
\* currency.service.js:15), unless a conversion that had read the document before
\* filled the cache after the invalidation.
OwnUpdatesApply ==
    \A o \in Orders : order[o].stage = "done" =>
        order[o].asOf >= order[o].since \/ order[o].crossed

\* Where every change of the rate was made with debt adjustment, one after the
\* other and without an error, debts are worth in USD what they were.  A rate that
\* more than doubles leaves them alone (admin.wallet.service.js:479).
DebtsPegged ==
    slipped = {} /\ (\A a \in Admins : edit[a].stage \in {"idle", "status"}) =>
        \A u \in Users : debt[u] > 0 => debt[u] * FirstRate = Debt * doc.rate

===========================================================================
