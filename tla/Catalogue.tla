----------------------------- MODULE Catalogue -----------------------------
(***************************************************************************)
(* One provider's catalogue, its copy in the database, and the products    *)
(* that are sold from it: the synchronisation by cron and by hand, what    *)
(* administrators do to a product meanwhile, and the check of the          *)
(* provider's price when an order is placed.                               *)
(*                                                                         *)
(* Sources: providerProductSync.service.js, syncProvidersJob.js and        *)
(* providerPriceCache.js of src/src/modules/providers, product.service.js  *)
(* and product.model.js of src/src/modules/products,                       *)
(* admin.catalog.controller.js, admin.providers.service.js,                *)
(* order.service.js (the check) and server.js.                             *)
(*                                                                         *)
(* Prices are small numbers: a markup is added (the fixed type; the        *)
(* percentage type is monotone in the same way), and 0 is no price.        *)
(***************************************************************************)
EXTENDS Integers, FiniteSets, Functions

CONSTANTS
    Items,          \* what the provider sells
    NoItem,
    Products,       \* what the platform sells
    Processes,      \* server processes (PM2 cluster)
    Admins,         \* slots for requests of administrators
    Orders,         \* slots for orders being placed
    Markups,        \* markups an administrator chooses
    Adjustments,    \* manualPriceAdjustment, added to or subtracted from a price
    Off,            \* enableManualPrice is off
    Entries,        \* entries of the provider's catalogue: a price, and whether
                    \* the provider gives the item as active
    MaxPrice,       \* bound: prices of the provider
    MaxRequests,    \* bound: requests of administrators, and orders
    MaxEvents       \* bound: changes of the provider's catalogue, failed
                    \* calls and lost processes

ASSUME CatalogueAssumption ==
    /\ NoItem \notin Items
    /\ Markups \subseteq Nat /\ Adjustments \subseteq Int /\ Off \notin Int
    /\ {MaxPrice, MaxRequests, MaxEvents} \subseteq Nat /\ MaxPrice >= 1
    /\ Entries \subseteq [price : 1..MaxPrice, shown : BOOLEAN]
    /\ [price |-> 1, shown |-> TRUE] \in Entries

VARIABLES
    offer,      \* the provider's catalogue
    active,     \* Provider.isActive
    item,       \* provider_products
    product,    \* products
    sync,       \* synchronisations under way
    locks,      \* processes whose _syncLocks holds the provider
    edit,       \* requests of administrators under way
    order,      \* orders being placed
    cache,      \* per process: the prices cached, 0 everywhere: none
    pending,    \* processes that wait for the prices
    draining,   \* processes that shut down
    spent,      \* how much of each bound is used
    \* History: two processes synchronised at once; how sales below a price
    \* that the process had just checked came about.
    overlapped, losses

vars == <<offer, active, item, product, sync, locks, edit, order, cache,
          pending, draining, spent, overlapped, losses>>

---------------------------------------------------------------------------
Prices == 0..MaxPrice
Catalogues == [Items -> Prices]

\* What the provider does not sell has no entry.
Absent == [price |-> 0, shown |-> FALSE]
Menus == [Items -> {Absent} \cup Entries]
EmptyMenu == [i \in Items |-> Absent]
PriceList(menu) == [i \in Items |-> menu[i].price]
Syncs == Processes \X {"cron", "admin"}
Home(s) == s[1]
Nothing == [f \in {} |-> 0]
EmptyCatalogue == [i \in Items |-> 0]

\* A raw product; asOf is history: which catalogue (0: the first) its price is
\* from.  Price 0: no document.
RawProduct == [price : Prices, listed : BOOLEAN, asOf : 0..MaxEvents]

\* A platform product.  hand and mixed are history: the price was set by hand;
\* one of the two prices was saved over a change of them that was not seen.
Product ==
    [here : BOOLEAN, link : Items \cup {NoItem}, mode : {"SYNC", "MANUAL"},
     markup : {0} \cup Markups, adjust : {Off} \cup Adjustments,
     cost : Prices, base : Int,
     active : BOOLEAN, deleted : BOOLEAN, hand : BOOLEAN, mixed : BOOLEAN]

NoProduct ==
    [here |-> FALSE, link |-> NoItem, mode |-> "MANUAL", markup |-> 0,
     adjust |-> Off, cost |-> 0, base |-> 0, active |-> FALSE,
     deleted |-> FALSE, hand |-> FALSE, mixed |-> FALSE]

NoSync == [stage |-> "idle", menu |-> EmptyMenu, asOf |-> 0, todo |-> {},
           wrote |-> {}, at |-> NoItem, targets |-> {}]
NoEdit == [stage |-> "idle", at |-> NoItem, seen |-> NoProduct, w |-> Nothing]
NoOrder == [stage |-> "idle", home |-> NoItem, at |-> NoItem,
            seen |-> NoProduct, live |-> 0]

Synchronisation ==
    [stage : {"idle", "listing", "locked", "fetching", "writing", "pushing",
              "updating"},
     menu : Menus, asOf : 0..MaxEvents, todo : SUBSET Items,
     wrote : SUBSET Items, at : Items \cup {NoItem},
     targets : SUBSET (Products \X ({0} \cup Markups))]

TypeOK ==
    /\ offer \in Menus /\ active \in BOOLEAN
    /\ item \in [Items -> RawProduct]
    /\ product \in [Products -> Product]
    /\ sync \in [Syncs -> Synchronisation] /\ locks \subseteq Processes
    /\ \A a \in Admins : edit[a].stage \in {"idle", "creating", "saving"}
    /\ \A o \in Orders :
        order[o].stage \in {"idle", "checking", "asking", "priced", "repricing"}
    /\ cache \in [Processes -> Catalogues]
    /\ pending \subseteq Processes /\ draining \subseteq Processes
    /\ spent \in [offers : 0..MaxEvents, requests : 0..MaxRequests,
                  faults : 0..MaxEvents]
    /\ overlapped \in BOOLEAN
    /\ losses \subseteq {"hand", "mixed", "plain"}
    \* Relations that the field types leave open.
    /\ \A s \in Syncs :
        /\ sync[s].asOf <= spent.offers
        /\ sync[s].stage \notin {"idle", "listing"} => Home(s) \in locks
        /\ sync[s].stage = "updating" <=> sync[s].targets # {}

Spend(what) == spent' = [spent EXCEPT ![what] = @ + 1]
Eventful == spent.offers + spent.faults < MaxEvents
Faulty == Eventful /\ Spend("faults")

Priced(raw, markup) == raw + markup

\* A product made from item i, whose price is raw.
Published(i, raw, mode, markup) ==
    [NoProduct EXCEPT !.here = TRUE, !.link = i, !.mode = mode,
                      !.markup = markup, !.cost = raw,
                      !.base = Priced(raw, markup), !.active = TRUE]

\* The catalogue was synchronised once, and products may have been published.
Init ==
    /\ offer = [i \in Items |-> [price |-> 1, shown |-> TRUE]]
    /\ active = TRUE
    /\ item = [i \in Items |-> [price |-> 1, listed |-> TRUE, asOf |-> 0]]
    /\ \E links \in [Products -> Items \cup {NoItem}], m \in Markups :
        product = [r \in Products |->
                      IF links[r] = NoItem THEN NoProduct
                      ELSE Published(links[r], 1, "SYNC", m)]
    /\ sync = [s \in Syncs |-> NoSync]
    /\ locks = {}
    /\ edit = [a \in Admins |-> NoEdit]
    /\ order = [o \in Orders |-> NoOrder]
    /\ cache = [p \in Processes |-> EmptyCatalogue]
    /\ pending = {} /\ draining = {}
    /\ spent = [offers |-> 0, requests |-> 0, faults |-> 0]
    /\ overlapped = FALSE /\ losses = {}

---------------------------------------------------------------------------
(* The provider changes a price, adds or drops an item, or switches it off. *)

Offer(i, entry) ==
    /\ Eventful /\ Spend("offers")
    /\ offer[i] # entry
    /\ offer' = [offer EXCEPT ![i] = entry]
    /\ UNCHANGED <<active, item, product, sync, locks, edit, order, cache,
                   pending, draining, overlapped, losses>>

---------------------------------------------------------------------------
(* Synchronisation.                                                        *)

Busy(s) == sync[s].stage \notin {"idle", "listing"}
Going(s, stage) == sync[s].stage = stage
Continue(s, record) == sync' = [sync EXCEPT ![s] = record]
OutsideSync == UNCHANGED <<offer, active, edit, order, cache, pending,
                           draining, losses>>

\* The finally blocks: the lock is released however the synchronisation ends.
\* Mutant: they are dropped.
NotReleased(s) == locks

Released(s) == locks \ {Home(s)}
Finish(s) == Continue(s, NoSync) /\ locks' = Released(s)

\* Mutant: the look without the taking.
NeverLocks(s) == Home(s) \notin locks /\ UNCHANGED locks

\* Mutant: two synchronisations in one process.
TakenOver(s) == locks' = locks \cup {Home(s)}

\* Between the look at the lock and taking it nothing else runs in the process.
Locked(s) == Home(s) \notin locks /\ locks' = locks \cup {Home(s)}

Begin(s) ==
    /\ Locked(s)
    /\ Continue(s, [NoSync EXCEPT !.stage = "locked"])
    /\ overlapped' = (overlapped \/ \E t \in Syncs : Home(t) # Home(s) /\ Busy(t))
    /\ OutsideSync
    /\ UNCHANGED <<item, product, spent>>

\* runOnce: one cycle at a time in a process, and none once cron is stopped.
Tick(s) ==
    /\ s[2] = "cron" /\ Going(s, "idle") /\ Home(s) \notin draining
    /\ Continue(s, [NoSync EXCEPT !.stage = "listing"])
    /\ OutsideSync
    /\ UNCHANGED <<item, product, locks, spent, overlapped>>

\* syncAllProviders asks for the active providers, and collects the error of
\* one that is being synchronised.
Attempt(s) ==
    /\ Going(s, "listing")
    /\ \/ active /\ Begin(s)
       \/ /\ ~active \/ Home(s) \in locks
          /\ Continue(s, NoSync)
          /\ OutsideSync
          /\ UNCHANGED <<item, product, locks, spent, overlapped>>

\* POST /admin/catalog/sync/:providerId.
Trigger(s) ==
    /\ s[2] = "admin" /\ Going(s, "idle") /\ Home(s) \notin draining
    /\ Begin(s)

Load(s) ==
    /\ Going(s, "locked")
    /\ IF active
       THEN Continue(s, [sync[s] EXCEPT !.stage = "fetching"]) /\ UNCHANGED locks
       ELSE Finish(s)
    /\ OutsideSync
    /\ UNCHANGED <<item, product, spent, overlapped>>

OnSale(menu) == {i \in Items : menu[i] # Absent}

Fetch(s) ==
    /\ Going(s, "fetching")
    /\ Continue(s, [sync[s] EXCEPT !.stage = "writing", !.menu = offer,
                                   !.asOf = spent.offers, !.todo = OnSale(offer)])
    /\ OutsideSync
    /\ UNCHANGED <<item, product, locks, spent, overlapped>>

Abandon(s) == Finish(s)

FetchFails(s) ==
    /\ Going(s, "fetching")
    /\ Faulty
    /\ Abandon(s)
    /\ OutsideSync
    /\ UNCHANGED <<item, product, overlapped>>

\* The upserts run side by side; one that fails leaves the others alone.
Upsert(s, i) ==
    /\ Going(s, "writing") /\ i \in sync[s].todo
    /\ item' = [item EXCEPT ![i] = 
                   [price |-> sync[s].menu[i].price,
                    listed |-> sync[s].menu[i].shown, asOf |-> sync[s].asOf]]
    /\ Continue(s, [sync[s] EXCEPT !.todo = @ \ {i}, !.wrote = @ \cup {i}])
    /\ OutsideSync
    /\ UNCHANGED <<product, locks, spent, overlapped>>

UpsertFails(s, i) ==
    /\ Going(s, "writing") /\ i \in sync[s].todo
    /\ Faulty
    /\ Continue(s, [sync[s] EXCEPT !.todo = @ \ {i}])
    /\ OutsideSync
    /\ UNCHANGED <<item, product, locks, overlapped>>

\* What is not in the response, or failed to be written, is no longer listed;
\* an empty response changes nothing.
Swept(s) ==
    IF OnSale(sync[s].menu) = {} THEN item
    ELSE [i \in Items |-> IF i \in sync[s].wrote THEN item[i]
                          ELSE [item[i] EXCEPT !.listed = FALSE]]

Sweep(s) ==
    /\ Going(s, "writing") /\ sync[s].todo = {}
    /\ \/ item' = Swept(s) /\ UNCHANGED spent
       \/ Faulty /\ UNCHANGED item
    /\ Continue(s, [sync[s] EXCEPT !.stage = "pushing", !.todo = sync[s].wrote])
    /\ OutsideSync
    /\ UNCHANGED <<product, locks, overlapped>>

Followers(i) ==
    {r \in Products : product[r].here /\ product[r].link = i
                      /\ product[r].mode = "SYNC"}

\* The products to update are read with their markups ...
Look(s, i) ==
    /\ Going(s, "pushing") /\ i \in sync[s].todo
    /\ Continue(s, [sync[s] EXCEPT
           !.stage = IF Followers(i) = {} THEN "pushing" ELSE "updating",
           !.at = i, !.todo = @ \ {i},
           !.targets = {<<r, product[r].markup>> : r \in Followers(i)}])
    /\ OutsideSync
    /\ UNCHANGED <<item, product, locks, spent, overlapped>>

\* Mutant: the price customers pay is forgotten.
OnlyCost(d, raw, markup) == [d EXCEPT !.cost = raw]

\* The price of the provider, and with the markup the one customers pay.
Repriced(d, raw, markup) ==
    [d EXCEPT !.cost = raw, !.base = Priced(raw, markup),
              !.hand = FALSE, !.mixed = FALSE]

\* ... and updated one by one; an error ends the updates of this item.
Update(s, t) ==
    /\ Going(s, "updating") /\ t \in sync[s].targets
    /\ \/ /\ product' = [product EXCEPT ![t[1]] =
                             Repriced(@, sync[s].menu[sync[s].at].price, t[2])]
          /\ Continue(s, [sync[s] EXCEPT
                 !.stage = IF sync[s].targets = {t} THEN "pushing" ELSE "updating",
                 !.targets = @ \ {t}])
          /\ UNCHANGED spent
       \/ /\ Faulty
          /\ Continue(s, [sync[s] EXCEPT !.stage = "pushing", !.targets = {}])
          /\ UNCHANGED product
    /\ OutsideSync
    /\ UNCHANGED <<item, locks, overlapped>>

End(s) ==
    /\ Going(s, "pushing") /\ sync[s].todo = {}
    /\ Finish(s)
    /\ OutsideSync
    /\ UNCHANGED <<item, product, spent, overlapped>>

---------------------------------------------------------------------------
(* Administrators.  A handler reads the product with the raw product it is *)
(* linked to, and saves; Mongoose writes the paths whose values changed.   *)

Over(w, d) == [f \in DOMAIN d |-> IF f \in DOMAIN w THEN w[f] ELSE d[f]]
And(w, v) == [f \in DOMAIN w \cup DOMAIN v |-> IF f \in DOMAIN w THEN w[f] ELSE v[f]]
Asked(u, f, otherwise) == IF f \in DOMAIN u THEN u[f] ELSE otherwise

\* What an update may ask for.  flag is syncPriceWithProvider.
Payloads ==
    [{"base"} -> 1..MaxPrice]
    \cup [{"markup"} -> {0} \cup Markups]
    \cup [{"mode"} -> {"SYNC", "MANUAL"}] \cup [{"flag"} -> {"SYNC", "MANUAL"}]
    \cup [{"adjust"} -> {Off} \cup Adjustments]

\* An adjustment below zero, by which an administrator sells below the cost.
Lowers(adjust) == adjust # Off /\ adjust < 0

\* updateProduct, for a product d that stays linked as it is.  The flag turns
\* the mode after the prices are computed.
Updated(d, u) ==
    LET raw == IF d.link = NoItem THEN 0 ELSE item[d.link].price
        mode == Asked(u, "mode", d.mode)
        markup == Asked(u, "markup", d.markup)
        adjust == Asked(u, "adjust", d.adjust)
        recompute == \/ "markup" \in DOMAIN u
                     \/ mode = "SYNC" /\ mode # d.mode
        prices == CASE d.link # NoItem /\ adjust # Off ->
                            [cost |-> raw, base |-> raw + adjust,
                             hand |-> Lowers(adjust)]
                    [] d.link # NoItem /\ adjust = Off /\ recompute ->
                            [cost |-> raw, base |-> Priced(raw, markup),
                             hand |-> FALSE]
                    [] OTHER -> [f \in DOMAIN u \cap {"base"} |-> u[f]]
        turned == [f \in {"mode"} |-> Asked(u, "flag", mode)]
        byHand == [f \in {"hand"} |-> "base" \in DOMAIN u \/ d.hand]
    IN  And(prices, And(turned, And(Restrict(u, DOMAIN u \ {"flag", "base"}), byHand)))

\* updateProduct with another providerProduct: in either mode, the prices of the
\* new item replace what was asked for and what an adjustment made of the old.
Relinked(d, i) ==
    [link |-> i, cost |-> item[i].price,
     base |-> Priced(item[i].price, d.markup), hand |-> FALSE]

\* linkProductProvider asks for the link and the mode.
Linked(d, i) ==
    IF d.link = i THEN Updated(d, [mode |-> "SYNC"])
    ELSE And([mode |-> "SYNC"], Relinked(d, i))

\* syncProductPriceFromProvider.
Resynced(d) ==
    LET raw == item[d.link].price
        more == IF d.adjust = Off THEN d.markup ELSE d.adjust
    IN  [cost |-> raw, base |-> Priced(raw, more), mode |-> "SYNC",
         hand |-> Lowers(d.adjust)]

Sellable(i) == i \in Items /\ item[i].price > 0 /\ item[i].listed /\ active

Request(a) ==
    /\ edit[a].stage = "idle"
    /\ spent.requests < MaxRequests /\ Spend("requests")
OutsideEdit == UNCHANGED <<offer, item, sync, locks, order, cache, pending,
                           draining, overlapped, losses>>

Edit(a, r, w) ==
    /\ edit' = [edit EXCEPT ![a] = [stage |-> "saving", at |-> r,
                                    seen |-> product[r], w |-> w]]
    /\ UNCHANGED <<active, product>>
    /\ OutsideEdit

UpdateProduct(a, r) ==
    /\ Request(a) /\ product[r].here
    /\ \/ \E u \in Payloads : Edit(a, r, Updated(product[r], u))
       \/ \E i \in Items \ {product[r].link} : Edit(a, r, Relinked(product[r], i))

LinkProductProvider(a, r) ==
    /\ Request(a) /\ product[r].here
    /\ \E i \in Items : Sellable(i) /\ Edit(a, r, Linked(product[r], i))

SyncProductPrice(a, r) ==
    /\ Request(a) /\ product[r].here
    /\ Sellable(product[r].link)
    /\ Edit(a, r, Resynced(product[r]))

ToggleProduct(a, r) ==
    /\ Request(a) /\ product[r].here
    /\ Edit(a, r, [active |-> ~product[r].active])

DeleteProduct(a, r) ==
    /\ Request(a) /\ product[r].here /\ ~product[r].deleted
    /\ Edit(a, r, [active |-> FALSE, deleted |-> TRUE])

\* Manual mode without a markup: the administrator's own price.
OwnPrice(i) ==
    [Published(i, item[i].price, "MANUAL", 0) EXCEPT !.base = 1, !.hand = TRUE]

\* publishFromProviderProduct wants an active provider and item, and no product of
\* the item; createProduct takes any item, or none.
Publishable(i) == Sellable(i) /\ \A q \in Products : product[q].link # i

Marked == {"SYNC"} \X Markups \cup {"MANUAL"} \X (Markups \ {0})

NewProducts ==
    {Published(i, item[i].price, mode, m) :
        i \in {j \in Items : Publishable(j)}, mode \in {"SYNC", "MANUAL"},
        m \in Markups}
    \cup {Published(i, item[i].price, x[1], x[2]) : i \in Items, x \in Marked}
    \cup {OwnPrice(i) : i \in Items}
    \cup {[NoProduct EXCEPT !.here = TRUE, !.base = 1, !.hand = TRUE,
                            !.active = TRUE]}

Create(a, r) ==
    /\ Request(a) /\ ~product[r].here
    /\ \E new \in NewProducts :
           edit' = [edit EXCEPT ![a] = [stage |-> "creating", at |-> r,
                                        seen |-> NoProduct, w |-> new]]
    /\ UNCHANGED <<active, product>>
    /\ OutsideEdit

Insert(a) ==
    /\ edit[a].stage = "creating" /\ ~product[edit[a].at].here
    /\ product' = [product EXCEPT ![edit[a].at] = edit[a].w]
    /\ edit' = [edit EXCEPT ![a] = NoEdit]
    /\ UNCHANGED <<active, spent>>
    /\ OutsideEdit

\* Paths whose values differ from the ones read.
Modified(a) ==
    LET w == edit[a].w
    IN  Restrict(w, {f \in DOMAIN w : w[f] # edit[a].seen[f]})

PriceFields == {"cost", "base"}

SetsPrices(a) == DOMAIN edit[a].w \cap PriceFields # {}

Mixes(a) ==
    LET d == product[edit[a].at]
    IN  SetsPrices(a) /\ \E f \in PriceFields : d[f] # edit[a].seen[f]

\* By hand is what the last save that set prices did, even if it wrote the price
\* that had been read.
ByHand(a) == IF SetsPrices(a) THEN edit[a].w.hand ELSE product[edit[a].at].hand

Save(a) ==
    /\ edit[a].stage = "saving"
    /\ LET r == edit[a].at
           d == Over(Modified(a), product[r])
       IN  product' = [product EXCEPT ![r] =
              [d EXCEPT !.hand = ByHand(a), !.mixed = @ \/ Mixes(a)]]
    /\ edit' = [edit EXCEPT ![a] = NoEdit]
    /\ UNCHANGED <<active, spent>>
    /\ OutsideEdit

\* toggleProvider and the isActive of updateProvider.
ToggleProvider ==
    /\ spent.requests < MaxRequests /\ Spend("requests")
    /\ active' = ~active
    /\ UNCHANGED <<product, edit>>
    /\ OutsideEdit

---------------------------------------------------------------------------
(* Placing an order: the provider's price is asked for, or taken from the  *)
(* cache of the process; the product was read before.                      *)

OutsideOrder == UNCHANGED <<offer, active, item, sync, locks, edit, overlapped>>
Advance(o, record) == order' = [order EXCEPT ![o] = record]

\* The sale of product d, when the price is live (0: not known).  An order whose
\* price is not above zero is refused.
Loss(d, live) ==
    IF d.base <= 0 \/ d.base >= live THEN {}
    ELSE IF d.hand THEN {"hand"} ELSE IF d.mixed THEN {"mixed"} ELSE {"plain"}
Sold(o, d, live) == losses' = losses \cup Loss(d, live) /\ Advance(o, NoOrder)

\* createOrder reads the product; without a provider there is nothing to check.
Place(o, p, r) ==
    /\ order[o].stage = "idle" /\ p \notin draining
    /\ spent.requests < MaxRequests /\ Spend("requests")
    /\ product[r].here /\ product[r].active
    /\ IF product[r].link # NoItem /\ active
       THEN /\ Advance(o, [stage |-> "checking", home |-> p, at |-> r,
                           seen |-> product[r], live |-> 0])
            /\ UNCHANGED losses
       ELSE Sold(o, product[r], 0)
    /\ OutsideOrder /\ UNCHANGED <<product, cache, pending, draining>>

\* getLivePrice: a hit, or the fetch that every order of the process waits for.
GetLivePrice(o) ==
    LET p == order[o].home
    IN  /\ order[o].stage = "checking"
        /\ IF cache[p] # EmptyCatalogue
           THEN /\ Advance(o, [order[o] EXCEPT !.stage = "priced",
                                   !.live = cache[p][order[o].seen.link]])
                /\ UNCHANGED pending
           ELSE /\ Advance(o, [order[o] EXCEPT !.stage = "asking"])
                /\ pending' = pending \cup {p}
        /\ OutsideOrder
        /\ UNCHANGED <<product, cache, draining, spent, losses>>

Answered(p, menu) ==
    [o \in Orders |->
        IF order[o].stage = "asking" /\ order[o].home = p
        THEN [order[o] EXCEPT !.stage = "priced", !.live = menu[order[o].seen.link]]
        ELSE order[o]]

PricesArrive(p) ==
    /\ p \in pending
    /\ pending' = pending \ {p}
    /\ cache' = [cache EXCEPT ![p] = PriceList(offer)]
    /\ order' = Answered(p, PriceList(offer))
    /\ OutsideOrder /\ UNCHANGED <<product, draining, spent, losses>>

\* The orders go on without the price.  The promise of finally() is rejected
\* with no handler: the process shuts down.
PricesFail(p) ==
    /\ p \in pending /\ Faulty
    /\ pending' = pending \ {p}
    /\ order' = Answered(p, EmptyCatalogue)
    /\ draining' = draining \cup {p}
    /\ OutsideOrder /\ UNCHANGED <<product, cache, losses>>

\* Mutant: the comparison is dropped.
NeverRaised(o) == FALSE

Raised(o) == order[o].seen.cost > 0 /\ order[o].live > order[o].seen.cost

\* The order is refused when the price rose, and the product repriced.
Decide(o) ==
    /\ order[o].stage = "priced"
    /\ IF Raised(o)
       THEN /\ Advance(o, [order[o] EXCEPT !.stage = "repricing"])
            /\ cache' = [cache EXCEPT ![order[o].home] = EmptyCatalogue]
            /\ UNCHANGED losses
       ELSE Sold(o, order[o].seen, order[o].live) /\ UNCHANGED cache
    /\ OutsideOrder /\ UNCHANGED <<product, pending, draining, spent>>

\* _autoUpdateProductPrice, which nobody waits for.
AutoUpdate(o) ==
    /\ order[o].stage = "repricing"
    /\ product' = [product EXCEPT ![order[o].at] =
                      Repriced(@, order[o].live, order[o].seen.markup)]
    /\ Advance(o, NoOrder)
    /\ OutsideOrder /\ UNCHANGED <<cache, pending, draining, spent, losses>>

\* Five minutes pass.
Expire(p) ==
    /\ cache[p] # EmptyCatalogue
    /\ cache' = [cache EXCEPT ![p] = EmptyCatalogue]
    /\ OutsideOrder /\ UNCHANGED <<product, order, pending, draining, spent, losses>>

\* A process that shut down, or is lost, is started again by PM2.
Restart(p) ==
    /\ \/ p \in draining /\ UNCHANGED spent
       \/ p \notin draining /\ Faulty
    /\ sync' = [s \in Syncs |-> IF Home(s) = p THEN NoSync ELSE sync[s]]
    /\ locks' = locks \ {p}
    /\ order' = [o \in Orders |-> IF order[o].home = p THEN NoOrder ELSE order[o]]
    /\ cache' = [cache EXCEPT ![p] = EmptyCatalogue]
    /\ pending' = pending \ {p} /\ draining' = draining \ {p}
    /\ UNCHANGED <<offer, active, item, product, edit, overlapped, losses>>

---------------------------------------------------------------------------
Progress(s) ==
    \/ Attempt(s) \/ Load(s) \/ Fetch(s)
    \/ \E i \in Items : Upsert(s, i) \/ Look(s, i)
    \/ Sweep(s)
    \/ \E t \in sync[s].targets : Update(s, t)
    \/ End(s)

Synchronise(s) ==
    \/ Tick(s) \/ Trigger(s) \/ Progress(s)
    \/ FetchFails(s) \/ \E i \in Items : UpsertFails(s, i)

Administer(a, r) ==
    \/ UpdateProduct(a, r) \/ LinkProductProvider(a, r) \/ SyncProductPrice(a, r)
    \/ ToggleProduct(a, r) \/ DeleteProduct(a, r) \/ Create(a, r)

Next ==
    \/ \E i \in Items, entry \in {Absent} \cup Entries : Offer(i, entry)
    \/ \E s \in Syncs : Synchronise(s)
    \/ \E a \in Admins :
        \/ \E r \in Products : Administer(a, r)
        \/ Insert(a) \/ Save(a)
    \/ ToggleProvider
    \/ \E o \in Orders :
        \/ \E p \in Processes, r \in Products : Place(o, p, r)
        \/ GetLivePrice(o) \/ Decide(o) \/ AutoUpdate(o)
    \/ \E p \in Processes :
        PricesArrive(p) \/ PricesFail(p) \/ Expire(p) \/ Restart(p)

\* Cron ticks for ever, what a synchronisation awaits ends, and PM2 restarts a
\* process that shut down.  Administrators and orders may stop half-way.
Fairness ==
    /\ \A s \in Syncs : WF_vars(Tick(s)) /\ WF_vars(Progress(s))
    /\ \A p \in Processes : WF_vars(p \in draining /\ Restart(p))

Spec == Init /\ [][Next]_vars /\ Fairness

---------------------------------------------------------------------------
\* The copy of an item's price is never replaced by an older one: not by a cron
\* cycle that crosses a synchronisation by hand, and not after an error left the
\* lock - unless two server processes synchronised at once, which the lock of
\* providerProductSync.service.js does not see.
RawNeverGoesBack ==
    [][overlapped' \/ \A i \in Items : item'[i].asOf >= item[i].asOf]_vars

\* An order that is placed after the provider's price was checked is not charged
\* at a base price below it, unless an administrator chose that price - as a base
\* price, or by a manualPriceAdjustment below zero, which product.model.js:255
\* allows - or saved a product over a change of its prices (order.service.js:263).
SoldAboveCost == "plain" \notin losses

\* Once the provider leaves its catalogue alone, the copy shows it: every entry
\* at its price, listed if and only if it is there and the provider gives it as
\* active, whatever failed on the way.
CatalogueFollows ==
    <>[](active /\ OnSale(offer) # {} =>
            \A i \in Items :
                /\ item[i].listed = offer[i].shown
                /\ offer[i] # Absent => item[i].price = offer[i].price)

\* And the price of every product in sync mode is the provider's with the
\* product's markup, whatever administrators and refused orders wrote meanwhile.
PricesFollow ==
    <>[](active => \A i \in Items : \A r \in Followers(i) :
            offer[i] # Absent =>
                product[r].base = Priced(offer[i].price, product[r].markup))

===========================================================================
