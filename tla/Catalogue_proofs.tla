-------------------------- MODULE Catalogue_proofs --------------------------
(***************************************************************************)
(* Catalogue for every number of items, processes and requests.            *)
(*                                                                         *)
(* CopyInv says what the lock achieves: one synchronisation in a process,  *)
(* and one in all while no two processes overlapped, so that the catalogue *)
(* being written is at least as new as every copy (RawNeverGoesBack).      *)
(*                                                                         *)
(* SaleInv says what every writer of a price leaves behind: a product sold *)
(* at its cost or more, unless by hand or mixed (an adjustment below zero  *)
(* counts as by hand); what a synchronisation, a save or a refused order   *)
(* still holds is of that kind too, so that the product an order read is   *)
(* never below the price it was checked against (SoldAboveCost).  The      *)
(* types follow from it (TypeOK).                                          *)
(***************************************************************************)
EXTENDS Catalogue, TLAPS

\* Records with their fields, of which the proof uses few.
IsSync(x) ==
    /\ x = [stage |-> x.stage, menu |-> x.menu, asOf |-> x.asOf, todo |-> x.todo,
            wrote |-> x.wrote, at |-> x.at, targets |-> x.targets]
    /\ x.asOf \in Nat

IsRaw(x) == /\ x = [price |-> x.price, listed |-> x.listed, asOf |-> x.asOf]
            /\ x.asOf \in Nat

Shapes ==
    /\ sync = [s \in Syncs |-> sync[s]] /\ \A s \in Syncs : IsSync(sync[s])
    /\ item = [i \in Items |-> item[i]] /\ \A i \in Items : IsRaw(item[i])
    /\ spent \in [offers : Nat, requests : Nat, faults : Nat]
    /\ overlapped \in BOOLEAN

\* One synchronisation holds the lock of a process, and one runs at all unless two
\* processes overlapped.
LockInv ==
    /\ \A s \in Syncs : Busy(s) => Home(s) \in locks
    /\ \A s, t \in Syncs : Busy(s) /\ Busy(t) =>
         s = t \/ (overlapped /\ Home(s) # Home(t))

\* Nothing is newer than the provider's catalogue, and no copy newer than what is
\* being written.
FreshInv ==
    /\ \A i \in Items : item[i].asOf <= spent.offers
    /\ \A s \in Syncs : sync[s].asOf <= spent.offers
    /\ ~overlapped =>
         \A s \in Syncs, i \in Items :
            Going(s, "writing") => item[i].asOf <= sync[s].asOf

CopyInv == Shapes /\ LockInv /\ FreshInv

\* No copy becomes older.
Forward == overlapped' \/ \A i \in Items : item'[i].asOf >= item[i].asOf

\* The initial states satisfy the invariant.
LEMMA CopyInit ==
    ASSUME Init
    PROVE  CopyInv
<1>1. IsSync(NoSync) /\ NoSync.asOf = 0 /\ NoSync.stage = "idle"
  BY DEF NoSync, IsSync
<1>2. /\ sync = [s \in Syncs |-> NoSync]
      /\ item = [i \in Items |-> [price |-> 1, listed |-> TRUE, asOf |-> 0]]
      /\ spent = [offers |-> 0, requests |-> 0, faults |-> 0]
      /\ overlapped = FALSE
  BY DEF Init
<1>3. Shapes
  BY <1>1, <1>2 DEF Shapes, IsRaw
<1> QED
  BY <1>1, <1>2, <1>3 DEF CopyInv, LockInv, FreshInv, Busy, Going

\* Continuing is a matter of one synchronisation.
LEMMA ContinueFrame ==
    ASSUME Shapes, NEW s \in Syncs, NEW record, Continue(s, record)
    PROVE  /\ sync' = [t \in Syncs |-> sync'[t]]
           /\ sync'[s] = record
           /\ \A t \in Syncs \ {s} : sync'[t] = sync[t]
BY DEF Shapes, Continue

\* An error or a request counts as one, and changes no catalogue.
LEMMA SpendFrame ==
    ASSUME Shapes, NEW what \in {"requests", "faults"},
           UNCHANGED spent \/ Spend(what)
    PROVE  /\ spent' \in [offers : Nat, requests : Nat, faults : Nat]
           /\ spent'.offers = spent.offers
BY DEF Shapes, Spend

\* A step of a synchronisation that keeps its lock, or goes on without one.
LEMMA Goes ==
    ASSUME CopyInv, NEW s \in Syncs, NEW record, Continue(s, record),
           IsSync(record), record.asOf <= spent.offers,
           Busy(s) <=> record.stage \notin {"idle", "listing"},
           ~overlapped /\ record.stage = "writing" =>
                \A i \in Items : item'[i].asOf <= record.asOf,
           \/ UNCHANGED item
           \/ /\ Busy(s)
              /\ item' = [i \in Items |-> item'[i]]
              /\ \A i \in Items : IsRaw(item'[i]) /\ item'[i].asOf <= spent.offers,
           UNCHANGED spent \/ Spend("faults"),
           UNCHANGED <<locks, overlapped>>
    PROVE  CopyInv'
<1>1. /\ sync' = [t \in Syncs |-> sync'[t]] /\ sync'[s] = record
      /\ \A t \in Syncs \ {s} : sync'[t] = sync[t]
  BY ContinueFrame DEF CopyInv
<1>2. /\ spent' \in [offers : Nat, requests : Nat, faults : Nat]
      /\ spent'.offers = spent.offers
  BY SpendFrame DEF CopyInv
<1>3. Shapes'
  BY <1>1, <1>2 DEF CopyInv, Shapes
<1>4. \A t \in Syncs : Busy(t)' <=> Busy(t)
  BY <1>1 DEF Busy
<1>5. LockInv'
  BY <1>4 DEF CopyInv, LockInv
<1>6. FreshInv'
  <2>1. \A i \in Items : item'[i].asOf <= spent'.offers
    BY <1>2 DEF CopyInv, FreshInv
  <2>2. \A t \in Syncs : sync'[t].asOf <= spent'.offers
    BY <1>1, <1>2 DEF CopyInv, FreshInv
  <2>3. ASSUME ~overlapped', NEW t \in Syncs, NEW i \in Items, Going(t, "writing")'
        PROVE  item'[i].asOf <= sync'[t].asOf
    <3>1. CASE t = s
      BY <1>1, <2>3, <3>1 DEF Going
    <3>2. CASE t # s
      <4>1. sync'[t] = sync[t] /\ Going(t, "writing") /\ Busy(t)
        BY <1>1, <2>3, <3>2 DEF Going, Busy
      <4>2. ~Busy(s)
        BY <2>3, <3>2, <4>1 DEF CopyInv, LockInv
      <4> QED
        BY <2>3, <4>1, <4>2 DEF CopyInv, FreshInv
    <3> QED
      BY <3>1, <3>2
  <2> QED
    BY <2>1, <2>2, <2>3 DEF FreshInv
<1> QED
  BY <1>3, <1>5, <1>6 DEF CopyInv

\* The start of a synchronisation.
LEMMA Begins ==
    ASSUME CopyInv, NEW s \in Syncs, Begin(s)
    PROVE  CopyInv' /\ UNCHANGED item
<1> DEFINE record == [NoSync EXCEPT !.stage = "locked"]
<1>1. /\ sync' = [t \in Syncs |-> sync'[t]] /\ sync'[s] = record
      /\ \A t \in Syncs \ {s} : sync'[t] = sync[t]
  BY ContinueFrame DEF CopyInv, Begin
<1>2. /\ Home(s) \notin locks /\ locks' = locks \cup {Home(s)}
      /\ overlapped' = (overlapped \/ \E t \in Syncs : Home(t) # Home(s) /\ Busy(t))
      /\ UNCHANGED <<item, spent>>
  BY DEF Begin, Locked
<1>3. IsSync(record) /\ record.asOf = 0 /\ record.stage = "locked"
  BY DEF NoSync, IsSync
<1> HIDE DEF record
<1>4. overlapped' \in BOOLEAN
  BY <1>2, Zenon
<1>5. Shapes'
  BY <1>1, <1>2, <1>3, <1>4 DEF CopyInv, Shapes
<1>6. LockInv'
  <2>1. \A t \in Syncs : Busy(t) => Home(t) # Home(s) /\ overlapped'
    BY <1>2 DEF CopyInv, LockInv
  <2>2. overlapped => overlapped'
    BY <1>2
  <2>3. \A t \in Syncs \ {s} : Busy(t)' <=> Busy(t)
    BY <1>1 DEF Busy
  <2>4. \A t \in Syncs : Busy(t)' => Home(t) \in locks'
    BY <1>2, <2>3 DEF CopyInv, LockInv
  <2>5. \A t, u \in Syncs : Busy(t)' /\ Busy(u)' =>
          t = u \/ (overlapped' /\ Home(t) # Home(u))
    BY <2>1, <2>2, <2>3 DEF CopyInv, LockInv
  <2> QED
    BY <2>4, <2>5 DEF LockInv
<1>7. FreshInv'
  <2>1. overlapped => overlapped'
    BY <1>2
  <2>2. spent.offers \in Nat
    BY DEF CopyInv, Shapes
  <2> QED
    BY <1>1, <1>2, <1>3, <2>1, <2>2 DEF CopyInv, FreshInv, Going
<1> QED
  BY <1>2, <1>5, <1>6, <1>7 DEF CopyInv

\* The end of one, with or without an error.
LEMMA Ends ==
    ASSUME CopyInv, NEW s \in Syncs, Busy(s), Finish(s),
           UNCHANGED spent \/ Spend("faults"),
           UNCHANGED <<item, overlapped>>
    PROVE  CopyInv'
<1>1. /\ sync' = [t \in Syncs |-> sync'[t]] /\ sync'[s] = NoSync
      /\ \A t \in Syncs \ {s} : sync'[t] = sync[t]
  BY ContinueFrame DEF CopyInv, Finish
<1>2. /\ spent' \in [offers : Nat, requests : Nat, faults : Nat]
      /\ spent'.offers = spent.offers
  BY SpendFrame DEF CopyInv
<1>3. IsSync(NoSync) /\ NoSync.asOf = 0 /\ NoSync.stage = "idle"
  BY DEF NoSync, IsSync
<1>4. Shapes'
  BY <1>1, <1>2, <1>3 DEF CopyInv, Shapes
<1>5. LockInv'
  <2>1. locks' = locks \ {Home(s)}
    BY DEF Finish, Released
  <2>2. ~Busy(s)' /\ \A t \in Syncs \ {s} : Busy(t)' <=> Busy(t)
    BY <1>1, <1>3 DEF Busy
  <2>3. \A t \in Syncs : Busy(t)' => Busy(t) /\ Home(t) # Home(s)
    BY <2>2 DEF CopyInv, LockInv
  <2> QED
    BY <2>1, <2>3 DEF CopyInv, LockInv
<1>6. FreshInv'
  BY <1>1, <1>2, <1>3 DEF CopyInv, FreshInv, Shapes, Going
<1> QED
  BY <1>4, <1>5, <1>6 DEF CopyInv

\* What goes on beside the synchronisations does not disturb them.
LEMMA Beside ==
    ASSUME CopyInv, UNCHANGED <<sync, locks, item, overlapped>>,
           UNCHANGED spent \/ Spend("requests") \/ Spend("faults") \/ Spend("offers")
    PROVE  CopyInv'
<1>1. /\ spent' \in [offers : Nat, requests : Nat, faults : Nat]
      /\ spent'.offers >= spent.offers
  BY DEF CopyInv, Shapes, Spend
<1>2. Shapes' /\ LockInv'
  BY <1>1 DEF CopyInv, Shapes, LockInv, Busy
<1>3. FreshInv'
  <2>1. spent.offers \in Nat /\ spent'.offers \in Nat
    BY <1>1 DEF CopyInv, Shapes
  <2>2. /\ \A i \in Items : item[i].asOf \in Nat
        /\ \A s \in Syncs : sync[s].asOf \in Nat
    BY DEF CopyInv, Shapes, IsSync, IsRaw
  <2> QED
    BY <1>1, <2>1, <2>2 DEF CopyInv, FreshInv, Going
<1> QED
  BY <1>2, <1>3 DEF CopyInv

\* A process that starts again has no synchronisation and no lock.
LEMMA Restarts ==
    ASSUME CopyInv, NEW p \in Processes, Restart(p)
    PROVE  CopyInv'
<1>1. /\ sync' = [s \in Syncs |-> IF Home(s) = p THEN NoSync ELSE sync[s]]
      /\ locks' = locks \ {p} /\ UNCHANGED <<item, overlapped>>
      /\ spent' \in [offers : Nat, requests : Nat, faults : Nat]
      /\ spent'.offers = spent.offers
  BY SpendFrame DEF Restart, Faulty, CopyInv
<1>2. IsSync(NoSync) /\ NoSync.asOf = 0 /\ NoSync.stage = "idle"
  BY DEF NoSync, IsSync
<1>3. Shapes'
  BY <1>1, <1>2 DEF CopyInv, Shapes
<1>4. LockInv'
  <2>1. \A s \in Syncs : Busy(s)' => Busy(s) /\ Home(s) # p
    BY <1>1, <1>2 DEF Busy
  <2> QED
    BY <1>1, <2>1 DEF CopyInv, LockInv
<1>5. FreshInv'
  BY <1>1, <1>2 DEF CopyInv, FreshInv, Shapes, Going
<1> QED
  BY <1>3, <1>4, <1>5 DEF CopyInv

\* Writing a copy replaces none that is newer.
LEMMA Upserts ==
    ASSUME CopyInv, NEW s \in Syncs, NEW i \in Items, Upsert(s, i)
    PROVE  CopyInv' /\ Forward
<1> DEFINE record == [sync[s] EXCEPT !.todo = @ \ {i}, !.wrote = @ \cup {i}]
           raw == [price |-> sync[s].menu[i].price,
                   listed |-> sync[s].menu[i].shown, asOf |-> sync[s].asOf]
<1>1. /\ Going(s, "writing") /\ Continue(s, record)
      /\ item' = [item EXCEPT ![i] = raw]
      /\ UNCHANGED <<locks, spent, overlapped>>
  BY DEF Upsert
<1>2. IsSync(sync[s]) /\ sync[s].asOf <= spent.offers /\ Busy(s)
  BY <1>1 DEF CopyInv, Shapes, FreshInv, Busy, Going
<1>3. IsSync(record) /\ record.asOf = sync[s].asOf /\ record.stage = "writing"
  <2> DEFINE x == [sync[s] EXCEPT !.todo = @ \ {i}]
  <2>1. IsSync(x) /\ x.asOf = sync[s].asOf /\ x.stage = sync[s].stage
    BY <1>2 DEF IsSync
  <2>2. record = [x EXCEPT !.wrote = sync[s].wrote \cup {i}]
    BY <1>2 DEF IsSync
  <2> HIDE DEF x, record
  <2> QED
    BY <1>1, <2>1, <2>2 DEF IsSync, Going
<1>4. IsRaw(raw) /\ raw.asOf = sync[s].asOf
  BY <1>2 DEF IsRaw, IsSync
<1> HIDE DEF record, raw
<1>5. /\ item' = [j \in Items |-> item'[j]] /\ item'[i] = raw
      /\ \A j \in Items \ {i} : item'[j] = item[j]
  BY <1>1 DEF CopyInv, Shapes
<1>6. ~overlapped => \A j \in Items : /\ item'[j].asOf <= record.asOf
                                       /\ item'[j].asOf >= item[j].asOf
  <2>1. \A j \in Items : item[j].asOf \in Nat
    BY DEF CopyInv, Shapes, IsRaw
  <2>2. sync[s].asOf \in Nat
    BY <1>2 DEF IsSync
  <2> QED
    BY <1>1, <1>3, <1>4, <1>5, <2>1, <2>2 DEF CopyInv, FreshInv
<1>7. \A j \in Items : IsRaw(item'[j]) /\ item'[j].asOf <= spent.offers
  BY <1>2, <1>4, <1>5 DEF CopyInv, Shapes, FreshInv
<1>8. CopyInv'
  BY <1>1, <1>2, <1>3, <1>5, <1>6, <1>7, Goes
<1> QED
  BY <1>1, <1>6, <1>8 DEF Forward

\* Taking copies off the list leaves their age.
LEMMA Sweeps ==
    ASSUME CopyInv, NEW s \in Syncs, Sweep(s)
    PROVE  CopyInv' /\ Forward
<1> DEFINE record == [sync[s] EXCEPT !.stage = "pushing", !.todo = sync[s].wrote]
<1>1. /\ Going(s, "writing") /\ Continue(s, record)
      /\ item' = Swept(s) \/ UNCHANGED item
      /\ UNCHANGED spent \/ Spend("faults")
      /\ UNCHANGED <<locks, overlapped>>
  BY DEF Sweep, Faulty
<1>2. IsSync(sync[s]) /\ sync[s].asOf <= spent.offers /\ Busy(s)
  BY <1>1 DEF CopyInv, Shapes, FreshInv, Busy, Going
<1>3. IsSync(record) /\ record.asOf = sync[s].asOf /\ record.stage = "pushing"
  <2> DEFINE x == [sync[s] EXCEPT !.stage = "pushing"]
  <2>1. IsSync(x) /\ x.asOf = sync[s].asOf /\ x.stage = "pushing"
    BY <1>2 DEF IsSync
  <2>2. record = [x EXCEPT !.todo = sync[s].wrote]
    BY <1>2 DEF IsSync
  <2> HIDE DEF x, record
  <2> QED
    BY <2>1, <2>2 DEF IsSync
<1> HIDE DEF record
<1>4. /\ item' = [j \in Items |-> item'[j]]
      /\ \A j \in Items : IsRaw(item'[j]) /\ item'[j].asOf = item[j].asOf
  <2>1. CASE item' = item
    BY <2>1 DEF CopyInv, Shapes
  <2>2. CASE item' = [j \in Items |-> IF j \in sync[s].wrote THEN item[j]
                                      ELSE [item[j] EXCEPT !.listed = FALSE]]
    <3>1. ASSUME NEW x, IsRaw(x)
          PROVE  /\ IsRaw([x EXCEPT !.listed = FALSE])
                 /\ [x EXCEPT !.listed = FALSE].asOf = x.asOf
      <4>1. PICK no : no = FALSE
        OBVIOUS
      <4>2. /\ IsRaw([x EXCEPT !.listed = no])
            /\ [x EXCEPT !.listed = no].asOf = x.asOf
        BY <3>1 DEF IsRaw
      <4> QED
        BY <4>1, <4>2, Zenon
    <3>2. \A j \in Items : IsRaw(item[j])
      BY DEF CopyInv, Shapes
    <3> QED
      BY <2>2, <3>1, <3>2
  <2> QED
    BY <1>1, <2>1, <2>2 DEF Swept
<1>5. \A j \in Items : item[j].asOf \in Nat /\ item[j].asOf <= spent.offers
  BY DEF CopyInv, Shapes, IsRaw, FreshInv
<1>6. CopyInv'
  BY <1>1, <1>2, <1>3, <1>4, <1>5, Goes
<1> QED
  BY <1>4, <1>5, <1>6 DEF Forward

\* The other steps of a synchronisation write no copy.
LEMMA Others ==
    ASSUME CopyInv, NEW s \in Syncs,
           \/ Tick(s) \/ Attempt(s) \/ Trigger(s) \/ Load(s) \/ Fetch(s) \/ FetchFails(s)
           \/ (\E i \in Items : UpsertFails(s, i) \/ Look(s, i))
           \/ (\E t \in sync[s].targets : Update(s, t)) \/ End(s)
    PROVE  CopyInv' /\ UNCHANGED item
<1>0. /\ IsSync(sync[s]) /\ sync[s].asOf <= spent.offers
      /\ spent.offers \in Nat
      /\ IsSync(NoSync) /\ NoSync.asOf = 0 /\ NoSync.stage = "idle"
  BY DEF CopyInv, Shapes, FreshInv, NoSync, IsSync
<1> USE DEF Going, Busy
<1>1. CASE Tick(s)
  <2>1. /\ IsSync([NoSync EXCEPT !.stage = "listing"])
        /\ [NoSync EXCEPT !.stage = "listing"].asOf = 0
        /\ [NoSync EXCEPT !.stage = "listing"].stage = "listing"
    BY DEF NoSync, IsSync
  <2> DEFINE record == [NoSync EXCEPT !.stage = "listing"]
  <2>2. record.asOf <= spent.offers
    BY <1>0, <2>1
  <2>3. Continue(s, record) /\ ~Busy(s) /\ UNCHANGED <<item, locks, spent, overlapped>>
    BY <1>1 DEF Tick
  <2> HIDE DEF record
  <2>4. IsSync(record) /\ record.stage = "listing"
    BY <2>1 DEF record
  <2> QED
    BY <2>2, <2>3, <2>4, Goes
<1>2. CASE Attempt(s)
  <2>1. CASE Begin(s)
    BY <2>1, Begins
  <2>2. CASE Continue(s, NoSync) /\ UNCHANGED <<item, product, locks, spent, overlapped>>
    <3>1. ~Busy(s)
      BY <1>2 DEF Attempt
    <3> QED
      BY <1>0, <2>2, <3>1, Goes
  <2> QED
    BY <1>2, <2>1, <2>2 DEF Attempt
<1>3. CASE Trigger(s)
  BY <1>3, Begins DEF Trigger
<1>4. CASE Load(s)
  <2> DEFINE record == [sync[s] EXCEPT !.stage = "fetching"]
  <2>1. IsSync(record) /\ record.asOf = sync[s].asOf /\ record.stage = "fetching"
    BY <1>0 DEF IsSync
  <2>2. /\ Busy(s) /\ UNCHANGED <<item, spent, overlapped>>
        /\ (Continue(s, record) /\ UNCHANGED locks) \/ Finish(s)
    BY <1>4 DEF Load
  <2> HIDE DEF record
  <2> QED
    BY <1>0, <2>1, <2>2, Goes, Ends
<1>5. CASE Fetch(s)
  <2> DEFINE record == [sync[s] EXCEPT !.stage = "writing", !.menu = offer,
                                       !.asOf = spent.offers, !.todo = OnSale(offer)]
  <2>1. IsSync(record) /\ record.asOf = spent.offers /\ record.stage = "writing"
    <3> DEFINE x == [sync[s] EXCEPT !.stage = "writing"]
               y == [x EXCEPT !.menu = offer]
               z == [y EXCEPT !.asOf = spent.offers]
    <3>1. record = [z EXCEPT !.todo = OnSale(offer)]
      OBVIOUS
    <3>2. IsSync(x) /\ x.stage = "writing"
      BY <1>0 DEF IsSync
    <3> HIDE DEF record, x
    <3>3. IsSync(y) /\ y.stage = "writing"
      BY <3>2 DEF IsSync
    <3> HIDE DEF y
    <3>4. IsSync(z) /\ z.stage = "writing" /\ z.asOf = spent.offers
      BY <1>0, <3>3 DEF IsSync
    <3> HIDE DEF z
    <3> QED
      BY <3>1, <3>4 DEF IsSync
  <2>2. /\ Busy(s) /\ Continue(s, record)
        /\ UNCHANGED <<item, locks, spent, overlapped>>
    BY <1>5 DEF Fetch
  <2> HIDE DEF record
  <2>3. \A i \in Items : item'[i].asOf <= record.asOf
    BY <2>1, <2>2 DEF CopyInv, FreshInv
  <2> QED
    BY <1>0, <2>1, <2>2, <2>3, Goes
<1>6. CASE FetchFails(s)
  BY <1>6, Ends DEF FetchFails, Abandon, Faulty
<1>7. CASE \E i \in Items : UpsertFails(s, i)
  <2>1. PICK i \in Items : UpsertFails(s, i)
    BY <1>7
  <2> DEFINE record == [sync[s] EXCEPT !.todo = @ \ {i}]
  <2>2. IsSync(record) /\ record.asOf = sync[s].asOf /\ record.stage = sync[s].stage
    BY <1>0 DEF IsSync
  <2>3. /\ Busy(s) /\ Going(s, "writing") /\ Continue(s, record) /\ Spend("faults")
        /\ UNCHANGED <<item, locks, overlapped>>
    BY <2>1 DEF UpsertFails, Faulty
  <2> HIDE DEF record
  <2>4. ~overlapped => \A j \in Items : item'[j].asOf <= record.asOf
    BY <2>2, <2>3 DEF CopyInv, FreshInv
  <2> QED
    BY <1>0, <2>2, <2>3, <2>4, Goes
<1>8. ASSUME NEW record, Continue(s, record), IsSync(record),
             record.asOf = sync[s].asOf, record.stage \in {"pushing", "updating"}, Busy(s),
             UNCHANGED spent \/ Spend("faults"), UNCHANGED <<item, locks, overlapped>>
      PROVE  CopyInv' /\ UNCHANGED item
  BY <1>0, <1>8, Goes
<1>9. CASE \E i \in Items : Look(s, i)
  <2>1. PICK i \in Items : Look(s, i)
    BY <1>9
  <2> DEFINE record == [sync[s] EXCEPT
           !.stage = IF Followers(i) = {} THEN "pushing" ELSE "updating",
           !.at = i, !.todo = @ \ {i},
           !.targets = {<<r, product[r].markup>> : r \in Followers(i)}]
  <2>2. /\ IsSync(record) /\ record.asOf = sync[s].asOf
        /\ record.stage \in {"pushing", "updating"}
    <3> DEFINE stage == IF Followers(i) = {} THEN "pushing" ELSE "updating"
               x == [sync[s] EXCEPT !.stage = stage]
               y == [x EXCEPT !.at = i]
               z == [y EXCEPT !.todo = @ \ {i}]
    <3>1. record = [z EXCEPT !.targets = {<<r, product[r].markup>> : r \in Followers(i)}]
      BY <1>0 DEF IsSync
    <3>2. stage \in {"pushing", "updating"}
      OBVIOUS
    <3> HIDE DEF record, stage
    <3>3. IsSync(x) /\ x.asOf = sync[s].asOf /\ x.stage = stage
      BY <1>0 DEF IsSync
    <3> HIDE DEF x
    <3>4. IsSync(y) /\ y.asOf = sync[s].asOf /\ y.stage = stage
      BY <3>3 DEF IsSync
    <3> HIDE DEF y
    <3>5. IsSync(z) /\ z.asOf = sync[s].asOf /\ z.stage = stage
      BY <3>4 DEF IsSync
    <3> HIDE DEF z
    <3> QED
      BY <3>1, <3>2, <3>5 DEF IsSync
  <2>3. /\ Busy(s) /\ Continue(s, record)
        /\ UNCHANGED <<item, locks, spent, overlapped>>
    BY <2>1 DEF Look
  <2> HIDE DEF record
  <2> QED
    BY <1>8, <2>2, <2>3
<1>10. CASE \E t \in sync[s].targets : Update(s, t)
  <2>1. PICK t \in sync[s].targets : Update(s, t)
    BY <1>10
  <2> DEFINE next == [sync[s] EXCEPT
           !.stage = IF sync[s].targets = {t} THEN "pushing" ELSE "updating",
           !.targets = @ \ {t}]
           rest == [sync[s] EXCEPT !.stage = "pushing", !.targets = {}]
  <2>2. /\ IsSync(next) /\ next.asOf = sync[s].asOf
        /\ next.stage \in {"pushing", "updating"}
        /\ IsSync(rest) /\ rest.asOf = sync[s].asOf /\ rest.stage = "pushing"
    <3> DEFINE stage == IF sync[s].targets = {t} THEN "pushing" ELSE "updating"
               x == [sync[s] EXCEPT !.stage = stage]
               y == [sync[s] EXCEPT !.stage = "pushing"]
    <3>1. next = [x EXCEPT !.targets = @ \ {t}] /\ rest = [y EXCEPT !.targets = {}]
      BY <1>0 DEF IsSync
    <3>2. stage \in {"pushing", "updating"}
      OBVIOUS
    <3> HIDE DEF next, rest, stage
    <3>3. /\ IsSync(x) /\ x.asOf = sync[s].asOf /\ x.stage = stage
          /\ IsSync(y) /\ y.asOf = sync[s].asOf /\ y.stage = "pushing"
      BY <1>0 DEF IsSync
    <3> HIDE DEF x, y
    <3> QED
      BY <3>1, <3>2, <3>3 DEF IsSync
  <2>3. /\ Busy(s) /\ UNCHANGED <<item, locks, overlapped>>
        /\ \/ Continue(s, next) /\ UNCHANGED spent
           \/ Continue(s, rest) /\ Spend("faults")
    BY <2>1 DEF Update, Faulty
  <2> HIDE DEF next, rest
  <2> QED
    BY <1>8, <2>2, <2>3
<1>11. CASE End(s)
  BY <1>11, Ends DEF End
<1> QED
  BY <1>1, <1>2, <1>3, <1>4, <1>5, <1>6, <1>7, <1>9, <1>10, <1>11

\* Unwritten copies do not become older.
LEMMA StillForward ==
    ASSUME CopyInv, UNCHANGED item
    PROVE  Forward
<1>1. \A i \in Items : item[i].asOf \in Nat
  BY DEF CopyInv, Shapes, IsRaw
<1> QED
  BY <1>1 DEF Forward

\* Administrators, orders and the provider leave the synchronisations alone.
LEMMA Bystanders ==
    ASSUME \/ \E i \in Items, entry \in {Absent} \cup Entries : Offer(i, entry)
           \/ \E a \in Admins :
                (\E r \in Products : Administer(a, r)) \/ Insert(a) \/ Save(a)
           \/ ToggleProvider
           \/ \E o \in Orders :
                \/ \E p \in Processes, r \in Products : Place(o, p, r)
                \/ GetLivePrice(o) \/ Decide(o) \/ AutoUpdate(o)
           \/ \E p \in Processes : PricesArrive(p) \/ PricesFail(p) \/ Expire(p)
    PROVE  /\ UNCHANGED <<sync, locks, item, overlapped>>
           /\ UNCHANGED spent \/ Spend("requests") \/ Spend("faults") \/ Spend("offers")
<1>1. CASE \E i \in Items, entry \in {Absent} \cup Entries : Offer(i, entry)
  BY <1>1 DEF Offer
<1>2. CASE \E a \in Admins, r \in Products : Administer(a, r)
  BY <1>2 DEF Administer, UpdateProduct, LinkProductProvider, SyncProductPrice,
              ToggleProduct, DeleteProduct, Create, Edit, Request, OutsideEdit
<1>3. CASE (\E a \in Admins : Insert(a) \/ Save(a)) \/ ToggleProvider
  BY <1>3 DEF Insert, Save, ToggleProvider, OutsideEdit
<1>4. CASE \E o \in Orders : \/ \E p \in Processes, r \in Products : Place(o, p, r)
                             \/ GetLivePrice(o) \/ Decide(o) \/ AutoUpdate(o)
  BY <1>4 DEF Place, GetLivePrice, Decide, AutoUpdate, OutsideOrder
<1>5. CASE \E p \in Processes : PricesArrive(p) \/ PricesFail(p) \/ Expire(p)
  BY <1>5 DEF PricesArrive, PricesFail, Expire, OutsideOrder, Faulty
<1> QED
  BY <1>1, <1>2, <1>3, <1>4, <1>5

\* The inductive step, and what it may not do to a copy.
LEMMA CopyStep ==
    ASSUME CopyInv, [Next]_vars
    PROVE  CopyInv' /\ Forward
<1>1. ASSUME NEW s \in Syncs, Synchronise(s)
      PROVE  CopyInv' /\ Forward
  BY <1>1, Upserts, Sweeps, Others, StillForward DEF Synchronise, Progress
<1>2. ASSUME NEW p \in Processes, Restart(p)
      PROVE  CopyInv' /\ Forward
  BY <1>2, Restarts, StillForward DEF Restart
<1>3. CASE UNCHANGED vars
  BY <1>3, Beside, StillForward DEF vars
<1> QED
  BY <1>1, <1>2, <1>3, Bystanders, Beside, StillForward DEF Next

\* Whatever cron, administrators, errors and restarts do, a copy of a provider's
\* price is not replaced by an older one while no two processes synchronise at once.
THEOREM CopiesMoveForward == Spec => RawNeverGoesBack
<1>1. CopyInv /\ [Next]_vars => CopyInv'
  BY CopyStep
<1>2. CopyInv /\ [Next]_vars =>
        [overlapped' \/ \A i \in Items : item'[i].asOf >= item[i].asOf]_vars
  BY CopyStep DEF Forward
<1> QED
  BY <1>1, <1>2, CopyInit, PTL DEF Spec, RawNeverGoesBack

---------------------------------------------------------------------------
(* What is charged, and the types.                                          *)

\* Prices that no administrator made incoherent: a product is sold at what it
\* costs or more, and what stands behind it has a price.
Coherent(d) ==
    d.here /\ ~d.hand /\ ~d.mixed =>
        d.cost <= d.base /\ (d.link # NoItem => d.cost > 0)

\* A copy of the provider's item has a price, and so has a product.
StockInv ==
    /\ item \in [Items -> RawProduct] /\ \A i \in Items : item[i].price > 0
    /\ product \in [Products -> Product] /\ \A r \in Products : Coherent(product[r])

\* A synchronisation writes and pushes what the provider sells, and nothing else.
Selling(x) ==
    /\ x \in Synchronisation
    /\ x.todo \subseteq OnSale(x.menu) /\ x.wrote \subseteq OnSale(x.menu)
    /\ x.stage \in {"idle", "listing", "locked", "fetching"} => x.wrote = {}
    /\ x.stage = "updating" => x.at \in OnSale(x.menu)
    /\ x.stage = "updating" <=> x.targets # {}

SyncsInv ==
    /\ sync = [s \in Syncs |-> sync[s]] /\ locks \subseteq Processes
    /\ \A s \in Syncs : Selling(sync[s]) /\ sync[s].asOf <= spent.offers
    /\ \A s \in Syncs : Busy(s) => Home(s) \in locks

SpentInv ==
    /\ spent \in [offers : 0..MaxEvents, requests : 0..MaxRequests,
                  faults : 0..MaxEvents]
    /\ spent.offers + spent.faults <= MaxEvents

\* What a save sets: a base price by hand, or the cost and a base price not below
\* it, or no price, and then no link either.
Settled(w) ==
    /\ DOMAIN w \subseteq DOMAIN NoProduct \ {"here", "mixed"}
    /\ DOMAIN w \cap PriceFields # {} =>
        /\ "hand" \in DOMAIN w
        /\ w.hand \/ (PriceFields \subseteq DOMAIN w /\ 0 < w.cost /\ w.cost <= w.base)
    /\ "link" \in DOMAIN w => DOMAIN w \cap PriceFields # {}

\* What administrators are about to write.
Editing(e) ==
    /\ e = [stage |-> e.stage, at |-> e.at, seen |-> e.seen, w |-> e.w]
    /\ e.stage \in {"idle", "creating", "saving"}
    /\ e.stage = "creating" =>
          e.at \in Products /\ e.w \in Product /\ Coherent(e.w)
    /\ e.stage = "saving" =>
          /\ e.at \in Products /\ e.seen \in Product
          /\ Over(e.w, e.seen) \in Product /\ Settled(e.w)

EditsInv == edit = [a \in Admins |-> edit[a]] /\ \A a \in Admins : Editing(edit[a])

\* An order keeps the product it read, which a provider stands behind.
Ordering(x) ==
    /\ x = [stage |-> x.stage, home |-> x.home, at |-> x.at, seen |-> x.seen,
            live |-> x.live]
    /\ x.stage \in {"idle", "checking", "asking", "priced", "repricing"}
    /\ x.stage # "idle" =>
          /\ x.at \in Products /\ x.home \in Processes
          /\ x.seen \in Product /\ x.seen.here
          /\ x.seen.link \in Items /\ Coherent(x.seen)
          /\ x.live \in Prices
    /\ x.stage = "repricing" => x.live > 0

OrdersInv == order = [o \in Orders |-> order[o]] /\ \A o \in Orders : Ordering(order[o])

\* The rest, and that nothing was sold below its price.
PlainInv ==
    /\ offer \in Menus /\ active \in BOOLEAN
    /\ cache \in [Processes -> Catalogues]
    /\ pending \subseteq Processes /\ draining \subseteq Processes
    /\ overlapped \in BOOLEAN
    /\ losses \subseteq {"hand", "mixed"}

SaleInv == StockInv /\ SyncsInv /\ SpentInv /\ EditsInv /\ OrdersInv /\ PlainInv

\* The fields of a product, and their types.
ProductNames == {"here", "link", "mode", "markup", "adjust", "cost", "base",
                 "active", "deleted", "hand", "mixed"}

ProductTypes ==
    [here |-> BOOLEAN, link |-> Items \cup {NoItem}, mode |-> {"SYNC", "MANUAL"},
     markup |-> {0} \cup Markups, adjust |-> {Off} \cup Adjustments,
     cost |-> Prices, base |-> Int, active |-> BOOLEAN, deleted |-> BOOLEAN,
     hand |-> BOOLEAN, mixed |-> BOOLEAN]

\* A product is its fields, each of its type.
LEMMA ProductFields ==
    ASSUME NEW d \in Product
    PROVE  /\ DOMAIN d = ProductNames /\ d = [f \in ProductNames |-> d[f]]
           /\ \A f \in ProductNames : d[f] \in ProductTypes[f]
  BY DEF Product, ProductNames, ProductTypes

\* Whatever has the fields, of their types, is a product.
LEMMA FieldsProduct ==
    ASSUME NEW d, d = [f \in ProductNames |-> d[f]],
           \A f \in ProductNames : d[f] \in ProductTypes[f]
    PROVE  d \in Product
  BY DEF Product, ProductNames, ProductTypes

\* The bounds are numbers.
LEMMA Bounds ==
    /\ MaxPrice \in Nat /\ MaxRequests \in Nat /\ MaxEvents \in Nat
    /\ 0 \in Prices /\ 1 \in Prices /\ Prices \subseteq Nat
    /\ {0} \cup Markups \subseteq Nat /\ Adjustments \subseteq Int
    /\ EmptyCatalogue \in Catalogues /\ EmptyMenu \in Menus
  BY CatalogueAssumption DEF Prices, EmptyCatalogue, Catalogues, EmptyMenu, Menus

\* An entry has a price above zero, if the provider sells the item at all.
LEMMA MenuFits ==
    ASSUME NEW menu \in Menus
    PROVE  /\ PriceList(menu) \in Catalogues
           /\ \A i \in OnSale(menu) :
                 /\ i \in Items /\ menu[i].price \in Prices /\ menu[i].price > 0
                 /\ menu[i].shown \in BOOLEAN
<1>1. ASSUME NEW x \in Entries
      PROVE  x.price \in Prices /\ x.price > 0 /\ x.shown \in BOOLEAN
  <2>1. x \in [price : 1..MaxPrice, shown : BOOLEAN]
    BY CatalogueAssumption
  <2> QED
    BY <2>1, Bounds DEF Prices
<1>2. Absent.price \in Prices
  BY Bounds DEF Absent
<1>3. \A i \in Items : menu[i] \in Entries \/ menu[i] = Absent
  BY DEF Menus
<1>4. \A i \in Items : menu[i].price \in Prices
  BY <1>1, <1>2, <1>3
<1>5. PriceList(menu) \in Catalogues
  BY <1>4 DEF PriceList, Catalogues
<1>6. \A i \in OnSale(menu) : i \in Items /\ menu[i] \in Entries
  BY <1>3 DEF OnSale
<1> QED
  BY <1>1, <1>5, <1>6

\* What stands for a product that does not exist yet is typed, and sold by nobody.
LEMMA NoProductFields ==
    /\ NoProduct \in Product /\ DOMAIN NoProduct = ProductNames
    /\ ~NoProduct.here /\ NoProduct.cost = 0 /\ NoProduct.link = NoItem
    /\ Coherent(NoProduct)
<1>1. NoProduct \in Product
  BY Bounds DEF NoProduct, Product
<1>2. ~NoProduct.here /\ NoProduct.cost = 0 /\ NoProduct.link = NoItem
  BY DEF NoProduct
<1> QED
  BY <1>1, <1>2, ProductFields DEF Coherent

\* What the synchronisation, a refused order and publication make of a price.
LEMMA RepricedFits ==
    ASSUME NEW d \in Product, NEW raw \in Prices, raw > 0,
           NEW markup \in {0} \cup Markups
    PROVE  /\ Repriced(d, raw, markup) \in Product
           /\ Coherent(Repriced(d, raw, markup))
<1> DEFINE b == raw + markup
           x == [d EXCEPT !.cost = raw]
           y == [x EXCEPT !.base = b]
           z == [y EXCEPT !.hand = FALSE]
           new == [z EXCEPT !.mixed = FALSE]
<1>1. b \in Nat /\ raw <= b
  BY Bounds
<1>2. Repriced(d, raw, markup) = new
  BY DEF Repriced, Priced
<1> HIDE DEF b
<1>3. x \in Product /\ x.cost = raw
  BY DEF Product
<1> HIDE DEF x
<1>4. y \in Product /\ y.cost = raw /\ y.base = b
  BY <1>1, <1>3 DEF Product
<1> HIDE DEF y
<1>5. z \in Product /\ z.cost = raw /\ z.base = b
  BY <1>4 DEF Product
<1> HIDE DEF z
<1>6. new \in Product /\ new.cost = raw /\ new.base = b
  BY <1>5 DEF Product
<1> HIDE DEF new
<1> QED
  BY <1>1, <1>2, <1>6 DEF Coherent

\* A product made from an item is typed, and its price follows from its cost.
LEMMA PublishedFits ==
    ASSUME NEW i \in Items, NEW raw \in Prices, raw > 0,
           NEW mode \in {"SYNC", "MANUAL"}, NEW markup \in {0} \cup Markups
    PROVE  LET new == Published(i, raw, mode, markup) IN
           /\ new \in Product /\ new.here /\ Coherent(new)
<1> DEFINE b == raw + markup
           u == [NoProduct EXCEPT !.here = TRUE]
           v == [u EXCEPT !.link = i]
           x == [v EXCEPT !.mode = mode]
           y == [x EXCEPT !.markup = markup]
           z == [y EXCEPT !.cost = raw]
           k == [z EXCEPT !.base = b]
           new == [k EXCEPT !.active = TRUE]
<1>1. b \in Nat /\ raw <= b
  BY Bounds
<1>2. Published(i, raw, mode, markup) = new
  BY DEF Published, Priced
<1> HIDE DEF b
<1>3. u \in Product /\ u.here
  BY NoProductFields DEF Product
<1> HIDE DEF u
<1>4. v \in Product /\ v.here
  BY <1>3 DEF Product
<1> HIDE DEF v
<1>5. x \in Product /\ x.here
  BY <1>4 DEF Product
<1> HIDE DEF x
<1>6. y \in Product /\ y.here
  BY <1>5 DEF Product
<1> HIDE DEF y
<1>7. z \in Product /\ z.here /\ z.cost = raw
  BY <1>6 DEF Product
<1> HIDE DEF z
<1>8. k \in Product /\ k.here /\ k.cost = raw /\ k.base = b
  BY <1>1, <1>7 DEF Product
<1> HIDE DEF k
<1>9. new \in Product /\ new.here /\ new.cost = raw /\ new.base = b
  BY <1>8 DEF Product
<1> HIDE DEF new
<1> QED
  BY <1>1, <1>2, <1>9 DEF Coherent

\* What is used of the bounds.
LEMMA SpentKept ==
    ASSUME SpentInv,
           \/ UNCHANGED spent
           \/ Eventful /\ (Spend("faults") \/ Spend("offers"))
           \/ spent.requests < MaxRequests /\ Spend("requests")
    PROVE  /\ SpentInv' /\ spent'.offers >= spent.offers
           /\ spent.offers \in Nat /\ spent'.offers \in Nat
           /\ spent.offers <= MaxEvents
<1>1. /\ spent \in [offers : 0..MaxEvents, requests : 0..MaxRequests,
                    faults : 0..MaxEvents]
      /\ spent.offers \in Nat /\ spent.faults \in Nat /\ spent.requests \in Nat
      /\ spent.offers <= MaxEvents /\ spent.faults <= MaxEvents
      /\ spent.requests <= MaxRequests
      /\ spent.offers + spent.faults <= MaxEvents
  BY Bounds DEF SpentInv
<1>2. CASE UNCHANGED spent
  BY <1>1, <1>2 DEF SpentInv
<1>3. CASE Eventful /\ Spend("faults")
  <2>1. spent' = [spent EXCEPT !.faults = spent.faults + 1]
    BY <1>3 DEF Spend
  <2>2. spent.offers + spent.faults < MaxEvents
    BY <1>3 DEF Eventful
  <2> QED
    BY <1>1, <2>1, <2>2, Bounds DEF SpentInv
<1>4. CASE Eventful /\ Spend("offers")
  <2>1. spent' = [spent EXCEPT !.offers = spent.offers + 1]
    BY <1>4 DEF Spend
  <2>2. spent.offers + spent.faults < MaxEvents
    BY <1>4 DEF Eventful
  <2> QED
    BY <1>1, <2>1, <2>2, Bounds DEF SpentInv
<1>5. CASE spent.requests < MaxRequests /\ Spend("requests")
  <2>1. spent' = [spent EXCEPT !.requests = spent.requests + 1]
    BY <1>5 DEF Spend
  <2> QED
    BY <1>1, <1>5, <2>1, Bounds DEF SpentInv
<1> QED
  BY <1>2, <1>3, <1>4, <1>5

\* A step of a synchronisation, whatever it does to locks, copies and products.
LEMMA SyncGoes ==
    ASSUME SaleInv, NEW s \in Syncs, NEW record, Continue(s, record),
           Selling(record), record.asOf <= spent.offers,
           locks' \subseteq Processes,
           \A t \in Syncs \ {s} : Busy(t) => Home(t) \in locks',
           record.stage \notin {"idle", "listing"} => Home(s) \in locks',
           UNCHANGED spent \/ Faulty, StockInv', overlapped' \in BOOLEAN,
           OutsideSync
    PROVE  SaleInv'
<1>1. /\ sync' = [t \in Syncs |-> sync'[t]] /\ sync'[s] = record
      /\ \A t \in Syncs \ {s} : sync'[t] = sync[t]
  BY DEF SaleInv, SyncsInv, Continue
<1>2. /\ SpentInv' /\ spent'.offers >= spent.offers
      /\ spent.offers \in Nat /\ spent'.offers \in Nat
  BY SpentKept DEF SaleInv, Faulty
<1>3. SyncsInv'
  <2>1. \A t \in Syncs : Selling(sync'[t])
    BY <1>1 DEF SaleInv, SyncsInv
  <2>2. ASSUME NEW t \in Syncs PROVE sync'[t].asOf <= spent'.offers
    <3>1. sync'[t].asOf \in Nat
      BY <2>1, Bounds DEF Selling, Synchronisation
    <3>2. sync'[t].asOf <= spent.offers
      BY <1>1 DEF SaleInv, SyncsInv
    <3> QED
      BY <1>2, <3>1, <3>2
  <2>3. \A t \in Syncs : Busy(t)' => Home(t) \in locks'
    BY <1>1 DEF Busy
  <2> QED
    BY <1>1, <2>1, <2>2, <2>3 DEF SyncsInv
<1>4. EditsInv' /\ OrdersInv'
  BY DEF SaleInv, EditsInv, OrdersInv, OutsideSync
<1>5. PlainInv'
  BY DEF SaleInv, PlainInv, OutsideSync
<1> QED
  BY <1>2, <1>3, <1>4, <1>5 DEF SaleInv

\* ... that leaves the locks, the copies and the products.
LEMMA SyncGoesOn ==
    ASSUME SaleInv, NEW s \in Syncs, NEW record, Continue(s, record),
           Selling(record), record.asOf <= spent.offers,
           record.stage \notin {"idle", "listing"} => Busy(s),
           UNCHANGED spent \/ Faulty, UNCHANGED locks, UNCHANGED overlapped,
           StockInv' \/ UNCHANGED <<item, product>>, OutsideSync
    PROVE  SaleInv'
<1>1. \A t \in Syncs : Busy(t) => Home(t) \in locks'
  BY DEF SaleInv, SyncsInv
<1>2. StockInv'
  BY DEF SaleInv, StockInv
<1>3. locks' \subseteq Processes /\ overlapped' \in BOOLEAN
  BY DEF SaleInv, SyncsInv, PlainInv
<1> QED
  BY <1>1, <1>2, <1>3, SyncGoes

\* A synchronisation that does nothing.
LEMMA IdleSync ==
    /\ Selling(NoSync) /\ NoSync.asOf = 0 /\ NoSync.stage = "idle"
    /\ \A stage \in {"listing", "locked"} :
          LET x == [NoSync EXCEPT !.stage = stage] IN
          Selling(x) /\ x.asOf = 0 /\ x.stage = stage
<1>1. /\ NoSync \in Synchronisation /\ NoSync.asOf = 0 /\ NoSync.stage = "idle"
      /\ NoSync.todo = {} /\ NoSync.wrote = {} /\ NoSync.targets = {}
  BY Bounds DEF NoSync, Synchronisation
<1>2. ASSUME NEW stage \in {"listing", "locked"}
      PROVE  LET x == [NoSync EXCEPT !.stage = stage] IN
             Selling(x) /\ x.asOf = 0 /\ x.stage = stage
  <2> DEFINE x == [NoSync EXCEPT !.stage = stage]
  <2>1. /\ x \in Synchronisation /\ x.asOf = 0 /\ x.stage = stage
        /\ x.todo = {} /\ x.wrote = {} /\ x.targets = {}
    BY <1>1 DEF Synchronisation
  <2> HIDE DEF x
  <2>2. Selling(x)
    BY <2>1 DEF Selling
  <2> QED
    BY <2>1, <2>2 DEF x
<1> QED
  BY <1>1, <1>2 DEF Selling

\* The beginning.
LEMMA SyncBegins ==
    ASSUME SaleInv, NEW s \in Syncs, Begin(s)
    PROVE  SaleInv'
<1> DEFINE record == [NoSync EXCEPT !.stage = "locked"]
<1>1. Selling(record) /\ record.asOf = 0
  BY IdleSync
<1>2. /\ Continue(s, record) /\ locks' = locks \cup {Home(s)}
      /\ UNCHANGED <<item, product, spent>> /\ OutsideSync
      /\ overlapped' = (overlapped \/ \E t \in Syncs : Home(t) # Home(s) /\ Busy(t))
  BY DEF Begin, Locked
<1>3. Home(s) \in Processes
  BY DEF Syncs, Home
<1>4. overlapped' \in BOOLEAN
  BY <1>2, Zenon
<1>5. StockInv'
  BY <1>2 DEF SaleInv, StockInv
<1>6. locks' \subseteq Processes /\ \A t \in Syncs : Busy(t) => Home(t) \in locks'
  BY <1>2, <1>3 DEF SaleInv, SyncsInv
<1>7. record.asOf <= spent.offers
  BY <1>1, SpentKept DEF SaleInv, SpentInv
<1> HIDE DEF record
<1> QED
  BY <1>1, <1>2, <1>4, <1>5, <1>6, <1>7, SyncGoes

\* The end: no other synchronisation has the lock that is released.
LEMMA SyncEnds ==
    ASSUME SaleInv, CopyInv, NEW s \in Syncs, Busy(s), Finish(s),
           UNCHANGED spent \/ Faulty, UNCHANGED <<item, product, overlapped>>,
           OutsideSync
    PROVE  SaleInv'
<1>1. Continue(s, NoSync) /\ locks' = locks \ {Home(s)}
  BY DEF Finish, Released
<1>2. \A t \in Syncs \ {s} : Busy(t) => Home(t) \in locks'
  BY <1>1 DEF SaleInv, SyncsInv, CopyInv, LockInv
<1>3. StockInv' /\ locks' \subseteq Processes /\ overlapped' \in BOOLEAN
  BY <1>1 DEF SaleInv, StockInv, SyncsInv, PlainInv
<1>4. NoSync.asOf <= spent.offers
  BY IdleSync, SpentKept DEF SaleInv, SpentInv
<1> QED
  BY <1>1, <1>2, <1>3, <1>4, IdleSync, SyncGoes

\* One field of a synchronisation at a time.
LEMMA SyncFields ==
    ASSUME NEW x \in Synchronisation
    PROVE  /\ x.menu \in Menus /\ x.asOf \in Nat /\ x.asOf <= MaxEvents
           /\ x.todo \subseteq Items /\ x.wrote \subseteq Items
           /\ x.at \in Items \cup {NoItem}
           /\ x.targets \subseteq Products \X ({0} \cup Markups)
  BY Bounds DEF Synchronisation

\* A synchronisation that moves to another stage keeps the rest.
LEMMA Staged ==
    ASSUME NEW x \in Synchronisation,
           NEW stage \in {"idle", "listing", "locked", "fetching", "writing",
                          "pushing", "updating"}
    PROVE  LET y == [x EXCEPT !.stage = stage] IN
           /\ y \in Synchronisation /\ y.stage = stage
           /\ y.menu = x.menu /\ y.asOf = x.asOf /\ y.todo = x.todo
           /\ y.wrote = x.wrote /\ y.at = x.at /\ y.targets = x.targets
  BY DEF Synchronisation

\* One that changes the items it has still to visit keeps the rest.
LEMMA Listed ==
    ASSUME NEW x \in Synchronisation, NEW todo \in SUBSET Items
    PROVE  LET y == [x EXCEPT !.todo = todo] IN
           /\ y \in Synchronisation /\ y.stage = x.stage
           /\ y.menu = x.menu /\ y.asOf = x.asOf /\ y.todo = todo
           /\ y.wrote = x.wrote /\ y.at = x.at /\ y.targets = x.targets
  BY DEF Synchronisation

\* One that changes the products it has still to reprice keeps the rest.
LEMMA Targeted ==
    ASSUME NEW x \in Synchronisation,
           NEW targets \in SUBSET (Products \X ({0} \cup Markups))
    PROVE  LET y == [x EXCEPT !.targets = targets] IN
           /\ y \in Synchronisation /\ y.stage = x.stage
           /\ y.menu = x.menu /\ y.asOf = x.asOf /\ y.todo = x.todo
           /\ y.wrote = x.wrote /\ y.at = x.at /\ y.targets = targets
  BY DEF Synchronisation

\* What is known of a synchronisation.
LEMMA SyncKnown ==
    ASSUME SaleInv, NEW s \in Syncs
    PROVE  /\ Selling(sync[s]) /\ sync[s] \in Synchronisation
           /\ sync[s].asOf <= spent.offers
           /\ sync[s].menu \in Menus /\ sync[s].asOf \in 0..MaxEvents
           /\ sync[s].todo \subseteq Items /\ sync[s].wrote \subseteq Items
           /\ sync[s].todo \subseteq OnSale(sync[s].menu)
           /\ sync[s].wrote \subseteq OnSale(sync[s].menu)
           /\ sync[s].targets \subseteq Products \X ({0} \cup Markups)
           /\ spent.offers \in 0..MaxEvents
<1>1. Selling(sync[s]) /\ sync[s] \in Synchronisation /\ sync[s].asOf <= spent.offers
  BY DEF SaleInv, SyncsInv, Selling
<1>2. spent.offers \in 0..MaxEvents
  BY DEF SaleInv, SpentInv
<1> QED
  BY <1>1, <1>2, SyncFields, Bounds DEF Selling

\* The steps that leave the copies and the products alone.
LEMMA SyncOthers ==
    ASSUME SaleInv, CopyInv, NEW s \in Syncs,
           \/ Tick(s) \/ Attempt(s) \/ Trigger(s) \/ Load(s) \/ Fetch(s) \/ FetchFails(s)
           \/ (\E i \in Items : UpsertFails(s, i) \/ Look(s, i)) \/ End(s)
    PROVE  SaleInv'
<1>0. /\ Selling(sync[s]) /\ sync[s] \in Synchronisation
      /\ sync[s].asOf <= spent.offers /\ spent.offers \in 0..MaxEvents
      /\ sync[s].todo \subseteq Items /\ sync[s].wrote \subseteq Items
      /\ sync[s].todo \subseteq OnSale(sync[s].menu)
  BY SyncKnown
<1>1. CASE Tick(s)
  <2> DEFINE record == [NoSync EXCEPT !.stage = "listing"]
  <2>1. Selling(record) /\ record.asOf = 0 /\ record.stage = "listing"
    BY IdleSync
  <2>2. /\ Continue(s, record) /\ OutsideSync
        /\ UNCHANGED <<item, product, locks, spent, overlapped>>
    BY <1>1 DEF Tick
  <2> HIDE DEF record
  <2>3. record.asOf <= spent.offers
    BY <1>0, <2>1
  <2> QED
    BY <2>1, <2>2, <2>3, SyncGoesOn
<1>2. CASE Attempt(s)
  <2>1. CASE Begin(s)
    BY <2>1, SyncBegins
  <2>2. CASE /\ Continue(s, NoSync) /\ OutsideSync
             /\ UNCHANGED <<item, product, locks, spent, overlapped>>
    <3>1. NoSync.asOf <= spent.offers
      BY <1>0, IdleSync
    <3> QED
      BY <2>2, <3>1, IdleSync, SyncGoesOn
  <2> QED
    BY <1>2, <2>1, <2>2 DEF Attempt
<1>3. CASE Trigger(s)
  BY <1>3, SyncBegins DEF Trigger
<1>4. CASE Load(s)
  <2> DEFINE record == [sync[s] EXCEPT !.stage = "fetching"]
  <2>1. /\ Busy(s) /\ Going(s, "locked") /\ OutsideSync
        /\ UNCHANGED <<item, product, spent, overlapped>>
        /\ (Continue(s, record) /\ UNCHANGED locks) \/ Finish(s)
    BY <1>4 DEF Load, Busy, Going
  <2>2. /\ record \in Synchronisation /\ record.stage = "fetching"
        /\ record.menu = sync[s].menu /\ record.asOf = sync[s].asOf
        /\ record.todo = sync[s].todo /\ record.wrote = sync[s].wrote
        /\ record.targets = sync[s].targets
    BY <1>0, Staged
  <2> HIDE DEF record
  <2>3. Selling(record)
    BY <1>0, <2>1, <2>2 DEF Selling, Going
  <2> QED
    BY <1>0, <2>1, <2>2, <2>3, SyncGoesOn, SyncEnds
<1>5. CASE Fetch(s)
  <2> DEFINE x == [sync[s] EXCEPT !.stage = "writing"]
             y == [x EXCEPT !.menu = offer]
             z == [y EXCEPT !.asOf = spent.offers]
             record == [z EXCEPT !.todo = OnSale(offer)]
  <2>1. /\ Busy(s) /\ Going(s, "fetching") /\ Continue(s, record) /\ OutsideSync
        /\ UNCHANGED <<item, product, locks, spent, overlapped>>
    BY <1>5 DEF Fetch, Busy, Going
  <2>2. /\ x \in Synchronisation /\ x.stage = "writing"
        /\ x.wrote = sync[s].wrote /\ x.targets = sync[s].targets
    BY <1>0, Staged
  <2> HIDE DEF x
  <2>3. offer \in Menus
    BY DEF SaleInv, PlainInv
  <2>4. /\ y \in Synchronisation /\ y.stage = "writing" /\ y.menu = offer
        /\ y.wrote = sync[s].wrote /\ y.targets = sync[s].targets
    BY <2>2, <2>3 DEF Synchronisation
  <2> HIDE DEF y
  <2>5. /\ z \in Synchronisation /\ z.stage = "writing" /\ z.menu = offer
        /\ z.wrote = sync[s].wrote /\ z.targets = sync[s].targets
        /\ z.asOf = spent.offers
    BY <1>0, <2>4 DEF Synchronisation
  <2> HIDE DEF z
  <2>6. OnSale(offer) \in SUBSET Items
    BY DEF OnSale
  <2>7. /\ record \in Synchronisation /\ record.stage = "writing"
        /\ record.menu = offer /\ record.todo = OnSale(offer)
        /\ record.wrote = sync[s].wrote /\ record.targets = sync[s].targets
        /\ record.asOf = spent.offers
    BY <2>5, <2>6, Listed
  <2> HIDE DEF record
  <2>8. sync[s].wrote = {} /\ sync[s].targets = {}
    BY <1>0, <2>1 DEF Selling, Going
  <2>9. Selling(record) /\ record.asOf <= spent.offers
    BY <1>0, <2>7, <2>8 DEF Selling
  <2> QED
    BY <2>1, <2>9, SyncGoesOn
<1>6. CASE FetchFails(s)
  <2>1. Busy(s) /\ Finish(s) /\ Faulty /\ UNCHANGED <<item, product, overlapped>>
        /\ OutsideSync
    BY <1>6 DEF FetchFails, Abandon, Busy, Going
  <2> QED
    BY <2>1, SyncEnds
<1>7. CASE End(s)
  <2>1. Busy(s) /\ Finish(s) /\ UNCHANGED <<item, product, spent, overlapped>>
        /\ OutsideSync
    BY <1>7 DEF End, Busy, Going
  <2> QED
    BY <2>1, SyncEnds
<1>8. ASSUME NEW i \in Items, UpsertFails(s, i) PROVE SaleInv'
  <2> DEFINE record == [sync[s] EXCEPT !.todo = sync[s].todo \ {i}]
  <2>1. /\ Busy(s) /\ Continue(s, record) /\ OutsideSync /\ Faulty
        /\ UNCHANGED <<item, product, locks, overlapped>>
    BY <1>8 DEF UpsertFails, Busy, Going
  <2>2. sync[s].todo \ {i} \in SUBSET Items
    BY <1>0
  <2>3. /\ record \in Synchronisation /\ record.stage = sync[s].stage
        /\ record.menu = sync[s].menu /\ record.asOf = sync[s].asOf
        /\ record.todo = sync[s].todo \ {i} /\ record.wrote = sync[s].wrote
        /\ record.at = sync[s].at /\ record.targets = sync[s].targets
    BY <1>0, <2>2, Listed
  <2> HIDE DEF record
  <2>4. Selling(record)
    BY <1>0, <2>3 DEF Selling
  <2> QED
    BY <1>0, <2>1, <2>3, <2>4, SyncGoesOn
<1>9. ASSUME NEW i \in Items, Look(s, i) PROVE SaleInv'
  <2> DEFINE stage == IF Followers(i) = {} THEN "pushing" ELSE "updating"
             found == {<<r, product[r].markup>> : r \in Followers(i)}
             x == [sync[s] EXCEPT !.stage = stage]
             y == [x EXCEPT !.at = i]
             z == [y EXCEPT !.todo = sync[s].todo \ {i}]
             record == [z EXCEPT !.targets = found]
  <2>1. /\ Busy(s) /\ Going(s, "pushing") /\ i \in sync[s].todo
        /\ Continue(s, record) /\ OutsideSync
        /\ UNCHANGED <<item, product, locks, spent, overlapped>>
    BY <1>9, <1>0 DEF Look, Busy, Going, Synchronisation
  <2>2. stage \in {"pushing", "updating"} /\ (stage = "updating" <=> found # {})
    OBVIOUS
  <2>3. found \in SUBSET (Products \X ({0} \cup Markups))
    <3>1. \A r \in Followers(i) : r \in Products /\ product[r].markup \in {0} \cup Markups
      BY DEF Followers, SaleInv, StockInv, Product
    <3> QED
      BY <3>1
  <2> HIDE DEF stage, found
  <2>4. /\ x \in Synchronisation /\ x.stage = stage
        /\ x.menu = sync[s].menu /\ x.asOf = sync[s].asOf
        /\ x.wrote = sync[s].wrote
    <3>1. stage \in {"idle", "listing", "locked", "fetching", "writing",
                     "pushing", "updating"}
      BY <2>2
    <3> HIDE DEF stage
    <3> QED
      BY <1>0, <3>1, Staged
  <2> HIDE DEF x
  <2>5. /\ y \in Synchronisation /\ y.stage = stage
        /\ y.menu = sync[s].menu /\ y.asOf = sync[s].asOf
        /\ y.wrote = sync[s].wrote /\ y.at = i
    BY <2>4 DEF Synchronisation
  <2> HIDE DEF y
  <2>6. sync[s].todo \ {i} \in SUBSET Items
    BY <1>0
  <2>7. /\ z \in Synchronisation /\ z.stage = stage
        /\ z.menu = sync[s].menu /\ z.asOf = sync[s].asOf
        /\ z.wrote = sync[s].wrote /\ z.at = i /\ z.todo = sync[s].todo \ {i}
    BY <2>5, <2>6, Listed
  <2> HIDE DEF z
  <2>8. /\ record \in Synchronisation /\ record.stage = stage
        /\ record.menu = sync[s].menu /\ record.asOf = sync[s].asOf
        /\ record.wrote = sync[s].wrote /\ record.at = i
        /\ record.todo = sync[s].todo \ {i} /\ record.targets = found
    BY <2>3, <2>7, Targeted
  <2> HIDE DEF record
  <2>9. Selling(record)
    BY <1>0, <2>1, <2>2, <2>8 DEF Selling
  <2> QED
    BY <1>0, <2>1, <2>8, <2>9, SyncGoesOn
<1> QED
  BY <1>1, <1>2, <1>3, <1>4, <1>5, <1>6, <1>7, <1>8, <1>9

\* The copies are written at the prices that were fetched ...
LEMMA UpsertKeeps ==
    ASSUME SaleInv, NEW s \in Syncs, NEW i \in Items, Upsert(s, i)
    PROVE  SaleInv'
<1> DEFINE x == [sync[s] EXCEPT !.todo = sync[s].todo \ {i}]
           record == [x EXCEPT !.wrote = sync[s].wrote \cup {i}]
           raw == [price |-> sync[s].menu[i].price,
                   listed |-> sync[s].menu[i].shown, asOf |-> sync[s].asOf]
<1>0. /\ Selling(sync[s]) /\ sync[s] \in Synchronisation
      /\ sync[s].asOf <= spent.offers /\ sync[s].asOf \in 0..MaxEvents
      /\ sync[s].menu \in Menus
      /\ sync[s].todo \subseteq Items /\ sync[s].wrote \subseteq Items
      /\ sync[s].todo \subseteq OnSale(sync[s].menu)
      /\ sync[s].wrote \subseteq OnSale(sync[s].menu)
  BY SyncKnown
<1>1. /\ Busy(s) /\ Going(s, "writing") /\ i \in sync[s].todo
      /\ Continue(s, record) /\ OutsideSync
      /\ item' = [item EXCEPT ![i] = raw]
      /\ UNCHANGED <<product, locks, spent, overlapped>>
  BY <1>0 DEF Upsert, Busy, Going, Synchronisation
<1>2. sync[s].todo \ {i} \in SUBSET Items
  BY <1>0
<1>3. /\ x \in Synchronisation /\ x.stage = sync[s].stage
      /\ x.menu = sync[s].menu /\ x.asOf = sync[s].asOf
      /\ x.todo = sync[s].todo \ {i} /\ x.wrote = sync[s].wrote
      /\ x.targets = sync[s].targets
  BY <1>0, <1>2, Listed
<1> HIDE DEF x
<1>4. /\ record \in Synchronisation /\ record.stage = sync[s].stage
      /\ record.menu = sync[s].menu /\ record.asOf = sync[s].asOf
      /\ record.todo = sync[s].todo \ {i}
      /\ record.wrote = sync[s].wrote \cup {i}
      /\ record.targets = sync[s].targets
  BY <1>0, <1>3 DEF Synchronisation
<1> HIDE DEF record
<1>5. Selling(record)
  BY <1>0, <1>1, <1>4 DEF Selling, Going
<1>6. raw \in RawProduct /\ raw.price > 0
  <2>1. /\ sync[s].menu[i].price \in Prices /\ sync[s].menu[i].price > 0
        /\ sync[s].menu[i].shown \in BOOLEAN
    BY <1>0, <1>1, MenuFits
  <2> QED
    BY <1>0, <2>1 DEF RawProduct
<1> HIDE DEF raw
<1>7. StockInv'
  BY <1>1, <1>6 DEF SaleInv, StockInv
<1> QED
  BY <1>0, <1>1, <1>4, <1>5, <1>7, SyncGoesOn

\* ... and what is taken off the list keeps its price.
LEMMA SweepKeeps ==
    ASSUME SaleInv, NEW s \in Syncs, Sweep(s)
    PROVE  SaleInv'
<1> DEFINE x == [sync[s] EXCEPT !.stage = "pushing"]
           record == [x EXCEPT !.todo = sync[s].wrote]
<1>0. /\ Selling(sync[s]) /\ sync[s] \in Synchronisation
      /\ sync[s].asOf <= spent.offers
      /\ sync[s].wrote \subseteq Items
      /\ sync[s].wrote \subseteq OnSale(sync[s].menu)
  BY SyncKnown
<1>1. /\ Busy(s) /\ Going(s, "writing") /\ Continue(s, record) /\ OutsideSync
      /\ item' = Swept(s) \/ UNCHANGED item
      /\ UNCHANGED spent \/ Faulty
      /\ UNCHANGED <<product, locks, overlapped>>
  BY <1>0 DEF Sweep, Busy, Going, Synchronisation
<1>2. /\ x \in Synchronisation /\ x.stage = "pushing"
      /\ x.menu = sync[s].menu /\ x.asOf = sync[s].asOf
      /\ x.wrote = sync[s].wrote /\ x.targets = sync[s].targets
  BY <1>0, Staged
<1> HIDE DEF x
<1>3. /\ record \in Synchronisation /\ record.stage = "pushing"
      /\ record.menu = sync[s].menu /\ record.asOf = sync[s].asOf
      /\ record.wrote = sync[s].wrote /\ record.targets = sync[s].targets
      /\ record.todo = sync[s].wrote
  BY <1>0, <1>2, Listed
<1> HIDE DEF record
<1>4. Selling(record)
  BY <1>0, <1>1, <1>3 DEF Selling, Going
<1>5. StockInv'
  <2>1. ASSUME NEW j \in Items
        PROVE  /\ item[j] \in RawProduct /\ item[j].price > 0
               /\ [item[j] EXCEPT !.listed = FALSE] \in RawProduct
               /\ [item[j] EXCEPT !.listed = FALSE].price = item[j].price
    BY DEF SaleInv, StockInv, RawProduct
  <2>2. item' \in [Items -> RawProduct] /\ \A j \in Items : item'[j].price > 0
    <3>1. CASE UNCHANGED item
      BY <3>1 DEF SaleInv, StockInv
    <3>2. CASE item' = [j \in Items |-> IF j \in sync[s].wrote THEN item[j]
                                        ELSE [item[j] EXCEPT !.listed = FALSE]]
      BY <2>1, <3>2
    <3> QED
      BY <1>1, <3>1, <3>2 DEF Swept
  <2> QED
    BY <1>1, <2>2 DEF SaleInv, StockInv
<1> QED
  BY <1>0, <1>1, <1>3, <1>4, <1>5, SyncGoesOn

\* A product is updated to a price of the provider.
LEMMA UpdateKeeps ==
    ASSUME SaleInv, NEW s \in Syncs, NEW t \in sync[s].targets, Update(s, t)
    PROVE  SaleInv'
<1> DEFINE stage == IF sync[s].targets = {t} THEN "pushing" ELSE "updating"
           left == sync[s].targets \ {t}
           x == [sync[s] EXCEPT !.stage = stage]
           next == [x EXCEPT !.targets = left]
           y == [sync[s] EXCEPT !.stage = "pushing"]
           rest == [y EXCEPT !.targets = {}]
           raw == sync[s].menu[sync[s].at].price
<1>0. /\ Selling(sync[s]) /\ sync[s] \in Synchronisation
      /\ sync[s].asOf <= spent.offers /\ sync[s].menu \in Menus
      /\ sync[s].targets \subseteq Products \X ({0} \cup Markups)
  BY SyncKnown
<1>1. /\ Busy(s) /\ Going(s, "updating") /\ OutsideSync
      /\ UNCHANGED <<item, locks, overlapped>>
      /\ \/ /\ Continue(s, next) /\ UNCHANGED spent
            /\ product' = [product EXCEPT ![t[1]] = Repriced(@, raw, t[2])]
         \/ Continue(s, rest) /\ Faulty /\ UNCHANGED product
  BY <1>0 DEF Update, Busy, Going, Synchronisation
<1>2. left \in SUBSET (Products \X ({0} \cup Markups))
      /\ {} \in SUBSET (Products \X ({0} \cup Markups))
  BY <1>0
<1>3. stage \in {"pushing", "updating"} /\ (stage = "updating" <=> left # {})
  OBVIOUS
<1> HIDE DEF stage, left
<1>4. /\ x \in Synchronisation /\ x.stage = stage /\ x.at = sync[s].at
      /\ x.menu = sync[s].menu /\ x.asOf = sync[s].asOf /\ x.todo = sync[s].todo
      /\ x.wrote = sync[s].wrote
  <2>1. stage \in {"idle", "listing", "locked", "fetching", "writing",
                   "pushing", "updating"}
    BY <1>3
  <2>2. sync[s] \in Synchronisation
    BY <1>0
  <2> QED
    BY <2>1, <2>2 DEF Synchronisation
<1>5. /\ y \in Synchronisation /\ y.stage = "pushing"
      /\ y.menu = sync[s].menu /\ y.asOf = sync[s].asOf /\ y.todo = sync[s].todo
      /\ y.wrote = sync[s].wrote
  BY <1>0, Staged
<1> HIDE DEF x, y
<1>6. /\ next \in Synchronisation /\ next.stage = stage /\ next.at = sync[s].at
      /\ next.menu = sync[s].menu /\ next.asOf = sync[s].asOf
      /\ next.todo = sync[s].todo /\ next.wrote = sync[s].wrote
      /\ next.targets = left
  BY <1>2, <1>4, Targeted
<1>7. /\ rest \in Synchronisation /\ rest.stage = "pushing"
      /\ rest.menu = sync[s].menu /\ rest.asOf = sync[s].asOf
      /\ rest.todo = sync[s].todo /\ rest.wrote = sync[s].wrote
      /\ rest.targets = {}
  BY <1>2, <1>5, Targeted
<1> HIDE DEF next, rest
<1>8. Selling(next) /\ Selling(rest)
  BY <1>0, <1>1, <1>3, <1>6, <1>7 DEF Selling, Going
<1>9. raw \in Prices /\ raw > 0
  BY <1>0, <1>1, MenuFits DEF Selling, Going
<1>10. t[1] \in Products /\ t[2] \in {0} \cup Markups
  BY <1>0
<1> HIDE DEF raw
<1>11. CASE Continue(s, next)
  <2>1. StockInv'
    <3>1. product[t[1]] \in Product
      BY <1>10 DEF SaleInv, StockInv
    <3>2. /\ Repriced(product[t[1]], raw, t[2]) \in Product
          /\ Coherent(Repriced(product[t[1]], raw, t[2]))
      BY <1>9, <1>10, <3>1, RepricedFits
    <3>3. \/ product' = [product EXCEPT ![t[1]] = Repriced(product[t[1]], raw, t[2])]
          \/ product' = product
      BY <1>1
    <3> QED
      BY <1>1, <1>10, <3>2, <3>3 DEF SaleInv, StockInv
  <2> QED
    BY <1>0, <1>1, <1>6, <1>8, <1>11, <2>1, SyncGoesOn
<1>12. CASE Continue(s, rest) /\ UNCHANGED product
  BY <1>0, <1>1, <1>7, <1>8, <1>12, SyncGoesOn
<1> QED
  BY <1>1, <1>11, <1>12

\* Every step of a synchronisation keeps the invariant of sales.
LEMMA SynchroniseKeeps ==
    ASSUME SaleInv, CopyInv, NEW s \in Syncs, Synchronise(s)
    PROVE  SaleInv'
BY SyncOthers, UpsertKeeps, SweepKeeps, UpdateKeeps DEF Synchronise, Progress

\* The field types, one by one.
LEMMA TypesOfProducts ==
    /\ {"here", "link", "mode", "markup", "adjust", "cost", "base", "active",
        "deleted", "hand", "mixed"} = ProductNames
    /\ ProductTypes["link"] = Items \cup {NoItem}
    /\ ProductTypes["mode"] = {"SYNC", "MANUAL"}
    /\ ProductTypes["markup"] = {0} \cup Markups
    /\ ProductTypes["adjust"] = {Off} \cup Adjustments
    /\ ProductTypes["cost"] = Prices /\ ProductTypes["base"] = Int
    /\ \A f \in {"here", "active", "deleted", "hand", "mixed"} :
          ProductTypes[f] = BOOLEAN
  BY DEF ProductNames, ProductTypes

\* Typed values over a product make a product.
LEMMA OverFits ==
    ASSUME NEW d \in Product, NEW w, DOMAIN w \subseteq ProductNames,
           \A f \in DOMAIN w : w[f] \in ProductTypes[f]
    PROVE  Over(w, d) \in Product
<1> DEFINE x == Over(w, d)
<1>1. DOMAIN d = ProductNames /\ \A f \in ProductNames : d[f] \in ProductTypes[f]
  BY ProductFields
<1>2. /\ x = [f \in ProductNames |-> x[f]]
      /\ \A f \in ProductNames : x[f] = IF f \in DOMAIN w THEN w[f] ELSE d[f]
  BY <1>1 DEF Over
<1>3. \A f \in ProductNames : x[f] \in ProductTypes[f]
  BY <1>1, <1>2
<1> HIDE DEF x
<1> QED
  BY <1>2, <1>3, FieldsProduct DEF x

\* Whatever an update asks for is of the field's type.
LEMMA PayloadTypes ==
    ASSUME NEW u \in Payloads
    PROVE  /\ DOMAIN u \subseteq {"base", "markup", "mode", "flag", "adjust"}
           /\ "base" \in DOMAIN u => u["base"] \in Nat
           /\ "markup" \in DOMAIN u => u["markup"] \in {0} \cup Markups
           /\ "mode" \in DOMAIN u => u["mode"] \in {"SYNC", "MANUAL"}
           /\ "flag" \in DOMAIN u => u["flag"] \in {"SYNC", "MANUAL"}
           /\ "adjust" \in DOMAIN u => u["adjust"] \in {Off} \cup Adjustments
  BY Bounds DEF Payloads

\* What updateProduct sets.
LEMMA UpdatedFits ==
    ASSUME StockInv, NEW d \in Product, NEW u \in Payloads
    PROVE  Over(Updated(d, u), d) \in Product /\ Settled(Updated(d, u))
<1> DEFINE raw == IF d.link = NoItem THEN 0 ELSE item[d.link].price
           mode == Asked(u, "mode", d.mode)
           markup == Asked(u, "markup", d.markup)
           adjust == Asked(u, "adjust", d.adjust)
           recompute == \/ "markup" \in DOMAIN u
                        \/ mode = "SYNC" /\ mode # d.mode
           adjusted == [cost |-> raw, base |-> raw + adjust,
                        hand |-> Lowers(adjust)]
           computed == [cost |-> raw, base |-> Priced(raw, markup), hand |-> FALSE]
           asked == [f \in DOMAIN u \cap {"base"} |-> u[f]]
           prices == CASE d.link # NoItem /\ adjust # Off -> adjusted
                       [] d.link # NoItem /\ adjust = Off /\ recompute -> computed
                       [] OTHER -> asked
           turned == [f \in {"mode"} |-> Asked(u, "flag", mode)]
           byHand == [f \in {"hand"} |-> "base" \in DOMAIN u \/ d.hand]
           others == Restrict(u, DOMAIN u \ {"flag", "base"})
           w == And(prices, And(turned, And(others, byHand)))
<1>1. Updated(d, u) = w
  BY DEF Updated
<1>2. /\ DOMAIN d = ProductNames
      /\ d.link \in Items \cup {NoItem} /\ d.mode \in {"SYNC", "MANUAL"}
      /\ d.markup \in {0} \cup Markups /\ d.adjust \in {Off} \cup Adjustments
      /\ d.hand \in BOOLEAN
  BY ProductFields DEF Product
<1>3. /\ DOMAIN u \subseteq {"base", "markup", "mode", "flag", "adjust"}
      /\ "base" \in DOMAIN u => u["base"] \in Nat
      /\ "markup" \in DOMAIN u => u["markup"] \in {0} \cup Markups
      /\ "mode" \in DOMAIN u => u["mode"] \in {"SYNC", "MANUAL"}
      /\ "flag" \in DOMAIN u => u["flag"] \in {"SYNC", "MANUAL"}
      /\ "adjust" \in DOMAIN u => u["adjust"] \in {Off} \cup Adjustments
  BY PayloadTypes
<1>4. d.link # NoItem => raw \in Prices /\ raw > 0
  BY <1>2 DEF StockInv, RawProduct
<1>5. mode \in {"SYNC", "MANUAL"} /\ markup \in Nat
      /\ (adjust # Off => adjust \in Int)
  BY <1>2, <1>3, Bounds DEF Asked
<1> HIDE DEF raw, mode, markup, adjust
<1> DEFINE Computed(p) == /\ DOMAIN p = {"cost", "base", "hand"}
                          /\ p["cost"] \in Prices /\ 0 < p["cost"]
                          /\ p["base"] \in Int
                          /\ p["hand"] \/ p["cost"] <= p["base"]
                          /\ p["hand"] \in BOOLEAN
           Asking(p) == /\ DOMAIN p = DOMAIN u \cap {"base"}
                        /\ \A f \in DOMAIN p : p[f] = u[f]
<1>6. Computed(prices) \/ Asking(prices)
  <2>1. CASE d.link # NoItem /\ adjust # Off
    <3> DEFINE low == Lowers(adjust)
    <3>1. /\ DOMAIN adjusted = {"cost", "base", "hand"}
          /\ adjusted["hand"] = low
      OBVIOUS
    <3>2. adjusted["cost"] = raw /\ adjusted["base"] = raw + adjust
      OBVIOUS
    <3>3. /\ raw \in Prices /\ raw > 0
          /\ raw + adjust \in Int /\ (low \/ raw <= raw + adjust)
      <4>1. raw \in Prices /\ raw > 0
        BY <1>4, <2>1
      <4>2. raw \in Nat /\ adjust \in Int
        BY <1>5, <2>1, <4>1, Bounds
      <4>3. raw + adjust \in Int /\ (adjust >= 0 => raw <= raw + adjust)
        BY <4>2
      <4>4. adjust < 0 => low
        BY <2>1 DEF Lowers
      <4> QED
        BY <4>1, <4>2, <4>3, <4>4
    <3>4. prices = adjusted
      BY <2>1
    <3>5. low \in BOOLEAN
      BY Zenon DEF Lowers
    <3> HIDE DEF adjusted, prices, low
    <3>6. /\ DOMAIN prices = {"cost", "base", "hand"} /\ prices["hand"] = low
          /\ prices["cost"] = raw /\ prices["base"] = raw + adjust
      BY <3>1, <3>2, <3>4
    <3>7. prices["hand"] \/ prices["cost"] <= prices["base"]
      <4>1. CASE low
        <5>1. prices["hand"]
          BY <3>6, <4>1, Zenon
        <5> QED
          BY <5>1, Zenon
      <4>2. CASE ~low
        BY <3>3, <3>6, <4>2
      <4> QED
        BY <4>1, <4>2
    <3>8. prices["hand"] \in BOOLEAN
      BY <3>5, <3>6, Zenon
    <3>9. /\ prices["cost"] \in Prices /\ 0 < prices["cost"]
          /\ prices["base"] \in Int
      BY <3>3, <3>6, Bounds
    <3>10. Computed(prices)
      BY <3>6, <3>7, <3>8, <3>9, Zenon
    <3> HIDE DEF Computed
    <3> QED
      BY <3>10
  <2>2. CASE d.link # NoItem /\ adjust = Off /\ recompute
    <3>1. DOMAIN computed = {"cost", "base", "hand"} /\ computed["hand"] \in BOOLEAN
      OBVIOUS
    <3>2. computed["cost"] = raw /\ computed["base"] = raw + markup
      BY DEF Priced
    <3>3. /\ raw \in Prices /\ raw > 0
          /\ raw + markup \in Nat /\ raw <= raw + markup
      <4>1. raw \in Prices /\ raw > 0
        BY <1>4, <2>2
      <4>2. raw \in Nat /\ markup \in Nat
        BY <1>5, <4>1, Bounds
      <4> QED
        BY <4>1, <4>2
    <3>4. prices = computed
      BY <2>2
    <3> HIDE DEF computed, prices
    <3> QED
      BY <3>1, <3>2, <3>3, <3>4
  <2>3. CASE /\ ~(d.link # NoItem /\ adjust # Off)
             /\ ~(d.link # NoItem /\ adjust = Off /\ recompute)
    <3>1. prices = asked
      BY <2>3
    <3>2. Asking(asked)
      OBVIOUS
    <3> HIDE DEF asked, prices
    <3> QED
      BY <3>1, <3>2
  <2> QED
    BY <2>1, <2>2, <2>3
<1> HIDE DEF prices
<1> DEFINE hand == "base" \in DOMAIN u \/ d.hand
<1>7. hand \in BOOLEAN /\ ("base" \in DOMAIN u => hand)
  BY <1>2
<1>8. Asked(u, "flag", mode) \in {"SYNC", "MANUAL"}
  BY <1>3, <1>5 DEF Asked
<1> DEFINE turn == Asked(u, "flag", mode)
<1>9. /\ DOMAIN w = DOMAIN prices \cup {"mode"}
                      \cup (DOMAIN u \ {"flag", "base"}) \cup {"hand"}
      /\ \A f \in DOMAIN w :
            w[f] = IF f \in DOMAIN prices THEN prices[f]
                   ELSE IF f = "mode" THEN turn
                   ELSE IF f \in DOMAIN u \ {"flag", "base"} THEN u[f] ELSE hand
  BY DEF And, Restrict
<1> HIDE DEF w, hand, turn
<1>10. /\ "mode" \notin DOMAIN prices => w["mode"] = turn
       /\ "mode" \in DOMAIN w /\ "hand" \in DOMAIN w
       /\ "hand" \notin DOMAIN prices => w["hand"] = hand
  BY <1>3, <1>9
<1>11. DOMAIN w \subseteq {"cost", "base", "hand", "mode", "markup", "adjust"}
  BY <1>3, <1>6, <1>9
<1>12. /\ w["mode"] \in ProductTypes["mode"]
       /\ "cost" \in DOMAIN w => w["cost"] \in ProductTypes["cost"]
       /\ "base" \in DOMAIN w => w["base"] \in ProductTypes["base"]
       /\ "markup" \in DOMAIN w => w["markup"] \in ProductTypes["markup"]
       /\ "adjust" \in DOMAIN w => w["adjust"] \in ProductTypes["adjust"]
  BY <1>3, <1>6, <1>8, <1>9, <1>10, TypesOfProducts DEF turn
<1>13. w["hand"] \in ProductTypes["hand"]
  BY <1>3, <1>6, <1>7, <1>9, <1>10, TypesOfProducts
<1>14. \A f \in DOMAIN w : f \in ProductNames /\ w[f] \in ProductTypes[f]
  BY <1>11, <1>12, <1>13, TypesOfProducts
<1>15. Over(w, d) \in Product
  BY <1>14, OverFits
<1>16. Settled(w)
  <2>1. DOMAIN w \subseteq DOMAIN NoProduct \ {"here", "mixed"}
    BY <1>11, NoProductFields, TypesOfProducts
  <2>2. CASE Computed(prices)
    <3>1. /\ PriceFields \subseteq DOMAIN w
          /\ w["cost"] = prices["cost"] /\ w["base"] = prices["base"]
          /\ w["hand"] = prices["hand"]
      BY <1>9, <2>2 DEF PriceFields
    <3> QED
      BY <1>10, <1>11, <2>1, <2>2, <3>1 DEF Settled
  <2>3. CASE Asking(prices)
    <3>1. DOMAIN w \cap PriceFields # {} => "base" \in DOMAIN u
      BY <1>3, <1>9, <2>3 DEF PriceFields
    <3>2. w["hand"] = hand
      BY <1>10, <2>3
    <3> QED
      BY <1>7, <1>10, <1>11, <2>1, <3>1, <3>2 DEF Settled
  <2> QED
    BY <1>6, <2>2, <2>3
<1> QED
  BY <1>1, <1>15, <1>16

\* Two prices of a raw product with a price, and the link and the mode.
LEMMA BothPricesFit ==
    ASSUME NEW d \in Product, NEW w, NEW raw \in Prices, raw > 0,
           NEW more \in Int, NEW low \in BOOLEAN, more >= 0 \/ low,
           DOMAIN w \subseteq {"link", "mode", "cost", "base", "hand"},
           {"cost", "base", "hand"} \subseteq DOMAIN w,
           w["cost"] = raw, w["base"] = raw + more, w["hand"] = low,
           "mode" \in DOMAIN w => w["mode"] = "SYNC",
           "link" \in DOMAIN w => w["link"] \in Items
    PROVE  Over(w, d) \in Product /\ Settled(w)
<1>1. raw + more \in Int /\ (more >= 0 => raw <= raw + more)
  BY Bounds
<1>2. \A f \in DOMAIN w : f \in ProductNames /\ w[f] \in ProductTypes[f]
  <2>1. w["cost"] \in ProductTypes["cost"] /\ w["base"] \in ProductTypes["base"]
    BY <1>1, TypesOfProducts
  <2>2. w["hand"] \in ProductTypes["hand"]
    BY TypesOfProducts
  <2>3. "mode" \in DOMAIN w => w["mode"] \in ProductTypes["mode"]
    BY TypesOfProducts
  <2>4. "link" \in DOMAIN w => w["link"] \in ProductTypes["link"]
    BY TypesOfProducts
  <2>5. {"link", "mode", "cost", "base", "hand"} \subseteq ProductNames
    BY DEF ProductNames
  <2> QED
    BY <2>1, <2>2, <2>3, <2>4, <2>5
<1>3. Over(w, d) \in Product
  BY <1>2, OverFits
<1>4. DOMAIN w \subseteq DOMAIN NoProduct \ {"here", "mixed"}
  BY NoProductFields, TypesOfProducts
<1>5. Settled(w)
  BY <1>1, <1>4 DEF Settled, PriceFields
<1> QED
  BY <1>3, <1>5

\* The prices of another item leave a product typed, its price settled by its
\* cost, with the mode or without.
LEMMA RelinkedFits ==
    ASSUME StockInv, NEW d \in Product, NEW i \in Items
    PROVE  LET new == Relinked(d, i)
               both == And([mode |-> "SYNC"], new)
           IN  /\ Over(new, d) \in Product /\ Settled(new)
               /\ Over(both, d) \in Product /\ Settled(both)
<1> DEFINE raw == item[i].price
           new == [link |-> i, cost |-> raw, base |-> Priced(raw, d.markup),
                   hand |-> FALSE]
           mode == [mode |-> "SYNC"]
           both == And(mode, new)
<1>1. Relinked(d, i) = new
  BY DEF Relinked
<1>2. raw \in Prices /\ raw > 0
  BY DEF StockInv, RawProduct
<1>3. d.markup \in Int /\ d.markup >= 0
  BY ProductFields, TypesOfProducts, Bounds
<1>4. /\ DOMAIN new = {"link", "cost", "base", "hand"}
      /\ new["link"] = i /\ new["cost"] = raw /\ new["hand"] = FALSE
  OBVIOUS
<1>5. new["base"] = raw + d.markup
  BY DEF Priced
<1>6. DOMAIN mode = {"mode"} /\ mode["mode"] = "SYNC"
  OBVIOUS
<1> HIDE DEF new, raw, mode
<1>7. /\ DOMAIN both = {"mode"} \cup {"link", "cost", "base", "hand"}
      /\ \A f \in DOMAIN both :
            both[f] = IF f \in {"mode"} THEN mode[f] ELSE new[f]
  BY <1>4, <1>6 DEF And
<1> HIDE DEF both
<1>8. /\ DOMAIN both = {"link", "mode", "cost", "base", "hand"}
      /\ both["mode"] = "SYNC" /\ both["link"] = i /\ both["cost"] = raw
      /\ both["base"] = raw + d.markup /\ both["hand"] = FALSE
  BY <1>4, <1>5, <1>6, <1>7
<1>9. Over(new, d) \in Product /\ Settled(new)
  BY <1>2, <1>3, <1>4, <1>5, BothPricesFit
<1>10. Over(both, d) \in Product /\ Settled(both)
  BY <1>2, <1>3, <1>8, BothPricesFit
<1> QED
  BY <1>1, <1>9, <1>10 DEF both, mode

\* So does linking a product to an item.
LEMMA LinkedFits ==
    ASSUME StockInv, NEW d \in Product, NEW i \in Items
    PROVE  Over(Linked(d, i), d) \in Product /\ Settled(Linked(d, i))
<1> DEFINE u == [mode |-> "SYNC"]
<1>1. CASE d.link = i
  <2>1. u \in Payloads
    <3>1. u \in [{"mode"} -> {"SYNC", "MANUAL"}]
      OBVIOUS
    <3> QED
      BY <3>1 DEF Payloads
  <2>2. Linked(d, i) = Updated(d, u)
    BY <1>1 DEF Linked
  <2> HIDE DEF u
  <2> QED
    BY <2>1, <2>2, UpdatedFits
<1>2. CASE d.link # i
  <2>1. Linked(d, i) = And([mode |-> "SYNC"], Relinked(d, i))
    BY <1>2 DEF Linked
  <2> QED
    BY <2>1, RelinkedFits
<1> QED
  BY <1>1, <1>2

\* So does taking its prices from the item again, but for an adjustment that
\* lowers them.
LEMMA ResyncedFits ==
    ASSUME StockInv, NEW d \in Product, d.link \in Items
    PROVE  Over(Resynced(d), d) \in Product /\ Settled(Resynced(d))
<1> DEFINE raw == item[d.link].price
           more == IF d.adjust = Off THEN d.markup ELSE d.adjust
           low == Lowers(d.adjust)
           w == [cost |-> raw, base |-> Priced(raw, more), mode |-> "SYNC",
                 hand |-> low]
<1>1. Resynced(d) = w
  BY DEF Resynced
<1>2. raw \in Prices /\ raw > 0
  BY DEF StockInv, RawProduct
<1>3. more \in Int /\ (more >= 0 \/ low)
  <2>1. d.markup \in Int /\ d.markup >= 0
    BY ProductFields, TypesOfProducts, Bounds
  <2>2. d.adjust = Off \/ d.adjust \in Int
    BY ProductFields, TypesOfProducts, Bounds
  <2> QED
    BY <2>1, <2>2 DEF Lowers
<1>4. low \in BOOLEAN
  BY Zenon DEF Lowers
<1>5. /\ DOMAIN w = {"mode", "cost", "base", "hand"}
      /\ w["mode"] = "SYNC" /\ w["cost"] = raw /\ w["hand"] = low
  OBVIOUS
<1>6. w["base"] = raw + more
  BY DEF Priced
<1> HIDE DEF w, raw, more, low
<1>7. Over(w, d) \in Product /\ Settled(w)
  BY <1>2, <1>3, <1>4, <1>5, <1>6, BothPricesFit
<1> QED
  BY <1>1, <1>7

\* What the switch of a product and its deletion set.
LEMMA FlagsFit ==
    ASSUME NEW d \in Product, NEW w, DOMAIN w \subseteq {"active", "deleted"},
           \A f \in DOMAIN w : w[f] \in BOOLEAN
    PROVE  Over(w, d) \in Product /\ Settled(w)
<1>1. \A f \in DOMAIN w : f \in ProductNames /\ w[f] \in ProductTypes[f]
  BY TypesOfProducts
<1>2. DOMAIN w \subseteq DOMAIN NoProduct \ {"here", "mixed"}
  BY NoProductFields, TypesOfProducts
<1>3. Settled(w)
  BY <1>2 DEF Settled, PriceFields
<1> QED
  BY <1>1, <1>3, OverFits

\* A request that changes no product.
LEMMA EditGoes ==
    ASSUME SaleInv, NEW a \in Admins, NEW record, Editing(record),
           edit' = [edit EXCEPT ![a] = record],
           UNCHANGED spent \/ (spent.requests < MaxRequests /\ Spend("requests")),
           UNCHANGED active, StockInv', OutsideEdit
    PROVE  SaleInv'
<1>1. SpentInv' /\ spent'.offers >= spent.offers
  BY SpentKept DEF SaleInv
<1>2. EditsInv'
  BY DEF SaleInv, EditsInv
<1>3. SyncsInv'
  <2>1. UNCHANGED <<sync, locks>>
    BY DEF OutsideEdit
  <2>2. spent'.offers = spent.offers
    <3>1. DOMAIN spent = {"offers", "requests", "faults"}
      BY DEF SaleInv, SpentInv
    <3> QED
      BY <3>1 DEF Spend
  <2> QED
    BY <2>1, <2>2 DEF SaleInv, SyncsInv, Busy
<1>4. OrdersInv' /\ PlainInv'
  BY DEF SaleInv, OrdersInv, PlainInv, OutsideEdit
<1> QED
  BY <1>1, <1>2, <1>3, <1>4 DEF SaleInv

\* A handler that read a product, and will save.
LEMMA EditKeeps ==
    ASSUME SaleInv, NEW a \in Admins, NEW r \in Products, NEW w,
           Over(w, product[r]) \in Product, Settled(w),
           Request(a), Edit(a, r, w)
    PROVE  SaleInv'
<1> DEFINE record == [stage |-> "saving", at |-> r, seen |-> product[r], w |-> w]
<1>1. product[r] \in Product
  BY DEF SaleInv, StockInv
<1>2. /\ record = [stage |-> record.stage, at |-> record.at,
                   seen |-> record.seen, w |-> record.w]
      /\ record.stage = "saving" /\ record.at = r /\ record.seen = product[r]
      /\ record.w = w
  OBVIOUS
<1>3. edit' = [edit EXCEPT ![a] = record]
  BY DEF Edit
<1> HIDE DEF record
<1>4. Editing(record)
  BY <1>1, <1>2 DEF Editing
<1>5. StockInv'
  BY DEF SaleInv, StockInv, Edit, OutsideEdit
<1> QED
  BY <1>3, <1>4, <1>5, EditGoes DEF Edit, Request

\* The copy of an item has a price.
LEMMA ItemPrices ==
    ASSUME StockInv, NEW i \in Items
    PROVE  item[i].price \in Prices /\ item[i].price > 0
  BY DEF StockInv, RawProduct

\* What createProduct and publishFromProviderProduct are about to insert.
LEMMA NewProductsFit ==
    ASSUME StockInv, NEW new \in NewProducts
    PROVE  new \in Product /\ Coherent(new)
<1> DEFINE x == [NoProduct EXCEPT !.here = TRUE]
           y == [x EXCEPT !.base = 1]
           z == [y EXCEPT !.hand = TRUE]
           own == [z EXCEPT !.active = TRUE]
<1>1. CASE new = own
  <2>1. x \in Product
    BY NoProductFields DEF Product
  <2> HIDE DEF x
  <2>2. y \in Product
    BY <2>1 DEF Product
  <2> HIDE DEF y
  <2>3. z \in Product /\ z.hand
    BY <2>2 DEF Product
  <2> HIDE DEF z
  <2>4. own \in Product /\ own.hand
    BY <2>3 DEF Product
  <2> HIDE DEF own
  <2> QED
    BY <1>1, <2>4 DEF Coherent
<1>2. CASE \E i \in Items, mode \in {"SYNC", "MANUAL"}, m \in Markups :
              new = Published(i, item[i].price, mode, m)
  <2>1. PICK i \in Items, mode \in {"SYNC", "MANUAL"}, m \in Markups :
                new = Published(i, item[i].price, mode, m)
    BY <1>2
  <2>2. m \in {0} \cup Markups
    OBVIOUS
  <2> QED
    BY <2>1, <2>2, ItemPrices, PublishedFits
<1>3. CASE \E i \in Items : new = OwnPrice(i)
  <2>1. PICK i \in Items : new = OwnPrice(i)
    BY <1>3
  <2> DEFINE p == Published(i, item[i].price, "MANUAL", 0)
             q == [p EXCEPT !.base = 1]
             r == [q EXCEPT !.hand = TRUE]
  <2>2. p \in Product
    BY ItemPrices, PublishedFits
  <2>3. new = r
    BY <2>1 DEF OwnPrice
  <2> HIDE DEF p
  <2>4. q \in Product
    BY <2>2 DEF Product
  <2> HIDE DEF q
  <2>5. r \in Product /\ r.hand
    BY <2>4 DEF Product
  <2> HIDE DEF r
  <2> QED
    BY <2>3, <2>5 DEF Coherent
<1>4. \/ new = own
      \/ \E i \in Items : new = OwnPrice(i)
      \/ \E i \in Items, mode \in {"SYNC", "MANUAL"}, m \in Markups :
              new = Published(i, item[i].price, mode, m)
  <2>1. own = [NoProduct EXCEPT !.here = TRUE, !.base = 1, !.hand = TRUE,
                                !.active = TRUE]
    OBVIOUS
  <2> HIDE DEF own
  <2>2. \/ new = own
        \/ new \in {Published(i, item[i].price, mode, m) :
              i \in {j \in Items : Publishable(j)}, mode \in {"SYNC", "MANUAL"},
              m \in Markups}
        \/ new \in {Published(i, item[i].price, mark[1], mark[2]) :
              i \in Items, mark \in Marked}
        \/ new \in {OwnPrice(i) : i \in Items}
    BY <2>1 DEF NewProducts
  <2>3. \A mark \in Marked : mark[1] \in {"SYNC", "MANUAL"} /\ mark[2] \in Markups
    BY DEF Marked
  <2> QED
    BY <2>2, <2>3
<1> QED
  BY <1>1, <1>2, <1>3, <1>4

\* An administrator who begins a product keeps the invariant of sales.
LEMMA CreateKeeps ==
    ASSUME SaleInv, NEW a \in Admins, NEW r \in Products, Create(a, r)
    PROVE  SaleInv'
<1>1. PICK new \in NewProducts :
         edit' = [edit EXCEPT ![a] = [stage |-> "creating", at |-> r,
                                      seen |-> NoProduct, w |-> new]]
  BY DEF Create
<1> DEFINE record == [stage |-> "creating", at |-> r, seen |-> NoProduct, w |-> new]
<1>2. new \in Product /\ Coherent(new)
  BY NewProductsFit DEF SaleInv
<1>3. /\ record = [stage |-> record.stage, at |-> record.at,
                   seen |-> record.seen, w |-> record.w]
      /\ record.stage = "creating" /\ record.at = r /\ record.w = new
  OBVIOUS
<1>4. edit' = [edit EXCEPT ![a] = record]
  BY <1>1
<1> HIDE DEF record
<1>5. Editing(record)
  BY <1>2, <1>3 DEF Editing
<1>6. StockInv'
  BY DEF SaleInv, StockInv, Create, OutsideEdit
<1> QED
  BY <1>4, <1>5, <1>6, EditGoes DEF Create, Request

\* So does one who reads a product and decides what to change of it,
LEMMA AdministerKeeps ==
    ASSUME SaleInv, NEW a \in Admins, NEW r \in Products, Administer(a, r)
    PROVE  SaleInv'
<1>0. StockInv /\ product[r] \in Product
  BY DEF SaleInv, StockInv
<1>1. CASE UpdateProduct(a, r)
  <2>1. CASE \E u \in Payloads : Edit(a, r, Updated(product[r], u))
    BY <1>0, <1>1, <2>1, UpdatedFits, EditKeeps DEF UpdateProduct
  <2>2. CASE \E i \in Items : Edit(a, r, Relinked(product[r], i))
    BY <1>0, <1>1, <2>2, RelinkedFits, EditKeeps DEF UpdateProduct
  <2> QED
    BY <1>1, <2>1, <2>2 DEF UpdateProduct
<1>2. CASE LinkProductProvider(a, r)
  <2>1. PICK i \in Items : Edit(a, r, Linked(product[r], i))
    BY <1>2 DEF LinkProductProvider
  <2> QED
    BY <1>0, <1>2, <2>1, LinkedFits, EditKeeps DEF LinkProductProvider
<1>3. CASE SyncProductPrice(a, r)
  <2>1. product[r].link \in Items
    BY <1>3 DEF SyncProductPrice, Sellable
  <2> QED
    BY <1>0, <1>3, <2>1, ResyncedFits, EditKeeps DEF SyncProductPrice
<1>4. CASE ToggleProduct(a, r)
  <2> DEFINE w == [active |-> ~product[r].active]
  <2>1. DOMAIN w \subseteq {"active", "deleted"} /\ \A f \in DOMAIN w : w[f] \in BOOLEAN
    <3>1. product[r].active \in BOOLEAN
      BY <1>0, ProductFields, TypesOfProducts
    <3>2. DOMAIN w = {"active"} /\ w["active"] = ~product[r].active
      OBVIOUS
    <3> HIDE DEF w
    <3>3. w["active"] \in BOOLEAN
      BY <3>1, <3>2, Zenon
    <3> QED
      BY <3>2, <3>3
  <2>2. Request(a) /\ Edit(a, r, w)
    BY <1>4 DEF ToggleProduct
  <2> HIDE DEF w
  <2> QED
    BY <1>0, <2>1, <2>2, FlagsFit, EditKeeps
<1>5. CASE DeleteProduct(a, r)
  <2> DEFINE w == [active |-> FALSE, deleted |-> TRUE]
  <2>1. DOMAIN w \subseteq {"active", "deleted"} /\ \A f \in DOMAIN w : w[f] \in BOOLEAN
    <3>1. DOMAIN w = {"active", "deleted"} /\ w["active"] = FALSE /\ w["deleted"] = TRUE
      OBVIOUS
    <3> HIDE DEF w
    <3>2. w["active"] \in BOOLEAN /\ w["deleted"] \in BOOLEAN
      BY <3>1, Zenon
    <3> QED
      BY <3>1, <3>2
  <2>2. Request(a) /\ Edit(a, r, w)
    BY <1>5 DEF DeleteProduct
  <2> HIDE DEF w
  <2> QED
    BY <1>0, <2>1, <2>2, FlagsFit, EditKeeps
<1> QED
  BY <1>1, <1>2, <1>3, <1>4, <1>5, CreateKeeps DEF Administer

\* No request is under way.
LEMMA IdleEdit == Editing(NoEdit)
<1>1. /\ NoEdit = [stage |-> NoEdit.stage, at |-> NoEdit.at,
                   seen |-> NoEdit.seen, w |-> NoEdit.w]
      /\ NoEdit.stage = "idle"
  BY DEF NoEdit
<1> QED
  BY <1>1 DEF Editing

\* the insertion of a new product,
LEMMA InsertKeeps ==
    ASSUME SaleInv, NEW a \in Admins, Insert(a)
    PROVE  SaleInv'
<1>1. edit[a].at \in Products /\ edit[a].w \in Product /\ Coherent(edit[a].w)
  BY DEF SaleInv, EditsInv, Editing, Insert
<1>2. StockInv'
  <2>1. product' = [product EXCEPT ![edit[a].at] = edit[a].w] /\ UNCHANGED item
    BY DEF Insert, OutsideEdit
  <2> QED
    BY <1>1, <2>1 DEF SaleInv, StockInv
<1> QED
  BY <1>2, IdleEdit, EditGoes DEF Insert

\* What a save leaves is a product; and it is sold at what it costs or more,
\* unless the price is by hand or was saved over another.
LEMMA SavedFits ==
    ASSUME NEW a, NEW d \in Product, Coherent(d),
           edit[a].seen \in Product, Settled(edit[a].w),
           Over(edit[a].w, edit[a].seen) \in Product,
           d = product[edit[a].at]
    PROVE  LET new == [Over(Modified(a), d) EXCEPT !.hand = ByHand(a),
                                                   !.mixed = @ \/ Mixes(a)]
           IN  new \in Product /\ Coherent(new)
<1> DEFINE w == edit[a].w
           seen == edit[a].seen
           o == Over(Modified(a), d)
           x == [o EXCEPT !.hand = ByHand(a)]
           mixed == o.mixed \/ Mixes(a)
           new == [x EXCEPT !.mixed = mixed]
<1>1. /\ DOMAIN d = ProductNames /\ DOMAIN seen = ProductNames
      /\ DOMAIN w \subseteq ProductNames \ {"here", "mixed"}
  BY ProductFields, NoProductFields DEF Settled
<1>2. \A f \in DOMAIN w : w[f] \in ProductTypes[f]
  <2>1. \A f \in DOMAIN w : Over(w, seen)[f] = w[f]
    BY <1>1 DEF Over
  <2> QED
    BY <1>1, <2>1, ProductFields
<1>3. /\ DOMAIN Modified(a) = {f \in DOMAIN w : w[f] # seen[f]}
      /\ \A f \in DOMAIN Modified(a) : Modified(a)[f] = w[f]
  BY DEF Modified, Restrict
<1>4. o \in Product
  BY <1>1, <1>2, <1>3, OverFits
<1>5. \A f \in ProductNames :
         o[f] = IF f \in DOMAIN w /\ w[f] # seen[f] THEN w[f] ELSE d[f]
  BY <1>1, <1>3 DEF Over
<1>6. ByHand(a) \in BOOLEAN
  <2>1. SetsPrices(a) => "hand" \in DOMAIN w
    BY DEF Settled, SetsPrices
  <2>2. "hand" \in DOMAIN w => w["hand"] \in BOOLEAN
    BY <1>2, TypesOfProducts
  <2>3. d.hand \in BOOLEAN
    BY ProductFields, TypesOfProducts
  <2> QED
    BY <2>1, <2>2, <2>3, Zenon DEF ByHand
<1>7. Mixes(a) \in BOOLEAN /\ o.mixed \in BOOLEAN
  <2>1. Mixes(a) \in BOOLEAN
    BY Zenon DEF Mixes, SetsPrices
  <2>2. o.mixed \in BOOLEAN
    BY <1>4, ProductFields, TypesOfProducts
  <2> QED
    BY <2>1, <2>2
<1>8. mixed \in BOOLEAN
  BY <1>7, Zenon
<1>9. /\ [Over(Modified(a), d) EXCEPT !.hand = ByHand(a), !.mixed = @ \/ Mixes(a)] = new
      /\ x.mixed = o.mixed
  <2>1. "hand" \in DOMAIN o /\ "mixed" \in DOMAIN o
    BY <1>4, ProductFields, TypesOfProducts
  <2> QED
    BY <2>1
<1>10. o["here"] = d["here"] /\ o["mixed"] = d["mixed"]
  BY <1>1, <1>5, TypesOfProducts
<1>11. ~SetsPrices(a) =>
         o["cost"] = d["cost"] /\ o["base"] = d["base"] /\ o["link"] = d["link"]
  BY <1>5, TypesOfProducts DEF SetsPrices, PriceFields, Settled
<1>12. ASSUME SetsPrices(a), ~Mixes(a), ~w["hand"]
       PROVE  0 < o["cost"] /\ o["cost"] <= o["base"]
  <2>1. {"cost", "base"} \subseteq DOMAIN w /\ 0 < w["cost"] /\ w["cost"] <= w["base"]
    BY <1>12 DEF SetsPrices, Settled, PriceFields
  <2>2. d["cost"] = seen["cost"] /\ d["base"] = seen["base"]
    BY <1>12 DEF Mixes, PriceFields
  <2>3. o["cost"] = w["cost"] /\ o["base"] = w["base"]
    BY <1>5, <2>1, <2>2, TypesOfProducts
  <2> QED
    BY <2>1, <2>3
<1> HIDE DEF o, mixed
<1>13. /\ x \in Product /\ x.hand = ByHand(a) /\ x.here = o.here
       /\ x.cost = o.cost /\ x.base = o.base /\ x.link = o.link
  BY <1>4, <1>6 DEF Product
<1> HIDE DEF x
<1>14. /\ new \in Product /\ new.hand = ByHand(a) /\ new.here = o.here
       /\ new.mixed = mixed
       /\ new.cost = o.cost /\ new.base = o.base /\ new.link = o.link
  BY <1>8, <1>13 DEF Product
<1> HIDE DEF new
<1>15. Coherent(new)
  <2> SUFFICES ASSUME new.here, ~new.hand, ~new.mixed
               PROVE  new.cost <= new.base /\ (new.link # NoItem => new.cost > 0)
    BY DEF Coherent
  <2>1. d.here /\ ~ByHand(a) /\ ~d.mixed /\ ~Mixes(a)
    BY <1>10, <1>14 DEF mixed
  <2>2. CASE SetsPrices(a)
    <3>1. ~w["hand"]
      BY <2>1, <2>2 DEF ByHand
    <3> QED
      BY <1>12, <1>14, <2>1, <2>2, <3>1
  <2>3. CASE ~SetsPrices(a)
    <3>1. ~d.hand
      BY <2>1, <2>3 DEF ByHand
    <3> QED
      BY <1>11, <1>14, <2>1, <2>3, <3>1 DEF Coherent
  <2> QED
    BY <2>2, <2>3
<1> QED
  BY <1>9, <1>14, <1>15

\* the save of the changed paths over whatever is stored by then,
LEMMA SaveKeeps ==
    ASSUME SaleInv, NEW a \in Admins, Save(a)
    PROVE  SaleInv'
<1> DEFINE r == edit[a].at
           new == [Over(Modified(a), product[r]) EXCEPT !.hand = ByHand(a),
                                                        !.mixed = @ \/ Mixes(a)]
<1>1. /\ r \in Products /\ edit[a].seen \in Product
      /\ Over(edit[a].w, edit[a].seen) \in Product /\ Settled(edit[a].w)
  BY DEF SaleInv, EditsInv, Editing, Save
<1>2. product[r] \in Product /\ Coherent(product[r])
  BY <1>1 DEF SaleInv, StockInv
<1>3. product' = [product EXCEPT ![r] = new] /\ UNCHANGED item
  BY DEF Save, OutsideEdit
<1>4. new \in Product /\ Coherent(new)
  BY <1>1, <1>2, SavedFits
<1> HIDE DEF new
<1>5. StockInv'
  BY <1>1, <1>3, <1>4 DEF SaleInv, StockInv
<1> QED
  BY <1>5, IdleEdit, EditGoes DEF Save

\* the provider switched on or off,
LEMMA SwitchKeeps ==
    ASSUME SaleInv, ToggleProvider
    PROVE  SaleInv'
<1>1. SpentInv' /\ spent'.offers >= spent.offers
  BY SpentKept DEF SaleInv, ToggleProvider
<1>2. active' \in BOOLEAN
  BY Zenon DEF ToggleProvider
<1>3. spent'.offers = spent.offers
  <2>1. DOMAIN spent = {"offers", "requests", "faults"}
    BY DEF SaleInv, SpentInv
  <2> QED
    BY <2>1 DEF ToggleProvider, Spend
<1>4. StockInv' /\ EditsInv' /\ OrdersInv'
  BY DEF SaleInv, StockInv, EditsInv, OrdersInv, ToggleProvider, OutsideEdit
<1>5. SyncsInv'
  BY <1>3 DEF SaleInv, SyncsInv, Busy, ToggleProvider, OutsideEdit
<1>6. PlainInv'
  BY <1>2 DEF SaleInv, PlainInv, ToggleProvider, OutsideEdit
<1> QED
  BY <1>1, <1>4, <1>5, <1>6 DEF SaleInv

\* and a new price in the provider's own catalogue, which no product has yet.
LEMMA OfferKeeps ==
    ASSUME SaleInv, NEW i \in Items, NEW entry \in {Absent} \cup Entries,
           Offer(i, entry)
    PROVE  SaleInv'
<1>1. /\ SpentInv' /\ spent'.offers >= spent.offers
      /\ spent.offers \in Nat /\ spent'.offers \in Nat
  BY SpentKept DEF SaleInv, Offer
<1>2. StockInv' /\ EditsInv' /\ OrdersInv'
  BY DEF SaleInv, StockInv, EditsInv, OrdersInv, Offer
<1>3. SyncsInv'
  <2>1. UNCHANGED <<sync, locks>>
    BY DEF Offer
  <2>2. ASSUME NEW s \in Syncs PROVE sync'[s].asOf <= spent'.offers
    <3>1. sync[s].asOf \in Nat /\ sync[s].asOf <= spent.offers
      BY SyncKnown, Bounds
    <3> QED
      BY <1>1, <2>1, <3>1
  <2> QED
    BY <2>1, <2>2 DEF SaleInv, SyncsInv, Busy
<1>4. PlainInv'
  BY DEF SaleInv, PlainInv, Offer, Menus
<1> QED
  BY <1>1, <1>2, <1>3, <1>4 DEF SaleInv

\* An order that waits for nothing; one order, or all of them, take a step.
LEMMA IdleOrder == Ordering(NoOrder) /\ NoOrder.stage = "idle"
<1>1. /\ NoOrder = [stage |-> NoOrder.stage, home |-> NoOrder.home, at |-> NoOrder.at,
                    seen |-> NoOrder.seen, live |-> NoOrder.live]
      /\ NoOrder.stage = "idle"
  BY DEF NoOrder
<1> QED
  BY <1>1 DEF Ordering

\* Steps of orders: what they must leave right for the invariant to stay.
LEMMA OrdersGo ==
    ASSUME SaleInv, OutsideOrder,
           order' = [o \in Orders |-> order'[o]],
           \A o \in Orders : Ordering(order'[o]),
           \/ UNCHANGED spent
           \/ Faulty
           \/ spent.requests < MaxRequests /\ Spend("requests"),
           StockInv', cache' \in [Processes -> Catalogues],
           pending' \subseteq Processes, draining' \subseteq Processes,
           losses' \subseteq {"hand", "mixed"}
    PROVE  SaleInv'
<1>1. SpentInv' /\ spent'.offers >= spent.offers
  BY SpentKept DEF SaleInv, Faulty
<1>2. spent'.offers = spent.offers
  <2>1. DOMAIN spent = {"offers", "requests", "faults"}
    BY DEF SaleInv, SpentInv
  <2> QED
    BY <2>1 DEF Faulty, Spend
<1>3. EditsInv' /\ OrdersInv'
  BY DEF SaleInv, EditsInv, OrdersInv, OutsideOrder
<1>4. SyncsInv'
  BY <1>2 DEF SaleInv, SyncsInv, Busy, OutsideOrder
<1>5. PlainInv'
  BY DEF SaleInv, PlainInv, OutsideOrder
<1> QED
  BY <1>1, <1>3, <1>4, <1>5 DEF SaleInv

\* The same for a step of one order.
LEMMA OrderGoes ==
    ASSUME SaleInv, OutsideOrder, NEW o \in Orders, NEW record, Ordering(record),
           Advance(o, record),
           \/ UNCHANGED spent
           \/ spent.requests < MaxRequests /\ Spend("requests"),
           StockInv', cache' \in [Processes -> Catalogues],
           pending' \subseteq Processes, draining' \subseteq Processes,
           losses' \subseteq {"hand", "mixed"}
    PROVE  SaleInv'
<1>1. order' = [q \in Orders |-> order'[q]] /\ \A q \in Orders : Ordering(order'[q])
  BY DEF SaleInv, OrdersInv, Advance
<1> QED
  BY <1>1, OrdersGo

\* What a sale loses, when the price is not above the one the product was read
\* with, or that one is not known.
LEMMA LossIsKnown ==
    ASSUME NEW d \in Product, Coherent(d), d.here, NEW live \in Prices,
           live = 0 \/ (d.link # NoItem /\ ~(d.cost > 0 /\ live > d.cost))
    PROVE  Loss(d, live) \subseteq {"hand", "mixed"}
<1>1. d.cost \in Nat /\ d.base \in Int /\ live \in Nat
  BY ProductFields, TypesOfProducts, Bounds
<1>2. CASE d.hand
  BY <1>2 DEF Loss
<1>3. CASE ~d.hand /\ d.mixed
  BY <1>3 DEF Loss
<1>4. CASE ~d.hand /\ ~d.mixed
  <2>1. d.base >= live
    BY <1>1, <1>4 DEF Coherent
  <2> QED
    BY <2>1 DEF Loss
<1> QED
  BY <1>2, <1>3, <1>4

\* The fields of an order that goes on.
LEMMA OrderKnown ==
    ASSUME SaleInv, NEW o \in Orders, order[o].stage # "idle"
    PROVE  /\ order[o] = [stage |-> order[o].stage, home |-> order[o].home,
                          at |-> order[o].at, seen |-> order[o].seen,
                          live |-> order[o].live]
           /\ order[o].at \in Products /\ order[o].home \in Processes
           /\ order[o].seen \in Product /\ order[o].seen.here
           /\ order[o].seen.link \in Items /\ Coherent(order[o].seen)
           /\ order[o].live \in Prices
           /\ order[o].stage = "repricing" => order[o].live > 0
  BY DEF SaleInv, OrdersInv, Ordering

\* What an order has read stays right at its next stage.
LEMMA NextStage ==
    ASSUME NEW x, Ordering(x), x.stage # "idle",
           NEW stage \in {"asking", "priced"}, NEW live \in Prices
    PROVE  /\ Ordering([x EXCEPT !.stage = stage])
           /\ Ordering([x EXCEPT !.stage = stage, !.live = live])
           /\ x.live > 0 => Ordering([x EXCEPT !.stage = "repricing"])
<1>1. x = [stage |-> x.stage, home |-> x.home, at |-> x.at, seen |-> x.seen,
           live |-> x.live]
  BY DEF Ordering
<1>2. /\ x.at \in Products /\ x.home \in Processes
      /\ x.seen \in Product /\ x.seen.here
      /\ x.seen.link \in Items /\ Coherent(x.seen) /\ x.live \in Prices
  BY DEF Ordering
<1> DEFINE Stage(t) == [x EXCEPT !.stage = t]
<1>3. ASSUME NEW t \in {"asking", "priced", "repricing"}
      PROVE  /\ Stage(t).stage = t /\ Stage(t).home = x.home
             /\ Stage(t).at = x.at /\ Stage(t).seen = x.seen
             /\ Stage(t).live = x.live
             /\ Stage(t) = [stage |-> Stage(t).stage, home |-> Stage(t).home,
                            at |-> Stage(t).at, seen |-> Stage(t).seen,
                            live |-> Stage(t).live]
  BY <1>1
<1> DEFINE y == [x EXCEPT !.stage = stage, !.live = live]
<1>4. /\ y.stage = stage /\ y.home = x.home /\ y.at = x.at /\ y.seen = x.seen
      /\ y.live = live
      /\ y = [stage |-> y.stage, home |-> y.home, at |-> y.at, seen |-> y.seen,
              live |-> y.live]
  <2> DEFINE z == [x EXCEPT !.stage = stage]
  <2>1. /\ z.stage = stage /\ z.home = x.home /\ z.at = x.at /\ z.seen = x.seen
        /\ z = [stage |-> z.stage, home |-> z.home, at |-> z.at, seen |-> z.seen,
                live |-> z.live]
    BY <1>1
  <2>2. y = [z EXCEPT !.live = live]
    BY <1>1
  <2> HIDE DEF z, y
  <2> QED
    BY <2>1, <2>2
<1>5. [x EXCEPT !.stage = "repricing"] = Stage("repricing")
  OBVIOUS
<1>6. [x EXCEPT !.stage = stage] = Stage(stage)
  OBVIOUS
<1> HIDE DEF Stage, y
<1>7. Ordering(Stage(stage))
  BY <1>2, <1>3 DEF Ordering
<1>8. x.live > 0 => Ordering(Stage("repricing"))
  BY <1>2, <1>3 DEF Ordering
<1>9. Ordering(y)
  BY <1>2, <1>4 DEF Ordering
<1> QED
  BY <1>5, <1>6, <1>7, <1>8, <1>9 DEF y

\* An order that reads its product keeps the invariant of sales.
LEMMA PlaceKeeps ==
    ASSUME SaleInv, NEW o \in Orders, NEW p \in Processes, NEW r \in Products,
           Place(o, p, r)
    PROVE  SaleInv'
<1>0. /\ product[r] \in Product /\ Coherent(product[r]) /\ product[r].here
      /\ losses \subseteq {"hand", "mixed"}
  BY DEF SaleInv, StockInv, PlainInv, Place
<1>1. /\ OutsideOrder /\ UNCHANGED <<product, cache, pending, draining>>
      /\ spent.requests < MaxRequests /\ Spend("requests")
  BY DEF Place
<1>2. /\ StockInv' /\ cache' \in [Processes -> Catalogues]
      /\ pending' \subseteq Processes /\ draining' \subseteq Processes
  BY <1>1 DEF SaleInv, StockInv, PlainInv, OutsideOrder
<1>3. CASE product[r].link # NoItem /\ active
  <2> DEFINE record == [stage |-> "checking", home |-> p, at |-> r,
                        seen |-> product[r], live |-> 0]
  <2>1. Advance(o, record) /\ UNCHANGED losses
    BY <1>3 DEF Place
  <2>2. /\ record = [stage |-> record.stage, home |-> record.home, at |-> record.at,
                     seen |-> record.seen, live |-> record.live]
        /\ record.stage = "checking" /\ record.home = p /\ record.at = r
        /\ record.seen = product[r] /\ record.live = 0
    OBVIOUS
  <2> HIDE DEF record
  <2>3. product[r].link \in Items
    BY <1>0, <1>3, ProductFields, TypesOfProducts
  <2>4. Ordering(record)
    BY <1>0, <2>2, <2>3, Bounds DEF Ordering
  <2> QED
    BY <1>0, <1>1, <1>2, <2>1, <2>4, OrderGoes
<1>4. CASE ~(product[r].link # NoItem /\ active)
  <2>1. Sold(o, product[r], 0)
    BY <1>4 DEF Place
  <2>2. losses' \subseteq {"hand", "mixed"}
    BY <1>0, <2>1, LossIsKnown, Bounds DEF Sold
  <2> QED
    BY <1>1, <1>2, <2>1, <2>2, IdleOrder, OrderGoes DEF Sold
<1> QED
  BY <1>3, <1>4

\* So does one that asks the cache for the provider's price,
LEMMA LivePriceKeeps ==
    ASSUME SaleInv, NEW o \in Orders, GetLivePrice(o)
    PROVE  SaleInv'
<1> DEFINE p == order[o].home
           live == cache[p][order[o].seen.link]
<1>1. /\ Ordering(order[o]) /\ order[o].stage # "idle"
      /\ p \in Processes /\ order[o].seen.link \in Items
  BY OrderKnown DEF SaleInv, OrdersInv, GetLivePrice
<1>2. /\ OutsideOrder /\ UNCHANGED <<product, cache, draining, spent, losses>>
  BY DEF GetLivePrice
<1>3. /\ StockInv' /\ cache' \in [Processes -> Catalogues]
      /\ draining' \subseteq Processes /\ losses' \subseteq {"hand", "mixed"}
      /\ pending \subseteq Processes
  BY <1>2 DEF SaleInv, StockInv, PlainInv, OutsideOrder
<1>4. CASE cache[p] # EmptyCatalogue
  <2>1. live \in Prices
    BY <1>1 DEF SaleInv, PlainInv, Catalogues
  <2>2. /\ Advance(o, [order[o] EXCEPT !.stage = "priced", !.live = live])
        /\ UNCHANGED pending
    BY <1>4 DEF GetLivePrice
  <2> HIDE DEF live
  <2>3. Ordering([order[o] EXCEPT !.stage = "priced", !.live = live])
    BY <1>1, <2>1, NextStage
  <2> QED
    BY <1>2, <1>3, <2>2, <2>3, OrderGoes
<1>5. CASE cache[p] = EmptyCatalogue
  <2>1. /\ Advance(o, [order[o] EXCEPT !.stage = "asking"])
        /\ pending' = pending \cup {p}
    BY <1>5 DEF GetLivePrice
  <2>2. Ordering([order[o] EXCEPT !.stage = "asking"])
    BY <1>1, NextStage, Bounds
  <2>3. pending' \subseteq Processes
    BY <1>1, <1>3, <2>1
  <2> QED
    BY <1>2, <1>3, <2>1, <2>2, <2>3, OrderGoes
<1> QED
  BY <1>4, <1>5

\* The answer that the orders of a process wait for.
LEMMA AnswerKeeps ==
    ASSUME SaleInv, NEW p \in Processes, NEW menu \in Catalogues,
           order' = Answered(p, menu)
    PROVE  /\ order' = [o \in Orders |-> order'[o]]
           /\ \A o \in Orders : Ordering(order'[o])
<1>1. order' = [o \in Orders |-> order'[o]]
  BY DEF Answered
<1>2. ASSUME NEW o \in Orders PROVE Ordering(order'[o])
  <2>1. CASE order[o].stage = "asking" /\ order[o].home = p
    <3> DEFINE live == menu[order[o].seen.link]
    <3>1. live \in Prices
      BY <2>1, OrderKnown DEF Catalogues
    <3>2. order'[o] = [order[o] EXCEPT !.stage = "priced", !.live = live]
      BY <2>1 DEF Answered
    <3> HIDE DEF live
    <3>3. Ordering(order[o]) /\ order[o].stage # "idle"
      BY <2>1 DEF SaleInv, OrdersInv
    <3>4. Ordering([order[o] EXCEPT !.stage = "priced", !.live = live])
      BY <3>1, <3>3, NextStage
    <3> QED
      BY <3>2, <3>4
  <2>2. CASE ~(order[o].stage = "asking" /\ order[o].home = p)
    BY <2>2 DEF SaleInv, OrdersInv, Answered
  <2> QED
    BY <2>1, <2>2
<1> QED
  BY <1>1, <1>2

\* the answer, or the failure, that all who wait for it get,
LEMMA PricesKeep ==
    ASSUME SaleInv, NEW p \in Processes, PricesArrive(p) \/ PricesFail(p)
    PROVE  SaleInv'
<1>1. CASE PricesArrive(p)
  <2>1. /\ OutsideOrder /\ UNCHANGED <<product, draining, spent, losses>>
        /\ order' = Answered(p, PriceList(offer))
        /\ cache' = [cache EXCEPT ![p] = PriceList(offer)]
        /\ pending' = pending \ {p} /\ offer \in Menus
    BY <1>1 DEF PricesArrive, SaleInv, PlainInv
  <2> DEFINE known == PriceList(offer)
  <2>3. known \in Catalogues
    BY <2>1, MenuFits
  <2> HIDE DEF known
  <2>2. /\ StockInv' /\ cache' \in [Processes -> Catalogues]
        /\ pending' \subseteq Processes /\ draining' \subseteq Processes
        /\ losses' \subseteq {"hand", "mixed"}
    BY <2>1, <2>3 DEF SaleInv, StockInv, PlainInv, OutsideOrder, known
  <2> QED
    BY <2>1, <2>2, <2>3, AnswerKeeps, OrdersGo DEF known
<1>2. CASE PricesFail(p)
  <2>1. /\ OutsideOrder /\ UNCHANGED <<product, cache, losses>> /\ Faulty
        /\ order' = Answered(p, EmptyCatalogue)
        /\ pending' = pending \ {p} /\ draining' = draining \cup {p}
    BY <1>2 DEF PricesFail
  <2>2. /\ StockInv' /\ cache' \in [Processes -> Catalogues]
        /\ pending' \subseteq Processes /\ draining' \subseteq Processes
        /\ losses' \subseteq {"hand", "mixed"}
    BY <2>1 DEF SaleInv, StockInv, PlainInv, OutsideOrder
  <2> QED
    BY <2>1, <2>2, AnswerKeeps, OrdersGo, Bounds
<1> QED
  BY <1>1, <1>2

\* The cache is emptied, and nothing else.
LEMMA EmptiedCache ==
    ASSUME SaleInv, NEW p, cache' = [cache EXCEPT ![p] = EmptyCatalogue]
    PROVE  cache' \in [Processes -> Catalogues]
  BY Bounds DEF SaleInv, PlainInv

\* the decision whether the product still pays,
LEMMA DecideKeeps ==
    ASSUME SaleInv, NEW o \in Orders, Decide(o)
    PROVE  SaleInv'
<1>1. /\ Ordering(order[o]) /\ order[o].stage # "idle"
      /\ order[o].seen \in Product /\ order[o].seen.here
      /\ order[o].seen.link \in Items /\ Coherent(order[o].seen)
      /\ order[o].live \in Prices
  BY OrderKnown DEF SaleInv, OrdersInv, Decide
<1>2. /\ OutsideOrder /\ UNCHANGED <<product, pending, draining, spent>>
  BY DEF Decide
<1>3. /\ StockInv' /\ pending' \subseteq Processes /\ draining' \subseteq Processes
      /\ losses \subseteq {"hand", "mixed"} /\ cache \in [Processes -> Catalogues]
  BY <1>2 DEF SaleInv, StockInv, PlainInv, OutsideOrder
<1>4. CASE Raised(o)
  <2>1. /\ Advance(o, [order[o] EXCEPT !.stage = "repricing"])
        /\ cache' = [cache EXCEPT ![order[o].home] = EmptyCatalogue]
        /\ UNCHANGED losses
    BY <1>4 DEF Decide
  <2>2. order[o].live > 0
    <3>1. order[o].seen.cost \in Nat /\ order[o].live \in Nat
      BY <1>1, ProductFields, TypesOfProducts, Bounds
    <3> QED
      BY <1>4, <3>1 DEF Raised
  <2>3. Ordering([order[o] EXCEPT !.stage = "repricing"])
    BY <1>1, <2>2, NextStage, Bounds
  <2> QED
    BY <1>2, <1>3, <2>1, <2>3, EmptiedCache, OrderGoes
<1>5. CASE ~Raised(o)
  <2>1. Sold(o, order[o].seen, order[o].live) /\ UNCHANGED cache
    BY <1>5 DEF Decide
  <2>2. order[o].seen.link # NoItem
    BY <1>1, CatalogueAssumption
  <2>3. Loss(order[o].seen, order[o].live) \subseteq {"hand", "mixed"}
    BY <1>1, <1>5, <2>2, LossIsKnown DEF Raised
  <2>4. losses' \subseteq {"hand", "mixed"}
    BY <1>3, <2>1, <2>3 DEF Sold
  <2> QED
    BY <1>2, <1>3, <2>1, <2>4, IdleOrder, OrderGoes DEF Sold
<1> QED
  BY <1>4, <1>5

\* the repricing by an order that was refused,
LEMMA AutoUpdateKeeps ==
    ASSUME SaleInv, NEW o \in Orders, AutoUpdate(o)
    PROVE  SaleInv'
<1> DEFINE r == order[o].at
           new == Repriced(product[r], order[o].live, order[o].seen.markup)
<1>1. /\ r \in Products /\ order[o].live \in Prices /\ order[o].live > 0
      /\ order[o].seen \in Product
  BY OrderKnown DEF AutoUpdate
<1>2. order[o].seen.markup \in {0} \cup Markups /\ product[r] \in Product
  BY <1>1, ProductFields, TypesOfProducts DEF SaleInv, StockInv
<1>3. new \in Product /\ Coherent(new)
  BY <1>1, <1>2, RepricedFits
<1>4. /\ product' = [product EXCEPT ![r] = new] /\ Advance(o, NoOrder)
      /\ OutsideOrder /\ UNCHANGED <<cache, pending, draining, spent, losses>>
  BY DEF AutoUpdate
<1> HIDE DEF new
<1>5. StockInv'
  BY <1>1, <1>3, <1>4 DEF SaleInv, StockInv, OutsideOrder
<1>6. /\ cache' \in [Processes -> Catalogues]
      /\ pending' \subseteq Processes /\ draining' \subseteq Processes
      /\ losses' \subseteq {"hand", "mixed"}
  BY <1>4 DEF SaleInv, PlainInv
<1> QED
  BY <1>4, <1>5, <1>6, IdleOrder, OrderGoes

\* and the end of a cache entry's lifetime.
LEMMA ExpireKeeps ==
    ASSUME SaleInv, NEW p \in Processes, Expire(p)
    PROVE  SaleInv'
<1>1. /\ OutsideOrder /\ UNCHANGED <<product, order, pending, draining, spent, losses>>
      /\ cache' = [cache EXCEPT ![p] = EmptyCatalogue]
  BY DEF Expire
<1>2. /\ order' = [o \in Orders |-> order'[o]]
      /\ \A o \in Orders : Ordering(order'[o])
  BY <1>1 DEF SaleInv, OrdersInv
<1>3. /\ StockInv' /\ pending' \subseteq Processes /\ draining' \subseteq Processes
      /\ losses' \subseteq {"hand", "mixed"}
  BY <1>1 DEF SaleInv, StockInv, PlainInv, OutsideOrder
<1> QED
  BY <1>1, <1>2, <1>3, EmptiedCache, OrdersGo

\* The process forgets its own synchronisations, and its own lock.
LEMMA RestartKeeps ==
    ASSUME SaleInv, NEW p \in Processes, Restart(p)
    PROVE  SaleInv'
<1>1. /\ sync' = [s \in Syncs |-> IF Home(s) = p THEN NoSync ELSE sync[s]]
      /\ locks' = locks \ {p}
      /\ order' = [o \in Orders |-> IF order[o].home = p THEN NoOrder ELSE order[o]]
      /\ cache' = [cache EXCEPT ![p] = EmptyCatalogue]
      /\ pending' = pending \ {p} /\ draining' = draining \ {p}
      /\ UNCHANGED <<offer, active, item, product, edit, overlapped, losses>>
      /\ UNCHANGED spent \/ Faulty
  BY DEF Restart
<1>2. /\ SpentInv' /\ spent'.offers >= spent.offers
      /\ spent.offers \in Nat /\ spent'.offers \in Nat
  BY <1>1, SpentKept DEF SaleInv, Faulty
<1>3. StockInv' /\ EditsInv'
  BY <1>1 DEF SaleInv, StockInv, EditsInv
<1>4. OrdersInv'
  BY <1>1, IdleOrder DEF SaleInv, OrdersInv
<1>5. SyncsInv'
  <2>1. sync' = [s \in Syncs |-> sync'[s]]
    BY <1>1
  <2>2. ASSUME NEW s \in Syncs
        PROVE  /\ Selling(sync'[s]) /\ sync'[s].asOf <= spent'.offers
               /\ Busy(s)' => Home(s) \in locks'
    <3>1. CASE Home(s) = p
      <4>1. sync'[s] = NoSync
        BY <1>1, <3>1
      <4> QED
        BY <1>2, <4>1, IdleSync DEF Busy
    <3>2. CASE Home(s) # p
      <4>1. sync'[s] = sync[s] /\ (Home(s) \in locks => Home(s) \in locks')
        BY <1>1, <3>2
      <4>2. Selling(sync[s]) /\ sync[s].asOf <= spent.offers /\ sync[s].asOf \in Nat
        BY SyncKnown, Bounds
      <4> QED
        BY <1>2, <4>1, <4>2 DEF SaleInv, SyncsInv, Busy
    <3> QED
      BY <3>1, <3>2
  <2> QED
    BY <1>1, <2>1, <2>2 DEF SaleInv, SyncsInv
<1>6. PlainInv'
  BY <1>1, EmptiedCache DEF SaleInv, PlainInv
<1> QED
  BY <1>2, <1>3, <1>4, <1>5, <1>6 DEF SaleInv

\* The invariant of sales holds at first.
LEMMA SaleInit ==
    ASSUME Init
    PROVE  SaleInv
<1>1. offer \in Menus /\ 1 \in Prices /\ 1 > 0
  <2>1. offer = [i \in Items |-> [price |-> 1, shown |-> TRUE]]
    BY DEF Init
  <2> QED
    BY <2>1, Bounds, CatalogueAssumption DEF Menus
<1>2. StockInv
  <2>1. item \in [Items -> RawProduct] /\ \A i \in Items : item[i].price > 0
    <3>1. \A i \in Items :
             item[i] = [price |-> 1, listed |-> TRUE, asOf |-> 0]
      BY DEF Init
    <3>2. item = [i \in Items |-> [price |-> 1, listed |-> TRUE, asOf |-> 0]]
      BY DEF Init
    <3>3. \A i \in Items :
             [price |-> 1, listed |-> TRUE, asOf |-> 0] \in RawProduct
      BY <1>1, Bounds DEF RawProduct
    <3> QED
      BY <1>1, <3>1, <3>2, <3>3
  <2>2. PICK links \in [Products -> Items \cup {NoItem}], m \in Markups :
           product = [r \in Products |->
                         IF links[r] = NoItem THEN NoProduct
                         ELSE Published(links[r], 1, "SYNC", m)]
    BY Zenon DEF Init
  <2>3. ASSUME NEW r \in Products
        PROVE  product[r] \in Product /\ Coherent(product[r])
    <3>1. CASE links[r] = NoItem
      BY <2>2, <3>1, NoProductFields
    <3>2. CASE links[r] # NoItem
      <4>1. links[r] \in Items
        BY <3>2
      <4>2. product[r] = Published(links[r], 1, "SYNC", m)
        BY <2>2, <3>2
      <4>3. m \in {0} \cup Markups
        OBVIOUS
      <4> QED
        BY <1>1, <4>1, <4>2, <4>3, PublishedFits
    <3> QED
      BY <3>1, <3>2
  <2> QED
    BY <2>1, <2>2, <2>3 DEF StockInv
<1>3. SpentInv
  <2>1. spent = [offers |-> 0, requests |-> 0, faults |-> 0]
    BY DEF Init
  <2> QED
    BY <2>1, Bounds DEF SpentInv
<1>4. SyncsInv
  <2>1. sync = [s \in Syncs |-> NoSync] /\ locks = {} /\ spent.offers = 0
    BY DEF Init
  <2> QED
    BY <2>1, IdleSync DEF SyncsInv, Busy
<1>5. EditsInv
  <2>1. edit = [a \in Admins |-> NoEdit]
    BY DEF Init
  <2> QED
    BY <2>1, IdleEdit DEF EditsInv
<1>6. OrdersInv
  <2>1. order = [o \in Orders |-> NoOrder]
    BY DEF Init
  <2> QED
    BY <2>1, IdleOrder DEF OrdersInv
<1>7. PlainInv
  BY <1>1, Bounds DEF Init, PlainInv
<1> QED
  BY <1>2, <1>3, <1>4, <1>5, <1>6, <1>7 DEF SaleInv

\* Every step keeps it.
LEMMA SaleStep ==
    ASSUME SaleInv, CopyInv, [Next]_vars
    PROVE  SaleInv'
<1>1. CASE \E s \in Syncs : Synchronise(s)
  BY <1>1, SynchroniseKeeps
<1>2. CASE \E a \in Admins :
             (\E r \in Products : Administer(a, r)) \/ Insert(a) \/ Save(a)
  BY <1>2, AdministerKeeps, InsertKeeps, SaveKeeps
<1>3. CASE \E o \in Orders :
             \/ \E p \in Processes, r \in Products : Place(o, p, r)
             \/ GetLivePrice(o) \/ Decide(o) \/ AutoUpdate(o)
  BY <1>3, PlaceKeeps, LivePriceKeeps, DecideKeeps, AutoUpdateKeeps
<1>4. CASE \E p \in Processes :
             PricesArrive(p) \/ PricesFail(p) \/ Expire(p) \/ Restart(p)
  BY <1>4, PricesKeep, ExpireKeeps, RestartKeeps
<1>5. CASE ToggleProvider \/ \E i \in Items, entry \in {Absent} \cup Entries :
                                  Offer(i, entry)
  BY <1>5, SwitchKeeps, OfferKeeps
<1>6. CASE UNCHANGED vars
  <2>1. /\ UNCHANGED spent /\ UNCHANGED overlapped
        /\ UNCHANGED <<item, product, sync, locks, edit, order, offer, active,
                       cache, pending, draining, losses>>
    BY <1>6 DEF vars
  <2> QED
    BY <2>1 DEF SaleInv, StockInv, SyncsInv, SpentInv, EditsInv, OrdersInv, PlainInv,
                Busy
<1> QED
  BY <1>1, <1>2, <1>3, <1>4, <1>5, <1>6 DEF Next

\* The types, and their relations, follow.
LEMMA SaleTypes ==
    ASSUME SaleInv
    PROVE  TypeOK
<1>1. /\ offer \in Menus /\ active \in BOOLEAN
      /\ item \in [Items -> RawProduct] /\ product \in [Products -> Product]
      /\ locks \subseteq Processes /\ cache \in [Processes -> Catalogues]
      /\ pending \subseteq Processes /\ draining \subseteq Processes
      /\ spent \in [offers : 0..MaxEvents, requests : 0..MaxRequests,
                    faults : 0..MaxEvents]
      /\ overlapped \in BOOLEAN
      /\ losses \subseteq {"hand", "mixed", "plain"}
  BY DEF SaleInv, StockInv, SyncsInv, SpentInv, PlainInv
<1>2. sync \in [Syncs -> Synchronisation]
  BY DEF SaleInv, SyncsInv, Selling
<1>3. \A a \in Admins : edit[a].stage \in {"idle", "creating", "saving"}
  BY DEF SaleInv, EditsInv, Editing
<1>4. \A o \in Orders :
        order[o].stage \in {"idle", "checking", "asking", "priced", "repricing"}
  BY DEF SaleInv, OrdersInv, Ordering
<1>5. \A s \in Syncs :
        /\ sync[s].asOf <= spent.offers
        /\ sync[s].stage \notin {"idle", "listing"} => Home(s) \in locks
        /\ sync[s].stage = "updating" <=> sync[s].targets # {}
  BY DEF SaleInv, SyncsInv, Selling, Busy
<1> QED
  BY <1>1, <1>2, <1>3, <1>4, <1>5 DEF TypeOK

\* Every variable keeps its type; a synchronisation past its listing holds the
\* lock of its process, and no copy is newer than the provider's catalogue.
THEOREM CatalogueTypes == Spec => []TypeOK
<1>1. Init => CopyInv /\ SaleInv
  BY CopyInit, SaleInit
<1>2. (CopyInv /\ SaleInv) /\ [Next]_vars => (CopyInv /\ SaleInv)'
  BY CopyStep, SaleStep
<1>3. CopyInv /\ SaleInv => TypeOK
  BY SaleTypes
<1> QED
  BY <1>1, <1>2, <1>3, PTL DEF Spec

\* An order whose price the process checked is not charged below it, unless an
\* administrator chose the price, as a base price or by an adjustment below zero,
\* or saved over prices not seen: for all integers as adjustments, and whatever
\* the synchronisations, the refused orders and the other requests wrote between
\* the reading of the product and the order.
THEOREM CheckedSalesPay == Spec => []SoldAboveCost
<1>1. Init => CopyInv /\ SaleInv
  BY CopyInit, SaleInit
<1>2. (CopyInv /\ SaleInv) /\ [Next]_vars => (CopyInv /\ SaleInv)'
  BY CopyStep, SaleStep
<1>3. CopyInv /\ SaleInv => SoldAboveCost
  BY DEF SaleInv, PlainInv, SoldAboveCost
<1> QED
  BY <1>1, <1>2, <1>3, PTL DEF Spec

===========================================================================
