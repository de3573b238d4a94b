------------------------ MODULE CurrencyRates_proofs ------------------------
(***************************************************************************)
(* Proofs about CurrencyRates: a process converts by the changes it made,  *)
(* unless a conversion crossed one (IInv); and debts follow the rate,      *)
(* where every change of it is made with debt adjustment, one after the    *)
(* other (PegInv, which says where a change under way stands).             *)
(***************************************************************************)
EXTENDS CurrencyRates, TLAPS

\* Nobody is told of a change before it is in the document.
NoneAhead ==
    /\ \A p \in Processes : told[p] <= doc.asOf
    /\ \A a \in Admins : edit[a].asOf <= doc.asOf

\* An entry that was not crossed is as new as what its process was told.
EntriesFresh ==
    \A p \in Processes : cache[p].here =>
        cache[p].asOf >= told[p] \/ cache[p].crossed

\* A conversion reads a document no older than what its process knew at its start.
ReadsFresh ==
    \A o \in Orders :
        /\ order[o].since <= doc.asOf
        /\ order[o].stage = "filling" => order[o].asOf >= order[o].since

\* A request under way, and a conversion, belong to a process.
Homes ==
    /\ \A o \in Orders : order[o].stage # "idle" => order[o].home \in Processes
    /\ \A a \in Admins : edit[a].stage # "idle" => edit[a].home \in Processes

IInv == TypeOK /\ NoneAhead /\ EntriesFresh /\ ReadsFresh /\ Homes /\ OwnUpdatesApply

---------------------------------------------------------------------------
\* What is written when nothing is there is of the right type.
LEMMA Nothing ==
    /\ NoEntry \in Entry
    /\ NoOrder \in Conversion
    /\ NoEdit \in Request
BY RatesAssumption DEF NoEntry, Entry, NoOrder, Conversion, NoEdit, Request

\* A rate is a positive number.
LEMMA RateIsPositive ==
    ASSUME NEW x \in Rates
    PROVE  x \in Int /\ x > 0
<1>1. x \in Nat /\ x # 0
  BY RatesAssumption
<1>. QED BY <1>1

\* A debt adjusted is an amount.
LEMMA AdjustedType ==
    ASSUME NEW e \in Request, NEW owed \in Int
    PROVE  Adjusted(e, owed) \in Int
<1>0. e.new \in Rates /\ e.old \in Rates
  BY DEF Request
<1>1. e.new \in Int /\ e.old \in Int /\ e.old > 0
  BY <1>0, RateIsPositive
<1>2. owed * (e.new - e.old) \in Int
  BY <1>1
<1>3. (owed * (e.new - e.old)) \div e.old \in Int
  BY <1>1, <1>2
<1>. QED BY <1>3 DEF Adjusted

\* A save leaves a document, no older than it was.
LEMMA WrittenType ==
    ASSUME doc \in Document, NEW rate \in Rates, NEW active \in BOOLEAN,
           Written(rate, active)
    PROVE  doc' \in Document /\ doc'.asOf >= doc.asOf
<1>. DEFINE n == IF <<rate, active>> = <<doc.rate, doc.active>> THEN 0 ELSE 1
<1>1. doc' = [doc EXCEPT !.rate = rate, !.active = active, !.asOf = doc.asOf + n]
  BY DEF Written
<1>2. doc.asOf \in Nat
  BY DEF Document
<1>3. n \in Nat
  OBVIOUS
<1>. HIDE DEF n
<1>4. doc.asOf + n \in Nat /\ doc.asOf + n >= doc.asOf
  BY <1>2, <1>3
<1>5. doc'.asOf = doc.asOf + n
  BY <1>1 DEF Document
<1>6. doc' \in Document
  BY <1>1, <1>4 DEF Document
<1>. QED BY <1>4, <1>5, <1>6

\* A currency that is created is a document, newer than nothing.
LEMMA CreatedType ==
    ASSUME doc \in Document, NEW rate \in Rates, NEW active \in BOOLEAN,
           CreateCurrency(rate, active)
    PROVE  doc' \in Document /\ doc'.asOf >= doc.asOf
<1>1. doc.asOf \in Nat
  BY DEF Document
<1>2. doc' = [here |-> TRUE, rate |-> rate, active |-> active, asOf |-> doc.asOf + 1]
  BY DEF CreateCurrency
<1>3. doc' \in Document
  BY <1>1, <1>2 DEF Document
<1>4. doc'.asOf = doc.asOf + 1
  BY <1>2
<1>. QED BY <1>1, <1>3, <1>4

\* The invariant holds at first.
LEMMA InitInv == Init => IInv
<1>. SUFFICES ASSUME Init PROVE IInv
  OBVIOUS
<1>1. doc \in Document /\ doc.asOf = 0
  BY RatesAssumption DEF Init, Document
<1>2. debt \in [Users -> Int]
  BY RatesAssumption DEF Init
<1>3. TypeOK
  BY <1>1, <1>2, Nothing DEF Init, TypeOK
<1>4. NoneAhead
  BY <1>1 DEF Init, NoneAhead, NoEdit
<1>5. EntriesFresh
  BY DEF Init, EntriesFresh, NoEntry
<1>6. ReadsFresh /\ Homes /\ OwnUpdatesApply
  BY <1>1 DEF Init, ReadsFresh, Homes, OwnUpdatesApply, NoOrder, NoEdit
<1>. QED BY <1>3, <1>4, <1>5, <1>6 DEF IInv

---------------------------------------------------------------------------
\* A conversion goes on, and at most its process's entry changes.
LEMMA ConversionStep ==
    ASSUME IInv, NEW o \in Orders, NEW r \in Conversion, Advance(o, r), OutsideOrder,
           NEW p \in Processes, NEW x \in Entry,
           cache' = cache \/ cache' = [cache EXCEPT ![p] = x],
           x.here => x.asOf >= told[p] \/ x.crossed,
           r.since <= doc.asOf,
           r.stage = "filling" => r.asOf >= r.since,
           r.stage # "idle" => r.home \in Processes,
           r.stage = "done" => r.asOf >= r.since \/ r.crossed
    PROVE  IInv'
<1>. USE DEF Advance, OutsideOrder
<1>1. TypeOK'
  BY DEF IInv, TypeOK
<1>2. NoneAhead'
  BY DEF IInv, NoneAhead
<1>3. EntriesFresh'
  BY DEF IInv, TypeOK, EntriesFresh
<1>4. ReadsFresh'
  BY DEF IInv, TypeOK, ReadsFresh
<1>5. Homes'
  BY DEF IInv, TypeOK, Homes
<1>6. OwnUpdatesApply'
  BY DEF IInv, TypeOK, OwnUpdatesApply
<1>. QED BY <1>1, <1>2, <1>3, <1>4, <1>5, <1>6 DEF IInv

\* A conversion preserves the invariant.
LEMMA ConvertStep ==
    ASSUME IInv, NEW o \in Orders, Convert(o)
    PROVE  IInv'
<1>. DEFINE r == order[o]
<1>1. /\ r \in Conversion /\ doc \in Document
      /\ \A p \in Processes : cache[p] \in Entry /\ told[p] \in Nat
  BY DEF IInv, TypeOK
<1>2. ASSUME NEW p \in Processes, Ask(o, p) PROVE IInv'
  <2>. DEFINE new == [NoOrder EXCEPT !.home = p, !.since = told[p]]
              hit == [new EXCEPT !.stage = "done", !.rate = cache[p].rate,
                                 !.asOf = cache[p].asOf, !.crossed = cache[p].crossed]
              miss == [new EXCEPT !.stage = "finding"]
  <2>1. /\ new \in Conversion /\ new.since = told[p] /\ new.home = p
    BY <1>1, Nothing DEF Conversion, NoOrder
  <2>2. /\ hit \in Conversion /\ hit.since = told[p] /\ hit.home = p
        /\ hit.asOf = cache[p].asOf /\ hit.crossed = cache[p].crossed
        /\ hit.stage = "done"
    BY <1>1, <2>1 DEF Conversion, Entry
  <2>3. /\ miss \in Conversion /\ miss.since = told[p] /\ miss.home = p
        /\ miss.stage = "finding"
    BY <2>1 DEF Conversion
  <2>4. told[p] <= doc.asOf
    BY DEF IInv, NoneAhead
  <2>5. cache[p].here => cache[p].asOf >= told[p] \/ cache[p].crossed
    BY DEF IInv, EntriesFresh
  <2>6. CASE cache[p].here
    <3>1. /\ Advance(o, hit) /\ OutsideOrder
          /\ cache' = [cache EXCEPT ![p] = cache[p]]
      BY <1>2, <2>6 DEF Ask, Hit
    <3>. QED
      BY <3>1, <1>1, <2>2, <2>4, <2>5, <2>6, ConversionStep
  <2>7. CASE ~cache[p].here
    <3>1. Advance(o, miss) /\ OutsideOrder /\ cache' = cache
      BY <1>2, <2>7 DEF Ask
    <3>. QED
      BY <3>1, <1>1, <2>3, <2>4, <2>5, <2>7, ConversionStep
  <2>. QED BY <2>6, <2>7
<1>3. CASE Find(o)
  <2>. DEFINE found == [r EXCEPT !.stage = "filling", !.rate = doc.rate,
                                 !.asOf = doc.asOf]
  <2>1. r.stage = "finding" /\ r.home \in Processes /\ r.since <= doc.asOf
    BY <1>3 DEF Find, IInv, Homes, ReadsFresh
  <2>2. /\ found \in Conversion /\ found.home = r.home /\ found.since = r.since
        /\ found.asOf = doc.asOf /\ found.stage = "filling"
    BY <1>1 DEF Conversion, Document
  <2>3. NoOrder \in Conversion /\ NoOrder.stage = "idle" /\ NoOrder.since = 0
    BY Nothing DEF NoOrder
  <2>4. (Advance(o, found) \/ Advance(o, NoOrder)) /\ OutsideOrder /\ cache' = cache
    BY <1>3 DEF Find
  <2>5. cache[r.home].here => cache[r.home].asOf >= told[r.home] \/ cache[r.home].crossed
    BY <2>1 DEF IInv, EntriesFresh
  <2>6. 0 <= doc.asOf
    BY <1>1 DEF Document
  <2>7. CASE Advance(o, found)
    BY <2>1, <2>2, <2>4, <2>5, <2>7, <1>1, ConversionStep
  <2>8. CASE Advance(o, NoOrder)
    BY <2>1, <2>3, <2>4, <2>5, <2>6, <2>8, <1>1, ConversionStep
  <2>. QED BY <2>4, <2>7, <2>8
<1>4. CASE Fill(o)
  <2>. DEFINE p == r.home
              entry == [here |-> TRUE, rate |-> r.rate, age |-> 0, asOf |-> r.asOf,
                        crossed |-> r.asOf < told[p]]
              done == [r EXCEPT !.stage = "done"]
  <2>1. r.stage = "filling" /\ p \in Processes /\ r.since <= doc.asOf
        /\ r.asOf >= r.since
    BY <1>4 DEF Fill, IInv, Homes, ReadsFresh
  <2>2. /\ done \in Conversion /\ done.home = p /\ done.since = r.since
        /\ done.asOf = r.asOf /\ done.stage = "done" /\ r.asOf \in Nat
    BY <1>1 DEF Conversion
  <2>3. entry \in Entry
    BY <1>1, <2>2, RatesAssumption DEF Entry, Conversion
  <2>4. /\ Advance(o, done) /\ OutsideOrder
        /\ cache' = [cache EXCEPT ![p] = entry]
    BY <1>4 DEF Fill
  <2>5. entry.asOf >= told[p] \/ entry.crossed
    <3>1. entry.asOf = r.asOf /\ (r.asOf < told[p] => entry.crossed)
      OBVIOUS
    <3>2. r.asOf \in Int /\ told[p] \in Int
      BY <1>1, <2>1, <2>2
    <3>. QED BY <3>1, <3>2
  <2>. QED BY <2>1, <2>2, <2>3, <2>4, <2>5, ConversionStep
<1>. QED BY <1>2, <1>3, <1>4 DEF Convert

---------------------------------------------------------------------------
\* A request of an administrator goes on: its document, record and debts are of
\* their types, nothing gets older, and nobody is told what is not there.
LEMMA RequestStep ==
    ASSUME IInv, NEW a \in Admins, NEW r \in Request, Progress(a, r), OutsideEdit,
           doc' \in Document, doc'.asOf >= doc.asOf, debt' \in [Users -> Int],
           UNCHANGED cache, UNCHANGED told,
           r.asOf <= doc'.asOf,
           r.stage # "idle" => r.home \in Processes
    PROVE  IInv'
<1>. USE DEF Progress, OutsideEdit
<1>0. doc.asOf \in Int /\ doc'.asOf \in Int
  BY DEF IInv, TypeOK, Document
<1>1. TypeOK'
  BY DEF IInv, TypeOK
<1>2. NoneAhead'
  <2>1. \A p \in Processes : told[p] \in Int /\ told'[p] <= doc'.asOf
    BY <1>0 DEF IInv, TypeOK, NoneAhead
  <2>2. \A b \in Admins : edit[b].asOf \in Int
    BY DEF IInv, TypeOK, Request
  <2>3. \A b \in Admins : edit'[b].asOf <= doc'.asOf
    BY <1>0, <2>2 DEF IInv, TypeOK, NoneAhead
  <2>. QED BY <2>1, <2>3 DEF NoneAhead
<1>3. EntriesFresh'
  BY DEF IInv, EntriesFresh
<1>4. ReadsFresh'
  <2>1. \A o \in Orders : order[o].since \in Int
    BY DEF IInv, TypeOK, Conversion
  <2>. QED BY <1>0, <2>1 DEF IInv, TypeOK, ReadsFresh
<1>5. Homes'
  BY DEF IInv, TypeOK, Homes
<1>6. OwnUpdatesApply'
  BY DEF IInv, OwnUpdatesApply
<1>. QED BY <1>1, <1>2, <1>3, <1>4, <1>5, <1>6 DEF IInv

\* The process of a request drops its entry and is told of the change.
LEMMA InvalidateStep ==
    ASSUME IInv, NEW a \in Admins, Invalidate(a)
    PROVE  IInv'
<1>. DEFINE e == edit[a]
            p == e.home
<1>1. e \in Request /\ p \in Processes /\ e.asOf <= doc.asOf /\ e.asOf \in Nat
  BY DEF IInv, TypeOK, Homes, NoneAhead, Invalidate, Request
<1>2. /\ cache' = [cache EXCEPT ![p] = NoEntry]
      /\ told' = [told EXCEPT ![p] = IF e.asOf > told[p] THEN e.asOf ELSE told[p]]
      /\ UNCHANGED <<doc, debt, order>>
  BY DEF Invalidate, Invalidated, Told, OutsideEdit
<1>3. \E s \in {"status", "looking"} : edit' = [edit EXCEPT ![a] = [e EXCEPT !.stage = s]]
  BY DEF Invalidate, Progress
<1>4. PICK s \in {"status", "looking"} : edit' = [edit EXCEPT ![a] = [e EXCEPT !.stage = s]]
  BY <1>3
<1>5. /\ [e EXCEPT !.stage = s] \in Request
      /\ [e EXCEPT !.stage = s].asOf = e.asOf /\ [e EXCEPT !.stage = s].home = p
  BY <1>1 DEF Request
<1>6. \A q \in Processes : told[q] \in Nat /\ told[q] <= doc.asOf
  BY DEF IInv, TypeOK, NoneAhead
<1>7. TypeOK'
  BY <1>1, <1>2, <1>4, <1>5, <1>6, Nothing DEF IInv, TypeOK
<1>8. NoneAhead'
  BY <1>1, <1>2, <1>4, <1>5, <1>6 DEF IInv, TypeOK, NoneAhead
<1>9. EntriesFresh'
  <2>1. ASSUME NEW q \in Processes, cache'[q].here
        PROVE  q # p /\ cache'[q] = cache[q] /\ told'[q] = told[q]
    BY <1>1, <1>2, <2>1 DEF IInv, TypeOK, NoEntry
  <2>. QED BY <2>1 DEF IInv, EntriesFresh
<1>10. ReadsFresh' /\ OwnUpdatesApply'
  BY <1>2 DEF IInv, ReadsFresh, OwnUpdatesApply
<1>11. Homes'
  BY <1>1, <1>2, <1>4, <1>5 DEF IInv, TypeOK, Homes
<1>. QED BY <1>7, <1>8, <1>9, <1>10, <1>11 DEF IInv

\* What an administrator does preserves the invariant.
LEMMA AdministerStep ==
    ASSUME IInv, NEW a \in Admins, Administer(a)
    PROVE  IInv'
<1>. DEFINE e == edit[a]
<1>1. /\ e \in Request /\ doc \in Document /\ debt \in [Users -> Int]
      /\ doc.rate \in Rates /\ doc.active \in BOOLEAN /\ doc.asOf \in Nat
      /\ e.asOf \in Nat /\ e.asOf <= doc.asOf
      /\ e.stage # "idle" => e.home \in Processes
      /\ e.new \in Rates /\ e.want \in BOOLEAN
  BY DEF IInv, TypeOK, Document, Request, NoneAhead, Homes
<1>2. ASSUME NEW p \in Processes, ReadRate(a, p) PROVE IInv'
  <2>1. PICK rate \in Rates, peg \in BOOLEAN, want \in BOOLEAN :
          Progress(a, [NoEdit EXCEPT !.stage = "saving", !.home = p, !.old = doc.rate,
                                     !.new = rate, !.peg = peg, !.was = doc.active,
                                     !.want = want])
    BY <1>2 DEF ReadRate
  <2>. DEFINE x == [NoEdit EXCEPT !.stage = "saving", !.home = p, !.old = doc.rate,
                                  !.new = rate, !.peg = peg, !.was = doc.active,
                                  !.want = want]
  <2>2. x \in Request /\ x.asOf = 0 /\ x.home = p
    BY <1>1, Nothing DEF Request, NoEdit
  <2>3. /\ OutsideEdit /\ UNCHANGED cache /\ UNCHANGED told /\ doc' = doc /\ debt' = debt
    BY <1>2 DEF ReadRate
  <2>4. doc' \in Document /\ doc'.asOf >= doc.asOf /\ debt' \in [Users -> Int]
    BY <1>1, <2>3
  <2>5. x.asOf <= doc'.asOf /\ x.home \in Processes
    BY <1>1, <2>2, <2>3
  <2>6. Progress(a, x)
    BY <2>1
  <2>. HIDE DEF x
  <2>. QED BY <2>2, <2>3, <2>4, <2>5, <2>6, RequestStep
<1>3. ASSUME NEW p \in Processes, ReadStatus(a, p) PROVE IInv'
  <2>1. PICK want \in BOOLEAN :
          Progress(a, [NoEdit EXCEPT !.stage = "switching", !.home = p,
                                     !.was = doc.active, !.want = want])
    BY <1>3 DEF ReadStatus
  <2>. DEFINE x == [NoEdit EXCEPT !.stage = "switching", !.home = p,
                                  !.was = doc.active, !.want = want]
  <2>2. x \in Request /\ x.asOf = 0 /\ x.home = p
    BY <1>1, Nothing DEF Request, NoEdit
  <2>3. /\ OutsideEdit /\ UNCHANGED cache /\ UNCHANGED told /\ doc' = doc /\ debt' = debt
    BY <1>3 DEF ReadStatus
  <2>4. doc' \in Document /\ doc'.asOf >= doc.asOf /\ debt' \in [Users -> Int]
    BY <1>1, <2>3
  <2>5. x.asOf <= doc'.asOf /\ x.home \in Processes
    BY <1>1, <2>2, <2>3
  <2>6. Progress(a, x)
    BY <2>1
  <2>. HIDE DEF x
  <2>. QED BY <2>2, <2>3, <2>4, <2>5, <2>6, RequestStep
<1>4. CASE SaveRate(a)
  <2>. DEFINE x == [e EXCEPT !.stage = "saved", !.asOf = doc'.asOf]
              rate == IF e.new = e.old THEN doc.rate ELSE e.new
  <2>1. Written(rate, doc.active) /\ rate \in Rates
    BY <1>1, <1>4 DEF SaveRate
  <2>2. doc' \in Document /\ doc'.asOf >= doc.asOf /\ doc'.asOf \in Nat
    BY <1>1, <2>1, WrittenType DEF Document
  <2>3. x \in Request /\ x.asOf = doc'.asOf /\ x.home = e.home /\ e.stage = "saving"
    BY <1>1, <1>4, <2>2 DEF Request, SaveRate
  <2>4. /\ Progress(a, x) /\ OutsideEdit
        /\ UNCHANGED cache /\ UNCHANGED told /\ UNCHANGED debt
    BY <1>4 DEF SaveRate
  <2>5. x.asOf <= doc'.asOf /\ x.home \in Processes /\ debt' \in [Users -> Int]
    BY <1>1, <2>2, <2>3, <2>4
  <2>. HIDE DEF x
  <2>. QED BY <2>2, <2>3, <2>4, <2>5, RequestStep
<1>5. CASE SetStatus(a)
  <2>. DEFINE x == [e EXCEPT !.stage = "saved", !.was = e.want, !.asOf = doc'.asOf]
              active == IF e.want = e.was THEN doc.active ELSE e.want
  <2>1. Written(doc.rate, active) /\ active \in BOOLEAN
    BY <1>1, <1>5 DEF SetStatus
  <2>2. doc' \in Document /\ doc'.asOf >= doc.asOf /\ doc'.asOf \in Nat
    BY <1>1, <2>1, WrittenType DEF Document
  <2>3. x \in Request /\ x.asOf = doc'.asOf /\ x.home = e.home /\ e.stage = "switching"
    BY <1>1, <1>5, <2>2 DEF Request, SetStatus
  <2>4. /\ Progress(a, x) /\ OutsideEdit
        /\ UNCHANGED cache /\ UNCHANGED told /\ UNCHANGED debt
    BY <1>5 DEF SetStatus
  <2>5. x.asOf <= doc'.asOf /\ x.home \in Processes /\ debt' \in [Users -> Int]
    BY <1>1, <2>2, <2>3, <2>4
  <2>. HIDE DEF x
  <2>. QED BY <2>2, <2>3, <2>4, <2>5, RequestStep
<1>6. CASE FindDebts(a)
  <2>. DEFINE x == [e EXCEPT !.stage = "adjusting", !.debts = debt]
  <2>1. x \in Request /\ x.asOf = e.asOf /\ x.home = e.home /\ e.stage = "looking"
    BY <1>1, <1>6 DEF Request, FindDebts
  <2>2. /\ Progress(a, x) /\ OutsideEdit
        /\ UNCHANGED cache /\ UNCHANGED told /\ UNCHANGED debt /\ UNCHANGED doc
    BY <1>6 DEF FindDebts
  <2>3. doc' \in Document /\ doc'.asOf >= doc.asOf
    BY <1>1, <2>2
  <2>4. debt' \in [Users -> Int]
    BY <1>1, <2>2
  <2>5. x.asOf <= doc'.asOf
    BY <1>1, <2>1, <2>2
  <2>6. x.stage # "idle" => x.home \in Processes
    BY <1>1, <2>1, <2>2
  <2>. HIDE DEF x
  <2>. QED BY <2>1, <2>2, <2>3, <2>4, <2>5, <2>6, RequestStep
<1>7. ASSUME NEW u \in Users, Adjust(a, u) PROVE IInv'
  <2>. DEFINE x == [e EXCEPT !.debts[u] = 0]
              after == [debt EXCEPT ![u] = Adjusted(e, e.debts[u])]
  <2>1. e.debts \in [Users -> Int] /\ Adjusted(e, e.debts[u]) \in Int
    BY <1>1, AdjustedType DEF Request
  <2>2. debt' \in {debt, after}
    BY <1>7 DEF Adjust
  <2>3. debt' \in [Users -> Int]
    BY <1>1, <2>1, <2>2
  <2>4. x \in Request /\ x.asOf = e.asOf /\ x.home = e.home /\ e.stage = "adjusting"
    BY <1>1, <1>7, <2>1 DEF Request, Adjust
  <2>5. /\ Progress(a, x) /\ OutsideEdit
        /\ UNCHANGED cache /\ UNCHANGED told /\ UNCHANGED doc
    BY <1>7 DEF Adjust
  <2>6. doc' \in Document /\ doc'.asOf >= doc.asOf
    BY <1>1, <2>5
  <2>7. x.asOf <= doc'.asOf /\ x.home \in Processes
    BY <1>1, <2>4, <2>5
  <2>. HIDE DEF x
  <2>. QED BY <2>3, <2>4, <2>5, <2>6, <2>7, RequestStep
<1>8. CASE SaveStatus(a)
  <2>. DEFINE active == IF e.want = e.was THEN doc.active ELSE e.want
  <2>1. Written(doc.rate, active) /\ active \in BOOLEAN
    BY <1>1, <1>8 DEF SaveStatus
  <2>2. doc' \in Document /\ doc'.asOf >= doc.asOf /\ doc'.asOf \in Nat
    BY <1>1, <2>1, WrittenType DEF Document
  <2>3. NoEdit \in Request /\ NoEdit.asOf = 0 /\ NoEdit.stage = "idle"
    BY Nothing DEF NoEdit
  <2>4. /\ Progress(a, NoEdit) /\ OutsideEdit
        /\ UNCHANGED cache /\ UNCHANGED told /\ UNCHANGED debt
    BY <1>8 DEF SaveStatus
  <2>5. NoEdit.asOf <= doc'.asOf /\ debt' \in [Users -> Int]
    BY <1>1, <2>2, <2>3, <2>4
  <2>. QED BY <2>2, <2>3, <2>4, <2>5, RequestStep
<1>9. CASE Create(a)
  <2>1. PICK rate \in Rates, active \in BOOLEAN : CreateCurrency(rate, active)
    BY <1>9 DEF Create
  <2>2. doc' \in Document /\ doc'.asOf >= doc.asOf
    BY <1>1, <2>1, CreatedType
  <2>3. edit' = [edit EXCEPT ![a] = e]
    BY <1>9 DEF Create, IInv, TypeOK
  <2>4. OutsideEdit /\ UNCHANGED cache /\ UNCHANGED told /\ UNCHANGED debt
    BY <1>9 DEF Create
  <2>5. Progress(a, e)
    BY <2>3 DEF Progress
  <2>6. e.asOf <= doc'.asOf /\ debt' \in [Users -> Int]
    <3>1. doc'.asOf \in Nat
      BY <2>2 DEF Document
    <3>. QED BY <1>1, <2>2, <2>4, <3>1
  <2>. QED BY <1>1, <2>2, <2>4, <2>5, <2>6, RequestStep
<1>10. CASE Invalidate(a)
  BY <1>10, InvalidateStep
<1>. QED
  BY <1>2, <1>3, <1>4, <1>5, <1>6, <1>7, <1>8, <1>9, <1>10 DEF Administer

---------------------------------------------------------------------------
\* Entries go, or only grow older; the document may be new; conversions and
\* requests go on or end.
LEMMA OtherStep ==
    ASSUME IInv, UNCHANGED <<debt, told>>,
           cache' \in [Processes -> Entry],
           \A p \in Processes : cache'[p].here =>
               cache[p].here /\ cache'[p].asOf = cache[p].asOf
                             /\ cache'[p].crossed = cache[p].crossed,
           order' \in [Orders -> Conversion], edit' \in [Admins -> Request],
           \A o \in Orders : order'[o] \in {order[o], NoOrder},
           \A a \in Admins : edit'[a] \in {edit[a], NoEdit},
           doc' \in Document, doc'.asOf >= doc.asOf
    PROVE  IInv'
<1>0. doc.asOf \in Nat /\ doc'.asOf \in Nat
  BY DEF IInv, TypeOK, Document
<1>1. TypeOK'
  BY DEF IInv, TypeOK
<1>2. NoneAhead'
  <2>1. \A p \in Processes : told[p] \in Int /\ told'[p] <= doc'.asOf
    BY <1>0 DEF IInv, TypeOK, NoneAhead
  <2>2. \A b \in Admins : edit[b].asOf \in Int /\ edit[b].asOf <= doc.asOf
    BY DEF IInv, TypeOK, Request, NoneAhead
  <2>3. \A b \in Admins : edit'[b].asOf <= doc'.asOf
    BY <1>0, <2>2 DEF NoEdit
  <2>. QED BY <2>1, <2>3 DEF NoneAhead
<1>3. EntriesFresh'
  BY DEF IInv, EntriesFresh
<1>4. ReadsFresh'
  <2>1. \A o \in Orders : order[o].since \in Int
    BY DEF IInv, TypeOK, Conversion
  <2>. QED BY <1>0, <2>1 DEF IInv, ReadsFresh, NoOrder
<1>5. Homes'
  BY DEF IInv, Homes, NoOrder, NoEdit
<1>6. OwnUpdatesApply'
  BY DEF IInv, OwnUpdatesApply, NoOrder
<1>. QED BY <1>1, <1>2, <1>3, <1>4, <1>5, <1>6 DEF IInv

\* The clock, the synchronisation and a restart preserve the invariant.
LEMMA ProcessStep ==
    ASSUME IInv,
           Tick \/ \E p \in Processes : SyncLook(p) \/ SyncUpdate(p) \/ SyncCreate(p)
                                        \/ Restart(p)
    PROVE  IInv'
<1>1. /\ cache \in [Processes -> Entry] /\ order \in [Orders -> Conversion]
      /\ edit \in [Admins -> Request] /\ doc \in Document /\ doc.asOf \in Nat
  BY DEF IInv, TypeOK, Document
<1>2. CASE Tick
  <2>1. UNCHANGED <<doc, debt, told, order, edit>>
    BY <1>2 DEF Tick, OutsideOrder
  <2>2. cache' = [p \in Processes |->
                    IF cache[p].age + 1 < MaxAge /\ cache[p].here
                    THEN [cache[p] EXCEPT !.age = cache[p].age + 1] ELSE NoEntry]
    BY <1>2 DEF Tick
  <2>3. ASSUME NEW p \in Processes
        PROVE  /\ cache'[p] \in Entry
               /\ cache'[p].here => cache[p].here /\ cache'[p].asOf = cache[p].asOf
                                    /\ cache'[p].crossed = cache[p].crossed
    <3>1. cache[p] \in Entry /\ cache[p].age \in Nat
      BY <1>1 DEF Entry
    <3>2. CASE cache[p].age + 1 < MaxAge /\ cache[p].here
      <4>1. cache'[p] = [cache[p] EXCEPT !.age = cache[p].age + 1]
        BY <2>2, <3>2
      <4>2. cache[p].age + 1 \in 0..MaxAge
        BY <3>1, <3>2, RatesAssumption
      <4>. QED BY <3>1, <3>2, <4>1, <4>2 DEF Entry
    <3>3. CASE ~(cache[p].age + 1 < MaxAge /\ cache[p].here)
      <4>1. cache'[p] = NoEntry
        BY <2>2, <3>3
      <4>. QED BY <4>1, Nothing DEF NoEntry
    <3>. QED BY <3>2, <3>3
  <2>4. cache' \in [Processes -> Entry]
    BY <2>2, <2>3
  <2>. QED BY <1>1, <2>1, <2>3, <2>4, OtherStep
<1>3. ASSUME NEW p \in Processes, SyncLook(p) \/ SyncUpdate(p) PROVE IInv'
  <2>1. UNCHANGED <<doc, debt, told, order, edit>>
    BY <1>3 DEF SyncLook, SyncUpdate, OutsideSync
  <2>2. cache' = cache \/ cache' = [cache EXCEPT ![p] = NoEntry]
    BY <1>3 DEF SyncLook, SyncUpdate
  <2>3. cache' \in [Processes -> Entry]
    BY <1>1, <2>2, Nothing
  <2>4. \A q \in Processes : cache'[q].here => cache'[q] = cache[q]
    BY <1>1, <2>2 DEF NoEntry
  <2>. QED BY <1>1, <2>1, <2>3, <2>4, OtherStep
<1>4. ASSUME NEW p \in Processes, SyncCreate(p) PROVE IInv'
  <2>1. UNCHANGED <<cache, debt, told, order, edit>>
    BY <1>4 DEF SyncCreate, OutsideSync
  <2>2. doc' = doc \/ \E rate \in Rates : CreateCurrency(rate, FALSE)
    BY <1>4 DEF SyncCreate
  <2>3. ASSUME NEW rate \in Rates, CreateCurrency(rate, FALSE)
        PROVE  doc' \in Document /\ doc'.asOf >= doc.asOf
    BY <1>1, <2>3, CreatedType
  <2>4. CASE doc' = doc
    BY <1>1, <2>1, <2>4, OtherStep
  <2>5. ASSUME NEW rate \in Rates, CreateCurrency(rate, FALSE) PROVE IInv'
    BY <1>1, <2>1, <2>3, <2>5, OtherStep
  <2>. QED BY <2>2, <2>4, <2>5
<1>5. ASSUME NEW p \in Processes, Restart(p) PROVE IInv'
  <2>1. UNCHANGED <<doc, debt, told>>
    BY <1>5 DEF Restart
  <2>2. cache' = [cache EXCEPT ![p] = NoEntry]
    BY <1>5 DEF Restart
  <2>3. cache' \in [Processes -> Entry]
    BY <1>1, <2>2, Nothing
  <2>4. \A q \in Processes : cache'[q].here => cache'[q] = cache[q]
    BY <1>1, <2>2 DEF NoEntry
  <2>5. /\ order' \in [Orders -> Conversion]
        /\ \A o \in Orders : order'[o] \in {order[o], NoOrder}
    BY <1>1, <1>5, Nothing DEF Restart
  <2>6. /\ edit' \in [Admins -> Request]
        /\ \A a \in Admins : edit'[a] \in {edit[a], NoEdit}
    BY <1>1, <1>5, Nothing DEF Restart
  <2>. QED BY <1>1, <2>1, <2>3, <2>4, <2>5, <2>6, OtherStep
<1>. QED BY <1>2, <1>3, <1>4, <1>5

\* Every step preserves the invariant.
LEMMA NextInv == IInv /\ [Next]_vars => IInv'
<1>. SUFFICES ASSUME IInv, [Next]_vars PROVE IInv'
  OBVIOUS
<1>1. CASE UNCHANGED vars
  BY <1>1 DEF vars, IInv, TypeOK, NoneAhead, EntriesFresh, ReadsFresh, Homes,
              OwnUpdatesApply
<1>2. ASSUME NEW o \in Orders, Convert(o) PROVE IInv'
  BY <1>2, ConvertStep
<1>3. ASSUME NEW a \in Admins, Administer(a) PROVE IInv'
  BY <1>3, AdministerStep
<1>4. ASSUME Tick \/ \E p \in Processes : SyncLook(p) \/ SyncUpdate(p)
                                          \/ SyncCreate(p) \/ Restart(p)
      PROVE IInv'
  BY <1>4, ProcessStep
<1>. QED BY <1>1, <1>2, <1>3, <1>4 DEF Next

\* In every behaviour, for any number of processes, administrators, conversions
\* and rates, and however many faults: a process converts by the changes made
\* through it, unless a conversion crossed one (currency.service.js:15).
THEOREM UpdatesApply == Spec => []OwnUpdatesApply
<1>1. Init => IInv
  BY InitInv
<1>2. IInv /\ [Next]_vars => IInv'
  BY NextInv
<1>3. IInv => OwnUpdatesApply
  BY DEF IInv
<1>. QED BY <1>1, <1>2, <1>3, PTL DEF Spec

\* Every state of the currency, its caches and what is under way is of its type.
THEOREM CurrencyTypes == Spec => []TypeOK
<1>1. Init => IInv
  BY InitInv
<1>2. IInv /\ [Next]_vars => IInv'
  BY NextInv
<1>3. IInv => TypeOK
  BY DEF IInv
<1>. QED BY <1>1, <1>2, <1>3, PTL DEF Spec

---------------------------------------------------------------------------
(* Debts that follow the rate.                                              *)

\* A change of the rate that is under way: the new rate, or the debts, wait for it.
Rerating(e) ==
    \/ e.stage \in {"saving", "looking", "adjusting"}
    \/ e.stage = "saved" /\ e.new # e.old

\* A debt is worth at a rate what it was in the beginning.
Worth(owed, rate) == owed > 0 => owed * FirstRate = Debt * rate

\* Where a change of the rate stands: the debts follow the rate before it, or - one
\* after the other - the one after it.
Following(e) ==
    /\ doc.rate = IF e.stage = "saving" THEN e.old ELSE e.new
    /\ \A u \in Users :
          IF e.stage # "adjusting" THEN Worth(debt[u], e.old)
          ELSE IF e.debts[u] > 0
          THEN e.debts[u] = debt[u] /\ Worth(debt[u], e.old)
          ELSE Worth(debt[u], e.new)

Steady ==
    /\ \A a, b \in Admins : Rerating(edit[a]) /\ Rerating(edit[b]) => a = b
    /\ \A a \in Admins : Rerating(edit[a]) => Following(edit[a])
    /\ (\A a \in Admins : ~Rerating(edit[a])) => \A u \in Users : Worth(debt[u], doc.rate)

PegInv ==
    /\ doc.here \/ \A u \in Users : debt[u] = 0
    /\ \A a \in Admins :
        /\ edit[a].stage # "idle" => doc.here
        /\ edit[a].stage = "switching" => edit[a].new = edit[a].old
    /\ slipped = {} => Steady

\* No adjustment is rounded: at every rate the debts that are worth what they were
\* in the beginning are whole amounts.
Exact == \A rate \in Rates : \E n \in Nat : n * FirstRate = Debt * rate

\* The adjustment by the change of the rate, as a share of the old one, takes a
\* debt that is worth its first value at the old rate to one that is at the new.
LEMMA AdjustedFollows ==
    ASSUME Exact, NEW e \in Request, NEW owed \in Int,
           owed * FirstRate = Debt * e.old
    PROVE  Adjusted(e, owed) * FirstRate = Debt * e.new
<1> DEFINE old == e.old
           new == e.new
<1>1. old \in Rates /\ new \in Rates
  BY DEF Request
<1>2. /\ old \in Int /\ new \in Int /\ old > 0 /\ FirstRate \in Int /\ FirstRate > 0
      /\ Debt \in Int
  <2>1. FirstRate \in Rates /\ Debt \in Int
    BY RatesAssumption
  <2> QED
    BY <1>1, <2>1, RateIsPositive
<1>3. PICK n \in Nat : n * FirstRate = Debt * new
  BY <1>1 DEF Exact
<1> HIDE DEF old, new
<1>4. owed * FirstRate = Debt * old
  BY DEF old
<1>5. (n - owed) * FirstRate = Debt * (new - old)
  BY <1>2, <1>3, <1>4
<1>6. ((n - owed) * old) * FirstRate = (owed * (new - old)) * FirstRate
  <2>1. ((n - owed) * old) * FirstRate = ((n - owed) * FirstRate) * old
    BY <1>2
  <2>2. ((n - owed) * FirstRate) * old = (Debt * (new - old)) * old
    BY <1>5
  <2>3. (Debt * (new - old)) * old = (Debt * old) * (new - old)
    BY <1>2
  <2>4. (Debt * old) * (new - old) = (owed * FirstRate) * (new - old)
    BY <1>4
  <2>5. (owed * FirstRate) * (new - old) = (owed * (new - old)) * FirstRate
    BY <1>2
  <2> QED
    BY <2>1, <2>2, <2>3, <2>4, <2>5
<1>7. (n - owed) * old = owed * (new - old)
  <2> DEFINE x == (n - owed) * old
             y == owed * (new - old)
  <2>1. x \in Int /\ y \in Int /\ x * FirstRate = y * FirstRate
    BY <1>2, <1>6
  <2> HIDE DEF x, y
  <2>2. x = y
    BY <1>2, <2>1
  <2> QED
    BY <2>2 DEF x, y
<1>8. (owed * (new - old)) \div old = n - owed
  <2> DEFINE k == n - owed
  <2>1. k \in Int /\ owed * (new - old) = k * old
    BY <1>7
  <2> HIDE DEF k
  <2>2. (k * old) \div old = k
    BY <1>2, <2>1
  <2> QED
    BY <2>1, <2>2 DEF k
<1>9. Adjusted(e, owed) = owed + (owed * (new - old)) \div old
  BY DEF Adjusted, old, new
<1>10. Adjusted(e, owed) = n
  BY <1>8, <1>9
<1> QED
  BY <1>3, <1>10 DEF new

\* A step that changes no request and no debt, nor the rate of a currency that is
\* there.
LEMMA PegBeside ==
    ASSUME IInv, PegInv, UNCHANGED <<edit, debt>>, slipped \subseteq slipped',
           doc.here => doc'.here /\ doc'.rate = doc.rate
    PROVE  PegInv'
<1>1. /\ doc'.here \/ \A u \in Users : debt'[u] = 0
      /\ \A a \in Admins :
          /\ edit'[a].stage # "idle" => doc'.here
          /\ edit'[a].stage = "switching" => edit'[a].new = edit'[a].old
  BY DEF PegInv
<1>2. ASSUME slipped' = {} PROVE Steady'
  <2>1. Steady
    BY <1>2 DEF PegInv
  <2>2. CASE doc.here
    BY <2>1, <2>2 DEF Steady, Rerating, Following, Worth
  <2>3. CASE ~doc.here
    <3>1. /\ \A a \in Admins : edit'[a].stage = "idle"
          /\ \A u \in Users : debt'[u] = 0
      BY <2>3 DEF PegInv
    <3> QED
      BY <3>1 DEF Steady, Rerating, Following, Worth
  <2> QED
    BY <2>2, <2>3
<1> QED
  BY <1>1, <1>2 DEF PegInv

\* A request goes on.
LEMMA PegRequest ==
    ASSUME IInv, PegInv, NEW a \in Admins, NEW r, Progress(a, r),
           doc.here, doc'.here, slipped \subseteq slipped',
           r.stage = "switching" => r.new = r.old,
           slipped' = {} => Steady'
    PROVE  PegInv'
<1>1. edit' = [edit EXCEPT ![a] = r] /\ edit \in [Admins -> Request]
  BY DEF Progress, IInv, TypeOK
<1> QED
  BY <1>1 DEF PegInv

\* ... the only change of the rate, whose debts are where it stands;
LEMMA SteadyOn ==
    ASSUME IInv, NEW a \in Admins, NEW r, Progress(a, r),
           \A b \in Admins \ {a} : ~Rerating(edit[b]),
           Rerating(r) =>
              /\ doc'.rate = IF r.stage = "saving" THEN r.old ELSE r.new
              /\ \A u \in Users :
                    IF r.stage # "adjusting" THEN Worth(debt'[u], r.old)
                    ELSE IF r.debts[u] > 0
                    THEN r.debts[u] = debt'[u] /\ Worth(debt'[u], r.old)
                    ELSE Worth(debt'[u], r.new),
           ~Rerating(r) => \A u \in Users : Worth(debt'[u], doc'.rate)
    PROVE  Steady'
<1>1. edit'[a] = r /\ \A b \in Admins \ {a} : edit'[b] = edit[b]
  BY DEF Progress, IInv, TypeOK
<1>2. \A b \in Admins \ {a} : ~Rerating(edit'[b])
  BY <1>1 DEF Rerating
<1>3. Rerating(r) => Following(edit[a])'
  BY <1>1 DEF Following, Worth
<1> QED
  BY <1>1, <1>2, <1>3 DEF Steady, Rerating

\* ... beside one, or where there is none.
LEMMA SteadyBeside ==
    ASSUME IInv, Steady, NEW a \in Admins, NEW r, Progress(a, r),
           ~Rerating(edit[a]), ~Rerating(r), UNCHANGED debt, doc'.rate = doc.rate
    PROVE  Steady'
<1>1. edit'[a] = r /\ \A b \in Admins \ {a} : edit'[b] = edit[b]
  BY DEF Progress, IInv, TypeOK
<1>2. \A b \in Admins : Rerating(edit'[b]) => b # a /\ Rerating(edit[b])
  BY <1>1
<1>3. \A b \in Admins : Rerating(edit[b]) => edit'[b] = edit[b]
  BY <1>1
<1>4. \A b \in Admins : Rerating(edit'[b]) => Following(edit[b])'
  BY <1>2, <1>3 DEF Steady, Following, Worth
<1>5. (\A b \in Admins : ~Rerating(edit'[b])) => \A b \in Admins : ~Rerating(edit[b])
  BY <1>3
<1> QED
  BY <1>2, <1>4, <1>5 DEF Steady, Worth, Rerating

\* The request that is the only change of the rate, and what it waits for.
LEMMA Alone ==
    ASSUME Steady, NEW a \in Admins, Rerating(edit[a])
    PROVE  /\ \A b \in Admins \ {a} : ~Rerating(edit[b])
           /\ Following(edit[a])
  BY DEF Steady

\* The rate that a save leaves.
LEMMA WrittenRate ==
    ASSUME doc \in Document, NEW rate, NEW active, Written(rate, active)
    PROVE  doc'.rate = rate /\ doc'.here = doc.here
  BY DEF Written, Document

\* Reading the rate to change it: the change under way, if any, stays the only one.
LEMMA ReadKeepsPeg ==
    ASSUME IInv, PegInv, NEW a \in Admins, NEW p \in Processes, ReadRate(a, p)
    PROVE  PegInv'
<1>1. PICK rate \in Rates, peg \in BOOLEAN, want \in BOOLEAN :
        Progress(a, [NoEdit EXCEPT !.stage = "saving", !.home = p,
                                   !.old = doc.rate, !.new = rate, !.peg = peg,
                                   !.was = doc.active, !.want = want])
  BY DEF ReadRate
<1> DEFINE r == [NoEdit EXCEPT !.stage = "saving", !.home = p,
                               !.old = doc.rate, !.new = rate, !.peg = peg,
                               !.was = doc.active, !.want = want]
<1>2. r.stage = "saving" /\ r.old = doc.rate
  BY DEF NoEdit
<1>3. Progress(a, r)
  BY <1>1
<1> HIDE DEF r
<1>4. /\ doc.here /\ edit[a].stage = "idle" /\ UNCHANGED <<doc, debt>>
      /\ slipped \subseteq slipped'
      /\ slipped' = {} => \A b \in Admins \ {a} : edit[b].stage = "idle"
  BY DEF ReadRate
<1>5. ASSUME slipped' = {} PROVE Steady'
  <2>1. Steady
    BY <1>4, <1>5 DEF PegInv
  <2>2. \A b \in Admins : ~Rerating(edit[b])
    BY <1>4, <1>5 DEF Rerating
  <2>3. \A u \in Users : Worth(debt'[u], r.old)
    BY <1>2, <1>4, <2>1, <2>2 DEF Steady, Worth
  <2> QED
    BY <1>2, <1>3, <1>4, <2>2, <2>3, SteadyOn DEF Rerating
<1> QED
  BY <1>2, <1>3, <1>4, <1>5, PegRequest

\* The save of the rate: the debts follow the old one from now on.
LEMMA SaveKeepsPeg ==
    ASSUME IInv, PegInv, NEW a \in Admins, SaveRate(a)
    PROVE  PegInv'
<1> DEFINE e == edit[a]
           r == [e EXCEPT !.stage = "saved", !.asOf = doc'.asOf]
<1>1. e \in Request /\ doc \in Document
  BY DEF IInv, TypeOK
<1>2. r.stage = "saved" /\ r.old = e.old /\ r.new = e.new
  BY <1>1 DEF Request
<1>3. /\ Progress(a, r) /\ e.stage = "saving" /\ UNCHANGED <<debt, slipped>>
      /\ Written(IF e.new = e.old THEN doc.rate ELSE e.new, doc.active)
  BY DEF SaveRate
<1> HIDE DEF r
<1>4. /\ doc'.rate = (IF e.new = e.old THEN doc.rate ELSE e.new)
      /\ doc'.here = doc.here /\ doc.here
  BY <1>1, <1>3, WrittenRate DEF PegInv
<1>5. ASSUME slipped' = {} PROVE Steady'
  <2>1. Steady /\ Rerating(e)
    BY <1>3, <1>5 DEF PegInv, Rerating
  <2>2. /\ \A b \in Admins \ {a} : ~Rerating(edit[b])
        /\ doc.rate = e.old /\ \A u \in Users : Worth(debt[u], e.old)
    BY <1>3, <2>1, Alone DEF Following
  <2>3. Rerating(r) <=> e.new # e.old
    BY <1>2 DEF Rerating
  <2>4. Rerating(r) => doc'.rate = r.new /\ \A u \in Users : Worth(debt'[u], r.old)
    BY <1>2, <1>3, <1>4, <2>2, <2>3 DEF Worth
  <2>5. ~Rerating(r) => \A u \in Users : Worth(debt'[u], doc'.rate)
    BY <1>3, <1>4, <2>2, <2>3 DEF Worth
  <2> QED
    BY <1>2, <1>3, <2>2, <2>4, <2>5, SteadyOn
<1> QED
  BY <1>2, <1>3, <1>4, <1>5, PegRequest

\* Dropping the cache entry changes neither rate nor debts.
LEMMA InvalidateKeepsPeg ==
    ASSUME IInv, PegInv, NEW a \in Admins, Invalidate(a)
    PROVE  PegInv'
<1> DEFINE e == edit[a]
           Turn(stage) == [e EXCEPT !.stage = stage]
<1>1. e \in Request
  BY DEF IInv, TypeOK
<1>2. \A stage \in {"status", "looking"} :
        /\ Turn(stage).stage = stage
        /\ Turn(stage).old = e.old /\ Turn(stage).new = e.new
  BY <1>1 DEF Request
<1>3. e.stage = "saved" /\ UNCHANGED <<doc, debt>> /\ doc.here
  BY DEF Invalidate, PegInv
<1>4. CASE e.new = e.old
  <2>1. Progress(a, Turn("status")) /\ UNCHANGED slipped
    BY <1>4 DEF Invalidate
  <2>2. ~Rerating(e) /\ ~Rerating(Turn("status"))
    BY <1>2, <1>3, <1>4 DEF Rerating
  <2>3. slipped' = {} => Steady'
    BY <1>3, <2>1, <2>2, SteadyBeside DEF PegInv
  <2> QED
    BY <1>2, <1>3, <2>1, <2>3, PegRequest
<1>5. CASE e.new # e.old /\ (~e.peg \/ Refused(e))
  <2>1. Progress(a, Turn("status"))
        /\ slipped' = slipped \cup {IF e.peg THEN "refused" ELSE "declined"}
    BY <1>5 DEF Invalidate
  <2>2. slipped' # {} /\ slipped \subseteq slipped'
    BY <2>1
  <2> QED
    BY <1>2, <1>3, <2>1, <2>2, PegRequest
<1>6. CASE e.new # e.old /\ ~(~e.peg \/ Refused(e))
  <2>1. Progress(a, Turn("looking")) /\ UNCHANGED slipped
    BY <1>6 DEF Invalidate
  <2>2. ASSUME slipped' = {} PROVE Steady'
    <3>1. Steady /\ Rerating(e)
      BY <1>3, <1>6, <2>1, <2>2 DEF PegInv, Rerating
    <3>2. /\ \A b \in Admins \ {a} : ~Rerating(edit[b])
          /\ doc.rate = e.new /\ \A u \in Users : Worth(debt[u], e.old)
      BY <1>3, <3>1, Alone DEF Following
    <3>3. doc'.rate = Turn("looking").new
          /\ \A u \in Users : Worth(debt'[u], Turn("looking").old)
      BY <1>2, <1>3, <3>2 DEF Worth
    <3> HIDE DEF Turn
    <3> QED
      BY <1>2, <2>1, <3>2, <3>3, SteadyOn DEF Rerating
  <2> QED
    BY <1>2, <1>3, <2>1, <2>2, PegRequest
<1> QED
  BY <1>4, <1>5, <1>6

\* The look for debts remembers them as they are.
LEMMA FindKeepsPeg ==
    ASSUME IInv, PegInv, NEW a \in Admins, FindDebts(a)
    PROVE  PegInv'
<1> DEFINE e == edit[a]
           r == [e EXCEPT !.stage = "adjusting", !.debts = debt]
<1>1. e \in Request
  BY DEF IInv, TypeOK
<1>2. r.stage = "adjusting" /\ r.old = e.old /\ r.new = e.new /\ r.debts = debt
  BY <1>1 DEF Request
<1>3. /\ Progress(a, r) /\ e.stage = "looking" /\ UNCHANGED <<doc, debt, slipped>>
      /\ doc.here
  BY DEF FindDebts, PegInv
<1> HIDE DEF r
<1>4. ASSUME slipped' = {} PROVE Steady'
  <2>1. Steady /\ Rerating(e)
    BY <1>3, <1>4 DEF PegInv, Rerating
  <2>2. /\ \A b \in Admins \ {a} : ~Rerating(edit[b])
        /\ doc.rate = e.new /\ \A u \in Users : Worth(debt[u], e.old)
    BY <1>3, <2>1, Alone DEF Following
  <2>3. \A u \in Users :
          IF r.debts[u] > 0 THEN r.debts[u] = debt'[u] /\ Worth(debt'[u], r.old)
          ELSE Worth(debt'[u], r.new)
    BY <1>2, <1>3, <2>2 DEF Worth
  <2> QED
    BY <1>2, <1>3, <2>2, <2>3, SteadyOn DEF Rerating
<1> QED
  BY <1>2, <1>3, <1>4, PegRequest

\* The adjustment of one debt takes it from the old rate to the new.
LEMMA AdjustKeepsPeg ==
    ASSUME Exact, IInv, PegInv, NEW a \in Admins, NEW u \in Users, Adjust(a, u)
    PROVE  PegInv'
<1> DEFINE e == edit[a]
           after == Adjusted(e, e.debts[u])
           left == [e.debts EXCEPT ![u] = 0]
           r == [e EXCEPT !.debts = left]
<1>1. /\ e \in Request /\ e.debts \in [Users -> Int] /\ debt \in [Users -> Int]
      /\ after \in Int
  <2>1. e \in Request /\ e.debts \in [Users -> Int] /\ debt \in [Users -> Int]
    BY DEF IInv, TypeOK, Request
  <2> QED
    BY <2>1, AdjustedType
<1>2. /\ e.stage = "adjusting" /\ e.debts[u] > 0 /\ UNCHANGED doc /\ doc.here
      /\ Progress(a, [e EXCEPT !.debts[u] = 0])
      /\ \/ debt' = [debt EXCEPT ![u] = after] /\ UNCHANGED slipped
         \/ slipped' = slipped \cup {"fault"}
  BY DEF Adjust, PegInv
<1> HIDE DEF after
<1>3. /\ [e EXCEPT !.debts[u] = 0] = r
      /\ r.stage = "adjusting" /\ r.old = e.old /\ r.new = e.new /\ r.debts = left
  <2>1. [e EXCEPT !.debts[u] = 0] = r
    OBVIOUS
  <2> HIDE DEF left
  <2>2. r.stage = e.stage /\ r.old = e.old /\ r.new = e.new /\ r.debts = left
    BY <1>1 DEF Request
  <2> QED
    BY <1>2, <2>1, <2>2
<1> HIDE DEF r
<1>4. ASSUME slipped' = {} PROVE Steady'
  <2>1. /\ Steady /\ Rerating(e)
        /\ debt' = [debt EXCEPT ![u] = after]
    BY <1>2, <1>4 DEF PegInv, Rerating
  <2>2. /\ \A b \in Admins \ {a} : ~Rerating(edit[b])
        /\ doc.rate = e.new
        /\ \A v \in Users :
              IF e.debts[v] > 0 THEN e.debts[v] = debt[v] /\ Worth(debt[v], e.old)
              ELSE Worth(debt[v], e.new)
    BY <1>2, <2>1, Alone DEF Following
  <2>3. after * FirstRate = Debt * e.new
    <3>1. e.debts[u] \in Int /\ e.debts[u] * FirstRate = Debt * e.old
      BY <1>1, <1>2, <2>2 DEF Worth
    <3> QED
      BY <1>1, <3>1, AdjustedFollows DEF after
  <2>4. ASSUME NEW v \in Users
        PROVE  IF r.debts[v] > 0 THEN r.debts[v] = debt'[v] /\ Worth(debt'[v], r.old)
               ELSE Worth(debt'[v], r.new)
    <3>1. CASE v = u
      BY <1>1, <1>3, <2>1, <2>3, <3>1 DEF Worth
    <3>2. CASE v # u
      <4>1. debt'[v] = debt[v] /\ r.debts[v] = e.debts[v]
        BY <1>1, <1>3, <2>1, <3>2
      <4> QED
        BY <1>3, <2>2, <4>1 DEF Worth
    <3> QED
      BY <3>1, <3>2
  <2> QED
    BY <1>2, <1>3, <2>2, <2>4, SteadyOn DEF Rerating
<1>5. slipped \subseteq slipped'
  BY <1>2
<1> QED
  BY <1>2, <1>3, <1>4, <1>5, PegRequest

\* The save of the status ends the change, with every debt at the new rate.
LEMMA StatusKeepsPeg ==
    ASSUME IInv, PegInv, NEW a \in Admins, SaveStatus(a)
    PROVE  PegInv'
<1> DEFINE e == edit[a]
<1>1. e \in Request /\ doc \in Document
  BY DEF IInv, TypeOK
<1>2. /\ e.stage \in {"status", "adjusting"} /\ ~Adjusting(a)
      /\ Progress(a, NoEdit) /\ UNCHANGED <<debt, slipped>> /\ doc.here
  BY DEF SaveStatus, PegInv
<1>3. doc'.rate = doc.rate /\ doc'.here
  BY <1>1, <1>2, WrittenRate DEF SaveStatus
<1>4. NoEdit.stage = "idle" /\ ~Rerating(NoEdit)
  BY DEF NoEdit, Rerating
<1>5. CASE e.stage = "status"
  <2>1. ~Rerating(e)
    BY <1>5 DEF Rerating
  <2>2. slipped' = {} => Steady'
    BY <1>2, <1>3, <1>4, <2>1, SteadyBeside DEF PegInv
  <2> QED
    BY <1>2, <1>3, <1>4, <2>2, PegRequest
<1>6. CASE e.stage = "adjusting"
  <2>1. ASSUME slipped' = {} PROVE Steady'
    <3>1. Steady /\ Rerating(e)
      BY <1>2, <1>6, <2>1 DEF PegInv, Rerating
    <3>2. /\ \A b \in Admins \ {a} : ~Rerating(edit[b])
          /\ Following(e)
      BY <3>1, Alone
    <3>3. \A u \in Users : Worth(debt[u], doc.rate)
      BY <1>2, <1>6, <3>2 DEF Following, Adjusting
    <3>4. \A u \in Users : Worth(debt'[u], doc'.rate)
      BY <1>2, <1>3, <3>3 DEF Worth
    <3> QED
      BY <1>2, <1>4, <3>2, <3>4, SteadyOn
  <2> QED
    BY <1>2, <1>3, <1>4, <2>1, PegRequest
<1> QED
  BY <1>2, <1>5, <1>6

\* The other route changes the status alone.
LEMMA SwitchKeepsPeg ==
    ASSUME IInv, PegInv, NEW a \in Admins,
           SetStatus(a) \/ \E p \in Processes : ReadStatus(a, p)
    PROVE  PegInv'
<1> DEFINE e == edit[a]
<1>1. e \in Request /\ doc \in Document
  BY DEF IInv, TypeOK
<1>2. CASE SetStatus(a)
  <2> DEFINE x == [e EXCEPT !.stage = "saved"]
             y == [x EXCEPT !.was = e.want]
             r == [y EXCEPT !.asOf = doc'.asOf]
  <2>1. x.stage = "saved" /\ x.old = e.old /\ x.new = e.new
    BY <1>1 DEF Request
  <2>2. r.stage = x.stage /\ r.old = x.old /\ r.new = x.new
    OBVIOUS
  <2>3. /\ Progress(a, r) /\ UNCHANGED <<debt, slipped>> /\ e.stage = "switching"
        /\ doc.here /\ e.new = e.old
    BY <1>2 DEF SetStatus, PegInv
  <2> HIDE DEF r, x, y
  <2>4. doc'.rate = doc.rate /\ doc'.here
    BY <1>1, <1>2, <2>3, WrittenRate DEF SetStatus
  <2>5. ~Rerating(e) /\ ~Rerating(r) /\ r.stage # "switching"
    BY <2>1, <2>2, <2>3 DEF Rerating
  <2>6. slipped' = {} => Steady'
    BY <2>3, <2>4, <2>5, SteadyBeside DEF PegInv
  <2> QED
    BY <2>3, <2>4, <2>5, <2>6, PegRequest
<1>3. CASE \E p \in Processes : ReadStatus(a, p)
  <2>1. PICK p \in Processes, want \in BOOLEAN :
          Progress(a, [NoEdit EXCEPT !.stage = "switching", !.home = p,
                                     !.was = doc.active, !.want = want])
    BY <1>3 DEF ReadStatus
  <2> DEFINE r == [NoEdit EXCEPT !.stage = "switching", !.home = p,
                                 !.was = doc.active, !.want = want]
  <2>2. r.stage = "switching" /\ r.new = r.old
    BY DEF NoEdit
  <2>3. /\ Progress(a, r) /\ UNCHANGED <<doc, debt, slipped>> /\ e.stage = "idle"
        /\ doc.here
    BY <1>3, <2>1 DEF ReadStatus
  <2> HIDE DEF r
  <2>4. ~Rerating(e) /\ ~Rerating(r)
    BY <2>2, <2>3 DEF Rerating
  <2>5. slipped' = {} => Steady'
    BY <2>3, <2>4, SteadyBeside DEF PegInv
  <2> QED
    BY <2>2, <2>3, <2>5, PegRequest
<1> QED
  BY <1>2, <1>3

\* Every step keeps the debts at the rate, or slips.
LEMMA PegStep ==
    ASSUME Exact, IInv, PegInv, [Next]_vars
    PROVE  PegInv'
<1>1. CASE UNCHANGED vars
  BY <1>1, PegBeside DEF vars
<1>2. ASSUME NEW o \in Orders, Convert(o) PROVE PegInv'
  <2>1. UNCHANGED <<doc, edit, debt, slipped>>
    BY <1>2 DEF Convert, Ask, Find, Fill, OutsideOrder
  <2> QED
    BY <2>1, PegBeside
<1>3. ASSUME NEW a \in Admins, Create(a) PROVE PegInv'
  <2>1. ~doc.here /\ UNCHANGED <<edit, debt, slipped>>
    BY <1>3 DEF Create
  <2> QED
    BY <2>1, PegBeside
<1>4. ASSUME NEW a \in Admins, Administer(a) PROVE PegInv'
  BY <1>3, <1>4, ReadKeepsPeg, SaveKeepsPeg, InvalidateKeepsPeg, FindKeepsPeg,
     AdjustKeepsPeg, StatusKeepsPeg, SwitchKeepsPeg DEF Administer
<1>5. ASSUME NEW p \in Processes, SyncLook(p) \/ SyncUpdate(p) \/ SyncCreate(p)
      PROVE  PegInv'
  <2>1. UNCHANGED <<edit, debt, slipped>> /\ (doc.here => doc' = doc)
    BY <1>5 DEF SyncLook, SyncUpdate, SyncCreate, OutsideSync
  <2> QED
    BY <2>1, PegBeside
<1>6. ASSUME NEW p \in Processes, Restart(p) PROVE PegInv'
  <2>1. /\ UNCHANGED <<doc, debt>> /\ slipped' # {}
        /\ edit' = [a \in Admins |-> IF edit[a].home = p THEN NoEdit ELSE edit[a]]
    BY <1>6 DEF Restart
  <2>2. NoEdit.stage = "idle"
    BY DEF NoEdit
  <2> QED
    BY <2>1, <2>2 DEF PegInv
<1>7. CASE Tick
  <2>1. UNCHANGED <<doc, edit, debt, slipped>>
    BY <1>7 DEF Tick, OutsideOrder
  <2> QED
    BY <2>1, PegBeside
<1> QED
  BY <1>1, <1>2, <1>4, <1>5, <1>6, <1>7 DEF Next

\* At first the debts are at the first rate.
LEMMA PegInit ==
    ASSUME Init
    PROVE  PegInv
<1>1. edit = [a \in Admins |-> NoEdit] /\ NoEdit.stage = "idle"
  BY DEF Init, NoEdit
<1>2. /\ doc.rate = FirstRate
      /\ \A u \in Users : debt[u] = IF doc.here THEN Debt ELSE 0
  BY DEF Init
<1>3. \A u \in Users : Worth(debt[u], doc.rate)
  BY <1>2 DEF Worth
<1> QED
  BY <1>1, <1>2, <1>3 DEF PegInv, Steady, Rerating

\* Where every change of the rate was made with debt adjustment, one after the
\* other and without an error, and no amount needs rounding, debts are worth in USD
\* what they were, for any number of users, administrators and changes.
THEOREM DebtsKeepTheirWorth ==
    ASSUME Exact
    PROVE  Spec => []DebtsPegged
<1>1. Init => IInv /\ PegInv
  BY InitInv, PegInit
<1>2. (IInv /\ PegInv) /\ [Next]_vars => (IInv /\ PegInv)'
  BY NextInv, PegStep
<1>3. IInv /\ PegInv => DebtsPegged
  <2> SUFFICES ASSUME PegInv, slipped = {},
                      \A a \in Admins : edit[a].stage \in {"idle", "status"}
               PROVE  \A u \in Users : Worth(debt[u], doc.rate)
    BY DEF DebtsPegged, Worth
  <2> QED
    BY DEF PegInv, Steady, Rerating
<1> QED
  BY <1>1, <1>2, <1>3, PTL DEF Spec

===========================================================================
