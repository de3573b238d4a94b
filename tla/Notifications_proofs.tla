------------------------ MODULE Notifications_proofs ------------------------
(***************************************************************************)
(* OncePerEvent for every number of people, reports and interventions: no  *)
(* index keeps the notifications of an event apart, but while one report   *)
(* of it at a time is on its way, its look is still true when it inserts.  *)
(***************************************************************************)
EXTENDS Notifications, TLAPS

\* Supervisors are given permissions that exist.
LEMMA GrantTypes == Grants \subseteq SUBSET Permissions
BY NotificationsAssumption
   DEF Permissions, ORDER_REFUND_WALLET, ORDER_REFUND, ORDER_VIEW, WALLET, TOPUP

\* Every send that is built is one.
LEMMA SendTypes ==
    ASSUME NEW n \in Nat, NEW to \in Recipients,
           NEW need \in SUBSET Permissions, NEW key \in Keys
    PROVE  /\ Send(n, to, need, key) \in Sending
           /\ Send(n, to, need, key).key = key
           /\ Send(n, to, need, key).stage # "looked"
BY DEF Send, Sending, Recipients

\* To each side, with the key it is given.
LEMMA AddressedTypes ==
    ASSUME NEW n \in Nat, NEW subject, NEW type,
           NEW need \in SUBSET Permissions,
           Key("staff", subject, type, 0) \in Keys
    PROVE  /\ ToStaff(n, need, subject, type) \in Sending
           /\ ToStaff(n, need, subject, type).key = Key("staff", subject, type, 0)
           /\ ToStaff(n, need, subject, type).stage # "looked"
           /\ ToOwner(n, subject, type) \in Sending
           /\ ToOwner(n, subject, type).key = Key("owner", subject, type, 0)
           /\ ToOwner(n, subject, type).stage # "looked"
<1>1. Key("owner", subject, type, 0) \in Keys
  BY DEF Keys, Key, Recipients
<1>2. "owner" \in Recipients /\ "staff" \in Recipients
  BY DEF Recipients
<1> QED
  BY <1>1, <1>2, SendTypes DEF ToStaff, ToOwner

\* Keys are different when a part of them is.
LEMMA KeysDiffer ==
    ASSUME NEW a, NEW b, NEW c, NEW d, NEW a2, NEW b2, NEW c2, NEW d2,
           Key(a, b, c, d) = Key(a2, b2, c2, d2)
    PROVE  a = a2 /\ b = b2 /\ c = c2 /\ d = d2
BY DEF Key

\* What a trigger sends off under one key is one send.
LEMMA LaunchedKeys ==
    ASSUME NEW n \in Nat, NEW h \in Happenings, NEW new \in Launched(n, h)
    PROVE  /\ new \subseteq Sending
           /\ \A s, t \in new : s.key = t.key => s = t
           /\ \A s \in new : s.stage # "looked"
<1>0. /\ ORDER_VIEW \in SUBSET Permissions /\ ORDER_REFUND \in SUBSET Permissions
      /\ WALLET \in SUBSET Permissions /\ ORDER_REFUND_WALLET \in SUBSET Permissions
      /\ TOPUP \in SUBSET Permissions
  BY DEF Permissions, ORDER_VIEW, ORDER_REFUND, WALLET, ORDER_REFUND_WALLET, TOPUP
<1> DEFINE Types == {"created", "completed", "failed", "refunded", "partial_refunded",
                     "provider_rejected_refunded", "refund", "manual_review",
                     "approved", "rejected", "topup"}
           Needs == {ORDER_VIEW, ORDER_REFUND, WALLET, ORDER_REFUND_WALLET, TOPUP}
<1>a. ASSUME NEW subject \in {"order", "wallet", "topup"}, NEW type \in Types,
             NEW need \in Needs
      PROVE  /\ ToStaff(n, need, subject, type) \in Sending
             /\ ToStaff(n, need, subject, type).key = Key("staff", subject, type, 0)
             /\ ToStaff(n, need, subject, type).stage # "looked"
             /\ ToOwner(n, subject, type) \in Sending
             /\ ToOwner(n, subject, type).key = Key("owner", subject, type, 0)
             /\ ToOwner(n, subject, type).stage # "looked"
  <2>1. Key("staff", subject, type, 0) \in Keys
    BY DEF Keys, Key, Recipients
  <2> QED
    BY <1>0, <2>1, AddressedTypes
<1>1. CASE h = "created"
  <2>1. PICK m \in BOOLEAN : new = NotifyOrderCreated(n, m)
    BY <1>1 DEF Launched
  <2> QED
    BY <1>a, <2>1, KeysDiffer DEF NotifyOrderCreated
<1>2. CASE h = "completed"
  <2>1. new = NotifyOrderCompleted(n)
    BY <1>2 DEF Launched
  <2> QED
    BY <1>a, <2>1, KeysDiffer DEF NotifyOrderCompleted
<1>3. CASE h = "failed"
  <2>1. PICK u \in BOOLEAN : new = NotifyOrderFailed(n, u)
    BY <1>3 DEF Launched
  <2> QED
    BY <1>a, <2>1, KeysDiffer DEF NotifyOrderFailed
<1>4. CASE h = "refunded"
  <2>1. PICK partial \in BOOLEAN, rejected \in BOOLEAN :
          new = NotifyOrderRefunded(n, partial, rejected)
    BY <1>4 DEF Launched
  <2>2. PICK type \in {"partial_refunded", "refunded"} :
          new \subseteq {ToStaff(n, ORDER_REFUND, "order", type),
                        ToStaff(n, WALLET, "wallet", "refund"),
                        ToOwner(n, "order", type),
                        ToOwner(n, "wallet", "refund"),
                        ToStaff(n, ORDER_REFUND_WALLET, "order",
                                "provider_rejected_refunded")}
    BY <2>1 DEF NotifyOrderRefunded
  <2>3. type \in Types /\ type # "provider_rejected_refunded"
    OBVIOUS
  <2>4. new \subseteq Sending /\ \A s \in new : s.stage # "looked"
    BY <1>a, <2>2, <2>3
  <2>5. /\ Key("staff", "order", type, 0) # Key("staff", "wallet", "refund", 0)
        /\ Key("staff", "order", type, 0) # Key("owner", "order", type, 0)
        /\ Key("staff", "order", type, 0) # Key("owner", "wallet", "refund", 0)
        /\ Key("staff", "order", type, 0)
             # Key("staff", "order", "provider_rejected_refunded", 0)
        /\ Key("staff", "wallet", "refund", 0) # Key("owner", "order", type, 0)
        /\ Key("staff", "wallet", "refund", 0) # Key("owner", "wallet", "refund", 0)
        /\ Key("staff", "wallet", "refund", 0)
             # Key("staff", "order", "provider_rejected_refunded", 0)
        /\ Key("owner", "order", type, 0) # Key("owner", "wallet", "refund", 0)
        /\ Key("owner", "order", type, 0)
             # Key("staff", "order", "provider_rejected_refunded", 0)
        /\ Key("owner", "wallet", "refund", 0)
             # Key("staff", "order", "provider_rejected_refunded", 0)
    BY <2>3, KeysDiffer
  <2>6. \A s, t \in new : s.key = t.key => s = t
    BY <1>a, <2>2, <2>3, <2>5
  <2> QED
    BY <2>4, <2>6
<1>5. CASE h = "review"
  <2>1. new = NotifyOrderManualReview(n)
    BY <1>5 DEF Launched
  <2> QED
    BY <1>a, <2>1 DEF NotifyOrderManualReview
<1>6. CASE h = "adjusted"
  <2>1. new = NotifyManualWalletAdjustment(n)
    BY <1>6 DEF Launched
  <2>2. \A to \in {"owner", "staff"} : Key(to, "wallet", "manual", n) \in Keys
    BY DEF Keys, Key, Recipients
  <2> QED
    <3>1. "owner" \in Recipients /\ "staff" \in Recipients /\ {} \in SUBSET Permissions
      BY DEF Recipients
    <3>2. Key("owner", "wallet", "manual", n) # Key("staff", "wallet", "manual", n)
      BY KeysDiffer
    <3>3. /\ Key("owner", "wallet", "manual", n) \in Keys
          /\ Key("staff", "wallet", "manual", n) \in Keys
      BY <2>2
    <3> QED
      BY <1>0, <2>1, <3>1, <3>2, <3>3, SendTypes DEF NotifyManualWalletAdjustment
<1>7. CASE h = "approved"
  <2>1. new = NotifyDepositApproved(n)
    BY <1>7 DEF Launched
  <2> QED
    BY <1>a, <2>1, KeysDiffer DEF NotifyDepositApproved
<1>8. CASE h = "rejected"
  <2>1. new = NotifyDepositRejected(n)
    BY <1>8 DEF Launched
  <2> QED
    BY <1>a, <2>1, KeysDiffer DEF NotifyDepositRejected
<1>9. CASE h = "announced"
  <2>1. PICK k \in {NoKey, Key("everyone", "announcement", "news", 0)} :
          new = CreateNotification(n, k)
    BY <1>9 DEF Launched
  <2>2. k \in Keys
    BY <2>1 DEF NoKey, Keys, Key, Recipients
  <2>3. new = {Send(n, "everyone", {}, k)}
    BY <2>1 DEF CreateNotification
  <2>6. "everyone" \in Recipients
    BY DEF Recipients
  <2>4. \A s, t \in new : s = t
    BY <2>3
  <2>5. /\ Send(n, "everyone", {}, k) \in Sending
        /\ Send(n, "everyone", {}, k).stage # "looked"
    <3>1. {} \in SUBSET Permissions
      OBVIOUS
    <3> QED
      BY <2>2, <2>6, <3>1, SendTypes
  <2> QED
    BY <2>3, <2>4, <2>5
<1> QED
  BY <1>1, <1>2, <1>3, <1>4, <1>5, <1>6, <1>7, <1>8, <1>9, NotificationsAssumption

\* The initial states satisfy the invariant.
LEMMA InvariantInit ==
    ASSUME Init
    PROVE  IInv
<1>1. TypeOK
  BY GrantTypes DEF Init, TypeOK
<1> QED
  BY <1>1 DEF Init, IInv, SendsInv, LookedInv, OncePerEvent

\* A trigger adds sends whose keys are among themselves different, and marks those
\* that were on their way.
LEMMA TriggerKeeps ==
    ASSUME IInv, Trigger
    PROVE  IInv'
<1>0. PICK h \in Happenings : \E new \in Launched(spent'.events, h) :
         /\ sends' = sends \cup {IF s.to = "owner" THEN [s EXCEPT !.whom = {Owner}] ELSE s
                                 : s \in new}
         /\ raced' = raced \cup ({s.key : s \in sends} \cap {s.key : s \in new})
  BY DEF Trigger
<1>1. PICK new \in Launched(spent'.events, h) :
         /\ sends' = sends \cup {IF s.to = "owner" THEN [s EXCEPT !.whom = {Owner}] ELSE s
                                 : s \in new}
         /\ raced' = raced \cup ({s.key : s \in sends} \cap {s.key : s \in new})
  BY <1>0
<1>2. spent' \in [events : Nat, opens : Nat, troubles : Nat] /\ spent'.events \in Nat
  BY DEF Trigger, Spend, IInv, TypeOK
<1> DEFINE f(s) == IF s.to = "owner" THEN [s EXCEPT !.whom = {Owner}] ELSE s
<1>3. /\ new \subseteq Sending
      /\ \A s, t \in new : s.key = t.key => s = t
      /\ \A s \in new : s.stage # "looked"
  BY <1>2, LaunchedKeys
<1>4. \A s \in new : f(s) \in Sending /\ f(s).key = s.key /\ f(s).stage # "looked"
  BY <1>3 DEF Sending, People
<1>5. sends' = sends \cup {f(s) : s \in new}
  BY <1>1
<1>6. UNCHANGED <<active, permissions, inbox>>
  BY DEF Trigger
<1> HIDE DEF f
<1>7. TypeOK'
  BY <1>2, <1>4, <1>5, <1>6 DEF IInv, TypeOK
<1>8. raced \subseteq raced'
  BY <1>1
<1>9. SendsInv'
  <2> SUFFICES ASSUME NEW s \in sends', NEW t \in sends', s.key = t.key, Calm(s.key)'
               PROVE  s = t
    BY DEF SendsInv
  <2>1. Calm(s.key)
    BY <1>8 DEF Calm
  <2>2. CASE s \in sends /\ t \in sends
    BY <2>1, <2>2 DEF IInv, SendsInv
  <2>3. CASE \E x \in new, y \in new : s = f(x) /\ t = f(y)
    BY <1>3, <1>4, <2>3
  <2>4. CASE \E x \in new : (s = f(x) /\ t \in sends) \/ (t = f(x) /\ s \in sends)
    <3>1. s.key \in raced'
      BY <1>1, <1>4, <2>4
    <3> QED
      BY <3>1 DEF Calm
  <2> QED
    BY <1>5, <2>2, <2>3, <2>4
<1>10. LookedInv'
  BY <1>4, <1>5, <1>6, <1>8 DEF IInv, LookedInv, Calm, NotificationExistsForEvent
<1>11. OncePerEvent'
  BY <1>6, <1>8 DEF IInv, OncePerEvent
<1> QED
  BY <1>7, <1>9, <1>10, <1>11 DEF IInv

\* A send that goes on in its place, with others to tell of the same event.
LEMMA SendKeeps ==
    ASSUME IInv, NEW s \in sends, NEW new, Becomes(s, new),
           new = {} \/ (\E t \in Sending :
               /\ new = {t} /\ t.key = s.key
               /\ t.stage = "looked" =>
                    \A u \in t.whom : s.key = NoKey \/ ~NotificationExistsForEvent(u, s.key)),
           UNCHANGED <<active, permissions, spent, raced, inbox>>
    PROVE  IInv'
<1>1. sends' = (sends \ {s}) \cup new
  BY DEF Becomes
<1>2. TypeOK'
  BY <1>1 DEF IInv, TypeOK
<1>3. SendsInv'
  BY <1>1 DEF IInv, SendsInv, Calm
<1>4. LookedInv'
  BY <1>1 DEF IInv, LookedInv, Calm, NotificationExistsForEvent
<1>5. OncePerEvent'
  BY DEF IInv, OncePerEvent
<1> QED
  BY <1>2, <1>3, <1>4, <1>5 DEF IInv

\* The look for people.
LEMMA FindKeeps ==
    ASSUME IInv, NEW s \in sends, Find(s)
    PROVE  IInv'
<1> DEFINE whom == IF s.to = "staff" THEN Entitled(s.need) ELSE active
           t == [s EXCEPT !.whom = whom, !.stage = "found"]
<1>1. s \in Sending /\ whom \subseteq People
  BY DEF IInv, TypeOK, Entitled, People
<1>2. Becomes(s, {t}) /\ UNCHANGED <<active, permissions, spent, raced, inbox>>
  BY DEF Find, OutsideSends
<1> HIDE DEF whom
<1>3. t \in Sending /\ t.key = s.key /\ t.stage # "looked"
  BY <1>1 DEF Sending
<1> HIDE DEF t
<1> QED
  BY <1>2, <1>3, SendKeeps

\* The look for the event's key leaves the people who have no notification of it.
LEMMA LookKeeps ==
    ASSUME IInv, NEW s \in sends, Look(s)
    PROVE  IInv'
<1> DEFINE left == {u \in s.whom : s.key = NoKey \/ ~NotificationExistsForEvent(u, s.key)}
           t == [s EXCEPT !.whom = left, !.stage = "looked"]
<1>1. s \in Sending /\ left \subseteq s.whom
  BY DEF IInv, TypeOK
<1>2. /\ Becomes(s, IF left = {} THEN {} ELSE {t})
      /\ UNCHANGED <<active, permissions, spent, raced, inbox>>
  BY DEF Look, OutsideSends
<1>3. \A u \in left : s.key = NoKey \/ ~NotificationExistsForEvent(u, s.key)
  OBVIOUS
<1> HIDE DEF left
<1>4. t \in Sending /\ t.key = s.key /\ t.whom = left
  BY <1>1 DEF Sending
<1> HIDE DEF t
<1> QED
  BY <1>2, <1>3, <1>4, SendKeeps

\* Insertions of a send, all of them or some, and the send's end.
LEMMA StoreKeeps ==
    ASSUME IInv, NEW s \in sends, NEW whom, whom \subseteq s.whom,
           s.stage # "looked" => whom = {},
           Store(s, whom), sends' = sends \ {s},
           spent' \in [events : Nat, opens : Nat, troubles : Nat],
           UNCHANGED <<active, permissions, raced>>
    PROVE  IInv'
<1> DEFINE note(u) == [to |-> u, key |-> s.key, event |-> s.event, read |-> FALSE]
<1>1. s \in Sending
  BY DEF IInv, TypeOK
<1>2. inbox' = inbox \cup {note(u) : u \in whom}
  BY DEF Store
<1>3. \A u \in whom : note(u) \in Stored /\ note(u).to = u /\ note(u).key = s.key
  BY <1>1 DEF Sending, Stored
<1>4. \A u, v \in whom : u = v => note(u) = note(v)
  OBVIOUS
<1> HIDE DEF note
<1>5. TypeOK'
  BY <1>2, <1>3 DEF IInv, TypeOK
<1>6. SendsInv'
  BY DEF IInv, SendsInv, Calm
<1>7. LookedInv'
  <2> SUFFICES ASSUME NEW t \in sends', t.stage = "looked", Calm(t.key)',
                      NEW u \in t.whom, NEW x \in inbox', x.to = u, x.key = t.key
               PROVE  FALSE
    BY DEF LookedInv, NotificationExistsForEvent
  <2>1. t \in sends /\ t # s /\ Calm(t.key)
    BY DEF Calm
  <2>2. t.key # s.key
    BY <2>1 DEF IInv, SendsInv
  <2>3. x \in inbox
    BY <1>2, <1>3, <2>2
  <2> QED
    BY <2>1, <2>3 DEF IInv, LookedInv, NotificationExistsForEvent
<1>8. OncePerEvent'
  <2> SUFFICES ASSUME NEW x \in inbox', NEW y \in inbox', x.to = y.to, x.key = y.key,
                      x.key \notin raced \cup {NoKey}
               PROVE  x = y
    BY DEF OncePerEvent
  <2>1. CASE x \in inbox /\ y \in inbox
    BY <2>1 DEF IInv, OncePerEvent
  <2>2. CASE \E u \in whom, v \in whom : x = note(u) /\ y = note(v)
    BY <1>3, <1>4, <2>2
  <2>3. ASSUME NEW u \in whom, NEW z \in inbox, z.to = u, z.key = s.key, Calm(s.key)
        PROVE  FALSE
    BY <2>3 DEF IInv, LookedInv, NotificationExistsForEvent
  <2>4. CASE \E u \in whom : (x = note(u) /\ y \in inbox) \/ (y = note(u) /\ x \in inbox)
    BY <1>3, <2>3, <2>4 DEF Calm
  <2> QED
    BY <1>2, <2>1, <2>2, <2>4
<1> QED
  BY <1>5, <1>6, <1>7, <1>8 DEF IInv

\* Fewer sends, or fewer notifications, or the same ones read.
LEMMA LessKeeps ==
    ASSUME IInv, sends' \subseteq sends, inbox' \subseteq Stored,
           \A x \in inbox' : \E y \in inbox : x.to = y.to /\ x.key = y.key,
           OncePerEvent',
           active' \subseteq People, permissions' \in [Supervisors -> SUBSET Permissions],
           spent' \in [events : Nat, opens : Nat, troubles : Nat],
           UNCHANGED raced
    PROVE  IInv'
<1>1. TypeOK'
  BY DEF IInv, TypeOK
<1>2. SendsInv'
  BY DEF IInv, SendsInv, Calm
<1>3. LookedInv'
  <2> SUFFICES ASSUME NEW t \in sends', t.stage = "looked", Calm(t.key)',
                      NEW u \in t.whom, NEW x \in inbox', x.to = u, x.key = t.key
               PROVE  FALSE
    BY DEF LookedInv, NotificationExistsForEvent
  <2>1. PICK y \in inbox : x.to = y.to /\ x.key = y.key
    OBVIOUS
  <2>2. t \in sends /\ Calm(t.key)
    BY DEF Calm
  <2>3. ~NotificationExistsForEvent(u, t.key)
    BY <2>2 DEF IInv, LookedInv
  <2> QED
    BY <2>1, <2>3 DEF NotificationExistsForEvent
<1> QED
  BY <1>1, <1>2, <1>3 DEF IInv

\* Some notifications are read, and some are gone.
LEMMA ReadOrGone ==
    ASSUME IInv, NEW kept \in SUBSET inbox, NEW touched,
           inbox' = {IF x \in touched THEN [x EXCEPT !.read = TRUE] ELSE x : x \in kept},
           spent' \in [events : Nat, opens : Nat, troubles : Nat],
           UNCHANGED <<active, permissions, sends, raced>>
    PROVE  IInv'
<1> DEFINE seen(x) == IF x \in touched THEN [x EXCEPT !.read = TRUE] ELSE x
<1>1. \A x \in inbox : seen(x) \in Stored /\ seen(x).to = x.to /\ seen(x).key = x.key
  BY DEF IInv, TypeOK, Stored
<1>2. inbox' = {seen(x) : x \in kept}
  OBVIOUS
<1> HIDE DEF seen
<1>3. inbox' \subseteq Stored
  BY <1>1, <1>2
<1>4. \A x \in inbox' : \E y \in inbox : x.to = y.to /\ x.key = y.key
  BY <1>1, <1>2
<1>5. OncePerEvent'
  <2> SUFFICES ASSUME NEW x \in inbox', NEW y \in inbox', x.to = y.to, x.key = y.key,
                      x.key \notin raced \cup {NoKey}
               PROVE  x = y
    BY DEF OncePerEvent
  <2>1. PICK v \in kept : x = seen(v)
    BY <1>2
  <2>2. PICK w \in kept : y = seen(w)
    BY <1>2
  <2>3. v.to = w.to /\ v.key = w.key /\ v.key \notin raced \cup {NoKey}
    BY <1>1, <2>1, <2>2
  <2>4. v = w
    BY <2>3 DEF IInv, OncePerEvent
  <2> QED
    BY <2>1, <2>2, <2>4
<1>6. active \subseteq People /\ permissions \in [Supervisors -> SUBSET Permissions]
  BY DEF IInv, TypeOK
<1> QED
  BY <1>3, <1>4, <1>5, <1>6, LessKeeps

\* What people do with their notifications.
LEMMA OpenKeeps ==
    ASSUME IInv, Open
    PROVE  IInv'
<1> DEFINE Sight(kept, touched) ==
             inbox' = {IF x \in touched THEN [x EXCEPT !.read = TRUE] ELSE x : x \in kept}
<1>1. UNCHANGED <<active, permissions, sends, raced>>
      /\ spent' \in [events : Nat, opens : Nat, troubles : Nat]
  BY DEF Open, Opens, Spend, IInv, TypeOK
<1>2. ASSUME NEW x \in inbox, MarkNotificationAsRead(x)
      PROVE  Sight(inbox, {x})
  BY <1>2 DEF MarkNotificationAsRead
<1>3. ASSUME NEW x \in inbox, DeleteNotification(x)
      PROVE  Sight(inbox \ {x}, {})
  BY <1>3 DEF DeleteNotification
<1>4. ASSUME NEW u \in active, MarkAllNotificationsAsRead(u)
      PROVE  Sight(inbox, {x \in inbox : x.to = u})
  BY <1>4 DEF MarkAllNotificationsAsRead
<1>5. ASSUME NEW u \in active, ClearReadNotifications(u)
      PROVE  Sight({x \in inbox : ~(x.to = u /\ x.read)}, {})
  BY <1>5 DEF ClearReadNotifications
<1>6. \E kept \in SUBSET inbox, touched \in SUBSET inbox : Sight(kept, touched)
  <2> HIDE DEF Sight
  <2>1. CASE \E x \in inbox : MarkNotificationAsRead(x)
    BY <1>2, <2>1
  <2>2. CASE \E x \in inbox : DeleteNotification(x)
    BY <1>3, <2>2
  <2>3. CASE \E u \in active : MarkAllNotificationsAsRead(u)
    <3>1. PICK u \in active : MarkAllNotificationsAsRead(u)
      BY <2>3
    <3>2. {x \in inbox : x.to = u} \in SUBSET inbox
      OBVIOUS
    <3> QED
      BY <1>4, <3>1, <3>2
  <2>4. CASE \E u \in active : ClearReadNotifications(u)
    <3>1. PICK u \in active : ClearReadNotifications(u)
      BY <2>4
    <3>2. {x \in inbox : ~(x.to = u /\ x.read)} \in SUBSET inbox
      OBVIOUS
    <3> QED
      BY <1>5, <3>1, <3>2
  <2> QED
    BY <2>1, <2>2, <2>3, <2>4 DEF Open
<1> QED
  BY <1>1, <1>6, ReadOrGone

\* The inductive step.
LEMMA InvariantStep ==
    ASSUME IInv, [Next]_vars
    PROVE  IInv'
<1> USE DEF IInv
<1>1. ASSUME NEW s \in sends, Insert(s)
      PROVE  IInv'
  BY <1>1, StoreKeeps DEF Insert, Becomes, OutsideSends, TypeOK
<1>2. ASSUME NEW s \in sends, Fail(s)
      PROVE  IInv'
  <2>1. PICK whom \in SUBSET (IF s.stage = "looked" THEN s.whom ELSE {}) : Store(s, whom)
    BY <1>2 DEF Fail
  <2>2. /\ whom \subseteq s.whom /\ (s.stage # "looked" => whom = {})
        /\ sends' = sends \ {s} /\ UNCHANGED <<active, permissions, raced>>
    BY <1>2, <2>1 DEF Fail, Becomes
  <2>3. spent' \in [events : Nat, opens : Nat, troubles : Nat]
    BY <1>2 DEF Fail, Spend, TypeOK
  <2> QED
    BY <2>1, <2>2, <2>3, StoreKeeps
<1>3. CASE Crash
  <2>1. /\ sends' \subseteq sends /\ UNCHANGED <<active, permissions, inbox, raced>>
        /\ spent' \in [events : Nat, opens : Nat, troubles : Nat]
    BY <1>3 DEF Crash, Spend, TypeOK
  <2>2. OncePerEvent'
    BY <2>1 DEF OncePerEvent
  <2> QED
    BY <2>1, <2>2, LessKeeps DEF TypeOK
<1>4. CASE ChangePerson
  <2>1. /\ UNCHANGED <<sends, inbox, raced>>
        /\ spent' \in [events : Nat, opens : Nat, troubles : Nat]
    BY <1>4 DEF ChangePerson, Spend, TypeOK
  <2>2. OncePerEvent'
    BY <2>1 DEF OncePerEvent
  <2>3. active' \subseteq People /\ permissions' \in [Supervisors -> SUBSET Permissions]
    BY <1>4, GrantTypes DEF ChangePerson, TypeOK, Staff, People
  <2> QED
    BY <2>1, <2>2, <2>3, LessKeeps DEF TypeOK
<1>5. CASE UNCHANGED vars
  BY <1>5 DEF vars, TypeOK, SendsInv, LookedInv, OncePerEvent, Calm,
              NotificationExistsForEvent
<1> QED
  BY TriggerKeeps, FindKeeps, LookKeeps, OpenKeeps, <1>1, <1>2, <1>3, <1>4, <1>5
     DEF Next, Deliver

\* However many reports, readers, errors and lost processes: one notification for
\* each person and event that is reported by one send at a time.
THEOREM NotifiedOnce == Spec => []OncePerEvent
<1>1. IInv => OncePerEvent
  BY DEF IInv
<1> QED
  BY <1>1, InvariantInit, InvariantStep, PTL DEF Spec

===========================================================================
