--------------------------- MODULE Notifications ---------------------------
(***************************************************************************)
(* Notifications: what the handlers of orders, wallets and deposits send   *)
(* off without waiting for it, the announcements of administrators, and    *)
(* what people do with what they receive.                                  *)
(*                                                                         *)
(* Sources: notification.events.js, notification.service.js,               *)
(* notification.model.js and the routes and controller beside them in      *)
(* src/src/modules/notifications.                                          *)
(*                                                                         *)
(* There is one order, one deposit and one wallet, of the Owner: what is   *)
(* sent about different ones has different event keys and does not meet.   *)
(* Texts, routes and priorities are left out.                              *)
(***************************************************************************)
EXTENDS Naturals, FiniteSets

CONSTANTS
    Owner,          \* the customer
    Admins, Supervisors,
    Grants,         \* sets of permissions a supervisor may be given
    Happenings,     \* what may happen: names of the triggers below
    MaxEvents,      \* bound: what happens
    MaxOpens,       \* bound: what people do with notifications
    MaxTroubles     \* bound: database errors, lost processes, changes of people

ASSUME NotificationsAssumption ==
    /\ MaxEvents \in Nat /\ MaxOpens \in Nat /\ MaxTroubles \in Nat
    /\ Happenings \subseteq {"created", "completed", "failed", "refunded", "review",
                             "adjusted", "approved", "rejected", "announced"}
    /\ Grants \subseteq SUBSET {"orders.view", "orders.update", "orders.refund",
                              "wallet.view", "wallet.adjust", "topups.review"}
    /\ Owner \notin Admins \cup Supervisors /\ Admins \cap Supervisors = {}

Staff == Admins \cup Supervisors
People == {Owner} \cup Staff

VARIABLES
    active,     \* whose account is ACTIVE
    permissions,\* of each supervisor
    sends,      \* notifications on their way
    inbox,      \* the stored notifications
    spent,
    \* History: keys sent twice at a time; who was to be told what, and was.
    raced, owed, told

vars == <<active, permissions, sends, inbox, spent, raced, owed, told>>

---------------------------------------------------------------------------
ORDER_VIEW == {"orders.view", "orders.update"}
ORDER_REFUND == ORDER_VIEW \cup {"orders.refund"}
WALLET == {"wallet.view", "wallet.adjust"}
ORDER_REFUND_WALLET == ORDER_REFUND \cup WALLET
TOPUP == {"topups.review"}
Permissions == ORDER_REFUND_WALLET \cup TOPUP

\* The event key; of tells the transactions apart.  NoKey: without one.
Key(to, subject, type, of) == [to |-> to, subject |-> subject, type |-> type, of |-> of]
NoKey == Key("everyone", "announcement", "none", 0)

\* A send: whom it looks for, then whom it found, and of those who lack it.
Send(n, to, need, key) ==
    [event |-> n, to |-> to, need |-> need, key |-> key, whom |-> {},
     stage |-> IF to = "owner" THEN "found" ELSE "starting"]

ToStaff(n, need, subject, type) == Send(n, "staff", need, Key("staff", subject, type, 0))
ToOwner(n, subject, type) == Send(n, "owner", {}, Key("owner", subject, type, 0))

NotifyOrderCreated(n, manualReview) ==
    {ToStaff(n, ORDER_VIEW, "order", "created")} \cup
    (IF manualReview THEN {ToStaff(n, ORDER_VIEW, "order", "manual_review")} ELSE {})

NotifyOrderCompleted(n) ==
    {ToStaff(n, ORDER_VIEW, "order", "completed"), ToOwner(n, "order", "completed")}

NotifyOrderFailed(n, notifyUser) ==
    {ToStaff(n, ORDER_VIEW, "order", "failed")} \cup
    (IF notifyUser THEN {ToOwner(n, "order", "failed")} ELSE {})

NotifyOrderRefunded(n, partial, providerRejected) ==
    LET type == IF partial THEN "partial_refunded" ELSE "refunded"
    IN  {ToStaff(n, ORDER_REFUND, "order", type), ToStaff(n, WALLET, "wallet", "refund"),
         ToOwner(n, "order", type), ToOwner(n, "wallet", "refund")} \cup
        (IF providerRejected
         THEN {ToStaff(n, ORDER_REFUND_WALLET, "order", "provider_rejected_refunded")}
         ELSE {})

NotifyOrderManualReview(n) == {ToStaff(n, ORDER_VIEW, "order", "manual_review")}

\* Every adjustment is a transaction of its own.
NotifyManualWalletAdjustment(n) ==
    {Send(n, "staff", WALLET, Key("staff", "wallet", "manual", n)),
     Send(n, "owner", {}, Key("owner", "wallet", "manual", n))}

NotifyDepositApproved(n) ==
    {ToOwner(n, "topup", "approved"), ToOwner(n, "wallet", "topup"),
     ToStaff(n, TOPUP, "topup", "approved")}

NotifyDepositRejected(n) ==
    {ToOwner(n, "topup", "rejected"), ToStaff(n, TOPUP, "topup", "rejected")}

\* POST /notifications with broadcast: with an event key or without.
CreateNotification(n, key) == {Send(n, "everyone", {}, key)}

Launched(n, happening) ==
    CASE happening = "created"   -> {NotifyOrderCreated(n, m) : m \in BOOLEAN}
      [] happening = "completed" -> {NotifyOrderCompleted(n)}
      [] happening = "failed"    -> {NotifyOrderFailed(n, u) : u \in BOOLEAN}
      [] happening = "refunded"  ->
            {NotifyOrderRefunded(n, FALSE, FALSE), NotifyOrderRefunded(n, FALSE, TRUE),
             NotifyOrderRefunded(n, TRUE, FALSE)}
      [] happening = "review"    -> {NotifyOrderManualReview(n)}
      [] happening = "adjusted"  -> {NotifyManualWalletAdjustment(n)}
      [] happening = "approved"  -> {NotifyDepositApproved(n)}
      [] happening = "rejected"  -> {NotifyDepositRejected(n)}
      [] happening = "announced" ->
            {CreateNotification(n, k) :
                k \in {NoKey, Key("everyone", "announcement", "news", 0)}}

---------------------------------------------------------------------------
Recipients == {"owner", "staff", "everyone"}

Keys ==
    [to : Recipients, subject : {"order", "wallet", "topup", "announcement"},
     type : {"created", "completed", "failed", "refunded", "partial_refunded",
             "provider_rejected_refunded", "refund", "manual_review", "manual",
             "approved", "rejected", "topup", "news", "none"},
     of : Nat]

Sending ==
    [event : Nat, to : Recipients, need : SUBSET Permissions, key : Keys,
     whom : SUBSET People, stage : {"starting", "found", "looked"}]

Stored == [to : People, key : Keys, event : Nat, read : BOOLEAN]

TypeOK ==
    /\ active \subseteq People
    /\ permissions \in [Supervisors -> SUBSET Permissions]
    /\ sends \subseteq Sending
    /\ inbox \subseteq Stored
    /\ spent \in [events : Nat, opens : Nat, troubles : Nat]

Init ==
    /\ active = People
    /\ permissions \in [Supervisors -> Grants]
    /\ sends = {}
    /\ inbox = {}
    /\ spent = [events |-> 0, opens |-> 0, troubles |-> 0]
    /\ raced = {} /\ owed = {} /\ told = {}

Spend(what, most) == spent[what] < most /\ spent' = [spent EXCEPT ![what] = @ + 1]

\* Those a send is meant for, whom the code looks for a little later.
Meant(s) ==
    CASE s.to = "owner"    -> {Owner}
      [] s.to = "everyone" -> active
      [] s.to = "staff"    -> {u \in active \cap Staff :
                                  u \in Admins \/ s.need \cap permissions[u] # {}}

\* What happened is told without waiting: the sends run beside everything else.
Trigger ==
    /\ Spend("events", MaxEvents)
    /\ \E h \in Happenings : \E new \in Launched(spent'.events, h) :
        /\ sends' = sends \cup {IF s.to = "owner" THEN [s EXCEPT !.whom = {Owner}] ELSE s
                                : s \in new}
        /\ owed' = owed \cup UNION {Meant(s) \X {s.key} : s \in new}
        /\ raced' = raced \cup ({s.key : s \in sends} \cap {s.key : s \in new})
    /\ UNCHANGED <<active, permissions, inbox, told>>

\* Mutant: a supervisor needs every permission.
EntitledByAll(need) ==
    {u \in active \cap Staff : u \in Admins \/ need \subseteq permissions[u]}

\* permissionMode 'any'; an administrator needs none.
Entitled(need) ==
    {u \in active \cap Staff :
        \/ u \in Admins
        \/ \E permission \in need : permission \in permissions[u]}

Becomes(s, new) == sends' = (sends \ {s}) \cup new
OutsideSends == UNCHANGED <<active, permissions, spent, raced, owed>>

\* User.find.
Find(s) ==
    /\ s.stage = "starting"
    /\ LET whom == IF s.to = "staff" THEN Entitled(s.need) ELSE active
       IN  Becomes(s, {[s EXCEPT !.whom = whom, !.stage = "found"]})
    /\ OutsideSends
    /\ UNCHANGED <<inbox, told>>

\* Mutant: no look.
NotLooked(u, key) == FALSE

NotificationExistsForEvent(u, key) == \E x \in inbox : x.to = u /\ x.key = key

\* The looks of one send are taken together: each is for another person.
Look(s) ==
    /\ s.stage = "found"
    /\ LET left == {u \in s.whom :
                       s.key = NoKey \/ ~NotificationExistsForEvent(u, s.key)}
       IN  Becomes(s, IF left = {} THEN {}
                      ELSE {[s EXCEPT !.whom = left, !.stage = "looked"]})
    /\ OutsideSends
    /\ UNCHANGED <<inbox, told>>

\* insertMany, in no order, or create.
Store(s, whom) ==
    /\ inbox' = inbox \cup {[to |-> u, key |-> s.key, event |-> s.event, read |-> FALSE]
                            : u \in whom}
    /\ told' = told \cup (whom \X {s.key})

Insert(s) ==
    /\ s.stage = "looked"
    /\ Store(s, s.whom)
    /\ Becomes(s, {})
    /\ OutsideSends

\* An error, on the way or after some of the insertions, is swallowed.
Fail(s) ==
    /\ Spend("troubles", MaxTroubles)
    /\ \E whom \in SUBSET (IF s.stage = "looked" THEN s.whom ELSE {}) : Store(s, whom)
    /\ Becomes(s, {})
    /\ owed' = {x \in owed : x[2] # s.key}
    /\ UNCHANGED <<active, permissions, raced>>

\* A process is lost with the sends it was at.
Crash ==
    /\ Spend("troubles", MaxTroubles)
    /\ \E lost \in SUBSET sends \ {{}} :
        /\ sends' = sends \ lost
        /\ owed' = {x \in owed : \A s \in lost : x[2] # s.key}
    /\ UNCHANGED <<active, permissions, inbox, raced, told>>

---------------------------------------------------------------------------
(* People.                                                                 *)

Opens == /\ Spend("opens", MaxOpens)
         /\ UNCHANGED <<active, permissions, sends, raced, owed, told>>

MarkNotificationAsRead(x) == inbox' = (inbox \ {x}) \cup {[x EXCEPT !.read = TRUE]}

MarkAllNotificationsAsRead(u) ==
    inbox' = {IF x.to = u THEN [x EXCEPT !.read = TRUE] ELSE x : x \in inbox}

DeleteNotification(x) == inbox' = inbox \ {x}

ClearReadNotifications(u) == inbox' = {x \in inbox : ~(x.to = u /\ x.read)}

Open ==
    /\ Opens
    /\ \/ \E x \in inbox : MarkNotificationAsRead(x) \/ DeleteNotification(x)
       \/ \E u \in active : MarkAllNotificationsAsRead(u) \/ ClearReadNotifications(u)

\* An administrator blocks or reactivates a member of the staff, or gives a
\* supervisor other permissions; whom that concerns while a send looks for its
\* people may be found or not.
ChangePerson ==
    /\ Spend("troubles", MaxTroubles)
    /\ \E u \in Staff :
        /\ \/ /\ active' = IF u \in active THEN active \ {u} ELSE active \cup {u}
              /\ UNCHANGED permissions
           \/ /\ u \in Supervisors
              /\ \E grant \in Grants : permissions' = [permissions EXCEPT ![u] = grant]
              /\ UNCHANGED active
        /\ owed' = {x \in owed : x[1] # u}
    /\ UNCHANGED <<sends, inbox, raced, told>>

---------------------------------------------------------------------------
Deliver == \E s \in sends : Find(s) \/ Look(s) \/ Insert(s)

Next ==
    \/ Trigger \/ Deliver \/ (\E s \in sends : Fail(s)) \/ Crash
    \/ Open \/ ChangePerson

\* The database answers: what was sent off goes on.
Spec == Init /\ [][Next]_vars /\ WF_vars(Deliver)

---------------------------------------------------------------------------
\* Nobody has two notifications of one event, however often it is reported and
\* whatever people delete, unless it was reported again while the first report
\* was on its way: nothing but the look keeps them apart
\* (notificationExistsForEvent, notification.service.js:34).
OncePerEvent ==
    \A x, y \in inbox :
        x.to = y.to /\ x.key = y.key /\ x.key \notin raced \cup {NoKey} => x = y

\* Everyone whom an event concerns is told of it in the end: the owner, every
\* administrator, and every supervisor with one of the permissions, whoever else
\* was told before, unless an error took a report of it or the person's account or
\* permissions changed meanwhile.
EveryoneIsTold == []<>(owed \subseteq told)

---------------------------------------------------------------------------
(* The inductive invariant.                                                 *)

\* An event that is reported by one send at a time.
Calm(key) == key \notin raced \cup {NoKey}

\* What is on its way under one key is one send.
SendsInv == \A s, t \in sends : s.key = t.key /\ Calm(s.key) => s = t

\* Those whom a send still takes for untold are.
LookedInv ==
    \A s \in sends :
        s.stage = "looked" /\ Calm(s.key) =>
            \A u \in s.whom : ~NotificationExistsForEvent(u, s.key)

IInv == TypeOK /\ SendsInv /\ LookedInv /\ OncePerEvent

===========================================================================
