-------------------------- MODULE Accounts_proofs --------------------------
(***************************************************************************)
(* Proofs about Accounts: the status is the last decision, unless that was *)
(* lost in the one way there is to lose one, and sessions are given only   *)
(* for accounts that an administrator activated.  Then the types, the      *)
(* verdict, the permissions and the codes: what every handler has in mind  *)
(* is right (PlansInv), so a save that crosses no other one leaves a right *)
(* document.                                                               *)
(***************************************************************************)
EXTENDS Accounts, TLAPS

\* What a handler is to write of the status is what it decided; where it decided
\* and is to write nothing, it has read the status it decided on.
RulingInv ==
    \A c \in Calls : stage[c] = "saving" =>
        IF "status" \in Writes(c)
        THEN Rules(c) /\ intent[c].status = ruling[c].status
        ELSE Rules(c) => seen[c].status = ruling[c].status

\* A document to be inserted is that of a new account.
NewAccount(c) ==
    "status" \in DOMAIN intent[c] /\ intent[c].status = "PENDING"

IInv ==
    /\ DOMAIN stage = Calls /\ DOMAIN intent = Calls
    /\ DOMAIN seen = Calls /\ DOMAIN ruling = Calls
    /\ grants \in [Calls -> BOOLEAN]
    /\ session \in BOOLEAN /\ approvedOnce \in BOOLEAN
    /\ "status" \in DOMAIN doc
    /\ doc.status = "ACTIVE" => approvedOnce
    /\ DecisionStands /\ RulingInv
    /\ SessionsAreEarned
    /\ \A c \in Calls : stage[c] = "creating" => NewAccount(c)

\* The documents of the initial states.
LEMMA InitialStatus ==
    Init => "status" \in DOMAIN doc
<1>1. ASSUME NEW r, NEW s
      PROVE "status" \in DOMAIN Member(r, s)
  BY DEF Member, Fresh
<1>2. "status" \in DOMAIN NoAccount
  BY DEF NoAccount, Fresh
<1>. QED BY <1>1, <1>2 DEF Init

\* The invariant holds at first.
LEMMA InitInv == Init => IInv
<1>. SUFFICES ASSUME Init PROVE IInv
  OBVIOUS
<1>1. "status" \in DOMAIN doc
  BY InitialStatus
<1>2. \A c \in Calls : stage[c] # "creating" /\ grants[c] = FALSE
  BY DEF Init
<1>3. RulingInv
  BY <1>2 DEF Init, RulingInv
<1>. QED
  BY <1>1, <1>2, <1>3 DEF Init, IInv, DecisionStands, SessionsAreEarned

\* What a handler says of the status is left out of the save only where the
\* document says it already.
LEMMA RulingOf ==
    ASSUME NEW w, NEW blind
    PROVE  LET kept == Modified(w, blind) IN
           /\ "status" \in DOMAIN Ruling(w) <=> "status" \in DOMAIN w
           /\ "status" \in DOMAIN w => Ruling(w).status = w.status
           /\ "status" \in DOMAIN kept =>
                 "status" \in DOMAIN w /\ kept.status = w.status
           /\ "status" \in DOMAIN w /\ "status" \notin DOMAIN kept =>
                 w.status = doc.status
  BY DEF Modified, Ruling, Restrict

\* A handler that read the document disturbs nothing, if the session it ends
\* with has been earned.
LEMMA HandleStep ==
    ASSUME IInv, NEW c \in Calls, NEW w, NEW blind, NEW n,
           NEW grant \in BOOLEAN, grant => approvedOnce,
           Handle(c, w, blind, n, grant)
    PROVE  IInv'
<1>1. /\ DOMAIN stage' = Calls /\ DOMAIN intent' = Calls
      /\ DOMAIN seen' = Calls /\ DOMAIN ruling' = Calls
  BY DEF Handle, IInv
<1>2. grants' \in [Calls -> BOOLEAN]
  BY DEF Handle, IInv
<1>3. SessionsAreEarned'
  BY DEF Handle, IInv, SessionsAreEarned, historyVars
<1>4. ASSUME NEW d \in Calls, stage'[d] = "creating" PROVE NewAccount(d)'
  <2>1. d # c
    BY <1>4 DEF Handle, IInv
  <2>2. stage[d] = "creating" /\ intent'[d] = intent[d]
    BY <1>4, <2>1 DEF Handle, IInv
  <2>. QED BY <2>2 DEF IInv, NewAccount
<1>5. /\ doc' = doc /\ decided' = decided /\ session' = session
      /\ approvedOnce' = approvedOnce /\ crossed' = crossed
  BY DEF Handle, historyVars
<1>6. RulingInv'
  <2> SUFFICES ASSUME NEW d \in Calls, stage'[d] = "saving"
      PROVE  IF "status" \in DOMAIN intent'[d]
             THEN /\ "status" \in DOMAIN ruling'[d]
                  /\ intent'[d].status = ruling'[d].status
             ELSE "status" \in DOMAIN ruling'[d] =>
                     seen'[d].status = ruling'[d].status
    BY DEF RulingInv, Writes, Rules
  <2>1. CASE d = c
    <3>1. /\ intent'[d] = Modified(w, blind) /\ ruling'[d] = Ruling(w)
          /\ seen'[d] = doc
      BY <2>1 DEF Handle, IInv
    <3>. QED BY <3>1, RulingOf
  <2>2. CASE d # c
    <3>1. /\ stage[d] = "saving" /\ intent'[d] = intent[d]
          /\ ruling'[d] = ruling[d] /\ seen'[d] = seen[d]
      BY <2>2 DEF Handle, IInv
    <3>. QED BY <3>1 DEF IInv, RulingInv, Writes, Rules
  <2>. QED BY <2>1, <2>2
<1>. QED BY <1>1, <1>2, <1>3, <1>4, <1>5, <1>6 DEF IInv, DecisionStands

\* Neither does one that is about to insert a new account.
LEMMA CreateStep ==
    ASSUME IInv, NEW c \in Calls, NEW new, NEW n,
           "status" \in DOMAIN new, new.status = "PENDING",
           Create(c, new, n)
    PROVE  IInv'
<1>1. /\ DOMAIN stage' = Calls /\ DOMAIN intent' = Calls
      /\ DOMAIN seen' = Calls /\ DOMAIN ruling' = Calls
  BY DEF Create, IInv
<1>2. grants' \in [Calls -> BOOLEAN]
  BY DEF Create, IInv
<1>3. SessionsAreEarned'
  BY DEF Create, IInv, SessionsAreEarned, historyVars
<1>4. ASSUME NEW d \in Calls, stage'[d] = "creating" PROVE NewAccount(d)'
  <2>1. CASE d = c
    BY <2>1 DEF Create, IInv, NewAccount
  <2>2. CASE d # c
    <3>1. stage[d] = "creating" /\ intent'[d] = intent[d]
      BY <1>4, <2>2 DEF Create, IInv
    <3>. QED BY <3>1 DEF IInv, NewAccount
  <2>. QED BY <2>1, <2>2
<1>5. /\ doc' = doc /\ decided' = decided /\ session' = session
      /\ approvedOnce' = approvedOnce /\ crossed' = crossed
  BY DEF Create, historyVars
<1>6. \A d \in Calls : stage'[d] = "saving" =>
         /\ stage[d] = "saving" /\ intent'[d] = intent[d]
         /\ ruling'[d] = ruling[d] /\ seen'[d] = seen[d]
  BY DEF Create, IInv
<1>7. RulingInv'
  BY <1>6 DEF IInv, RulingInv, Writes, Rules
<1>. QED BY <1>1, <1>2, <1>3, <1>4, <1>5, <1>7 DEF IInv, DecisionStands

\* What a session rests on where it is granted: the account is active.
LEMMA GrantEarned ==
    ASSUME IInv
    PROVE  /\ MayLogIn => approvedOnce
           /\ GoogleGrants \in BOOLEAN /\ (GoogleGrants => approvedOnce)
           /\ (doc.status = "ACTIVE") \in BOOLEAN
  BY DEF IInv, MayLogIn, GoogleGrants

\* Registration, verification, login and Google.
LEMMA AuthenticationStep ==
    ASSUME IInv, NEW c \in Calls, Authentication(c)
    PROVE  IInv'
<1>1. CASE Register(c)
  <2>1. Create(c, Fresh(FALSE, TRUE, TRUE, issued + 1), issued + 1)
    BY <1>1 DEF Register
  <2>2. /\ "status" \in DOMAIN Fresh(FALSE, TRUE, TRUE, issued + 1)
        /\ Fresh(FALSE, TRUE, TRUE, issued + 1).status = "PENDING"
    BY DEF Fresh
  <2>. QED BY <2>1, <2>2, CreateStep
<1>2. CASE GoogleCreate(c)
  <2>1. Create(c, Fresh(TRUE, FALSE, FALSE, 0), 0)
    BY <1>2 DEF GoogleCreate
  <2>2. /\ "status" \in DOMAIN Fresh(TRUE, FALSE, FALSE, 0)
        /\ Fresh(TRUE, FALSE, FALSE, 0).status = "PENDING"
    BY DEF Fresh
  <2>. QED BY <2>1, <2>2, CreateStep
<1>3. CASE ResendVerification(c)
  BY <1>3, HandleStep DEF ResendVerification, Issue
<1>4. ASSUME NEW n \in Serials, VerifyEmail(c, n) PROVE IInv'
  BY <1>4, HandleStep DEF VerifyEmail, Use
<1>5. ASSUME NEW n \in Serials, Verify2FA(c, n) PROVE IInv'
  <2>1. doc.status = "ACTIVE" /\ Handle(c, Cleared, {}, n, TRUE)
    BY <1>5 DEF Verify2FA, Use
  <2>2. approvedOnce
    BY <2>1 DEF IInv
  <2>. QED BY <2>1, <2>2, HandleStep
<1>6. ASSUME NEW n \in Serials, Enable2FA(c, n) PROVE IInv'
  BY <1>6, HandleStep DEF Enable2FA, Use
<1>7. CASE LoginPassword(c)
  <2>1. MayLogIn /\ Handle(c, Nothing, {}, 0, TRUE)
    BY <1>7 DEF LoginPassword, Use
  <2>. QED BY <2>1, GrantEarned, HandleStep
<1>8. CASE LoginChallenge(c)
  BY <1>8, HandleStep DEF LoginChallenge, Issue
<1>9. CASE Generate2FA(c)
  BY <1>9, HandleStep DEF Generate2FA, Issue
<1>10. CASE Disable2FA(c)
  BY <1>10, HandleStep DEF Disable2FA, Set
<1>11. CASE GoogleLink(c)
  <2>1. Handle(c, [google |-> TRUE, verified |-> TRUE], {}, 0, GoogleGrants)
    BY <1>11 DEF GoogleLink, Use
  <2>. QED BY <2>1, GrantEarned, HandleStep
<1>12. CASE GoogleReturn(c)
  <2>1. Handle(c, Nothing, {}, 0, GoogleGrants)
    BY <1>12 DEF GoogleReturn, Use
  <2>. QED BY <2>1, GrantEarned, HandleStep
<1>13. CASE CompleteGoogleProfile(c)
  <2>1. Handle(c, [phone |-> TRUE], {}, 0, doc.status = "ACTIVE")
    BY <1>13 DEF CompleteGoogleProfile, Use
  <2>2. doc.status = "ACTIVE" => approvedOnce
    BY DEF IInv
  <2>. QED BY <2>1, <2>2, GrantEarned, HandleStep
<1>. QED
  BY <1>1, <1>2, <1>3, <1>4, <1>5, <1>6, <1>7, <1>8, <1>9, <1>10, <1>11,
     <1>12, <1>13 DEF Authentication

\* The user's settings.
LEMMA SettingsStep ==
    ASSUME IInv, NEW c \in Calls, Settings(c)
    PROVE  IInv'
<1>1. CASE UpdateMyProfile(c)
  BY <1>1, HandleStep DEF UpdateMyProfile, Set
<1>2. CASE RegenerateMyApiToken(c)
  BY <1>2, HandleStep DEF RegenerateMyApiToken
<1>. QED BY <1>1, <1>2 DEF Settings

\* What administrators do.
LEMMA AdministrationStep ==
    ASSUME IInv, NEW c \in Calls, Administration(c)
    PROVE  IInv'
<1>1. CASE ApproveUser(c)
  BY <1>1, HandleStep DEF ApproveUser
<1>2. CASE RejectUser(c)
  BY <1>2, HandleStep DEF RejectUser, Set
<1>3. CASE UpdateUser(c)
  BY <1>3, HandleStep DEF UpdateUser, Set
<1>4. CASE DeleteUser(c)
  BY <1>4, HandleStep DEF DeleteUser, Set
<1>5. CASE RestoreUser(c)
  BY <1>5, HandleStep DEF RestoreUser, Set
<1>6. CASE UpdateUserRole(c)
  BY <1>6, HandleStep DEF UpdateUserRole, Set
<1>7. CASE UpdateSupervisorPermissions(c)
  BY <1>7, HandleStep DEF UpdateSupervisorPermissions, Set
<1>8. CASE ResetUserPassword(c)
  BY <1>8, HandleStep DEF ResetUserPassword
<1>. QED
  BY <1>1, <1>2, <1>3, <1>4, <1>5, <1>6, <1>7, <1>8 DEF Administration

\* When a call ends, whatever it had planned is gone.
LEMMA EndFacts ==
    ASSUME IInv, NEW c \in Calls, End(c)
    PROVE  /\ DOMAIN stage' = Calls /\ DOMAIN intent' = Calls
           /\ DOMAIN seen' = Calls /\ DOMAIN ruling' = Calls
           /\ grants' \in [Calls -> BOOLEAN]
           /\ \A d \in Calls : grants'[d] => grants[d]
           /\ \A d \in Calls : stage'[d] = "creating" =>
                  stage[d] = "creating" /\ intent'[d] = intent[d]
           /\ RulingInv'
<1>1. \A d \in Calls : stage'[d] = "saving" =>
         /\ stage[d] = "saving" /\ intent'[d] = intent[d]
         /\ ruling'[d] = ruling[d] /\ seen'[d] = seen[d]
  BY DEF End, IInv
<1>2. RulingInv'
  BY <1>1 DEF IInv, RulingInv, Writes, Rules
<1>. QED BY <1>2 DEF End, IInv

\* A save keeps the invariant: the status changes only with the decision, and a
\* decision that is not written finds its status there or is counted as crossed.
LEMMA SaveStep ==
    ASSUME IInv, NEW c \in Calls, Save(c)
    PROVE  IInv'
<1>1. End(c)
  BY DEF Save
<1>2. doc' = Merged(c)
  BY DEF Save
<1>3. /\ "status" \in DOMAIN doc'
      /\ doc'.status = IF "status" \in Writes(c) THEN intent[c].status
                       ELSE doc.status
  BY <1>2 DEF Merged, IInv
<1>4. DecisionStands'
  <2>1. decided' = IF Rules(c) THEN ruling[c].status ELSE decided
    BY DEF Save
  <2>2. crossed' = crossed \cup Crossing(c)
    BY DEF Save
  <2>3. CASE "status" \in Writes(c)
    <3>1. Rules(c) /\ intent[c].status = ruling[c].status
      BY <2>3 DEF Save, IInv, RulingInv
    <3>. QED BY <1>3, <2>1, <2>3, <3>1 DEF DecisionStands
  <2>4. CASE "status" \notin Writes(c) /\ ~Rules(c)
    BY <1>3, <2>1, <2>2, <2>4 DEF IInv, DecisionStands
  <2>5. CASE "status" \notin Writes(c) /\ Rules(c)
    <3>1. seen[c].status = ruling[c].status
      BY <2>5 DEF Save, IInv, RulingInv
    <3>2. CASE seen[c].status = doc.status
      BY <1>3, <2>1, <2>5, <3>1, <3>2 DEF DecisionStands
    <3>3. CASE seen[c].status # doc.status
      <4>1. "status" \in Overtaken(c)
        BY <3>3 DEF Overtaken, IInv
      <4>2. "status" \in Crossing(c)
        BY <2>5, <4>1 DEF Crossing
      <4>. QED BY <2>2, <4>2 DEF DecisionStands
    <3>. QED BY <3>2, <3>3
  <2>. QED BY <2>3, <2>4, <2>5
<1>5. approvedOnce' \in BOOLEAN /\ (approvedOnce => approvedOnce')
  BY DEF Save, IInv
<1>6. doc'.status = "ACTIVE" => approvedOnce'
  BY <1>3, <1>5 DEF Save, IInv
<1>7. session' \in BOOLEAN /\ (session' => session \/ grants[c])
  BY DEF Save, IInv
<1>8. SessionsAreEarned'
  BY <1>1, <1>5, <1>7, EndFacts DEF IInv, SessionsAreEarned
<1>9. \A d \in Calls : stage'[d] = "creating" => NewAccount(d)'
  BY <1>1, EndFacts DEF IInv, NewAccount
<1>. QED BY <1>1, <1>3, <1>4, <1>5, <1>6, <1>7, <1>8, <1>9, EndFacts DEF IInv

\* So does an insertion, or its refusal.
LEMMA InsertStep ==
    ASSUME IInv, NEW c \in Calls, Insert(c)
    PROVE  IInv'
<1>1. End(c)
  BY DEF Insert
<1>2. NewAccount(c)
  BY DEF Insert, IInv
<1>3. /\ "status" \in DOMAIN doc'
      /\ \/ doc' = doc /\ decided' = decided
         \/ doc'.status = "PENDING" /\ decided' = "PENDING"
  BY <1>2 DEF Insert, IInv, NewAccount
<1>4. approvedOnce' = approvedOnce /\ session' = session /\ crossed' = crossed
  BY DEF Insert
<1>5. DecisionStands' /\ (doc'.status = "ACTIVE" => approvedOnce')
  BY <1>3, <1>4 DEF IInv, DecisionStands
<1>6. SessionsAreEarned'
  BY <1>1, <1>4, EndFacts DEF IInv, SessionsAreEarned
<1>7. \A d \in Calls : stage'[d] = "creating" => NewAccount(d)'
  BY <1>1, EndFacts DEF IInv, NewAccount
<1>. QED BY <1>1, <1>3, <1>4, <1>5, <1>6, <1>7, EndFacts DEF IInv

\* Every step keeps the invariant.
LEMMA NextInv == IInv /\ [Next]_vars => IInv'
<1>. SUFFICES ASSUME IInv, [Next]_vars PROVE IInv'
  OBVIOUS
<1>1. ASSUME NEW c \in Calls, Admit(c) PROVE IInv'
  <2>1. /\ DOMAIN stage' = Calls
        /\ \A d \in Calls : stage'[d] \in {"creating", "saving"} =>
               stage[d] = stage'[d]
        /\ UNCHANGED <<doc, seen, intent, grants, ruling, session, historyVars>>
    BY <1>1 DEF Admit, IInv
  <2>2. RulingInv'
    BY <2>1 DEF IInv, RulingInv, Writes, Rules
  <2>. QED
    BY <2>1, <2>2 DEF IInv, DecisionStands, SessionsAreEarned, NewAccount,
                      historyVars
<1>2. ASSUME NEW c \in Calls, Fail(c) PROVE IInv'
  <2>1. End(c) /\ UNCHANGED <<doc, session, historyVars>>
    BY <1>2 DEF Fail
  <2>2. SessionsAreEarned'
    BY <2>1, EndFacts DEF IInv, SessionsAreEarned, historyVars
  <2>3. \A d \in Calls : stage'[d] = "creating" => NewAccount(d)'
    BY <2>1, EndFacts DEF IInv, NewAccount
  <2>. QED BY <2>1, <2>2, <2>3, EndFacts DEF IInv, DecisionStands, historyVars
<1>3. ASSUME NEW n \in Serials, Expire(n) PROVE IInv'
  BY <1>3 DEF Expire, IInv, DecisionStands, SessionsAreEarned, NewAccount,
          RulingInv, Writes, Rules, callVars, historyVars
<1>4. CASE UNCHANGED vars
  BY <1>4 DEF vars, IInv, DecisionStands, SessionsAreEarned, NewAccount,
          RulingInv, Writes, Rules, callVars, historyVars
<1>. QED
  BY <1>1, <1>2, <1>3, <1>4, AuthenticationStep, SettingsStep,
     AdministrationStep, SaveStep, InsertStep DEF Next

\* The status of an account is the last decision on it, whatever calls interleave:
\* no other handler's save brings an old status back, and a decision is lost only
\* where its call found the status as it wanted it and another call changed it
\* before the save (user.service.js:82, admin.users.service.js:164).
THEOREM LastDecision == Spec => []DecisionStands
<1>1. IInv => DecisionStands
  BY DEF IInv
<1>. QED BY <1>1, InitInv, NextInv, PTL DEF Spec

\* Whatever way in a user takes, the account was activated by an administrator
\* before the session (auth.service.js:17).
THEOREM SessionsEarned == Spec => []SessionsAreEarned
<1>1. IInv => SessionsAreEarned
  BY DEF IInv
<1>. QED BY <1>1, InitInv, NextInv, PTL DEF Spec

---------------------------------------------------------------------------
(* Types, and the documents the handlers have in mind.                      *)

FieldNames == {"status", "verified", "link", "password", "google", "phone",
               "role", "permitted", "deleted", "approved", "rejected", "second",
               "challenge", "api", "token"}

FieldTypes ==
    [status |-> Statuses, verified |-> BOOLEAN, link |-> 0..MaxIssued,
     password |-> BOOLEAN, google |-> BOOLEAN, phone |-> BOOLEAN,
     role |-> Roles, permitted |-> BOOLEAN, deleted |-> BOOLEAN,
     approved |-> BOOLEAN, rejected |-> BOOLEAN, second |-> BOOLEAN,
     challenge |-> 0..MaxIssued, api |-> BOOLEAN, token |-> BOOLEAN]

\* A document has every field, each of its type.
LEMMA DocumentFields ==
    ASSUME NEW d \in UserDocument
    PROVE  /\ DOMAIN d = FieldNames
           /\ \A f \in FieldNames : d[f] \in FieldTypes[f]
  BY DEF UserDocument, FieldNames, FieldTypes

\* ... and whatever has them is one.
LEMMA FieldsDocument ==
    ASSUME NEW d, d = [f \in FieldNames |-> d[f]],
           \A f \in FieldNames : d[f] \in FieldTypes[f]
    PROVE  d \in UserDocument
  BY DEF UserDocument, FieldNames, FieldTypes

\* What registration and Google insert is a document of an account that waits.
LEMMA FreshDocument ==
    ASSUME NEW verified \in BOOLEAN, NEW password \in BOOLEAN,
           NEW phone \in BOOLEAN, NEW link \in 0..MaxIssued
    PROVE  LET new == Fresh(verified, password, phone, link) IN
           /\ new \in UserDocument
           /\ new.status = "PENDING" /\ new.link = link /\ new.challenge = 0
           /\ ~new.approved /\ ~new.rejected /\ ~new.permitted
           /\ ~new.api /\ ~new.token
  BY AccountsAssumption DEF Fresh, UserDocument, Statuses, Roles

\* The documents of the initial states.
LEMMA InitialDocuments ==
    /\ NoAccount \in UserDocument /\ NoAccount.status = "NONE"
    /\ NoAccount.link = 0 /\ NoAccount.challenge = 0
    /\ ~NoAccount.api /\ ~NoAccount.token /\ ~NoAccount.permitted
    /\ ~NoAccount.rejected /\ ~NoAccount.approved
    /\ \A r \in {"CUSTOMER", "SUPERVISOR"}, s \in BOOLEAN :
          LET d == Member(r, s) IN
          /\ d \in UserDocument
          /\ d.status = "ACTIVE" /\ d.link = 0 /\ d.challenge = 0
          /\ ~d.api /\ ~d.token /\ ~d.rejected
          /\ d.permitted => d.role = "SUPERVISOR"
<1>1. 0 \in 0..MaxIssued
  BY AccountsAssumption
<1>2. /\ NoAccount \in UserDocument /\ NoAccount.status = "NONE"
      /\ NoAccount.link = 0 /\ NoAccount.challenge = 0
      /\ ~NoAccount.api /\ ~NoAccount.token /\ ~NoAccount.permitted
      /\ ~NoAccount.rejected /\ ~NoAccount.approved
  BY <1>1 DEF NoAccount, Fresh, UserDocument, Statuses, Roles
<1>3. ASSUME NEW r \in {"CUSTOMER", "SUPERVISOR"}, NEW s \in BOOLEAN
      PROVE  LET d == Member(r, s) IN
             /\ d \in UserDocument
             /\ d.status = "ACTIVE" /\ d.link = 0 /\ d.challenge = 0
             /\ ~d.api /\ ~d.token /\ ~d.rejected
             /\ d.permitted => d.role = "SUPERVISOR"
  BY <1>1 DEF Member, Fresh, UserDocument, Statuses, Roles
<1> QED
  BY <1>2, <1>3

\* The inductive invariant: its parts are in Accounts.
RightInv ==
    /\ TypeOK /\ DocumentInv /\ NewcomersInv /\ PlansInv /\ CodesInv
    /\ OneVerdict /\ PermissionsOfSupervisors

\* The invariant holds at first.
LEMMA RightInit == Init => RightInv
<1> SUFFICES ASSUME Init PROVE RightInv
  OBVIOUS
<1>1. /\ doc \in UserDocument /\ doc.link = 0 /\ doc.challenge = 0
      /\ ~doc.api /\ ~doc.token /\ ~doc.rejected
      /\ doc.permitted => doc.role = "SUPERVISOR"
      /\ doc.status = "NONE" => doc = NoAccount
  BY InitialDocuments DEF Init
<1>2. doc.status \in Statuses
  BY <1>1, DocumentFields DEF FieldNames, FieldTypes
<1>3. DOMAIN Nothing = {}
  BY DEF Nothing
<1>4. TypeOK
  <2>1. approvedOnce \in BOOLEAN /\ decided \in Statuses
    BY <1>2 DEF Init
  <2>2. seen \in [Calls -> UserDocument]
    BY InitialDocuments DEF Init
  <2>3. MaxCalls \in Nat /\ MaxIssued \in Nat
    BY AccountsAssumption
  <2>4. \A c \in Calls : DOMAIN intent[c] \subseteq DOMAIN doc
    BY <1>3 DEF Init
  <2>5. /\ stage \in [Calls -> {"idle", "admitted", "creating", "saving"}]
        /\ DOMAIN intent = Calls
        /\ code \in [Calls -> 0..MaxIssued] /\ grants \in [Calls -> BOOLEAN]
        /\ DOMAIN ruling = Calls
        /\ \A c \in Calls : \A f \in DOMAIN ruling[c] : ruling[c][f] \in Statuses
    BY <1>3, <2>3 DEF Init
  <2>6. /\ issued \in 0..MaxIssued /\ calls \in 0..MaxCalls
        /\ mailed \subseteq 1..issued
    BY <2>3 DEF Init
  <2>7. /\ mailed \subseteq Serials /\ expired \subseteq Serials
        /\ session \in BOOLEAN /\ invited \in BOOLEAN
        /\ crossed \subseteq {"status", "verdict", "role", "code"}
    BY DEF Init
  <2>8. uses \in [Serials -> Nat]
    BY DEF Init
  <2>9. doc.link = 0 /\ ~doc.api
    BY <1>1
  <2> QED
    BY <1>1, <2>1, <2>2, <2>4, <2>5, <2>6, <2>7, <2>8, <2>9
    DEF TypeOK
<1>5. DocumentInv /\ NewcomersInv /\ PlansInv
  BY <1>1 DEF Init, DocumentInv, NewcomersInv, PlansInv, Registered
<1>6. CodesInv
  BY <1>1 DEF Init, CodesInv, Storing, Serials
<1>7. OneVerdict /\ PermissionsOfSupervisors
  BY <1>1 DEF OneVerdict, PermissionsOfSupervisors
<1> QED
  BY <1>4, <1>5, <1>6, <1>7 DEF RightInv

---------------------------------------------------------------------------
(* A handler: what it sets is fit, so its plan is right.                    *)

\* w sets fields of the document to values of theirs, and by itself breaks no
\* relation between them.
Fit(w) ==
    /\ \A f \in DOMAIN w : f \in FieldNames /\ w[f] \in FieldTypes[f]
    /\ "status" \in DOMAIN w => w.status # "NONE"
    /\ "token" \in DOMAIN w => w.token
    /\ "api" \in DOMAIN w /\ w.api => "token" \in DOMAIN w \/ doc.token
    /\ "approved" \in DOMAIN w <=> "rejected" \in DOMAIN w
    /\ "approved" \in DOMAIN w => ~(w.approved /\ w.rejected)
    /\ "role" \in DOMAIN w => "permitted" \in DOMAIN w
    /\ "permitted" \in DOMAIN w /\ w.permitted =>
          IF "role" \in DOMAIN w THEN w.role = "SUPERVISOR"
                                 ELSE doc.role = "SUPERVISOR"

\* The link, the code and the session that a handler deals with: it makes at
\* most one serial, which it alone has, and a code that opens a session goes.
Honest(w, n, grant, made) ==
    /\ made \in {issued, issued + 1} /\ made <= MaxIssued
    /\ n \in 0..MaxIssued /\ grant \in BOOLEAN
    /\ "link" \in DOMAIN w => w.link <= made
    /\ "challenge" \in DOMAIN w =>
          w.challenge = 0 \/ (made = issued + 1 /\ w.challenge = made)
    /\ grant /\ n # 0 =>
          /\ n \in Serials /\ doc.challenge = n
          /\ "challenge" \in DOMAIN w /\ w.challenge = 0

\* The fields that TypeOK and the other parts speak of.
LEMMA Typed ==
    ASSUME TypeOK
    PROVE  /\ doc \in UserDocument /\ DOMAIN doc = FieldNames
           /\ \A f \in FieldNames : doc[f] \in FieldTypes[f]
           /\ issued \in Nat /\ MaxIssued \in Nat /\ issued <= MaxIssued
           /\ doc.link \in Nat /\ doc.challenge \in Nat
           /\ \A c \in Calls : seen[c] \in UserDocument
  BY DocumentFields, AccountsAssumption DEF TypeOK, UserDocument

\* What is written of w over the document that was read makes the document that w
\* makes: the paths left out have their values there already.
LEMMA Planned ==
    ASSUME NEW w, NEW blind
    PROVE  LET kept == Modified(w, blind) IN
           /\ DOMAIN kept \subseteq DOMAIN w
           /\ \A f \in DOMAIN kept : kept[f] = w[f]
           /\ \A f \in DOMAIN w : f \notin DOMAIN kept => w[f] = doc[f]
  BY DEF Modified, Restrict

\* A request that a handler may begin with: its slot holds nothing.
LEMMA HandleKeeps ==
    ASSUME RightInv, NEW c \in Calls, NEW w, NEW blind, NEW n, NEW grant,
           Registered, stage[c] \in {"idle", "admitted"},
           Fit(w), Honest(w, n, grant, issued'), calls' \in 0..MaxCalls,
           Handle(c, w, blind, n, grant)
    PROVE  RightInv'
<1> DEFINE kept == Modified(w, blind)
<1> USE DEF Handle
<1>1. TypeOK /\ DocumentInv /\ CodesInv
  BY DEF RightInv
<1>2. /\ doc \in UserDocument /\ DOMAIN doc = FieldNames
      /\ \A f \in FieldNames : doc[f] \in FieldTypes[f]
      /\ issued \in Nat /\ MaxIssued \in Nat /\ issued <= MaxIssued
      /\ doc.link \in Nat /\ doc.challenge \in Nat
  BY <1>1, Typed
<1>3. /\ issued' \in Nat /\ issued' <= MaxIssued /\ issued <= issued'
  BY <1>2 DEF Honest
<1>4. /\ DOMAIN kept \subseteq DOMAIN w
      /\ \A f \in DOMAIN kept : kept[f] = w[f]
      /\ \A f \in DOMAIN w : f \notin DOMAIN kept => w[f] = doc[f]
  BY Planned
<1>5. /\ DOMAIN intent' = Calls /\ intent'[c] = kept
      /\ stage'[c] = "saving" /\ seen'[c] = doc
      /\ \A d \in Calls \ {c} :
            /\ intent'[d] = intent[d] /\ stage'[d] = stage[d]
            /\ seen'[d] = seen[d] /\ code'[d] = code[d]
            /\ grants'[d] = grants[d]
      /\ code'[c] = n /\ grants'[c] = grant
      /\ doc' = doc /\ mailed' = mailed /\ expired' = expired
      /\ session' = session /\ invited' = invited
      /\ decided' = decided /\ approvedOnce' = approvedOnce
      /\ uses' = uses /\ crossed' = crossed
  BY <1>1 DEF TypeOK, historyVars
<1>6. TypeOK'
  <2>1. \A d \in Calls : DOMAIN intent'[d] \subseteq DOMAIN doc'
    BY <1>1, <1>2, <1>4, <1>5 DEF TypeOK, Fit
  <2>2. stage' \in [Calls -> {"idle", "admitted", "creating", "saving"}]
    BY <1>1 DEF TypeOK
  <2>3. seen' \in [Calls -> UserDocument]
    BY <1>1, <1>2 DEF TypeOK
  <2>4. code' \in [Calls -> 0..MaxIssued] /\ grants' \in [Calls -> BOOLEAN]
    BY <1>1 DEF TypeOK, Honest
  <2>5. issued' \in 0..MaxIssued /\ mailed' \subseteq 1..issued'
    BY <1>1, <1>2, <1>3, <1>5 DEF TypeOK
  <2>6. doc'.link # 0 => doc'.link <= issued'
    BY <1>1, <1>2, <1>3, <1>5 DEF TypeOK
  <2>7. \A f \in DOMAIN Ruling(w) : Ruling(w)[f] \in Statuses
    BY DEF Ruling, Restrict, Fit, FieldTypes
  <2>8. /\ DOMAIN ruling' = Calls
        /\ \A d \in Calls : \A f \in DOMAIN ruling'[d] :
              ruling'[d][f] \in Statuses
    BY <1>1, <2>7 DEF TypeOK
  <2> QED
    BY <1>1, <1>2, <1>5, <2>1, <2>2, <2>3, <2>4, <2>5, <2>6, <2>8 DEF TypeOK
<1>7. DocumentInv'
  <2>1. doc'.challenge <= issued'
    BY <1>1, <1>2, <1>3, <1>5 DEF DocumentInv
  <2> QED
    BY <1>1, <1>5, <2>1 DEF DocumentInv, Registered
<1>8. NewcomersInv'
  <2> SUFFICES ASSUME NEW d \in Calls, stage'[d] = "creating"
               PROVE  /\ intent'[d] \in UserDocument
                      /\ intent'[d].status = "PENDING"
                      /\ intent'[d].link <= issued' /\ intent'[d].challenge = 0
                      /\ ~intent'[d].approved /\ ~intent'[d].permitted
                      /\ ~intent'[d].api
    BY DEF NewcomersInv
  <2>1. d # c /\ stage[d] = "creating" /\ intent'[d] = intent[d]
    BY <1>5
  <2>2. intent[d].link \in Nat
    BY <2>1, <1>2 DEF RightInv, NewcomersInv, UserDocument
  <2> QED
    BY <1>2, <1>3, <2>1, <2>2 DEF RightInv, NewcomersInv
<1>9. PlansInv'
  <2> DEFINE plan(d) == [f \in DOMAIN doc' |-> IF f \in DOMAIN intent'[d]
                                              THEN intent'[d][f] ELSE seen'[d][f]]
  <2> SUFFICES ASSUME NEW d \in Calls, stage'[d] = "saving"
      PROVE  /\ plan(d) \in UserDocument
             /\ "status" \in DOMAIN intent'[d] => plan(d).status # "NONE"
             /\ "link" \in DOMAIN intent'[d] => plan(d).link <= issued'
             /\ "token" \in DOMAIN intent'[d] => plan(d).token
             /\ "api" \in DOMAIN intent'[d] /\ plan(d).api
                   => "token" \in DOMAIN intent'[d] \/ doc'.token
             /\ DOMAIN intent'[d] \cap {"approved", "rejected"} # {}
                   => ~(plan(d).approved /\ plan(d).rejected)
             /\ DOMAIN intent'[d] \cap RoleFields # {}
                   => (plan(d).permitted => plan(d).role = "SUPERVISOR")
    BY DEF PlansInv, WholeDocument, Writes
  <2>1. CASE d = c
    <3> DEFINE p == plan(c)
    <3>1. /\ p = [f \in FieldNames |-> p[f]]
          /\ \A f \in FieldNames :
                p[f] = IF f \in DOMAIN w THEN w[f] ELSE doc[f]
      BY <1>2, <1>4, <1>5
    <3>2. \A f \in FieldNames : p[f] \in FieldTypes[f]
      BY <1>2, <3>1 DEF Fit
    <3> HIDE DEF p
    <3>3. p \in UserDocument
      BY <3>1, <3>2, FieldsDocument
    <3>4. DOMAIN intent'[c] \subseteq DOMAIN w
      BY <1>4, <1>5
    <3>5. {"status", "link", "token", "api", "approved", "rejected", "role",
           "permitted"} \subseteq FieldNames
      BY DEF FieldNames
    <3>6. "status" \in DOMAIN intent'[c] => p.status # "NONE"
      BY <3>1, <3>4, <3>5 DEF Fit
    <3>7. "link" \in DOMAIN intent'[c] => p.link <= issued'
      BY <3>1, <3>4, <3>5 DEF Fit, Honest
    <3>8. "token" \in DOMAIN intent'[c] => p.token
      BY <3>1, <3>4, <3>5 DEF Fit
    <3>9. "api" \in DOMAIN intent'[c] /\ p.api
             => "token" \in DOMAIN intent'[c] \/ doc'.token
      <4> SUFFICES ASSUME "api" \in DOMAIN intent'[c], p.api,
                          "token" \notin DOMAIN intent'[c]
                   PROVE  doc.token
        BY <1>5
      <4>1. "api" \in DOMAIN w /\ w.api
        BY <3>1, <3>4, <3>5
      <4>2. CASE "token" \in DOMAIN w
        BY <4>2, <1>4, <1>5 DEF Fit
      <4> QED
        BY <4>1, <4>2 DEF Fit
    <3>10. DOMAIN intent'[c] \cap {"approved", "rejected"} # {}
             => ~(p.approved /\ p.rejected)
      BY <3>1, <3>4, <3>5 DEF Fit
    <3>11. DOMAIN intent'[c] \cap RoleFields # {}
             => (p.permitted => p.role = "SUPERVISOR")
      <4> SUFFICES ASSUME DOMAIN intent'[c] \cap RoleFields # {}, p.permitted
                   PROVE  p.role = "SUPERVISOR"
        OBVIOUS
      <4>1. "permitted" \in DOMAIN w
        BY <3>4 DEF RoleFields, Fit
      <4>2. w.permitted
        BY <4>1, <3>1, <3>5
      <4> QED
        BY <4>1, <4>2, <3>1, <3>5 DEF Fit
    <3> QED
      BY <2>1, <3>3, <3>6, <3>7, <3>8, <3>9, <3>10, <3>11 DEF p
  <2>2. CASE d # c
    <3>1. /\ intent'[d] = intent[d] /\ stage[d] = "saving"
          /\ seen'[d] = seen[d] /\ doc' = doc
      BY <1>5, <2>2
    <3>2. plan(d) = WholeDocument(d)
      BY <3>1 DEF WholeDocument, Writes
    <3>3. WholeDocument(d).link \in Nat
      BY <1>2, <3>1 DEF RightInv, PlansInv, UserDocument
    <3> HIDE DEF plan
    <3> QED
      BY <1>2, <1>3, <3>1, <3>2, <3>3 DEF RightInv, PlansInv, Writes
  <2> QED
    BY <2>1, <2>2
<1>10. CodesInv'
  <2> DEFINE S(d) == /\ stage'[d] = "saving" /\ "challenge" \in DOMAIN intent'[d]
                     /\ intent'[d].challenge # 0
  <2>1. ASSUME NEW d \in Calls, d # c
        PROVE  (S(d) <=> Storing(d)) /\ intent'[d] = intent[d]
    BY <2>1, <1>5 DEF Storing, Writes
  <2>2. S(c) => /\ intent'[c].challenge = issued + 1
                /\ issued' = issued + 1
    BY <1>4, <1>5 DEF Honest
  <2>3. \A d \in Calls : Storing(d) => intent[d].challenge \in 1..issued
    BY <1>1 DEF CodesInv
  <2>4. ASSUME NEW d \in Calls, grants'[d], code'[d] # 0
        PROVE  /\ code'[d] \in 1..issued' /\ seen'[d].challenge = code'[d]
               /\ "challenge" \in DOMAIN intent'[d]
               /\ intent'[d].challenge = 0
    <3>1. CASE d = c
      <4>1. /\ n \in Serials /\ doc.challenge = n /\ n # 0
            /\ "challenge" \in DOMAIN w /\ w.challenge = 0
        BY <1>5, <2>4, <3>1 DEF Honest
      <4>2. "challenge" \in DOMAIN kept
        BY <1>4, <4>1
      <4>3. n \in 1..issued'
        BY <1>1, <1>2, <1>3, <4>1 DEF DocumentInv
      <4> QED
        BY <1>4, <1>5, <3>1, <4>1, <4>2, <4>3
    <3>2. CASE d # c
      <4>1. code[d] \in 1..issued
        BY <1>1, <1>5, <2>4, <3>2 DEF CodesInv
      <4> QED
        BY <1>1, <1>2, <1>3, <1>5, <2>4, <3>2, <4>1 DEF CodesInv, Writes
    <3> QED
      BY <3>1, <3>2
  <2>5. \A d \in Calls : S(d) => intent'[d].challenge \in 1..issued'
    BY <1>2, <1>3, <2>1, <2>2, <2>3
  <2>6. \A m \in Serials : m > issued' => uses'[m] = 0
    BY <1>1, <1>2, <1>3, <1>5 DEF CodesInv, Serials
  <2>7. "code" \notin crossed =>
          /\ \A m \in Serials : uses[m] <= 1
          /\ doc.challenge # 0 => uses[doc.challenge] = 0
    BY <1>1 DEF CodesInv
  <2>8. ASSUME "code" \notin crossed, NEW d \in Calls, S(d)
        PROVE  /\ doc.challenge # intent'[d].challenge
               /\ uses[intent'[d].challenge] = 0
               /\ \A e \in Calls \ {d} :
                     S(e) => intent'[e].challenge # intent'[d].challenge
    <3>1. CASE d = c
      <4>1. intent'[d].challenge = issued + 1 /\ issued' = issued + 1
        BY <2>2, <2>8, <3>1
      <4>2. doc.challenge <= issued
        BY <1>1 DEF DocumentInv
      <4>3. issued + 1 \in Serials
        BY <1>2, <1>3, <4>1 DEF Serials
      <4>4. uses[issued + 1] = 0
        BY <1>1, <1>2, <4>3 DEF CodesInv
      <4>5. \A e \in Calls \ {d} : S(e) => intent'[e].challenge \in 1..issued
        BY <2>1, <2>3, <3>1
      <4> QED
        BY <1>2, <4>1, <4>2, <4>4, <4>5
    <3>2. CASE d # c
      <4>1. Storing(d) /\ intent'[d] = intent[d]
        BY <2>1, <2>8, <3>2
      <4>2. S(c) => intent'[c].challenge # intent[d].challenge
        BY <1>2, <2>2, <2>3, <4>1
      <4>3. ASSUME NEW e \in Calls \ {d}, e # c, S(e)
            PROVE  intent'[e].challenge # intent[d].challenge
        BY <1>1, <2>1, <2>8, <4>1, <4>3 DEF CodesInv
      <4>4. doc.challenge # intent[d].challenge /\ uses[intent[d].challenge] = 0
        BY <1>1, <2>8, <4>1 DEF CodesInv
      <4> QED
        BY <4>1, <4>2, <4>3, <4>4
    <3> QED
      BY <3>1, <3>2
  <2> HIDE DEF kept
  <2> QED
    BY <1>5, <2>4, <2>5, <2>6, <2>7, <2>8 DEF CodesInv, Storing, Writes
<1>11. OneVerdict' /\ PermissionsOfSupervisors'
  BY <1>5 DEF RightInv, OneVerdict, PermissionsOfSupervisors
<1> QED
  BY <1>6, <1>7, <1>8, <1>9, <1>10, <1>11 DEF RightInv

\* A request that is to insert a new account keeps the invariant.
LEMMA CreateKeeps ==
    ASSUME RightInv, NEW c \in Calls, NEW new \in UserDocument, NEW n,
           stage[c] = "idle", n \in 0..MaxIssued, calls' \in 0..MaxCalls,
           issued' \in {issued, issued + 1}, issued' <= MaxIssued,
           new.status = "PENDING", new.link <= issued', new.challenge = 0,
           ~new.approved, ~new.permitted, ~new.api,
           Create(c, new, n)
    PROVE  RightInv'
<1> USE DEF Create
<1>1. TypeOK /\ DocumentInv /\ CodesInv
  BY DEF RightInv
<1>2. /\ doc \in UserDocument /\ DOMAIN doc = FieldNames
      /\ issued \in Nat /\ MaxIssued \in Nat /\ issued <= MaxIssued
      /\ doc.link \in Nat /\ doc.challenge \in Nat
      /\ new.link \in Nat /\ DOMAIN new = FieldNames
  BY <1>1, Typed, DocumentFields DEF UserDocument
<1>3. issued' \in Nat /\ issued <= issued'
  BY <1>2
<1>4. /\ DOMAIN intent' = Calls /\ intent'[c] = new
      /\ stage'[c] = "creating" /\ seen'[c] = doc
      /\ \A d \in Calls \ {c} :
            /\ intent'[d] = intent[d] /\ stage'[d] = stage[d]
            /\ seen'[d] = seen[d] /\ code'[d] = code[d]
            /\ grants'[d] = grants[d]
      /\ code'[c] = n /\ grants'[c] = FALSE
      /\ doc' = doc /\ mailed' = mailed /\ expired' = expired
      /\ session' = session /\ invited' = invited
      /\ decided' = decided /\ approvedOnce' = approvedOnce
      /\ uses' = uses /\ crossed' = crossed
  BY <1>1 DEF TypeOK, historyVars
<1>5. TypeOK'
  <2>1. \A d \in Calls : DOMAIN intent'[d] \subseteq DOMAIN doc'
    BY <1>1, <1>2, <1>4 DEF TypeOK
  <2>2. stage' \in [Calls -> {"idle", "admitted", "creating", "saving"}]
    BY <1>1 DEF TypeOK
  <2>3. seen' \in [Calls -> UserDocument]
    BY <1>1, <1>2 DEF TypeOK
  <2>4. code' \in [Calls -> 0..MaxIssued] /\ grants' \in [Calls -> BOOLEAN]
    BY <1>1 DEF TypeOK
  <2>5. issued' \in 0..MaxIssued /\ mailed' \subseteq 1..issued'
    BY <1>1, <1>2, <1>3, <1>4 DEF TypeOK
  <2>6. doc'.link # 0 => doc'.link <= issued'
    BY <1>1, <1>2, <1>3, <1>4 DEF TypeOK
  <2>7. ruling' = ruling
    OBVIOUS
  <2> QED
    BY <1>1, <1>2, <1>4, <2>1, <2>2, <2>3, <2>4, <2>5, <2>6, <2>7 DEF TypeOK
<1>6. DocumentInv'
  <2>1. doc'.challenge <= issued'
    BY <1>1, <1>2, <1>3, <1>4 DEF DocumentInv
  <2> QED
    BY <1>1, <1>4, <2>1 DEF DocumentInv, Registered
<1>7. NewcomersInv'
  <2> SUFFICES ASSUME NEW d \in Calls, stage'[d] = "creating"
               PROVE  /\ intent'[d] \in UserDocument
                      /\ intent'[d].status = "PENDING"
                      /\ intent'[d].link <= issued' /\ intent'[d].challenge = 0
                      /\ ~intent'[d].approved /\ ~intent'[d].permitted
                      /\ ~intent'[d].api
    BY DEF NewcomersInv
  <2>1. CASE d = c
    BY <1>4, <2>1
  <2>2. CASE d # c
    <3>1. stage[d] = "creating" /\ intent'[d] = intent[d]
      BY <1>4, <2>2
    <3>2. intent[d].link \in Nat
      BY <3>1, <1>2 DEF RightInv, NewcomersInv, UserDocument
    <3> QED
      BY <1>2, <1>3, <3>1, <3>2 DEF RightInv, NewcomersInv
  <2> QED
    BY <2>1, <2>2
<1>8. PlansInv'
  <2>1. \A d \in Calls : stage'[d] # "saving"
    BY <1>1, <1>4 DEF DocumentInv
  <2> QED
    BY <2>1 DEF PlansInv
<1>9. CodesInv'
  <2>1. \A d \in Calls : stage'[d] # "saving" /\ ~grants'[d]
    BY <1>1, <1>4 DEF DocumentInv
  <2>2. \A m \in Serials : m > issued' => uses'[m] = 0
    BY <1>1, <1>2, <1>3, <1>4 DEF CodesInv, Serials
  <2> QED
    BY <1>1, <1>4, <2>1, <2>2 DEF CodesInv, Storing
<1>10. OneVerdict' /\ PermissionsOfSupervisors'
  BY <1>4 DEF RightInv, OneVerdict, PermissionsOfSupervisors
<1> QED
  BY <1>5, <1>6, <1>7, <1>8, <1>9, <1>10 DEF RightInv

\* A handler begins in a slot that holds nothing.
LEMMA Begins ==
    ASSUME RightInv, NEW c \in Calls, ByUser(c) \/ ByAnyone(c) \/ ByAdmin(c)
    PROVE  /\ stage[c] \in {"idle", "admitted"} /\ calls' \in 0..MaxCalls
           /\ ByAnyone(c) \/ ByAdmin(c) => stage[c] = "idle"
           /\ ByUser(c) \/ ByAdmin(c) => Registered
  BY AccountsAssumption
     DEF RightInv, TypeOK, DocumentInv, ByUser, ByAnyone, ByAdmin, Arrive

\* The field types, one by one.
LEMMA TypesOfFields ==
    /\ {"status", "verified", "link", "password", "google", "phone", "role",
        "permitted", "deleted", "approved", "rejected", "second", "challenge",
        "api", "token"} \subseteq FieldNames
    /\ FieldTypes["status"] = Statuses /\ FieldTypes["role"] = Roles
    /\ FieldTypes["link"] = 0..MaxIssued /\ FieldTypes["challenge"] = 0..MaxIssued
    /\ \A f \in FieldNames \ {"status", "role", "link", "challenge"} :
          FieldTypes[f] = BOOLEAN
  BY DEF FieldNames, FieldTypes

\* A handler that makes no serial is honest if a code that opens a session goes.
LEMMA MakesNone ==
    ASSUME TypeOK, NEW w, NEW n \in 0..MaxIssued, NEW grant \in BOOLEAN,
           "link" \in DOMAIN w => w.link = 0,
           "challenge" \in DOMAIN w => w.challenge = 0,
           grant /\ n # 0 => n \in Serials /\ doc.challenge = n
                             /\ "challenge" \in DOMAIN w,
           issued' = issued
    PROVE  Honest(w, n, grant, issued')
  BY Typed DEF Honest

\* Registration, verification, login and Google keep the invariant.
LEMMA AuthenticationKeeps ==
    ASSUME RightInv, NEW c \in Calls, Authentication(c)
    PROVE  RightInv'
<1>1. /\ TypeOK /\ DocumentInv
      /\ doc \in UserDocument /\ DOMAIN doc = FieldNames
      /\ \A f \in FieldNames : doc[f] \in FieldTypes[f]
      /\ issued \in Nat /\ MaxIssued \in Nat /\ issued <= MaxIssued
      /\ doc.link \in Nat /\ doc.challenge \in Nat
  BY Typed DEF RightInv
<1>2. CASE Register(c)
  <2> DEFINE new == Fresh(FALSE, TRUE, TRUE, issued + 1)
  <2>1. issued' = issued + 1 /\ issued' \in 0..MaxIssued
    BY <1>1, <1>2 DEF Register
  <2>2. /\ new \in UserDocument /\ new.status = "PENDING"
        /\ new.link = issued' /\ new.challenge = 0
        /\ ~new.approved /\ ~new.permitted /\ ~new.api
    BY <2>1, FreshDocument
  <2>3. Create(c, new, issued') /\ stage[c] = "idle" /\ calls' \in 0..MaxCalls
    BY <1>2, <2>1, Begins DEF Register
  <2> HIDE DEF new
  <2> QED
    BY <1>1, <2>1, <2>2, <2>3, CreateKeeps
<1>3. CASE GoogleCreate(c)
  <2> DEFINE new == Fresh(TRUE, FALSE, FALSE, 0)
  <2>1. issued' = issued /\ 0 \in 0..MaxIssued
    BY <1>1, <1>3 DEF GoogleCreate
  <2>2. /\ new \in UserDocument /\ new.status = "PENDING"
        /\ new.link = 0 /\ new.challenge = 0
        /\ ~new.approved /\ ~new.permitted /\ ~new.api
    BY <2>1, FreshDocument
  <2>3. Create(c, new, 0) /\ stage[c] = "idle" /\ calls' \in 0..MaxCalls
    BY <1>3, Begins DEF GoogleCreate
  <2> HIDE DEF new
  <2> QED
    BY <1>1, <2>1, <2>2, <2>3, CreateKeeps
<1>4. ASSUME NEW n \in Serials, VerifyEmail(c, n) PROVE RightInv'
  <2> DEFINE w == [verified |-> TRUE, link |-> 0]
  <2>1. ByAnyone(c) /\ Handle(c, w, {}, n, FALSE) /\ issued' = issued
    BY <1>4 DEF VerifyEmail, Use
  <2>2. Registered
    <3>1. doc.link = n /\ n # 0
      BY <1>1, <1>4 DEF VerifyEmail, Serials
    <3> QED
      BY <1>1, <3>1, InitialDocuments DEF DocumentInv
  <2>9. DOMAIN w = {"verified", "link"} /\ w.verified \in BOOLEAN /\ w.link = 0
    OBVIOUS
  <2> HIDE DEF w
  <2>3. Fit(w)
    BY <1>1, <2>9, TypesOfFields DEF Fit
  <2>4. Honest(w, n, FALSE, issued')
    <3>1. n \in 0..MaxIssued /\ FALSE \in BOOLEAN
      BY <1>1, <2>1, <2>9 DEF Serials
    <3>2. /\ "link" \in DOMAIN w => w.link = 0
          /\ "challenge" \in DOMAIN w => w.challenge = 0
      BY <2>9
    <3>3. FALSE /\ n # 0 => n \in Serials /\ doc.challenge = n
                          /\ "challenge" \in DOMAIN w
      BY <2>1, <2>9
    <3> QED
      BY <1>1, <2>1, <3>1, <3>2, <3>3, MakesNone
  <2> QED
    BY <2>1, <2>2, <2>3, <2>4, Begins, HandleKeeps
<1>5. CASE ResendVerification(c)
  <2> DEFINE w == [link |-> issued + 1]
  <2>1. /\ ByAnyone(c) /\ Handle(c, w, {}, issued + 1, FALSE) /\ Registered
        /\ issued' = issued + 1 /\ issued' <= MaxIssued
    <3>1. ByAnyone(c) /\ Registered /\ Issue(c, w)
      BY <1>5 DEF ResendVerification
    <3> HIDE DEF w
    <3>2. /\ issued < MaxIssued /\ issued' = issued + 1
          /\ Handle(c, w, {}, issued + 1, FALSE)
      BY <3>1 DEF Issue
    <3>3. issued' <= MaxIssued
      BY <1>1, <3>2
    <3> QED
      BY <3>1, <3>2, <3>3
  <2>2. Fit(w)
    BY <1>1, <2>1, TypesOfFields DEF Fit
  <2>3. Honest(w, issued + 1, FALSE, issued')
    BY <1>1, <2>1 DEF Honest
  <2> HIDE DEF w
  <2> QED
    BY <2>1, <2>2, <2>3, Begins, HandleKeeps
<1>6. CASE LoginPassword(c)
  <2>1. /\ ByAnyone(c) /\ Handle(c, Nothing, {}, 0, TRUE) /\ Registered
        /\ issued' = issued
    BY <1>6 DEF LoginPassword, Use, MayLogIn, Registered
  <2>2. Fit(Nothing)
    BY DEF Fit, Nothing
  <2>3. Honest(Nothing, 0, TRUE, issued')
    BY <1>1, <2>1 DEF Honest, Nothing
  <2> QED
    BY <2>1, <2>2, <2>3, Begins, HandleKeeps
<1>7. CASE LoginChallenge(c) \/ Generate2FA(c)
  <2> DEFINE w == [challenge |-> issued + 1]
  <2>1. /\ ByAnyone(c) \/ ByUser(c)
        /\ Handle(c, w, {}, issued + 1, FALSE) /\ Registered
        /\ issued' = issued + 1 /\ issued' <= MaxIssued
    <3>1. (ByAnyone(c) \/ ByUser(c)) /\ Issue(c, w) /\ Registered
      BY <1>7, Begins DEF LoginChallenge, Generate2FA, MayLogIn, Registered
    <3> HIDE DEF w
    <3>2. /\ issued < MaxIssued /\ issued' = issued + 1
          /\ Handle(c, w, {}, issued + 1, FALSE)
      BY <3>1 DEF Issue
    <3>3. issued' <= MaxIssued
      BY <1>1, <3>2
    <3> QED
      BY <3>1, <3>2, <3>3
  <2>2. Fit(w)
    BY <1>1, <2>1, TypesOfFields DEF Fit
  <2>3. Honest(w, issued + 1, FALSE, issued')
    BY <1>1, <2>1 DEF Honest
  <2> HIDE DEF w
  <2> QED
    BY <2>1, <2>2, <2>3, Begins, HandleKeeps
<1>8. ASSUME NEW n \in Serials, Verify2FA(c, n) PROVE RightInv'
  <2>1. /\ ByAnyone(c) /\ Handle(c, Cleared, {}, n, TRUE) /\ Registered
        /\ issued' = issued /\ doc.challenge = n
    BY <1>8 DEF Verify2FA, Use, Registered, ChallengeHolds
  <2>9. DOMAIN Cleared = {"challenge"} /\ Cleared.challenge = 0
    BY DEF Cleared
  <2>2. Fit(Cleared)
    BY <1>1, <2>9, TypesOfFields DEF Fit
  <2>3. Honest(Cleared, n, TRUE, issued')
    <3>1. n \in 0..MaxIssued /\ TRUE \in BOOLEAN
      BY <1>1, <2>1, <2>9 DEF Serials
    <3>2. /\ "link" \in DOMAIN Cleared => Cleared.link = 0
          /\ "challenge" \in DOMAIN Cleared => Cleared.challenge = 0
      BY <2>9
    <3>3. TRUE /\ n # 0 => n \in Serials /\ doc.challenge = n
                          /\ "challenge" \in DOMAIN Cleared
      BY <2>1, <2>9
    <3> QED
      BY <1>1, <2>1, <3>1, <3>2, <3>3, MakesNone
  <2> QED
    BY <2>1, <2>2, <2>3, Begins, HandleKeeps
<1>9. ASSUME NEW n \in Serials, Enable2FA(c, n) PROVE RightInv'
  <2> DEFINE w == [challenge |-> 0, second |-> TRUE]
  <2>1. ByUser(c) /\ Handle(c, w, {}, n, FALSE) /\ issued' = issued
    BY <1>9 DEF Enable2FA, Use
  <2>9. DOMAIN w = {"challenge", "second"} /\ w.challenge = 0 /\ w.second \in BOOLEAN
    OBVIOUS
  <2> HIDE DEF w
  <2>2. Fit(w)
    BY <1>1, <2>9, TypesOfFields DEF Fit
  <2>3. Honest(w, n, FALSE, issued')
    <3>1. n \in 0..MaxIssued /\ FALSE \in BOOLEAN
      BY <1>1, <2>1, <2>9 DEF Serials
    <3>2. /\ "link" \in DOMAIN w => w.link = 0
          /\ "challenge" \in DOMAIN w => w.challenge = 0
      BY <2>9
    <3>3. FALSE /\ n # 0 => n \in Serials /\ doc.challenge = n
                          /\ "challenge" \in DOMAIN w
      BY <2>1, <2>9
    <3> QED
      BY <1>1, <2>1, <3>1, <3>2, <3>3, MakesNone
  <2> QED
    BY <2>1, <2>2, <2>3, Begins, HandleKeeps
<1>10. CASE Disable2FA(c)
  <2> DEFINE w == [challenge |-> 0, second |-> FALSE]
  <2>1. ByUser(c) /\ Handle(c, w, {}, 0, FALSE) /\ issued' = issued
    BY <1>10 DEF Disable2FA, Set
  <2>9. DOMAIN w = {"challenge", "second"} /\ w.challenge = 0 /\ w.second \in BOOLEAN
    OBVIOUS
  <2> HIDE DEF w
  <2>2. Fit(w)
    BY <1>1, <2>9, TypesOfFields DEF Fit
  <2>3. Honest(w, 0, FALSE, issued')
    <3>1. 0 \in 0..MaxIssued /\ FALSE \in BOOLEAN
      BY <1>1, <2>1, <2>9
    <3>2. /\ "link" \in DOMAIN w => w.link = 0
          /\ "challenge" \in DOMAIN w => w.challenge = 0
      BY <2>9
    <3>3. FALSE /\ 0 # 0 => 0 \in Serials /\ doc.challenge = 0
                          /\ "challenge" \in DOMAIN w
      BY <2>1, <2>9
    <3> QED
      BY <1>1, <2>1, <3>1, <3>2, <3>3, MakesNone
  <2> QED
    BY <2>1, <2>2, <2>3, Begins, HandleKeeps
<1>11. CASE GoogleLink(c)
  <2> DEFINE w == [google |-> TRUE, verified |-> TRUE]
  <2>1. /\ ByAnyone(c) /\ Handle(c, w, {}, 0, GoogleGrants) /\ Registered
        /\ issued' = issued
    BY <1>11 DEF GoogleLink, Use
  <2>9. DOMAIN w = {"google", "verified"} /\ w.google \in BOOLEAN /\ w.verified \in BOOLEAN
    OBVIOUS
  <2> HIDE DEF w
  <2>2. Fit(w)
    BY <1>1, <2>9, TypesOfFields DEF Fit
  <2>3. Honest(w, 0, GoogleGrants, issued')
    BY <1>1, <2>1, <2>9 DEF Honest, GoogleGrants
  <2> QED
    BY <2>1, <2>2, <2>3, Begins, HandleKeeps
<1>12. CASE GoogleReturn(c)
  <2>1. /\ ByAnyone(c) /\ Handle(c, Nothing, {}, 0, GoogleGrants) /\ Registered
        /\ issued' = issued
    BY <1>12 DEF GoogleReturn, Use
  <2>2. Fit(Nothing)
    BY DEF Fit, Nothing
  <2>3. Honest(Nothing, 0, GoogleGrants, issued')
    BY <1>1, <2>1 DEF Honest, Nothing, GoogleGrants
  <2> QED
    BY <2>1, <2>2, <2>3, Begins, HandleKeeps
<1>13. CASE CompleteGoogleProfile(c)
  <2> DEFINE w == [phone |-> TRUE]
             g == doc.status = "ACTIVE"
  <2>8. g \in BOOLEAN
    OBVIOUS
  <2>1. /\ ByAnyone(c) /\ Handle(c, w, {}, 0, g) /\ Registered
        /\ issued' = issued
    BY <1>1, <1>13 DEF CompleteGoogleProfile, Use, DocumentInv
  <2>9. DOMAIN w = {"phone"} /\ w.phone \in BOOLEAN
    OBVIOUS
  <2> HIDE DEF w, g
  <2>2. Fit(w)
    BY <1>1, <2>9, TypesOfFields DEF Fit
  <2>3. Honest(w, 0, g, issued')
    <3>1. 0 \in 0..MaxIssued /\ g \in BOOLEAN
      BY <1>1, <2>1, <2>8, <2>9
    <3>2. /\ "link" \in DOMAIN w => w.link = 0
          /\ "challenge" \in DOMAIN w => w.challenge = 0
      BY <2>9
    <3>3. g /\ 0 # 0 => 0 \in Serials /\ doc.challenge = 0
                          /\ "challenge" \in DOMAIN w
      BY <2>1, <2>9
    <3> QED
      BY <1>1, <2>1, <3>1, <3>2, <3>3, MakesNone
  <2> QED
    BY <2>1, <2>2, <2>3, Begins, HandleKeeps
<1> QED
  BY <1>2, <1>3, <1>4, <1>5, <1>6, <1>7, <1>8, <1>9, <1>10, <1>11, <1>12,
     <1>13 DEF Authentication

\* A handler of a registered account that makes no serial and gives no session.
LEMMA SetsKeep ==
    ASSUME RightInv, NEW c \in Calls, NEW w, NEW blind,
           ByUser(c) \/ ByAdmin(c), issued' = issued,
           Fit(w), "challenge" \notin DOMAIN w,
           "link" \in DOMAIN w => w.link = 0,
           Handle(c, w, blind, 0, FALSE)
    PROVE  RightInv'
<1>1. TypeOK /\ 0 \in 0..MaxIssued /\ FALSE \in BOOLEAN
  BY AccountsAssumption DEF RightInv
<1>2. Honest(w, 0, FALSE, issued')
  BY <1>1, MakesNone
<1>3. /\ stage[c] \in {"idle", "admitted"} /\ calls' \in 0..MaxCalls
      /\ Registered
  BY Begins
<1> QED
  BY <1>2, <1>3, HandleKeeps

\* The user's settings keep the invariant.
LEMMA SettingsKeep ==
    ASSUME RightInv, NEW c \in Calls, Settings(c)
    PROVE  RightInv'
<1>1. ASSUME NEW b \in BOOLEAN, ByUser(c), Set(c, [phone |-> b])
      PROVE  RightInv'
  <2> DEFINE w == [phone |-> b]
  <2>1. DOMAIN w = {"phone"} /\ w.phone \in BOOLEAN
    OBVIOUS
  <2>2. Handle(c, w, {}, 0, FALSE) /\ issued' = issued
    BY <1>1 DEF Set
  <2> HIDE DEF w
  <2>3. Fit(w)
    BY <2>1, TypesOfFields DEF Fit
  <2> QED
    BY <1>1, <2>1, <2>2, <2>3, SetsKeep
<1>2. ASSUME ByUser(c), Set(c, [password |-> TRUE])
      PROVE  RightInv'
  <2> DEFINE w == [password |-> TRUE]
  <2>1. DOMAIN w = {"password"} /\ w.password \in BOOLEAN
    OBVIOUS
  <2>2. Handle(c, w, {}, 0, FALSE) /\ issued' = issued
    BY <1>2 DEF Set
  <2> HIDE DEF w
  <2>3. Fit(w)
    BY <2>1, TypesOfFields DEF Fit
  <2> QED
    BY <1>2, <2>1, <2>2, <2>3, SetsKeep
<1>3. CASE RegenerateMyApiToken(c)
  <2> DEFINE w == [token |-> TRUE]
  <2>1. DOMAIN w = {"token"} /\ w.token = TRUE
    OBVIOUS
  <2>2. ByUser(c) /\ Handle(c, w, {"token"}, 0, FALSE) /\ issued' = issued
    BY <1>3 DEF RegenerateMyApiToken
  <2> HIDE DEF w
  <2>3. Fit(w)
    BY <2>1, TypesOfFields DEF Fit
  <2> QED
    BY <2>1, <2>2, <2>3, SetsKeep
<1> QED
  BY <1>1, <1>2, <1>3 DEF Settings, UpdateMyProfile

\* What administrators do keeps the invariant.
LEMMA AdministrationKeeps ==
    ASSUME RightInv, NEW c \in Calls, Administration(c)
    PROVE  RightInv'
<1>1. CASE ApproveUser(c)
  <2> DEFINE w == [status |-> "ACTIVE", verified |-> TRUE, approved |-> TRUE,
                   rejected |-> FALSE, link |-> 0]
  <2>1. DOMAIN w = {"status", "verified", "approved", "rejected", "link"}
    OBVIOUS
  <2>2. w.status = "ACTIVE" /\ w.link = 0
    OBVIOUS
  <2>3. w.verified \in BOOLEAN /\ w.approved \in BOOLEAN /\ w.rejected = FALSE
    OBVIOUS
  <2>4. ByAdmin(c) /\ Handle(c, w, Fields, 0, FALSE) /\ issued' = issued
    BY <1>1 DEF ApproveUser
  <2> HIDE DEF w
  <2>5. Fit(w)
    <3>1. \A f \in DOMAIN w : f \in FieldNames /\ w[f] \in FieldTypes[f]
      <4>1. 0 \in 0..MaxIssued
        BY AccountsAssumption
      <4>2. /\ w["status"] \in FieldTypes["status"]
            /\ w["link"] \in FieldTypes["link"]
        BY <2>2, <4>1, TypesOfFields DEF Statuses
      <4>3. \A f \in {"verified", "approved", "rejected"} :
               f \in FieldNames /\ w[f] \in FieldTypes[f]
        BY <2>3, TypesOfFields
      <4> QED
        BY <2>1, <4>2, <4>3, TypesOfFields
    <3> QED
      BY <2>1, <2>2, <2>3, <3>1 DEF Fit
  <2> QED
    BY <2>1, <2>2, <2>4, <2>5, SetsKeep
<1>2. CASE RejectUser(c)
  <2>1. DOMAIN Rejection = {"status", "rejected", "approved"}
    BY DEF Rejection
  <2>2. Rejection.status = "REJECTED"
    BY DEF Rejection
  <2>3. Rejection.rejected \in BOOLEAN /\ Rejection.approved = FALSE
    BY DEF Rejection
  <2>4. ByAdmin(c) /\ Handle(c, Rejection, {}, 0, FALSE) /\ issued' = issued
    BY <1>2 DEF RejectUser, Set
  <2>5. Fit(Rejection)
    <3>1. \A f \in DOMAIN Rejection :
             f \in FieldNames /\ Rejection[f] \in FieldTypes[f]
      BY <2>1, <2>2, <2>3, TypesOfFields DEF Statuses
    <3> QED
      BY <2>1, <2>2, <2>3, <3>1 DEF Fit
  <2> QED
    BY <2>1, <2>4, <2>5, SetsKeep
<1>3. ASSUME NEW s \in {"PENDING", "REJECTED"}, ByAdmin(c), Set(c, [status |-> s])
      PROVE  RightInv'
  <2> DEFINE w == [status |-> s]
  <2>1. DOMAIN w = {"status"} /\ w.status = s
    OBVIOUS
  <2>2. Handle(c, w, {}, 0, FALSE) /\ issued' = issued
    BY <1>3 DEF Set
  <2> HIDE DEF w
  <2>3. Fit(w)
    BY <2>1, TypesOfFields DEF Fit, Statuses
  <2> QED
    BY <1>3, <2>1, <2>2, <2>3, SetsKeep
<1>4. ASSUME ByAdmin(c), issued' = issued,
             Handle(c, [status |-> "ACTIVE", verified |-> TRUE, link |-> 0],
                    {"link"}, 0, FALSE)
      PROVE  RightInv'
  <2> DEFINE w == [status |-> "ACTIVE", verified |-> TRUE, link |-> 0]
  <2>1. DOMAIN w = {"status", "verified", "link"}
    OBVIOUS
  <2>2. w.status = "ACTIVE" /\ w.link = 0
    OBVIOUS
  <2>3. w.verified \in BOOLEAN
    OBVIOUS
  <2>4. Handle(c, w, {"link"}, 0, FALSE)
    BY <1>4
  <2> HIDE DEF w
  <2>5. Fit(w)
    BY <2>1, <2>2, <2>3, AccountsAssumption, TypesOfFields DEF Fit, Statuses
  <2> QED
    BY <1>4, <2>1, <2>2, <2>4, <2>5, SetsKeep
<1>5. ASSUME NEW v \in BOOLEAN, ByAdmin(c), Set(c, [verified |-> v])
      PROVE  RightInv'
  <2> DEFINE w == [verified |-> v]
  <2>1. DOMAIN w = {"verified"} /\ w.verified \in BOOLEAN
    OBVIOUS
  <2>2. Handle(c, w, {}, 0, FALSE) /\ issued' = issued
    BY <1>5 DEF Set
  <2> HIDE DEF w
  <2>3. Fit(w)
    BY <2>1, TypesOfFields DEF Fit
  <2> QED
    BY <1>5, <2>1, <2>2, <2>3, SetsKeep
<1>6. ASSUME NEW p \in BOOLEAN, doc.role = "SUPERVISOR", ByAdmin(c),
             Set(c, [permitted |-> p])
      PROVE  RightInv'
  <2> DEFINE w == [permitted |-> p]
  <2>1. DOMAIN w = {"permitted"} /\ w.permitted \in BOOLEAN
    OBVIOUS
  <2>2. Handle(c, w, {}, 0, FALSE) /\ issued' = issued
    BY <1>6 DEF Set
  <2> HIDE DEF w
  <2>3. Fit(w)
    BY <1>6, <2>1, TypesOfFields DEF Fit
  <2> QED
    BY <1>6, <2>1, <2>2, <2>3, SetsKeep
<1>7. ASSUME ByAdmin(c), issued' = issued,
             Handle(c, ApiOpened, {"token"}, 0, FALSE)
      PROVE  RightInv'
  <2>1. CASE doc.token
    <3> DEFINE w == [api |-> TRUE]
    <3>1. ApiOpened = w /\ DOMAIN w = {"api"} /\ w.api \in BOOLEAN
      BY <2>1 DEF ApiOpened
    <3> HIDE DEF w
    <3>2. Fit(w)
      BY <2>1, <3>1, TypesOfFields DEF Fit
    <3> QED
      BY <1>7, <3>1, <3>2, SetsKeep
  <2>2. CASE ~doc.token
    <3> DEFINE w == [api |-> TRUE, token |-> TRUE]
    <3>1. ApiOpened = w
      BY <2>2 DEF ApiOpened
    <3>2. DOMAIN w = {"api", "token"} /\ w.api \in BOOLEAN /\ w.token
      OBVIOUS
    <3>3. w.token = TRUE
      OBVIOUS
    <3> HIDE DEF w
    <3>4. Fit(w)
      BY <3>2, <3>3, TypesOfFields DEF Fit
    <3> QED
      BY <1>7, <3>1, <3>2, <3>4, SetsKeep
  <2> QED
    BY <2>1, <2>2
<1>8. ASSUME ByAdmin(c), Set(c, [api |-> FALSE])
      PROVE  RightInv'
  <2> DEFINE w == [api |-> FALSE]
  <2>1. DOMAIN w = {"api"} /\ w.api = FALSE
    OBVIOUS
  <2>2. Handle(c, w, {}, 0, FALSE) /\ issued' = issued
    BY <1>8 DEF Set
  <2> HIDE DEF w
  <2>3. Fit(w)
    BY <2>1, TypesOfFields DEF Fit
  <2> QED
    BY <1>8, <2>1, <2>2, <2>3, SetsKeep
<1>9. ASSUME NEW b \in BOOLEAN, NEW s \in {"ACTIVE", "REJECTED"}, ByAdmin(c),
             Set(c, [deleted |-> b, status |-> s])
      PROVE  RightInv'
  <2> DEFINE w == [deleted |-> b, status |-> s]
  <2>1. DOMAIN w = {"deleted", "status"} /\ w.status = s
    OBVIOUS
  <2>2. w.deleted \in BOOLEAN
    OBVIOUS
  <2>3. Handle(c, w, {}, 0, FALSE) /\ issued' = issued
    BY <1>9 DEF Set
  <2> HIDE DEF w
  <2>4. Fit(w)
    BY <2>1, <2>2, TypesOfFields DEF Fit, Statuses
  <2> QED
    BY <1>9, <2>1, <2>3, <2>4, SetsKeep
<1>10. ASSUME NEW r \in Roles, NEW p \in PermissionsIn(r), ByAdmin(c),
              Set(c, [role |-> r, permitted |-> p])
       PROVE  RightInv'
  <2>1. p \in BOOLEAN /\ (p => r = "SUPERVISOR")
    BY DEF PermissionsIn
  <2> DEFINE w == [role |-> r, permitted |-> p]
  <2>2. DOMAIN w = {"role", "permitted"} /\ w.role = r
    OBVIOUS
  <2>3. w.permitted \in BOOLEAN /\ (w.permitted => p)
    BY <2>1
  <2>4. Handle(c, w, {}, 0, FALSE) /\ issued' = issued
    BY <1>10 DEF Set
  <2> HIDE DEF w
  <2>5. Fit(w)
    BY <2>1, <2>2, <2>3, TypesOfFields DEF Fit
  <2> QED
    BY <1>10, <2>2, <2>4, <2>5, SetsKeep
<1>11. CASE ResetUserPassword(c)
  <2> DEFINE w == [password |-> TRUE]
  <2>1. DOMAIN w = {"password"} /\ w.password \in BOOLEAN
    OBVIOUS
  <2>2. ByAdmin(c) /\ Handle(c, w, {"password"}, 0, FALSE) /\ issued' = issued
    BY <1>11 DEF ResetUserPassword
  <2> HIDE DEF w
  <2>3. Fit(w)
    BY <2>1, TypesOfFields DEF Fit
  <2> QED
    BY <2>1, <2>2, <2>3, SetsKeep
<1>12. CASE UpdateUser(c)
  BY <1>3, <1>4, <1>5, <1>6, <1>7, <1>8, <1>12 DEF UpdateUser
<1>13. CASE DeleteUser(c) \/ RestoreUser(c)
  BY <1>9, <1>13 DEF DeleteUser, RestoreUser
<1>14. CASE UpdateUserRole(c)
  BY <1>10, <1>14 DEF UpdateUserRole
<1>15. CASE UpdateSupervisorPermissions(c)
  BY <1>6, <1>15 DEF UpdateSupervisorPermissions
<1> QED
  BY <1>1, <1>2, <1>11, <1>12, <1>13, <1>14, <1>15 DEF Administration

---------------------------------------------------------------------------
(* The end of a call.                                                       *)

\* Whatever had been planned is gone; the other calls are as they were.
LEMMA Ends ==
    ASSUME TypeOK, NEW c \in Calls, End(c)
    PROVE  /\ \A d \in Calls \ {c} :
                 /\ stage'[d] = stage[d] /\ seen'[d] = seen[d]
                 /\ intent'[d] = intent[d] /\ code'[d] = code[d]
                 /\ grants'[d] = grants[d]
           /\ stage'[c] = "idle" /\ ~grants'[c] /\ code'[c] = 0
           /\ issued' = issued /\ expired' = expired /\ calls' = calls
           /\ stage' \in [Calls -> {"idle", "admitted", "creating", "saving"}]
           /\ seen' \in [Calls -> UserDocument]
           /\ DOMAIN intent' = Calls
           /\ \A d \in Calls : DOMAIN intent'[d] \subseteq FieldNames
           /\ code' \in [Calls -> 0..MaxIssued] /\ grants' \in [Calls -> BOOLEAN]
           /\ DOMAIN ruling' = Calls
           /\ \A d \in Calls : \A f \in DOMAIN ruling'[d] :
                 ruling'[d][f] \in Statuses
<1> USE DEF End
<1>1. /\ \A d \in Calls \ {c} :
            /\ stage'[d] = stage[d] /\ seen'[d] = seen[d]
            /\ intent'[d] = intent[d] /\ code'[d] = code[d]
            /\ grants'[d] = grants[d]
      /\ stage'[c] = "idle" /\ ~grants'[c] /\ code'[c] = 0
      /\ issued' = issued /\ expired' = expired /\ calls' = calls
      /\ DOMAIN intent' = Calls /\ intent'[c] = Nothing
  BY DEF TypeOK
<1>2. stage' \in [Calls -> {"idle", "admitted", "creating", "saving"}]
  BY DEF TypeOK
<1>3. seen' \in [Calls -> UserDocument]
  BY InitialDocuments DEF TypeOK
<1>4. \A d \in Calls : DOMAIN intent'[d] \subseteq FieldNames
  BY <1>1, Typed DEF TypeOK, Nothing
<1>5. code' \in [Calls -> 0..MaxIssued] /\ grants' \in [Calls -> BOOLEAN]
  BY AccountsAssumption DEF TypeOK
<1>6. /\ DOMAIN ruling' = Calls
      /\ \A d \in Calls : \A f \in DOMAIN ruling'[d] :
            ruling'[d][f] \in Statuses
  <2>1. DOMAIN Nothing = {}
    BY DEF Nothing
  <2> QED
    BY <2>1 DEF TypeOK
<1> QED
  BY <1>1, <1>2, <1>3, <1>4, <1>5, <1>6

\* The plans of the others stay right, if a token stays.
LEMMA EndsKeepPlans ==
    ASSUME RightInv, NEW c \in Calls, End(c),
           DOMAIN doc' = DOMAIN doc, doc.token => doc'.token
    PROVE  NewcomersInv' /\ PlansInv'
<1>1. TypeOK
  BY DEF RightInv
<1>2. /\ \A d \in Calls \ {c} :
            /\ stage'[d] = stage[d] /\ seen'[d] = seen[d]
            /\ intent'[d] = intent[d]
      /\ stage'[c] = "idle" /\ issued' = issued
  BY <1>1, Ends
<1>3. NewcomersInv'
  BY <1>2 DEF RightInv, NewcomersInv
<1>4. PlansInv'
  <2> DEFINE plan(d) == [f \in DOMAIN doc' |-> IF f \in DOMAIN intent'[d]
                                              THEN intent'[d][f] ELSE seen'[d][f]]
  <2> SUFFICES ASSUME NEW d \in Calls, stage'[d] = "saving"
      PROVE  /\ plan(d) \in UserDocument
             /\ "status" \in DOMAIN intent'[d] => plan(d).status # "NONE"
             /\ "link" \in DOMAIN intent'[d] => plan(d).link <= issued'
             /\ "token" \in DOMAIN intent'[d] => plan(d).token
             /\ "api" \in DOMAIN intent'[d] /\ plan(d).api
                   => "token" \in DOMAIN intent'[d] \/ doc'.token
             /\ DOMAIN intent'[d] \cap {"approved", "rejected"} # {}
                   => ~(plan(d).approved /\ plan(d).rejected)
             /\ DOMAIN intent'[d] \cap RoleFields # {}
                   => (plan(d).permitted => plan(d).role = "SUPERVISOR")
    BY DEF PlansInv, WholeDocument, Writes
  <2>1. /\ intent'[d] = intent[d] /\ stage[d] = "saving"
        /\ seen'[d] = seen[d]
    BY <1>2
  <2>2. plan(d) = WholeDocument(d)
    BY <2>1 DEF WholeDocument, Writes
  <2> HIDE DEF plan
  <2> QED
    BY <1>2, <2>1, <2>2 DEF RightInv, PlansInv, Writes
<1> QED
  BY <1>3, <1>4

\* A mail carries a serial that was made.
LEMMA MailKeeps ==
    ASSUME RightInv, NEW c \in Calls, stage[c] \in {"saving", "creating"}, Mail(c)
    PROVE  mailed' \subseteq 1..issued
<1>1. /\ issued \in Nat /\ code[c] \in Nat /\ mailed \subseteq 1..issued
      /\ DOMAIN doc = FieldNames /\ DOMAIN intent[c] \subseteq FieldNames
  BY Typed DEF RightInv, TypeOK
<1>2. ASSUME NEW f \in {"link", "challenge"}, f \in Writes(c),
             code[c] # 0, code[c] = intent[c][f]
      PROVE  code[c] \in 1..issued
  <2>1. CASE stage[c] = "creating"
    BY <1>1, <1>2, <2>1 DEF RightInv, NewcomersInv
  <2>2. CASE stage[c] = "saving" /\ f = "challenge"
    BY <1>2, <2>2 DEF RightInv, CodesInv, Storing
  <2>3. CASE stage[c] = "saving" /\ f = "link"
    <3>1. WholeDocument(c).link = intent[c].link
      BY <1>1, <1>2, <2>3 DEF WholeDocument, Writes
    <3> QED
      BY <1>1, <1>2, <2>3, <3>1 DEF RightInv, PlansInv
  <2> QED
    BY <2>1, <2>2, <2>3
<1> QED
  BY <1>1, <1>2 DEF Mail

\* A save keeps the invariant.
LEMMA SaveKeeps ==
    ASSUME RightInv, NEW c \in Calls, Save(c)
    PROVE  RightInv'
<1> DEFINE p == WholeDocument(c)
           W == Writes(c)
<1>1. TypeOK /\ DocumentInv /\ CodesInv /\ stage[c] = "saving" /\ End(c) /\ Mail(c)
  BY DEF RightInv, Save
<1>2. /\ doc \in UserDocument /\ DOMAIN doc = FieldNames
      /\ \A f \in FieldNames : doc[f] \in FieldTypes[f]
      /\ issued \in Nat /\ MaxIssued \in Nat /\ issued <= MaxIssued
      /\ doc.link \in Nat /\ doc.challenge \in Nat
      /\ W \subseteq FieldNames
  BY <1>1, Typed DEF TypeOK, Writes
<1>3. /\ p \in UserDocument
      /\ "status" \in W => p.status # "NONE"
      /\ "link" \in W => p.link <= issued
      /\ "token" \in W => p.token
      /\ "api" \in W /\ p.api => "token" \in W \/ doc.token
      /\ W \cap {"approved", "rejected"} # {} => ~(p.approved /\ p.rejected)
      /\ W \cap RoleFields # {} => (p.permitted => p.role = "SUPERVISOR")
  BY <1>1 DEF RightInv, PlansInv
<1>4. \A f \in FieldNames : p[f] \in FieldTypes[f]
  BY <1>3, DocumentFields
<1>5. /\ doc' = [f \in FieldNames |-> doc'[f]]
      /\ \A f \in FieldNames : doc'[f] = IF f \in W THEN p[f] ELSE doc[f]
      /\ \A f \in W : p[f] = intent[c][f]
      /\ \A f \in FieldNames : f \notin W => p[f] = seen[c][f]
  BY <1>2 DEF Save, Merged, WholeDocument
<1> HIDE DEF p
<1>6. doc' \in UserDocument /\ DOMAIN doc' = FieldNames
  <2>1. \A f \in FieldNames : doc'[f] \in FieldTypes[f]
    BY <1>2, <1>4, <1>5
  <2> QED
    BY <1>5, <2>1, FieldsDocument, DocumentFields
<1>7. {"status", "link", "token", "api", "approved", "rejected", "role",
       "permitted", "challenge"} \subseteq FieldNames
  BY TypesOfFields
<1>8. /\ doc'.status # "NONE"
      /\ doc.token => doc'.token
      /\ doc'.api => doc'.token
      /\ doc'.link # 0 => doc'.link <= issued
  <2>1. doc.status # "NONE"
    BY <1>1 DEF DocumentInv, Registered
  <2>2. doc'.status # "NONE" /\ (doc.token => doc'.token)
    BY <1>3, <1>5, <1>7, <2>1
  <2>3. doc'.api => doc'.token
    BY <1>1, <1>3, <1>5, <1>7, <2>2 DEF TypeOK
  <2>4. doc'.link # 0 => doc'.link <= issued
    BY <1>1, <1>3, <1>5, <1>7 DEF TypeOK
  <2> QED
    BY <2>2, <2>3, <2>4
<1>9. /\ \A d \in Calls \ {c} :
            /\ stage'[d] = stage[d] /\ seen'[d] = seen[d]
            /\ intent'[d] = intent[d] /\ code'[d] = code[d]
            /\ grants'[d] = grants[d]
      /\ stage'[c] = "idle" /\ ~grants'[c] /\ code'[c] = 0
      /\ issued' = issued
  BY <1>1, Ends
<1>10. TypeOK'
  <2>1. /\ stage' \in [Calls -> {"idle", "admitted", "creating", "saving"}]
        /\ seen' \in [Calls -> UserDocument]
        /\ DOMAIN intent' = Calls
        /\ \A d \in Calls : DOMAIN intent'[d] \subseteq DOMAIN doc'
        /\ code' \in [Calls -> 0..MaxIssued] /\ grants' \in [Calls -> BOOLEAN]
        /\ issued' \in 0..MaxIssued /\ expired' \subseteq Serials
        /\ calls' \in 0..MaxCalls
        /\ DOMAIN ruling' = Calls
        /\ \A d \in Calls : \A f \in DOMAIN ruling'[d] :
              ruling'[d][f] \in Statuses
    BY <1>1, <1>6, Ends DEF TypeOK
  <2>2. mailed' \subseteq 1..issued' /\ mailed' \subseteq Serials
    BY <1>1, <1>2, <1>9, MailKeeps DEF Serials
  <2>3. session' \in BOOLEAN /\ invited' \in BOOLEAN /\ approvedOnce' \in BOOLEAN
    BY DEF Save
  <2>4. decided' \in Statuses
    BY <1>1 DEF Save, TypeOK, Rules
  <2>5. uses' \in [Serials -> Nat]
    <3>1. uses \in [Serials -> Nat]
      BY <1>1 DEF TypeOK
    <3>2. uses' \in {uses, [uses EXCEPT ![code[c]] = uses[code[c]] + 1]}
      BY DEF Save
    <3> QED
      BY <3>1, <3>2
  <2>6. crossed' \subseteq {"status", "verdict", "role", "code"}
    BY <1>1 DEF Save, TypeOK, Crossing
  <2> QED
    BY <1>6, <1>8, <1>9, <2>1, <2>2, <2>3, <2>4, <2>5, <2>6 DEF TypeOK
<1>11. NewcomersInv' /\ PlansInv'
  BY <1>1, <1>2, <1>6, <1>8, EndsKeepPlans
<1>12. DocumentInv'
  <2>1. doc'.challenge <= issued'
    <3>1. CASE "challenge" \in W
      <4>1. intent[c].challenge = 0 \/ intent[c].challenge \in 1..issued
        BY <1>1, <3>1 DEF CodesInv, Storing
      <4> QED
        BY <1>2, <1>5, <1>7, <1>9, <3>1, <4>1
    <3>2. CASE "challenge" \notin W
      BY <1>1, <1>5, <1>7, <1>9, <3>2 DEF DocumentInv
    <3> QED
      BY <3>1, <3>2
  <2> QED
    BY <1>1, <1>8, <1>9, <2>1 DEF DocumentInv, Registered
<1>13. crossed' = crossed \cup Crossing(c)
  BY DEF Save
<1>14. OneVerdict'
  <2> SUFFICES ASSUME doc'.approved, doc'.rejected, "verdict" \notin crossed'
               PROVE  FALSE
    BY DEF OneVerdict
  <2>1. ~(doc.approved /\ doc.rejected)
    BY <1>13 DEF RightInv, OneVerdict
  <2>2. W \cap {"approved", "rejected"} # {}
    BY <1>5, <1>7, <2>1
  <2>3. Overtaken(c) \cap Verdict = {}
    BY <1>13, <2>2 DEF Crossing, Verdict
  <2>4. seen[c].approved = doc.approved /\ seen[c].rejected = doc.rejected
    BY <1>2, <1>7, <2>3 DEF Overtaken, Verdict
  <2>5. doc'.approved = p.approved /\ doc'.rejected = p.rejected
    BY <1>5, <1>7, <2>4
  <2> QED
    BY <1>3, <2>2, <2>5
<1>15. PermissionsOfSupervisors'
  <2> SUFFICES ASSUME doc'.permitted, doc'.role # "SUPERVISOR",
                      "role" \notin crossed'
               PROVE  FALSE
    BY DEF PermissionsOfSupervisors
  <2>1. doc.permitted => doc.role = "SUPERVISOR"
    BY <1>13 DEF RightInv, PermissionsOfSupervisors
  <2>2. W \cap RoleFields # {}
    BY <1>5, <1>7, <2>1 DEF RoleFields
  <2>3. Overtaken(c) \cap RoleFields = {}
    BY <1>13, <2>2 DEF Crossing
  <2>4. seen[c].role = doc.role /\ seen[c].permitted = doc.permitted
    BY <1>2, <1>7, <2>3 DEF Overtaken, RoleFields
  <2>5. doc'.role = p.role /\ doc'.permitted = p.permitted
    BY <1>5, <1>7, <2>4
  <2> QED
    BY <1>3, <2>2, <2>5
<1>16. CodesInv'
  <2> DEFINE S(d) == /\ stage'[d] = "saving" /\ "challenge" \in DOMAIN intent'[d]
                     /\ intent'[d].challenge # 0
             opens == grants[c] /\ code[c] # 0
  <2>1. \A d \in Calls : S(d) => d # c /\ Storing(d) /\ intent'[d] = intent[d]
    BY <1>9 DEF Storing, Writes
  <2>2. \A d \in Calls : Storing(d) => intent[d].challenge \in 1..issued
    BY <1>1 DEF CodesInv
  <2>3. opens => /\ code[c] \in 1..issued /\ code[c] \in Serials
                 /\ seen[c].challenge = code[c]
                 /\ "challenge" \in W /\ intent[c].challenge = 0
    BY <1>1, <1>2 DEF CodesInv, Serials
  <2>4. /\ DOMAIN uses = Serials /\ \A m \in Serials : uses[m] \in Nat
    BY <1>1 DEF TypeOK
  <2>5. IF opens THEN uses' = [uses EXCEPT ![code[c]] = @ + 1] ELSE uses' = uses
    BY DEF Save
  <2>6. ASSUME NEW d \in Calls, grants'[d], code'[d] # 0
        PROVE  /\ code'[d] \in 1..issued' /\ seen'[d].challenge = code'[d]
               /\ "challenge" \in DOMAIN intent'[d]
               /\ intent'[d].challenge = 0
    BY <1>1, <1>9, <2>6 DEF CodesInv, Writes
  <2>7. \A d \in Calls : S(d) => intent'[d].challenge \in 1..issued'
    BY <1>9, <2>1, <2>2
  <2>8. \A m \in Serials : m > issued' => uses'[m] = 0
    <3>1. \A m \in Serials : m > issued => uses[m] = 0
      BY <1>1 DEF CodesInv
    <3> QED
      BY <1>2, <1>9, <2>3, <2>4, <2>5, <3>1 DEF Serials
  <2>9. ASSUME "code" \notin crossed'
        PROVE  /\ \A m \in Serials : uses'[m] <= 1
               /\ doc'.challenge # 0 => uses'[doc'.challenge] = 0
               /\ \A d \in Calls : S(d) =>
                     /\ doc'.challenge # intent'[d].challenge
                     /\ uses'[intent'[d].challenge] = 0
                     /\ \A e \in Calls \ {d} :
                           S(e) => intent'[e].challenge # intent'[d].challenge
    <3>1. /\ \A m \in Serials : uses[m] <= 1
          /\ doc.challenge # 0 => uses[doc.challenge] = 0
          /\ \A d \in Calls : Storing(d) =>
                /\ doc.challenge # intent[d].challenge
                /\ uses[intent[d].challenge] = 0
                /\ \A e \in Calls \ {d} :
                      Storing(e) => intent[e].challenge # intent[d].challenge
      BY <1>1, <1>13, <2>9 DEF CodesInv
    <3>2. \A d \in Calls : S(d) =>
             \A e \in Calls \ {d} :
                S(e) => intent'[e].challenge # intent'[d].challenge
      BY <2>1, <3>1
    <3>3. CASE opens
      <4>1. "challenge" \notin Overtaken(c)
        BY <1>13, <2>9, <3>3 DEF Crossing
      <4>2. doc.challenge = code[c]
        BY <1>2, <1>7, <2>3, <3>3, <4>1 DEF Overtaken
      <4>3. doc'.challenge = 0
        BY <1>5, <1>7, <2>3, <3>3
      <4>4. \A m \in Serials : uses'[m] <= 1
        BY <2>3, <2>4, <2>5, <3>1, <3>3, <4>2
      <4>5. ASSUME NEW d \in Calls, S(d)
            PROVE  /\ doc'.challenge # intent'[d].challenge
                   /\ uses'[intent'[d].challenge] = 0
        <5>1. Storing(d) /\ intent'[d] = intent[d]
          BY <2>1, <4>5
        <5>2. intent[d].challenge # code[c] /\ uses[intent[d].challenge] = 0
          BY <3>1, <4>2, <5>1
        <5>3. intent[d].challenge \in Serials
          BY <1>2, <2>2, <5>1 DEF Serials
        <5> QED
          BY <2>3, <2>4, <2>5, <3>3, <4>3, <4>5, <5>1, <5>2, <5>3
      <4> HIDE DEF S
      <4> QED
        BY <3>2, <4>3, <4>4, <4>5
    <3>4. CASE ~opens
      <4>1. uses' = uses
        BY <2>5, <3>4
      <4>2. \/ doc'.challenge = doc.challenge
            \/ doc'.challenge = 0
            \/ Storing(c) /\ doc'.challenge = intent[c].challenge
        BY <1>1, <1>5, <1>7 DEF Storing
      <4>3. doc'.challenge # 0 => uses'[doc'.challenge] = 0
        BY <3>1, <4>1, <4>2
      <4>4. ASSUME NEW d \in Calls, S(d)
            PROVE  /\ doc'.challenge # intent'[d].challenge
                   /\ uses'[intent'[d].challenge] = 0
        <5>1. d # c /\ Storing(d) /\ intent'[d] = intent[d]
          BY <2>1, <4>4
        <5>2. intent[d].challenge # 0
          BY <5>1 DEF Storing
        <5> QED
          BY <3>1, <4>1, <4>2, <5>1, <5>2
      <4> HIDE DEF S
      <4> QED
        BY <3>1, <3>2, <4>1, <4>3, <4>4
    <3> QED
      BY <3>3, <3>4
  <2> QED
    BY <2>6, <2>7, <2>8, <2>9 DEF CodesInv, Storing, Writes
<1> QED
  BY <1>10, <1>11, <1>12, <1>14, <1>15, <1>16 DEF RightInv

\* So does an insertion, or its refusal.
LEMMA InsertKeeps ==
    ASSUME RightInv, NEW c \in Calls, Insert(c)
    PROVE  RightInv'
<1>1. TypeOK /\ DocumentInv /\ CodesInv /\ stage[c] = "creating" /\ End(c)
  BY DEF RightInv, Insert
<1>2. /\ doc \in UserDocument /\ DOMAIN doc = FieldNames
      /\ issued \in Nat /\ MaxIssued \in Nat /\ issued <= MaxIssued
  BY <1>1, Typed
<1>3. /\ \A d \in Calls \ {c} :
            /\ stage'[d] = stage[d] /\ seen'[d] = seen[d]
            /\ intent'[d] = intent[d] /\ code'[d] = code[d]
            /\ grants'[d] = grants[d]
      /\ stage'[c] = "idle" /\ ~grants'[c] /\ code'[c] = 0
      /\ issued' = issued
  BY <1>1, Ends
<1>4. /\ session' = session /\ approvedOnce' = approvedOnce
      /\ uses' = uses /\ crossed' = crossed
  BY DEF Insert
<1>5. /\ intent[c] \in UserDocument /\ DOMAIN intent[c] = FieldNames
      /\ intent[c].status = "PENDING" /\ intent[c].link <= issued
      /\ intent[c].challenge = 0
      /\ ~intent[c].approved /\ ~intent[c].permitted /\ ~intent[c].api
  BY <1>1, DocumentFields DEF RightInv, NewcomersInv
<1>6. \/ Registered /\ UNCHANGED <<doc, mailed, invited, decided>>
      \/ /\ ~Registered /\ doc' = intent[c] /\ Mail(c)
         /\ invited' = GoogleInvites(intent[c]) /\ decided' = "PENDING"
  BY DEF Insert
<1>7. /\ doc' \in UserDocument /\ DOMAIN doc' = FieldNames
      /\ doc'.status # "NONE"
      /\ doc.token => doc'.token
      /\ doc'.api => doc'.token
      /\ doc'.link # 0 => doc'.link <= issued
  BY <1>1, <1>2, <1>5, <1>6, InitialDocuments DEF TypeOK, DocumentInv, Registered
<1>8. TypeOK'
  <2>1. /\ stage' \in [Calls -> {"idle", "admitted", "creating", "saving"}]
        /\ seen' \in [Calls -> UserDocument]
        /\ DOMAIN intent' = Calls
        /\ \A d \in Calls : DOMAIN intent'[d] \subseteq DOMAIN doc'
        /\ code' \in [Calls -> 0..MaxIssued] /\ grants' \in [Calls -> BOOLEAN]
        /\ issued' \in 0..MaxIssued /\ expired' \subseteq Serials
        /\ calls' \in 0..MaxCalls
        /\ DOMAIN ruling' = Calls
        /\ \A d \in Calls : \A f \in DOMAIN ruling'[d] :
              ruling'[d][f] \in Statuses
    BY <1>1, <1>7, Ends DEF TypeOK
  <2>2. mailed' \subseteq 1..issued' /\ mailed' \subseteq Serials
    <3>1. mailed' \subseteq 1..issued
      <4>1. CASE Mail(c)
        BY <1>1, <4>1, MailKeeps
      <4>2. CASE UNCHANGED mailed
        BY <1>1, <4>2 DEF TypeOK
      <4> QED
        BY <1>6, <4>1, <4>2
    <3> QED
      BY <1>2, <1>3, <3>1 DEF Serials
  <2>3. invited' \in BOOLEAN
    BY <1>1, <1>6 DEF TypeOK, GoogleInvites
  <2>4. decided' \in Statuses
    BY <1>1, <1>6 DEF TypeOK, Statuses
  <2> QED
    BY <1>1, <1>3, <1>4, <1>7, <2>1, <2>2, <2>3, <2>4 DEF TypeOK
<1>9. NewcomersInv' /\ PlansInv'
  BY <1>1, <1>2, <1>7, EndsKeepPlans
<1>10. doc'.challenge <= issued' /\ (doc'.challenge = doc.challenge \/ doc'.challenge = 0)
  BY <1>1, <1>2, <1>3, <1>5, <1>6 DEF DocumentInv
<1>11. DocumentInv'
  BY <1>1, <1>3, <1>7, <1>10 DEF DocumentInv, Registered
<1>12. OneVerdict' /\ PermissionsOfSupervisors'
  BY <1>4, <1>5, <1>6 DEF RightInv, OneVerdict, PermissionsOfSupervisors
<1>13. CodesInv'
  <2>1. \A d \in Calls : d # c => (Storing(d)' <=> Storing(d)) /\ intent'[d] = intent[d]
    BY <1>3 DEF Storing, Writes
  <2>2. ~Storing(c)'
    BY <1>3 DEF Storing
  <2>3. \A d \in Calls : grants'[d] => d # c
    BY <1>3
  <2> QED
    BY <1>1, <1>3, <1>4, <1>10, <2>1, <2>2, <2>3 DEF CodesInv, Writes
<1> QED
  BY <1>8, <1>9, <1>11, <1>12, <1>13 DEF RightInv

\* A failed call leaves no trace.
LEMMA FailKeeps ==
    ASSUME RightInv, NEW c \in Calls, Fail(c)
    PROVE  RightInv'
<1>1. TypeOK /\ DocumentInv /\ CodesInv /\ End(c)
  BY DEF RightInv, Fail
<1>2. /\ \A d \in Calls \ {c} :
            /\ stage'[d] = stage[d] /\ seen'[d] = seen[d]
            /\ intent'[d] = intent[d] /\ code'[d] = code[d]
            /\ grants'[d] = grants[d]
      /\ stage'[c] = "idle" /\ ~grants'[c] /\ code'[c] = 0
      /\ issued' = issued
  BY <1>1, Ends
<1>3. /\ doc' = doc /\ mailed' = mailed /\ session' = session
      /\ invited' = invited /\ decided' = decided
      /\ approvedOnce' = approvedOnce /\ uses' = uses /\ crossed' = crossed
  BY DEF Fail, historyVars
<1>4. TypeOK'
  BY <1>1, <1>3, Ends, Typed DEF TypeOK
<1>5. NewcomersInv' /\ PlansInv'
  BY <1>1, <1>3, EndsKeepPlans
<1>6. DocumentInv'
  BY <1>1, <1>2, <1>3 DEF DocumentInv, Registered
<1>7. CodesInv'
  <2>1. \A d \in Calls : d # c => (Storing(d)' <=> Storing(d)) /\ intent'[d] = intent[d]
    BY <1>2 DEF Storing, Writes
  <2>2. ~Storing(c)'
    BY <1>2 DEF Storing
  <2>3. \A d \in Calls : grants'[d] => d # c
    BY <1>2
  <2> QED
    BY <1>1, <1>2, <1>3, <2>1, <2>2, <2>3 DEF CodesInv, Writes
<1>8. OneVerdict' /\ PermissionsOfSupervisors'
  BY <1>3 DEF RightInv, OneVerdict, PermissionsOfSupervisors
<1> QED
  BY <1>4, <1>5, <1>6, <1>7, <1>8 DEF RightInv

\* Every step keeps the invariant.
LEMMA RightNext == RightInv /\ [Next]_vars => RightInv'
<1> SUFFICES ASSUME RightInv, [Next]_vars PROVE RightInv'
  OBVIOUS
<1>1. ASSUME NEW c \in Calls, Admit(c) PROVE RightInv'
  <2>1. /\ TypeOK /\ DocumentInv /\ NewcomersInv /\ PlansInv /\ CodesInv
        /\ OneVerdict /\ PermissionsOfSupervisors
    BY DEF RightInv
  <2>2. /\ stage[c] = "idle" /\ Registered
        /\ stage' = [stage EXCEPT ![c] = "admitted"] /\ calls' = calls + 1
        /\ calls < MaxCalls
    BY <1>1 DEF Admit, Arrive, Registered
  <2>3. /\ doc' = doc /\ seen' = seen /\ intent' = intent /\ code' = code
        /\ grants' = grants /\ ruling' = ruling
        /\ issued' = issued /\ mailed' = mailed
        /\ expired' = expired /\ session' = session /\ invited' = invited
        /\ decided' = decided /\ approvedOnce' = approvedOnce
        /\ uses' = uses /\ crossed' = crossed
    BY <1>1 DEF Admit, tokenVars, historyVars
  <2>4. \A d \in Calls : /\ stage'[d] = IF d = c THEN "admitted" ELSE stage[d]
    BY <2>1, <2>2 DEF TypeOK
  <2>5. TypeOK'
    <3>1. calls' \in 0..MaxCalls
      BY <2>1, <2>2, AccountsAssumption DEF TypeOK
    <3>2. stage' \in [Calls -> {"idle", "admitted", "creating", "saving"}]
      BY <2>1, <2>2 DEF TypeOK
    <3> QED
      BY <2>1, <2>3, <3>1, <3>2 DEF TypeOK
  <2>6. DocumentInv'
    BY <2>1, <2>2, <2>3, <2>4 DEF DocumentInv, Registered
  <2>7. NewcomersInv' /\ PlansInv'
    BY <2>1, <2>3, <2>4 DEF NewcomersInv, PlansInv, WholeDocument, Writes
  <2>8. CodesInv'
    BY <2>1, <2>2, <2>3, <2>4 DEF CodesInv, Storing, Writes
  <2>9. OneVerdict' /\ PermissionsOfSupervisors'
    BY <2>1, <2>3 DEF OneVerdict, PermissionsOfSupervisors
  <2> QED
    BY <2>5, <2>6, <2>7, <2>8, <2>9 DEF RightInv
<1>2. ASSUME NEW n \in Serials, Expire(n) PROVE RightInv'
  BY <1>2 DEF Expire, callVars, historyVars, RightInv, TypeOK, DocumentInv,
          Registered, NewcomersInv, PlansInv, WholeDocument, Writes, CodesInv,
          Storing, OneVerdict, PermissionsOfSupervisors
<1>3. CASE UNCHANGED vars
  BY <1>3 DEF vars, callVars, tokenVars, historyVars, RightInv, TypeOK,
          DocumentInv, Registered, NewcomersInv, PlansInv, WholeDocument,
          Writes, CodesInv, Storing, OneVerdict, PermissionsOfSupervisors
<1> QED
  BY <1>1, <1>2, <1>3, AuthenticationKeeps, SettingsKeep, AdministrationKeeps,
     SaveKeeps, InsertKeeps, FailKeeps DEF Next

\* So it holds in every state.
LEMMA RightAlways == Spec => []RightInv
BY RightInit, RightNext, PTL DEF Spec

\* Every field keeps its type, whoever saves; an account with an open API has a
\* token, and a link or a code that is out was made (user.model.js,
\* admin.users.service.js:192).
THEOREM AccountsTypes == Spec => []TypeOK
<1>1. RightInv => TypeOK
  BY DEF RightInv
<1> QED
  BY <1>1, RightAlways, PTL

\* approvedBy and rejectedBy stand together only after a call saved its verdict
\* over one it had not seen (user.service.js:181).
THEOREM VerdictsExclude == Spec => []OneVerdict
<1>1. RightInv => OneVerdict
  BY DEF RightInv
<1> QED
  BY <1>1, RightAlways, PTL

\* Permissions are a supervisor's, unless a call saved a role or permissions over
\* a change it had not seen (admin.users.service.js:183, 315).
THEOREM PermissionsGoWithRole == Spec => []PermissionsOfSupervisors
<1>1. RightInv => PermissionsOfSupervisors
  BY DEF RightInv
<1> QED
  BY <1>1, RightAlways, PTL

\* Only requests that bring a code at once can open two sessions with it: whatever
\* else runs meanwhile, a code that was used is out of the document for good
\* (auth.service.js:114, 568).
THEOREM CodesOpenOnce == Spec => []CodeOpensOnce
<1>1. RightInv => CodeOpensOnce
  <2> SUFFICES ASSUME RightInv, "code" \notin crossed, NEW n \in Serials
               PROVE  ~(uses[n] > 1)
    BY DEF CodeOpensOnce
  <2>1. uses[n] \in Nat /\ uses[n] <= 1
    BY DEF RightInv, TypeOK, CodesInv
  <2> QED
    BY <2>1
<1> QED
  BY <1>1, RightAlways, PTL

===========================================================================
