----------------------------- MODULE Accounts -----------------------------
(***************************************************************************)
(* The life of one account: registration, verification of the address,     *)
(* approval, login with a password, a mailed code or Google, and what      *)
(* administrators do to it meanwhile.                                      *)
(*                                                                         *)
(* Sources: src/src/modules/auth/auth.service.js, user.service.js and      *)
(* user.model.js of src/src/modules/users, admin.users.service.js,         *)
(* authenticate.js, google.strategy.js and profileCompletion.js.           *)
(*                                                                         *)
(* Every handler reads the user document, decides on what it read, and     *)
(* saves.  Mongoose writes the paths that the handler set to another value *)
(* than it had read; a path that the read did not select always counts as  *)
(* changed.  Other calls may save in between.                              *)
(***************************************************************************)
EXTENDS Integers, FiniteSets, FiniteSetsExt, Functions

CONSTANTS
    Calls,          \* slots for requests under way
    MaxCalls,       \* bound: requests in a behaviour
    MaxIssued       \* bound: links and codes generated

ASSUME AccountsAssumption == MaxCalls \in Nat /\ MaxIssued \in Nat

VARIABLES
    \* The user document.
    doc,
    \* A request: its progress, the document it read, the paths it is to
    \* write, the link or code it generates or was given, and whether it ends
    \* with a session (a JWT without a purpose).  History: the status that its
    \* handler decided on, if it did.
    stage, seen, intent, code, grants, ruling,
    \* Links and codes: how many were generated, which reached their user,
    \* which are too old.
    issued, mailed, expired,
    \* Does the user hold a session, or a token to complete the profile with?
    session, invited,
    calls,
    \* History: the last decision on the status whose call succeeded; whether
    \* an administrator ever activated the account; how many sessions each code
    \* opened; the kinds of calls that saved over a change they had not seen.
    decided, approvedOnce, uses, crossed

callVars == <<stage, seen, intent, code, grants, ruling>>
tokenVars == <<issued, mailed, expired>>
historyVars == <<decided, approvedOnce, uses, crossed>>
vars == <<doc, callVars, tokenVars, session, invited, calls, historyVars>>

---------------------------------------------------------------------------
Statuses == {"NONE", "PENDING", "ACTIVE", "REJECTED"}
Roles == {"CUSTOMER", "SUPERVISOR", "ADMIN"}
Serials == 1..MaxIssued

\* What the document says of the account.  Status NONE: there is no document.
\* link and challenge are the serials of the link mailed to verify the address
\* and of the code of the second factor (0: none); permitted is a non-empty list
\* of permissions; approved and rejected are approvedBy and rejectedBy.
UserDocument ==
    [status : Statuses, verified : BOOLEAN, link : 0..MaxIssued,
     password : BOOLEAN, google : BOOLEAN, phone : BOOLEAN,
     role : Roles, permitted : BOOLEAN, deleted : BOOLEAN,
     approved : BOOLEAN, rejected : BOOLEAN,
     second : BOOLEAN, challenge : 0..MaxIssued,
     api : BOOLEAN, token : BOOLEAN]

Fields == DOMAIN doc

Fresh(verified, password, phone, link) ==
    [status |-> "PENDING", verified |-> verified, link |-> link,
     password |-> password, google |-> ~password, phone |-> phone,
     role |-> "CUSTOMER", permitted |-> FALSE, deleted |-> FALSE,
     approved |-> FALSE, rejected |-> FALSE, second |-> FALSE,
     challenge |-> 0, api |-> FALSE, token |-> FALSE]

NoAccount == [Fresh(FALSE, FALSE, FALSE, 0) EXCEPT !.status = "NONE"]

\* An account approved long ago.
Member(role, second) ==
    [Fresh(TRUE, TRUE, TRUE, 0) EXCEPT
        !.status = "ACTIVE", !.approved = TRUE, !.role = role,
        !.permitted = role = "SUPERVISOR", !.second = second]

Nothing == [f \in {} |-> FALSE]

TypeOK ==
    /\ doc \in UserDocument
    /\ stage \in [Calls -> {"idle", "admitted", "creating", "saving"}]
    /\ seen \in [Calls -> UserDocument]
    /\ DOMAIN intent = Calls
    /\ \A c \in Calls : DOMAIN intent[c] \subseteq DOMAIN doc
    /\ code \in [Calls -> 0..MaxIssued] /\ grants \in [Calls -> BOOLEAN]
    /\ DOMAIN ruling = Calls
    /\ \A c \in Calls : \A f \in DOMAIN ruling[c] : ruling[c][f] \in Statuses
    /\ issued \in 0..MaxIssued
    /\ mailed \subseteq Serials /\ expired \subseteq Serials
    /\ session \in BOOLEAN /\ invited \in BOOLEAN
    /\ calls \in 0..MaxCalls
    /\ decided \in Statuses /\ approvedOnce \in BOOLEAN
    /\ uses \in [Serials -> Nat]
    /\ crossed \subseteq {"status", "verdict", "role", "code"}
    \* Relations that the field types leave open.
    /\ doc.link # 0 => doc.link <= issued
    /\ doc.api => doc.token
    /\ mailed \subseteq 1..issued

Init ==
    /\ doc \in {NoAccount} \cup
               {Member(r, s) : r \in {"CUSTOMER", "SUPERVISOR"}, s \in BOOLEAN}
    /\ stage = [c \in Calls |-> "idle"]
    /\ seen = [c \in Calls |-> NoAccount]
    /\ intent = [c \in Calls |-> Nothing]
    /\ code = [c \in Calls |-> 0] /\ grants = [c \in Calls |-> FALSE]
    /\ ruling = [c \in Calls |-> Nothing]
    /\ issued = 0 /\ mailed = {} /\ expired = {}
    /\ session = FALSE /\ invited = FALSE
    /\ calls = 0
    /\ decided = doc.status /\ approvedOnce = (doc.status = "ACTIVE")
    /\ uses = [n \in Serials |-> 0] /\ crossed = {}

---------------------------------------------------------------------------
(* A request begins.  Its own account's requests pass authenticate first.  *)

Registered == doc.status # "NONE"

Arrive(c) == stage[c] = "idle" /\ calls < MaxCalls /\ calls' = calls + 1

Admit(c) ==
    /\ Arrive(c)
    /\ session /\ doc.status = "ACTIVE"
    /\ stage' = [stage EXCEPT ![c] = "admitted"]
    /\ UNCHANGED <<doc, seen, intent, code, grants, ruling, tokenVars, session,
                   invited, historyVars>>

\* The handler is reached: by its user, or by anyone and by administrators.
ByUser(c) == stage[c] = "admitted" /\ UNCHANGED calls
ByAnyone(c) == Arrive(c)
ByAdmin(c) == Arrive(c) /\ Registered

\* Paths of w that a save would write, if those of blind were not selected.
Modified(w, blind) ==
    Restrict(w, {f \in DOMAIN w : f \in blind \/ w[f] # doc[f]})

\* What w says of the status, if anything.
Ruling(w) == Restrict(w, DOMAIN w \cap {"status"})

\* The document is read, and w is what the handler sets.  With a new serial n,
\* or with the one it was given.
Handle(c, w, blind, n, grant) ==
    /\ stage' = [stage EXCEPT ![c] = "saving"]
    /\ seen' = [seen EXCEPT ![c] = doc]
    /\ intent' = [intent EXCEPT ![c] = Modified(w, blind)]
    /\ code' = [code EXCEPT ![c] = n]
    /\ grants' = [grants EXCEPT ![c] = grant]
    /\ ruling' = [ruling EXCEPT ![c] = Ruling(w)]
    /\ UNCHANGED <<doc, mailed, expired, session, invited, historyVars>>

Set(c, w) == Handle(c, w, {}, 0, FALSE) /\ UNCHANGED issued
Use(c, w, n, grant) == Handle(c, w, {}, n, grant) /\ UNCHANGED issued
Issue(c, w) ==
    /\ issued < MaxIssued
    /\ issued' = issued + 1
    /\ Handle(c, w, {}, issued + 1, FALSE)

\* The account is to be inserted.
Create(c, new, n) ==
    /\ ~Registered
    /\ stage' = [stage EXCEPT ![c] = "creating"]
    /\ seen' = [seen EXCEPT ![c] = doc]
    /\ intent' = [intent EXCEPT ![c] = new]
    /\ code' = [code EXCEPT ![c] = n]
    /\ grants' = [grants EXCEPT ![c] = FALSE]
    /\ UNCHANGED <<doc, ruling, mailed, expired, session, invited, historyVars>>

---------------------------------------------------------------------------
(* Registration and the address.                                           *)

Register(c) ==
    /\ ByAnyone(c)
    /\ issued < MaxIssued /\ issued' = issued + 1
    /\ Create(c, Fresh(FALSE, TRUE, TRUE, issued + 1), issued + 1)

VerifyEmail(c, n) ==
    /\ ByAnyone(c)
    /\ n \in mailed \ expired /\ doc.link = n
    /\ Use(c, [verified |-> TRUE, link |-> 0], n, FALSE)

ResendVerification(c) ==
    /\ ByAnyone(c)
    /\ Registered /\ ~doc.verified
    /\ Issue(c, [link |-> issued + 1])

---------------------------------------------------------------------------
(* Login with a password, and the second factor.                           *)

MayLogIn == doc.verified /\ doc.status = "ACTIVE" /\ doc.password

LoginPassword(c) ==
    /\ ByAnyone(c)
    /\ MayLogIn /\ ~doc.second
    /\ Use(c, Nothing, 0, TRUE)

LoginChallenge(c) ==
    /\ ByAnyone(c)
    /\ MayLogIn /\ doc.second
    /\ Issue(c, [challenge |-> issued + 1])

ChallengeHolds(n) == n \in mailed \ expired /\ doc.challenge = n

\* Mutant: the code that was used stays.
ClearNothing == Nothing

\* clearTwoFactorChallenge.
Cleared == [challenge |-> 0]

Verify2FA(c, n) ==
    /\ ByAnyone(c)
    /\ doc.status = "ACTIVE" /\ ChallengeHolds(n)
    /\ Use(c, Cleared, n, TRUE)

Generate2FA(c) ==
    /\ ByUser(c)
    /\ Issue(c, [challenge |-> issued + 1])

Enable2FA(c, n) ==
    /\ ByUser(c)
    /\ ChallengeHolds(n)
    /\ Use(c, [challenge |-> 0, second |-> TRUE], n, FALSE)

Disable2FA(c) ==
    /\ ByUser(c)
    /\ doc.password
    /\ Set(c, [challenge |-> 0, second |-> FALSE])

---------------------------------------------------------------------------
(* Google.                                                                 *)

ProfileComplete == doc.role # "CUSTOMER" \/ doc.phone

\* Mutant: an account that waits for approval gets its session at once.
GoogleGrantsToAll == doc.status # "REJECTED" /\ ProfileComplete

\* loginWithGoogle gives a session ...
GoogleGrants == doc.status = "ACTIVE" /\ ProfileComplete

\* ... or a token to complete the profile with.
GoogleInvites(d) == d.status # "REJECTED" /\ d.role = "CUSTOMER" /\ ~d.phone

GoogleCreate(c) ==
    /\ ByAnyone(c)
    /\ Create(c, Fresh(TRUE, FALSE, FALSE, 0), 0)
    /\ UNCHANGED issued

GoogleLink(c) ==
    /\ ByAnyone(c)
    /\ Registered /\ ~doc.google
    /\ Use(c, [google |-> TRUE, verified |-> TRUE], 0, GoogleGrants)

GoogleReturn(c) ==
    /\ ByAnyone(c)
    /\ Registered /\ doc.google
    /\ Use(c, Nothing, 0, GoogleGrants)

CompleteGoogleProfile(c) ==
    /\ ByAnyone(c)
    /\ invited /\ doc.role = "CUSTOMER" /\ doc.status # "REJECTED"
    /\ Use(c, [phone |-> TRUE], 0, doc.status = "ACTIVE")

---------------------------------------------------------------------------
(* The user's own settings.  Staff may leave the phone number empty.       *)

UpdateMyProfile(c) ==
    /\ ByUser(c)
    /\ \/ Set(c, [phone |-> TRUE])
       \/ doc.role # "CUSTOMER" /\ Set(c, [phone |-> FALSE])
       \/ Set(c, [password |-> TRUE])

RegenerateMyApiToken(c) ==
    /\ ByUser(c)
    /\ Handle(c, [token |-> TRUE], {"token"}, 0, FALSE)
    /\ UNCHANGED issued

---------------------------------------------------------------------------
(* Administrators.                                                         *)

\* findByIdAndUpdate: every path is written.
ApproveUser(c) ==
    /\ ByAdmin(c)
    /\ doc.status # "ACTIVE"
    /\ Handle(c, [status |-> "ACTIVE", verified |-> TRUE, approved |-> TRUE,
                  rejected |-> FALSE, link |-> 0], Fields, 0, FALSE)
    /\ UNCHANGED issued

\* Mutant: the mark of an earlier approval stays.
RejectionOnly == [status |-> "REJECTED", rejected |-> TRUE]

Rejection == [status |-> "REJECTED", rejected |-> TRUE, approved |-> FALSE]

RejectUser(c) ==
    /\ ByAdmin(c)
    /\ doc.status # "REJECTED"
    /\ Set(c, Rejection)

\* Mutant: the API is opened to an account that has no token.
OpensOnly == [api |-> TRUE]

\* isApiEnabled comes with a token where there is none.
ApiOpened ==
    IF doc.token THEN [api |-> TRUE] ELSE [api |-> TRUE, token |-> TRUE]

\* updateUser of admin.users.service.js; the one of user.service.js sets api only.
\* The link is not selected, and neither is the API token.
UpdateUser(c) ==
    /\ ByAdmin(c)
    /\ \/ \E s \in {"PENDING", "REJECTED"} : Set(c, [status |-> s])
       \/ /\ Handle(c, [status |-> "ACTIVE", verified |-> TRUE, link |-> 0],
                    {"link"}, 0, FALSE)
          /\ UNCHANGED issued
       \/ \E v \in BOOLEAN : Set(c, [verified |-> v])
       \/ /\ doc.role = "SUPERVISOR"
          /\ \E p \in BOOLEAN : Set(c, [permitted |-> p])
       \/ Handle(c, ApiOpened, {"token"}, 0, FALSE) /\ UNCHANGED issued
       \/ Set(c, [api |-> FALSE])

DeleteUser(c) ==
    /\ ByAdmin(c)
    /\ ~doc.deleted /\ doc.role # "ADMIN"
    /\ Set(c, [deleted |-> TRUE, status |-> "REJECTED"])

RestoreUser(c) ==
    /\ ByAdmin(c)
    /\ doc.deleted
    /\ Set(c, [deleted |-> FALSE, status |-> "ACTIVE"])

\* Mutant: the permissions outlive the role.
KeptPermissions(r) == {doc.permitted}

\* The permissions an account has after its role is set to r: those of the
\* request or else its own as a supervisor, and none in another role.
PermissionsIn(r) ==
    IF r # "SUPERVISOR" THEN {FALSE}
    ELSE {TRUE, FALSE, doc.role = "SUPERVISOR" /\ doc.permitted}

UpdateUserRole(c) ==
    /\ ByAdmin(c)
    /\ ~doc.deleted
    /\ \E r \in Roles : \E p \in PermissionsIn(r) :
           Set(c, [role |-> r, permitted |-> p])

UpdateSupervisorPermissions(c) ==
    /\ ByAdmin(c)
    /\ ~doc.deleted /\ doc.role = "SUPERVISOR"
    /\ \E p \in BOOLEAN : Set(c, [permitted |-> p])

ResetUserPassword(c) ==
    /\ ByAdmin(c)
    /\ Handle(c, [password |-> TRUE], {"password"}, 0, FALSE)
    /\ UNCHANGED issued

---------------------------------------------------------------------------
(* The save, and what the request answers after it.                        *)

\* The paths whose values other calls changed since c read the document.
Overtaken(c) == {f \in DOMAIN doc : seen[c][f] # doc[f]}

Writes(c) == DOMAIN intent[c]

\* The document c has in mind.  Mutant: it is written whole.
WholeDocument(c) ==
    [f \in DOMAIN doc |-> IF f \in Writes(c) THEN intent[c][f] ELSE seen[c][f]]

Merged(c) ==
    [f \in DOMAIN doc |-> IF f \in Writes(c) THEN intent[c][f] ELSE doc[f]]

Verdict == {"status", "approved", "rejected"}
RoleFields == {"role", "permitted"}

Rules(c) == "status" \in DOMAIN ruling[c]

\* Kinds of saves that were decided on values that are no longer there.  The kind
\* status: the call found the status it decides on and leaves it out of what it
\* writes, but by now there is another.
Crossing(c) ==
    {k \in {"verdict", "role"} :
        LET own == IF k = "verdict" THEN Verdict ELSE RoleFields
        IN  Writes(c) \cap own # {} /\ Overtaken(c) \cap own # {}}
    \cup {k \in {"status"} : Rules(c) /\ k \in Overtaken(c) \ Writes(c)}
    \cup {k \in {"code"} : grants[c] /\ code[c] # 0
                           /\ "challenge" \in Overtaken(c)}

End(c) ==
    /\ stage' = [stage EXCEPT ![c] = "idle"]
    /\ seen' = [seen EXCEPT ![c] = NoAccount]
    /\ intent' = [intent EXCEPT ![c] = Nothing]
    /\ code' = [code EXCEPT ![c] = 0]
    /\ grants' = [grants EXCEPT ![c] = FALSE]
    /\ ruling' = [ruling EXCEPT ![c] = Nothing]
    /\ UNCHANGED <<issued, expired, calls>>

\* A mail that carries the new serial arrives or is lost.
Mail(c) ==
    IF code[c] # 0 /\ code[c] \in {intent[c][f] : f \in Writes(c) \cap
                                                     {"link", "challenge"}}
    THEN mailed' \in {mailed, mailed \cup {code[c]}}
    ELSE UNCHANGED mailed

Save(c) ==
    /\ stage[c] = "saving"
    /\ doc' = Merged(c)
    /\ Mail(c)
    /\ session' = (session \/ grants[c])
    /\ invited' = \/ invited
                  \/ /\ seen[c].google \/ "google" \in Writes(c)
                     /\ GoogleInvites(seen[c])
    /\ uses' = IF grants[c] /\ code[c] # 0
               THEN [uses EXCEPT ![code[c]] = @ + 1] ELSE uses
    /\ decided' = IF Rules(c) THEN ruling[c].status ELSE decided
    /\ approvedOnce' = \/ approvedOnce
                       \/ "status" \in Writes(c) /\ intent[c].status = "ACTIVE"
    /\ crossed' = crossed \cup Crossing(c)
    /\ End(c)

\* User.create, under the unique index on the address.
Insert(c) ==
    /\ stage[c] = "creating"
    /\ IF Registered
       THEN UNCHANGED <<doc, mailed, invited, decided>>
       ELSE /\ doc' = intent[c]
            /\ Mail(c)
            /\ invited' = GoogleInvites(intent[c])
            /\ decided' = "PENDING"
    /\ UNCHANGED <<session, approvedOnce, uses, crossed>>
    /\ End(c)

\* An error of the database, or the process ends: nothing was written.
Fail(c) ==
    /\ stage[c] # "idle"
    /\ End(c)
    /\ UNCHANGED <<doc, mailed, session, invited, historyVars>>

\* 24 hours pass for a link, 10 minutes for a code.
Expire(n) ==
    /\ n \in {doc.link, doc.challenge} \ (expired \cup {0})
    /\ expired' = expired \cup {n}
    /\ UNCHANGED <<doc, callVars, issued, mailed, session, invited, calls,
                   historyVars>>

---------------------------------------------------------------------------
Authentication(c) ==
    \/ Register(c) \/ ResendVerification(c)
    \/ \E n \in Serials : VerifyEmail(c, n) \/ Verify2FA(c, n) \/ Enable2FA(c, n)
    \/ LoginPassword(c) \/ LoginChallenge(c)
    \/ Generate2FA(c) \/ Disable2FA(c)
    \/ GoogleCreate(c) \/ GoogleLink(c) \/ GoogleReturn(c)
    \/ CompleteGoogleProfile(c)

Settings(c) == UpdateMyProfile(c) \/ RegenerateMyApiToken(c)

Administration(c) ==
    \/ ApproveUser(c) \/ RejectUser(c) \/ UpdateUser(c)
    \/ DeleteUser(c) \/ RestoreUser(c)
    \/ UpdateUserRole(c) \/ UpdateSupervisorPermissions(c)
    \/ ResetUserPassword(c)

Next ==
    \/ \E c \in Calls :
        \/ Admit(c) \/ Authentication(c) \/ Settings(c) \/ Administration(c)
        \/ Save(c) \/ Insert(c) \/ Fail(c)
    \/ \E n \in Serials : Expire(n)

Spec == Init /\ [][Next]_vars

---------------------------------------------------------------------------
\* The status is the one that the last successful call decided on: registration,
\* or an administrator who approved, rejected, updated, deleted or restored the
\* account (user.service.js:102, 152, admin.users.service.js:172, 228, 288).  No
\* other handler's save, begun before the decision and ended after it, brings the
\* old status back.  A decision is lost in one way only: its call found the status
\* that it wanted, so that Mongoose left it out of the save, while another call
\* changed it (a rejected account deleted while it is approved stays active).
DecisionStands == doc.status = decided \/ "status" \in crossed

\* A session is given only for an account that an administrator activated at some
\* time, whichever way in its user took: password, code, Google or completion of
\* the profile (auth.service.js:17).
SessionsAreEarned ==
    /\ session => approvedOnce
    /\ \A c \in Calls : grants[c] => approvedOnce

\* approvedBy and rejectedBy are not both set, unless a call that writes the
\* verdict saved over one it had not seen (user.service.js:181).
OneVerdict == doc.approved /\ doc.rejected => "verdict" \in crossed

\* Permissions are a supervisor's, unless a call that writes the role or the
\* permissions saved over a change of them that it had not seen.
PermissionsOfSupervisors ==
    doc.permitted => doc.role = "SUPERVISOR" \/ "role" \in crossed

\* A code of the second factor opens one session, unless two requests that bring
\* it are under way at once.
CodeOpensOnce == (\E n \in Serials : uses[n] > 1) => "code" \in crossed

---------------------------------------------------------------------------
(* The inductive invariant behind the last three and the types.             *)

\* There is a document or there is not; no request of a registered account is
\* under way without one, nor an invitation.
DocumentInv ==
    /\ ~Registered => doc = NoAccount /\ ~invited
    /\ doc.challenge <= issued
    /\ \A c \in Calls : stage[c] \in {"admitted", "saving"} => Registered
    /\ \A c \in Calls : stage[c] # "saving" => ~grants[c]

\* What a new account is inserted with.
NewcomersInv ==
    \A c \in Calls : stage[c] = "creating" =>
        /\ intent[c] \in UserDocument
        /\ intent[c].status = "PENDING"
        /\ intent[c].link <= issued /\ intent[c].challenge = 0
        /\ ~intent[c].approved /\ ~intent[c].permitted /\ ~intent[c].api

\* What a handler is to write goes with what it read: the document it has in mind
\* is whole, and right where the handler has a say.
PlansInv ==
    \A c \in Calls : stage[c] = "saving" =>
        LET planned == WholeDocument(c) IN
        /\ planned \in UserDocument
        /\ "status" \in Writes(c) => planned.status # "NONE"
        /\ "link" \in Writes(c) => planned.link <= issued
        /\ "token" \in Writes(c) => planned.token
        /\ "api" \in Writes(c) /\ planned.api => "token" \in Writes(c) \/ doc.token
        /\ Writes(c) \cap {"approved", "rejected"} # {}
              => ~(planned.approved /\ planned.rejected)
        /\ Writes(c) \cap RoleFields # {}
              => (planned.permitted => planned.role = "SUPERVISOR")

\* The calls that are to store a code they have generated.
Storing(c) == stage[c] = "saving" /\ "challenge" \in Writes(c)
                                  /\ intent[c].challenge # 0

\* Unless two requests brought a code at once: a code is stored once, and when it
\* has opened a session it is gone from the document.
CodesInv ==
    /\ \A c \in Calls : grants[c] /\ code[c] # 0 =>
          /\ code[c] \in 1..issued
          /\ seen[c].challenge = code[c]
          /\ "challenge" \in Writes(c) /\ intent[c].challenge = 0
    /\ \A c \in Calls : Storing(c) => intent[c].challenge \in 1..issued
    /\ \A n \in Serials : n > issued => uses[n] = 0
    /\ "code" \notin crossed =>
          /\ \A n \in Serials : uses[n] <= 1
          /\ doc.challenge # 0 => uses[doc.challenge] = 0
          /\ \A c \in Calls : Storing(c) =>
                /\ doc.challenge # intent[c].challenge
                /\ uses[intent[c].challenge] = 0
                /\ \A d \in Calls \ {c} :
                      Storing(d) => intent[d].challenge # intent[c].challenge

===========================================================================
