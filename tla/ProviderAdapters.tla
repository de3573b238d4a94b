-------------------------- MODULE ProviderAdapters --------------------------
(***************************************************************************)
(* What the adapters make of a provider's answers: the class chosen for a  *)
(* provider, the result of placeOrder, the status a check reports, and the *)
(* order status it stands for.                                             *)
(*                                                                         *)
(* Sources: adapters/*.adapter.js, adapters/adapter.factory.js and         *)
(* statusMapper.js of src/src/modules/providers.                           *)
(***************************************************************************)

\* The canonical words, and the one for every string statusMapper does not
\* know.  A word stands for all its spellings: Completed for done, ok, accept...
Verdicts == {"Pending", "Completed", "Cancelled", "Partial", "Failed"}
Words == Verdicts \cup {"Unlisted"}

\* The body of an accepted placement carries a word or none (Silent); the others
\* are success=false, success without an order id, and a failed call: a timeout,
\* a lost connection, an HTTP error.
Answers == Words \cup {"Silent", "Refused", "NoId", "Lost"}

\* What the platform makes of one of the words.
\* Mutant: the spelling of the provider is stored.
toInternalStatusMisspelt(v) ==
    CASE v = "Completed" -> "COMPLETED"
      [] v = "Cancelled" -> "CANCELLED"
      [] v = "Partial"   -> "PARTIAL"
      [] v = "Failed"    -> "FAILED"
      [] OTHER           -> "PROCESSING"

toInternalStatus(v) ==
    CASE v = "Completed" -> "COMPLETED"
      [] v = "Cancelled" -> "CANCELED"
      [] v = "Partial"   -> "PARTIAL"
      [] v = "Failed"    -> "FAILED"
      [] OTHER           -> "PROCESSING"

isTerminal(v) == toInternalStatus(v) # "PROCESSING"

---------------------------------------------------------------------------
\* Providers by slug, or by name; "plugin" is a class added by registerAdapter.
Slugs == {"royal-crown", "toros", "alkasr", "unlisted", "plugin"}

\* An unlisted provider is served by the mock, which calls nobody.
getProviderAdapter(slug) == IF slug = "unlisted" THEN "mock" ELSE slug

\* Royal Crown and Toros hand the provider's word on.  statusMapper treats a
\* word it does not know as Pending.
\* Mutant: it treats it as Cancelled.
PassedOnDistrusts(word) == IF word = "Unlisted" THEN "Cancelled" ELSE word

PassedOn(word) == IF word = "Unlisted" THEN "Pending" ELSE word

\* Alkasr has words for two verdicts; everything else is Cancelled, spellings
\* that only statusMapper lists (delivered, new) included: they are Unlisted here.
normaliseAlkasrStatus(word) ==
    IF word \in {"Completed", "Pending"} THEN word ELSE "Cancelled"

\* The axios interceptor rejects a failed call with an Error that placeOrder
\* catches: it never throws, and Lost and NoId are rejections like Refused.  The
\* properties keep the three apart: only of a refusal is it known that the
\* provider did not take the order.
Failure(answer) ==
    CASE answer = "Lost" -> "Cut"
      [] answer = "NoId" -> "Unnamed"
      [] OTHER           -> "Rejected"

RoyalCrownPlaceOrder(answer) ==
    CASE answer \in Words    -> PassedOn(answer)
      [] answer = "Silent"   -> "Pending"
      [] OTHER               -> Failure(answer)

TorosPlaceOrder(answer) ==
    CASE answer \in Words    -> PassedOn(answer)
      [] answer = "Silent"   -> "Pending"
      [] OTHER               -> Failure(answer)

\* Without a status of the order, that of the envelope is taken, which is OK.
AlkasrPlaceOrder(answer) ==
    CASE answer \in Words    -> normaliseAlkasrStatus(answer)
      [] answer = "Silent"   -> normaliseAlkasrStatus("Completed")
      [] OTHER               -> Failure(answer)

MockPlaceOrder(answer) == "Pending"

placeOrder(slug, answer) ==
    LET adapter == getProviderAdapter(slug) IN
    CASE adapter = "royal-crown" -> RoyalCrownPlaceOrder(answer)
      [] adapter = "toros"       -> TorosPlaceOrder(answer)
      [] adapter = "alkasr"      -> AlkasrPlaceOrder(answer)
      [] adapter = "mock"        -> MockPlaceOrder(answer)
      [] OTHER -> IF answer = "Lost" THEN "Threw"
                                     ELSE RoyalCrownPlaceOrder(answer)

---------------------------------------------------------------------------
\* checkOrders, for one order of the batch.
RoyalCrownCheckOrders(word) == PassedOn(word)
TorosCheckOrders(word) == PassedOn(word)
AlkasrCheckOrders(word) == normaliseAlkasrStatus(word)
MockCheckOrders(word) == "Pending"

checkOrders(slug, word) ==
    LET adapter == getProviderAdapter(slug) IN
    CASE adapter = "toros"  -> TorosCheckOrders(word)
      [] adapter = "alkasr" -> AlkasrCheckOrders(word)
      [] adapter = "mock"   -> MockCheckOrders(word)
      [] OTHER              -> RoyalCrownCheckOrders(word)

===========================================================================
