---------------------------- MODULE PaymentProvider ----------------------------
(***************************************************************************)
(* The payment service's way to the provider: GatewayService, which plays  *)
(* one itself (MOCK) or calls SSLCommerz, and the callbacks that come      *)
(* back, which are only answered: no payment row changes (see Payments).   *)
(*                                                                         *)
(* SSLCommerz is an outside service, known by the calls made to it.  An    *)
(* axios call may end in an error with or without its effect.              *)
(***************************************************************************)
EXTENDS Integers, FiniteSets

CONSTANTS
  Txns,        \* transaction ids; each has one validation id and one bank id
  Providers,   \* PAYMENT_GATEWAY_PROVIDER: subset of {"MOCK", "SSLCOMMERZ"}
  Configured,  \* are there SSLCommerz credentials: subset of BOOLEAN
  MaxUnder     \* bound: calls to SSLCommerz at a time

ASSUME PaymentProviderAssumption ==
  /\ Providers \subseteq {"MOCK", "SSLCOMMERZ"} /\ Configured \subseteq BOOLEAN
  /\ MaxUnder \in Nat \ {0}

VARIABLES
  provider,
  configured,
  session,   \* at SSLCommerz: a transaction, from its page to its payment
  returned,  \* at SSLCommerz: transactions refunded
  under,     \* calls to SSLCommerz that were not answered: kind, id it is about, id to answer for
  told       \* observer: the last answer: kind, id it was about, id it names, status

providerVars == <<provider, configured, session, returned, under, told>>

Kinds == {"initiate", "validate", "status", "refund"}
PaymentProviderTypeOK ==
  /\ provider \in Providers /\ configured \in Configured
  /\ session \in [Txns -> {"none", "open", "paid", "failed"}]
  /\ returned \subseteq Txns
  /\ under \subseteq Kinds \X Txns \X Txns
  /\ told \in {<<>>} \cup Kinds \X Txns \X Txns \X {"COMPLETED", "FAILED", "PENDING", "received"}

PaymentProviderInit ==
  /\ provider \in Providers /\ configured \in Configured
  /\ session = [t \in Txns |-> "none"]
  /\ returned = {} /\ under = {} /\ told = <<>>

-----------------------------------------------------------------------------
\* What a mock answers at once, and what an SSLCommerz call without credentials does.
Ask(kind, about, name, mock) ==
  /\ IF provider = "SSLCOMMERZ" /\ configured
     THEN /\ Cardinality(under) < MaxUnder
          /\ under' = under \cup {<<kind, about, name>>}
          /\ UNCHANGED told
     ELSE /\ told' = <<kind, about, name, IF provider = "MOCK" THEN mock ELSE "FAILED">>
          /\ UNCHANGED under
  /\ UNCHANGED <<provider, configured, session, returned>>

\* Transaction ids are fresh.
ProcessPayment(t) ==
  /\ session[t] = "none" /\ \A c \in under : c[1] = "initiate" => c[2] # t
  /\ \E mock \in {"COMPLETED", "FAILED"} : Ask("initiate", t, t, mock)

\* validateIPNData: the fields are there, and the status is a good one.
ValidateIPNData(fields, status) ==
  fields /\ status \in {"VALID", "VALIDATED", "SUCCESS"}

\* handleSSLCommerzIPN: anybody's notification, with a validation id and a
\* transaction id that need not belong together; they are not compared.
HandleSSLCommerzIPN(val, tran, fields, status) ==
  IF provider = "MOCK" \/ ValidateIPNData(fields, status)
  THEN Ask("validate", val, tran, "COMPLETED")
  ELSE /\ told' = <<"validate", val, tran, "received">>
       /\ UNCHANGED <<provider, configured, session, returned, under>>

\* handleWebhook verifies nothing and does nothing.
HandleWebhook(t) ==
  /\ told' = <<"status", t, t, "received">>
  /\ UNCHANGED <<provider, configured, session, returned, under>>

GetPaymentStatus(t) == Ask("status", t, t, "COMPLETED")

ProcessRefund(t) == Ask("refund", t, t, "COMPLETED")

-----------------------------------------------------------------------------
(* SSLCommerz, and what is made of its answer.                             *)

\* The customer, on the provider's page.
Pay(t, outcome) ==
  /\ session[t] = "open"
  /\ session' = [session EXCEPT ![t] = outcome]
  /\ UNCHANGED <<provider, configured, returned, under, told>>

\* Does SSLCommerz do, or say, what the call hopes for?
Agrees(c) ==
  CASE c[1] = "initiate" -> session[c[2]] = "none"
    [] c[1] = "validate" -> session[c[2]] = "paid"
    [] c[1] = "status"   -> TRUE   \* whatever it says is handed on
    [] c[1] = "refund"   -> session[c[2]] = "paid" /\ c[2] \notin returned

\* Mutant: an answer is taken for a good one.
StatusOfAny(c, agrees) == IF c[1] = "initiate" THEN "PENDING" ELSE "COMPLETED"

\* response.data.status: anything but the good one throws, and becomes FAILED.
StatusOf(c, agrees) ==
  IF ~agrees THEN "FAILED" ELSE IF c[1] = "initiate" THEN "PENDING" ELSE "COMPLETED"

\* lost: the answer does not come within the timeout of 30 s.
Provide(c, agrees, lost) ==
  /\ agrees => Agrees(c)
  /\ session' = IF agrees /\ c[1] = "initiate" THEN [session EXCEPT ![c[2]] = "open"] ELSE session
  /\ returned' = IF agrees /\ c[1] = "refund" THEN returned \cup {c[2]} ELSE returned
  /\ under' = under \ {c}
  /\ told' = <<c[1], c[2], c[3], IF lost THEN "FAILED" ELSE StatusOf(c, agrees)>>
  /\ UNCHANGED <<provider, configured>>

PaymentProviderNext ==
  \/ \E t \in Txns :
       \/ ProcessPayment(t) \/ HandleWebhook(t) \/ GetPaymentStatus(t) \/ ProcessRefund(t)
       \/ \E outcome \in {"paid", "failed"} : Pay(t, outcome)
  \/ \E val, tran \in Txns, fields \in BOOLEAN, status \in {"VALID", "FAILED"} :
       HandleSSLCommerzIPN(val, tran, fields, status)
  \/ \E c \in under, agrees, lost \in BOOLEAN : Provide(c, agrees, lost)

PaymentProviderSpec == PaymentProviderInit /\ [][PaymentProviderNext]_providerVars

-----------------------------------------------------------------------------
\* Whatever comes late, twice or from a stranger: with SSLCommerz, nothing is
\* answered as a success that did not happen there.  A payment page that is
\* announced exists, a notification that is confirmed has a validation id of a
\* payment that was made (its transaction id may be any), a refund was made.
\* The converse fails: an answer that is lost after 30 s turns a success into FAILED.
SuccessIsReal ==
  provider = "SSLCOMMERZ" /\ told # <<>> =>
    /\ told[4] = "PENDING" => session[told[2]] # "none"
    /\ told[1] = "validate" /\ told[4] = "COMPLETED" => session[told[2]] = "paid"
    /\ told[1] = "refund" /\ told[4] = "COMPLETED" => told[2] \in returned
=============================================================================
