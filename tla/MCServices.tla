----------------------------- MODULE MCServices -----------------------------
(***************************************************************************)
(* Eight components that share no state with one another.  A behaviour is  *)
(* one of one of them, while the others rest as they start.                *)
(***************************************************************************)
EXTENDS Gateway, Accounts, Catalogue, Idempotency, PaymentProvider, BookingSaga, Tickets,
        Notifications

CONSTANTS s1, s2, s3

VARIABLE part

Parts == {"gateway", "accounts", "catalogue", "idempotency", "provider", "saga", "tickets",
          "notifications"}

MCVisits == {<<s1, s2, s3>>, <<s3, s2>>}
MCPostRegimes == {{}, {"slow"}, {"redis", "errors"}, {"redis", "errors", "crash"}}
MCSagaRegimes == {{"side", "errors", "crash"}}
MCTicketRegimes == {{"errors", "crash", "gates"}, {"errors", "crash"}, {"reconnect"}, {"draws"}}
MCNewsRegimes == {{"noTable"}, {"provider", "writes", "resend"}, {"provider", "writes", "crash"}, {"unset"}}

ServicesInit ==
  /\ GatewayInit /\ AccountsInit /\ CatalogueInit /\ IdempotencyInit /\ PaymentProviderInit
  /\ SagaInit /\ TicketsInit /\ NotificationsInit
  /\ part \in Parts
  /\ part # "accounts" => ~crashes
  /\ part # "catalogue" => ~overlap
  /\ part # "idempotency" => postPerils = {}
  /\ part # "provider" => provider = "MOCK" /\ ~configured
  /\ part # "saga" => \A b \in Bookings : booking[b] = "CONFIRMED"
  /\ part # "tickets" => ticketPerils = {"reconnect"}
  /\ part # "notifications" => newsPerils = {"noTable"}

ServicesNext ==
  /\ \/ part = "gateway" /\ GatewayNext
     \/ part # "gateway" /\ UNCHANGED gatewayVars
  /\ \/ part = "accounts" /\ AccountsNext
     \/ part # "accounts" /\ UNCHANGED accountVars
  /\ \/ part = "catalogue" /\ CatalogueNext
     \/ part # "catalogue" /\ UNCHANGED catalogueVars
  /\ \/ part = "idempotency" /\ IdempotencyNext
     \/ part # "idempotency" /\ UNCHANGED idempotencyVars
  /\ \/ part = "provider" /\ PaymentProviderNext
     \/ part # "provider" /\ UNCHANGED providerVars
  /\ \/ part = "saga" /\ SagaNext
     \/ part # "saga" /\ UNCHANGED sagaVars
  /\ \/ part = "tickets" /\ TicketsNext
     \/ part # "tickets" /\ UNCHANGED ticketVars
  /\ \/ part = "notifications" /\ NotificationsNext
     \/ part # "notifications" /\ UNCHANGED newsVars
  /\ UNCHANGED part

ServicesSpec ==
  ServicesInit
  /\ [][ServicesNext]_<<gatewayVars, accountVars, catalogueVars, idempotencyVars, providerVars,
                        sagaVars, ticketVars, newsVars, part>>

\* The state of each of the eight components has its type.
ServicesTypeOK ==
  /\ GatewayTypeOK /\ AccountsTypeOK /\ CatalogueTypeOK /\ IdempotencyTypeOK
  /\ PaymentProviderTypeOK /\ SagaTypeOK /\ TicketsTypeOK /\ NotificationsTypeOK
=============================================================================
