--------------------------- MODULE ServicesProofs ---------------------------
(***************************************************************************)
(* Eight components side by side: each runs as its own module says, so     *)
(* what was proved of it alone holds of the whole, for any values of the   *)
(* constants the components are proved for.                                *)
(***************************************************************************)
EXTENDS MCServices, MiddlewareProofs, ConsumersProofs, RecordsProofs, TLAPS

servicesVars == <<gatewayVars, accountVars, catalogueVars, idempotencyVars, providerVars,
                  sagaVars, ticketVars, newsVars, part>>

\* A step of the whole is, for each component, one of its own or none.
LEMMA PartsMove ==
  ASSUME [ServicesNext]_servicesVars
  PROVE  /\ [GatewayNext]_gatewayVars /\ [AccountsNext]_accountVars
         /\ [CatalogueNext]_catalogueVars /\ [IdempotencyNext]_idempotencyVars
         /\ [PaymentProviderNext]_providerVars /\ [SagaNext]_sagaVars
         /\ [TicketsNext]_ticketVars /\ [NotificationsNext]_newsVars
BY DEF ServicesNext, servicesVars

\* The composition runs the gateway, the accounts, the catalogue, the idempotency
\* library, the payment providers, the saga, the tickets and the notifications, and
\* takes from none of them a step it could not take alone.
THEOREM ServicesRunTheParts ==
  ServicesSpec => /\ GatewaySpec /\ AccountsSpec /\ CatalogueSpec /\ IdempotencySpec
                  /\ PaymentProviderSpec /\ SagaSpec /\ TicketsSpec /\ NotificationsSpec
<1>1. ServicesInit => /\ GatewayInit /\ AccountsInit /\ CatalogueInit /\ IdempotencyInit
                      /\ PaymentProviderInit /\ SagaInit /\ TicketsInit /\ NotificationsInit
  BY DEF ServicesInit
<1>2. ServicesSpec => ServicesInit /\ [][ServicesNext]_servicesVars
  BY DEF ServicesSpec, servicesVars
<1> QED
  BY <1>1, <1>2, PartsMove, PTL
     DEF GatewaySpec, AccountsSpec, CatalogueSpec, IdempotencySpec, PaymentProviderSpec, SagaSpec,
         TicketsSpec, NotificationsSpec

\* ServicesTypeOK: the state of every one of the eight keeps its type.
THEOREM ServicesTyped == ServicesSpec => []ServicesTypeOK
<1>1. AccountsInv => AccountsTypeOK
  BY DEF AccountsInv
<1>2. CatalogueInv => CatalogueTypeOK
  BY DEF CatalogueInv
<1>3. ProviderInv => PaymentProviderTypeOK
  BY DEF ProviderInv
<1>4. /\ GatewayTypeOK /\ AccountsTypeOK /\ CatalogueTypeOK /\ IdempotencyTypeOK
      /\ PaymentProviderTypeOK /\ SagaTypeOK /\ TicketsTypeOK /\ NotificationsTypeOK
      => ServicesTypeOK
  BY DEF ServicesTypeOK
<1> QED
  BY <1>1, <1>2, <1>3, <1>4, ServicesRunTheParts, GatewayTyped, AccountsInvariance,
     CatalogueInvariance, IdempotencyTyped, ProviderInvariance, SagaTypes, TicketsTypes,
     NotificationsTypes, PTL

\* What a run checks of the eight holds of them whatever the constants are.
ServicesSafe ==
  /\ ForgettingIsHarmless /\ ProxiedCallsLand
  /\ SpentOnce /\ CookieIsKnown
  /\ NoDuplicates /\ JourneysAreWhole /\ SearchesBracketTheTruth
  /\ NeverTogether
  /\ SuccessIsReal
  /\ RefundedOnce
  /\ AckedHasTicket /\ TicketIsPrinted /\ BoardsOnce
  /\ AckedIsSettled /\ MailedOnce

\* Every safety property of the eight components, of the composition.
THEOREM ServicesAreSafe == ServicesSpec => []ServicesSafe /\ ActsAsOffice
<1>1. /\ ForgettingIsHarmless /\ ProxiedCallsLand
      /\ SpentOnce /\ CookieIsKnown
      /\ NoDuplicates /\ JourneysAreWhole /\ SearchesBracketTheTruth
      /\ NeverTogether /\ SuccessIsReal /\ RefundedOnce
      /\ AckedHasTicket /\ TicketIsPrinted /\ BoardsOnce
      /\ AckedIsSettled /\ MailedOnce
      => ServicesSafe
  BY DEF ServicesSafe
<1> QED
  BY <1>1, ServicesRunTheParts, Harmless, CallsLand, TokensAreSpentOnce, CookiesAreKnown,
     NothingIsDoubled, NoJourneyIsBroken, SearchesAgree, Alone, NoSuccessIsMadeUp, OneRefund,
     NoConfirmationLost, TicketsArePrinted, OneEntry, NewsAreSettled, OneMail, ImplementsOffice, PTL
=============================================================================
