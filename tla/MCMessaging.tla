----------------------------- MODULE MCMessaging -----------------------------
(***************************************************************************)
(* What must end, or come, in the end: the booking saga and its calls, the *)
(* two consumers of booking.confirmed, and the search cache.  A behaviour  *)
(* is one of one of them, while the three others rest as they start.       *)
(***************************************************************************)
EXTENDS BookingSaga, Tickets, Notifications, SearchCache

CONSTANTS s1, s2

VARIABLE part

MCSagaRegimes == {{"errors", "crash", "timeout"}}
MCTicketRegimes == {{"errors", "crash", "gates"}}
MCNewsRegimes == {{"noTable"}, {"provider", "resend"}, {"provider", "writes", "crash"}, {"unset"}}
MCVisits == {<<s1, s2>>}
MCCacheKeys == {<<"journey", s1, s2, 0, 1, 1>>, <<"journey", s1, s2, 0, 2, 1>>, <<"stations">>}

MessagingInit ==
  /\ SagaInit /\ TicketsInit /\ NotificationsInit /\ CatalogueInit /\ SearchInit
  /\ part \in {"saga", "tickets", "notifications", "search"}
  /\ part # "saga" => \A b \in Bookings : booking[b] = "CONFIRMED"
  /\ part # "notifications" => newsPerils = {"noTable"}

MessagingNext ==
  /\ \/ part = "saga" /\ SagaNext
     \/ part # "saga" /\ UNCHANGED sagaVars
  /\ \/ part = "tickets" /\ TicketsNext
     \/ part # "tickets" /\ UNCHANGED ticketVars
  /\ \/ part = "notifications" /\ NotificationsNext
     \/ part # "notifications" /\ UNCHANGED newsVars
  /\ \/ part = "search" /\ SearchNext
     \/ part # "search" /\ UNCHANGED <<catalogueVars, searchVars>>
  /\ UNCHANGED part

MessagingSpec ==
  /\ MessagingInit
  /\ [][MessagingNext]_<<sagaVars, ticketVars, newsVars, catalogueVars, searchVars, part>>
  /\ SagaFairness /\ TicketsFairness /\ NotificationsFairness /\ SearchFairness
=============================================================================
