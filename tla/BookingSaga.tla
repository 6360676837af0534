----------------------------- MODULE BookingSaga -----------------------------
(***************************************************************************)
(* The booking service: handlers that lead a booking through the seat and  *)
(* the payment service by HTTP calls that are repeated on failure, and the *)
(* consumer of payment.failed.                                             *)
(*                                                                         *)
(* createBooking cannot write its row (see Insert), so the bookings are    *)
(* rows of the earlier, synchronous release: each has its reservation and  *)
(* its payment.  The two peers are reduced to the row a call reads and     *)
(* writes; Contracts says which calls they take at all.                    *)
(***************************************************************************)
EXTENDS Integers, FiniteSets, Contracts

CONSTANTS
  Bookings,
  Handlers,     \* concurrent requests of the booking service
  MaxRetries,   \* 3 in most calls of the code, 2 in some
  MaxFailed,    \* bound: payment.failed messages of a booking at a time
  MaxRefunds,   \* bound: refunds the gateway will make of one payment
  SagaRegimes,  \* the sets of perils to consider
  Nobody

\* side:     requests may be handled at a time
\* together: those of one booking, too
\* timeout:  an answer may be given up before it comes
\* errors:   a peer may fail before its effect, after it, or in the middle of a refund
\* crash:    a handler may die
AllSagaPerils == {"side", "together", "timeout", "errors", "crash"}

ASSUME SagaAssumption ==
  /\ MaxRetries \in Nat /\ MaxFailed \in Nat /\ MaxRefunds \in Nat
  /\ SagaRegimes \subseteq SUBSET AllSagaPerils
  /\ Nobody \notin Handlers \cup Bookings

VARIABLES
  booking,      \* Booking.status
  payment,      \* Payment.status
  refunds,      \* observer: times the gateway gave the money back
  unrecorded,   \* observer: those of them the payment service never wrote down
  reservation,  \* Reservation.status
  failed,       \* payment.failed messages in booking-service.payment-failed
  cancelled,    \* booking.cancelled events published
  holder,       \* the createBooking whose lock is on the seats, if any
  handler,      \* locals of each request
  sent,         \* HTTP requests the peers have not answered
  sagaPerils

rows     == <<booking, payment, refunds, unrecorded, reservation>>
sagaVars == <<booking, payment, refunds, unrecorded, reservation, failed, cancelled, holder, handler, sent,
              sagaPerils>>

BookingStatus == {"DRAFT", "SEATS_LOCKED", "PAYMENT_PENDING", "CONFIRMED", "CANCELLED", "FAILED",
                  "EXPIRED"}
PaymentStatus == {"PROCESSING", "COMPLETED", "FAILED", "CANCELLED", "REFUNDED"}
ReservationStatus == {"LOCKED", "CONFIRMED", "CANCELLED", "EXPIRED"}

\* Of a refund: not looked at yet, with the gateway, made there and not yet written.
Stages == {"new", "asked", "given"}

HttpSteps == {"lock", "release", "pay", "reserve", "refund", "void", "unreserve"}

Idle == [does |-> "nothing", for |-> Nobody, step |-> "none", try |-> 0, answer |-> 0]
HandlerRec ==
  [does : {"nothing", "create", "confirm", "cancel", "rollback"}, for : Bookings \cup {Nobody},
   step : HttpSteps \cup {"none", "insert", "write"}, try : 0..MaxRetries + 1,
   answer : {0, 200, 400, 404, 409, 500}]
SentRec ==
  [by : Handlers, for : Bookings \cup {Nobody}, step : HttpSteps, try : 1..MaxRetries + 1,
   stage : Stages]

SagaTypeOK ==
  /\ booking \in [Bookings -> BookingStatus]
  /\ payment \in [Bookings -> PaymentStatus]
  /\ refunds \in [Bookings -> 0..MaxRefunds] /\ unrecorded \in [Bookings -> Nat]
  /\ reservation \in [Bookings -> ReservationStatus]
  /\ failed \in [Bookings -> 0..MaxFailed]
  /\ cancelled \in [Bookings -> Nat]
  /\ holder \in Handlers \cup {Nobody}
  /\ handler \in [Handlers -> HandlerRec]
  /\ sent \subseteq SentRec
  /\ sagaPerils \in SagaRegimes

\* Booked and unpaid, or paid and confirmed.
SagaInit ==
  /\ booking \in [Bookings -> {"PAYMENT_PENDING", "CONFIRMED"}]
  /\ payment = [b \in Bookings |->
                  IF booking[b] = "CONFIRMED" THEN "COMPLETED" ELSE "PROCESSING"]
  /\ reservation = [b \in Bookings |->
                      IF booking[b] = "CONFIRMED" THEN "CONFIRMED" ELSE "LOCKED"]
  /\ refunds = [b \in Bookings |-> 0] /\ unrecorded = [b \in Bookings |-> 0]
  /\ failed = [b \in Bookings |-> 0]
  /\ cancelled = [b \in Bookings |-> 0]
  /\ holder = Nobody
  /\ handler = [h \in Handlers |-> Idle]
  /\ sent = {}
  /\ sagaPerils \in SagaRegimes

-----------------------------------------------------------------------------
(* The calls: what each step posts, and whether its peer takes it.         *)

Post(routes, path, body) == Answer(routes, "POST", path, body)

Taken(step) ==
  CASE step = "lock" ->
         Post(SeatRoutes, <<"locks", "acquire">>,
              {"userId", "journeyId", "seatIds", "fromStationId", "toStationId"})
    [] step = "release" -> Post(SeatRoutes, <<"locks", "release">>, {"lockId", "userId"})
    [] step = "pay" -> Post(PaymentRoutes, <<"payments", "confirm">>, {"paymentId", "transactionId"})
    [] step = "reserve" -> Post(SeatRoutes, <<"reservations", "confirm">>, {"lockId", "userId"})
    [] step = "refund" -> Post(PaymentRoutes, <<"payments", ":id", "refund">>, {"amount", "reason"})
    [] step = "void" -> Post(PaymentRoutes, <<"payments", ":id", "cancel">>, {})
    [] step = "unreserve" -> Post(SeatRoutes, <<"reservations", ":id", "cancel">>, {"userId"})

\* The step after a successful one.
After(does, step) ==
  CASE does = "create"   -> IF step = "lock" THEN "insert" ELSE "none"
    [] does = "confirm"  -> IF step = "pay" THEN "reserve" ELSE "write"
    [] does = "cancel"   -> IF step = "unreserve" THEN "write" ELSE "unreserve"
    [] does = "rollback" -> "write"

InUse(b) == \/ \E h \in Handlers : handler[h].for = b
            \/ \E m \in sent : m.for = b

\* Handler h goes to a step: an HTTP step sends its first request.
Goto(h, does, b, step) ==
  /\ handler' = [handler EXCEPT ![h] =
       IF step = "none" THEN Idle
       ELSE [does |-> does, for |-> b, step |-> step, answer |-> 0,
             try |-> IF step \in HttpSteps THEN 1 ELSE 0]]
  /\ sent' = IF step \in HttpSteps
             THEN sent \cup {[by |-> h, for |-> b, step |-> step, try |-> 1, stage |-> "new"]}
             ELSE sent

\* A request of h that was given up must not look like the one it waits for.
Ready(h) ==
  /\ handler[h] = Idle /\ ~\E m \in sent : m.by = h
  /\ "side" \in sagaPerils \/ \A g \in Handlers : handler[g] = Idle

Receive(h, b) == Ready(h) /\ ("together" \in sagaPerils \/ ~InUse(b))

-----------------------------------------------------------------------------
(* The handlers.                                                           *)

\* createBooking, up to the first call.
CreateBooking(h) ==
  /\ Ready(h)
  /\ Goto(h, "create", Nobody, "lock")
  /\ UNCHANGED <<rows, failed, cancelled, holder, sagaPerils>>

\* confirmBooking reads the row; any status but these two goes on.
ConfirmBooking(h, b) ==
  /\ Receive(h, b)
  /\ booking[b] \notin {"CONFIRMED", "CANCELLED"}
  /\ Goto(h, "confirm", b, "pay")
  /\ UNCHANGED <<rows, failed, cancelled, holder, sagaPerils>>

\* cancelBooking reads the booking with its payment.
CancelBooking(h, b) ==
  /\ Receive(h, b)
  /\ booking[b] \in {"PAYMENT_PENDING", "CONFIRMED"}
  /\ Goto(h, "cancel", b, IF payment[b] = "COMPLETED" THEN "refund" ELSE "void")
  /\ UNCHANGED <<rows, failed, cancelled, holder, sagaPerils>>

\* The columns prisma.booking.create needs, and what createBooking gives it: no
\* paymentId, and a reservationId that is the lock's name and no reservation's id.
BookingColumns == {"userId", "journeyId", "reservationId", "paymentId", "totalAmount"}
BookingGiven == {"userId", "journeyId", "totalAmount", "status", "seats"}

\* booking.create: refused, so the seats are to be released.
Insert(h) ==
  /\ handler[h].step = "insert"
  /\ Goto(h, "create", Nobody, IF BookingColumns \subseteq BookingGiven THEN "none" ELSE "release")
  /\ UNCHANGED <<rows, failed, cancelled, holder, sagaPerils>>

\* The last step of confirm, cancel and rollback: booking.update, and the event.
WriteAndPublish(h) ==
  LET b == handler[h].for
      does == handler[h].does IN
  /\ booking' = [booking EXCEPT ![b] = IF does = "confirm" THEN "CONFIRMED" ELSE "CANCELLED"]
  /\ cancelled' = IF does = "confirm" THEN cancelled ELSE [cancelled EXCEPT ![b] = @ + 1]
  /\ failed' = IF does = "rollback" THEN [failed EXCEPT ![b] = @ - 1] ELSE failed
  /\ UNCHANGED <<payment, refunds, unrecorded, reservation>>

-----------------------------------------------------------------------------
(* HttpRetryService.executeWithRetry.                                      *)

Waiting(h) == handler[h].step \in HttpSteps /\ handler[h].answer = 0

\* Promise.race: the answer is given up, the request is not.
TimeOut(h) ==
  /\ "timeout" \in sagaPerils
  /\ Waiting(h)
  /\ handler' = [handler EXCEPT ![h].answer = 500]
  /\ UNCHANGED <<rows, failed, cancelled, holder, sent, sagaPerils>>

\* Mutant: the retries are not counted.
RetryForever(h) ==
  /\ handler[h].step \in HttpSteps /\ handler[h].answer = 500
  /\ handler' = [handler EXCEPT ![h].answer = 0]
  /\ sent' = sent \cup {[by |-> h, for |-> handler[h].for, step |-> handler[h].step,
                         try |-> handler[h].try, stage |-> "new"]}
  /\ UNCHANGED <<rows, failed, cancelled, holder, sagaPerils>>

\* Anything but a 4xx is tried again, after a pause.
Retry(h) ==
  /\ handler[h].step \in HttpSteps /\ handler[h].answer = 500
  /\ handler[h].try <= MaxRetries
  /\ handler' = [handler EXCEPT ![h].answer = 0, ![h].try = @ + 1]
  /\ sent' = sent \cup {[by |-> h, for |-> handler[h].for, step |-> handler[h].step,
                         try |-> handler[h].try + 1, stage |-> "new"]}
  /\ UNCHANGED <<rows, failed, cancelled, holder, sagaPerils>>

\* Mutant: a 4xx is waited out.
RefusedByTimeOnly(h) ==
  /\ handler[h].step \in HttpSteps
  /\ handler[h].answer = 500 /\ handler[h].try > MaxRetries

Refused(h) ==
  /\ handler[h].step \in HttpSteps
  /\ \/ handler[h].answer \in 400..499
     \/ handler[h].answer = 500 /\ handler[h].try > MaxRetries

\* A refusal ends the handler with a 500, but a seat release that fails is only
\* logged; rollback goes on to its write (and acknowledges the message).
Proceed(h) ==
  LET c == handler[h]
      done == c.answer = 200 \/ (c.does = "rollback" /\ Refused(h))
      next == IF done THEN After(c.does, c.step) ELSE "none" IN
  /\ c.answer = 200 \/ Refused(h)
  /\ IF next = "write"
     THEN WriteAndPublish(h) /\ Goto(h, c.does, c.for, "none")
     ELSE Goto(h, c.does, c.for, next) /\ UNCHANGED <<rows, failed, cancelled>>
  /\ UNCHANGED <<holder, sagaPerils>>

\* The process dies; what it sent is still under way.
Die(h) ==
  /\ "crash" \in sagaPerils
  /\ handler[h] # Idle
  /\ handler' = [handler EXCEPT ![h] = Idle]
  /\ UNCHANGED <<rows, failed, cancelled, holder, sent, sagaPerils>>

-----------------------------------------------------------------------------
(* The peers.  Their own interleavings are the subject of SeatReservation  *)
(* and Payments; here only a refund takes more than one step, since the    *)
(* payment service waits for the gateway between its row and its row.      *)

Reply(m, status) ==
  /\ sent' = sent \ {m}
  /\ handler' = IF Waiting(m.by) /\ handler[m.by].step = m.step /\ handler[m.by].try = m.try
                THEN [handler EXCEPT ![m.by].answer = status]
                ELSE handler

\* Mutants: any payment may be refunded; a refund is not looked at.
WillingAnyRefund(m) ==
  CASE m.step = "lock"      -> holder = Nobody
    [] m.step = "refund"    -> payment[m.for] \in {"COMPLETED", "REFUNDED"}
    [] m.step = "void"      -> payment[m.for] = "PROCESSING"
    [] OTHER                -> TRUE

\* What the peer's handler checks first.
Willing(m) ==
  CASE m.step = "lock"      -> holder = Nobody
    [] m.step = "pay"       -> payment[m.for] \notin {"COMPLETED", "CANCELLED"}
    [] m.step = "reserve"   -> reservation[m.for] = "LOCKED"
    [] m.step = "refund"    -> payment[m.for] = "COMPLETED"
    [] m.step = "void"      -> payment[m.for] = "PROCESSING"
    [] m.step = "unreserve" -> reservation[m.for] \in {"LOCKED", "CONFIRMED"}
    [] m.step = "release"   -> TRUE

Refuse(m) ==
  /\ m.stage = "new"
  /\ Taken(m.step) # 200 \/ ~Willing(m)
  /\ Reply(m, IF Taken(m.step) # 200 THEN Taken(m.step)
              ELSE IF m.step = "lock" THEN 409 ELSE 400)
  /\ UNCHANGED <<rows, failed, cancelled, holder, sagaPerils>>

Enters(m, stage) == sent' = (sent \ {m}) \cup {[m EXCEPT !.stage = stage]}

\* refundPayment has read the row and asks the gateway.
StartRefund(m) ==
  /\ m.stage = "new" /\ m.step = "refund" /\ Taken(m.step) = 200 /\ Willing(m)
  /\ Enters(m, "asked")
  /\ UNCHANGED <<rows, failed, cancelled, holder, handler, sagaPerils>>

GatewayRefunds(m) ==
  /\ m.stage = "asked" /\ refunds[m.for] < MaxRefunds
  /\ refunds' = [refunds EXCEPT ![m.for] = @ + 1]
  /\ Enters(m, "given")
  /\ UNCHANGED <<booking, payment, unrecorded, reservation, failed, cancelled, holder, handler,
                 sagaPerils>>

\* The gateway says no, or the payment service dies.
GatewayRefuses(m) ==
  /\ m.stage = "asked"
  /\ "errors" \in sagaPerils \/ refunds[m.for] = MaxRefunds
  /\ \E status \in {400, 500} : Reply(m, status)
  /\ UNCHANGED <<rows, failed, cancelled, holder, sagaPerils>>

\* The money is back and the row stays COMPLETED: the answer of the gateway is lost,
\* which is a 400, or payment.update is refused, or the payment service dies.
LoseRefund(m) ==
  /\ m.stage = "given" /\ "errors" \in sagaPerils
  /\ unrecorded' = [unrecorded EXCEPT ![m.for] = @ + 1]
  /\ \E status \in {400, 500} : Reply(m, status)
  /\ UNCHANGED <<booking, payment, refunds, reservation, failed, cancelled, holder, sagaPerils>>

\* The peer does what it was asked; an event it cannot publish makes it a 500.
Serve(m, status) ==
  /\ IF m.step = "refund" THEN m.stage = "given" ELSE Taken(m.step) = 200 /\ Willing(m)
  /\ status = 200 \/ (status = 500 /\ "errors" \in sagaPerils)
  /\ holder' = CASE m.step = "lock" -> m.by [] m.step = "release" -> Nobody [] OTHER -> holder
  /\ payment' = IF m.step \in {"pay", "refund", "void"}
                THEN [payment EXCEPT ![m.for] = CASE m.step = "pay"    -> "COMPLETED"
                                                  [] m.step = "refund" -> "REFUNDED"
                                                  [] m.step = "void"   -> "CANCELLED"]
                ELSE payment
  /\ reservation' =
       IF m.step \in {"reserve", "unreserve"}
       THEN [reservation EXCEPT ![m.for] = IF m.step = "reserve" THEN "CONFIRMED" ELSE "CANCELLED"]
       ELSE reservation
  /\ Reply(m, status)
  /\ UNCHANGED <<booking, refunds, unrecorded, failed, cancelled, sagaPerils>>

\* No connection, or an error before anything was done.
Break(m) ==
  /\ "errors" \in sagaPerils /\ m.stage = "new"
  /\ Reply(m, 500)
  /\ UNCHANGED <<rows, failed, cancelled, holder, sagaPerils>>

\* The customer pays or fails to: the gateway calls the payment service, which
\* publishes payment.failed.
Settle(b, status) ==
  /\ payment[b] = "PROCESSING"
  /\ status = "FAILED" => failed[b] < MaxFailed
  /\ payment' = [payment EXCEPT ![b] = status]
  /\ failed' = IF status = "FAILED" THEN [failed EXCEPT ![b] = @ + 1] ELSE failed
  /\ UNCHANGED <<booking, refunds, unrecorded, reservation, cancelled, holder, handler, sent, sagaPerils>>

\* The lock of a createBooking that has ended runs out, or a booking's own does.
SeatsRunOut ==
  /\ holder # Nobody /\ (handler[holder].does # "create" \/ handler[holder].step = "lock")
  /\ holder' = Nobody
  /\ UNCHANGED <<rows, failed, cancelled, handler, sent, sagaPerils>>

ReservationRunsOut(b) ==
  /\ reservation[b] = "LOCKED"
  /\ reservation' = [reservation EXCEPT ![b] = "EXPIRED"]
  /\ UNCHANGED <<booking, payment, refunds, unrecorded, failed, cancelled, holder, handler, sent,
                 sagaPerils>>

-----------------------------------------------------------------------------
\* payment.failed carries the reservation's id as bookingId, and a bookingId that
\* is there is looked up as Booking.id.
FailedBookingId(b) == <<"reservation", b>>
FindBooking(id) == {b \in Bookings : id = <<"booking", b>>}

\* handlePaymentFailed: no such booking, or one that is past it, is acknowledged.
HandlePaymentFailed(h, b) ==
  /\ Receive(h, b)
  /\ failed[b] > 0
  /\ IF FindBooking(FailedBookingId(b)) = {} \/ booking[b] \in {"CANCELLED", "CONFIRMED"}
     THEN failed' = [failed EXCEPT ![b] = @ - 1] /\ UNCHANGED <<handler, sent>>
     ELSE Goto(h, "rollback", b, "release") /\ UNCHANGED failed
  /\ UNCHANGED <<rows, cancelled, holder, sagaPerils>>

SagaNext ==
  \/ \E h \in Handlers :
       \/ CreateBooking(h) \/ Insert(h) \/ TimeOut(h) \/ Retry(h) \/ Proceed(h) \/ Die(h)
       \/ \E b \in Bookings : ConfirmBooking(h, b) \/ CancelBooking(h, b) \/ HandlePaymentFailed(h, b)
  \/ \E m \in sent :
       \/ Refuse(m) \/ StartRefund(m) \/ GatewayRefunds(m) \/ GatewayRefuses(m) \/ LoseRefund(m)
       \/ Break(m) \/ \E status \in {200, 500} : Serve(m, status)
  \/ \E b \in Bookings :
       ReservationRunsOut(b) \/ \E status \in {"COMPLETED", "FAILED"} : Settle(b, status)
  \/ SeatsRunOut

SagaSpec == SagaInit /\ [][SagaNext]_sagaVars

\* A handler's own steps follow one another, a peer answers in the end, and a
\* lock's time to live ends.
SagaFairness ==
  /\ \A h \in Handlers : WF_sagaVars(Insert(h) \/ Retry(h) \/ Proceed(h))
  /\ \A h \in Handlers : WF_sagaVars(\E m \in sent :
       m.by = h /\ (Refuse(m) \/ StartRefund(m) \/ GatewayRefunds(m) \/ GatewayRefuses(m) \/ Serve(m, 200)))
  /\ WF_sagaVars(SeatsRunOut)

-----------------------------------------------------------------------------
\* However often a cancellation is tried again, by HttpRetryService after an error
\* or by the customer after its failure, the payment is given back once, and again
\* only for each time that an error fell between the gateway's refund and its row:
\* as long as no two requests for it are under way together.
RefundedOnce ==
  sagaPerils \subseteq {"side", "errors", "crash"} =>
    \A b \in Bookings : refunds[b] <= unrecorded[b] + 1

\* Every request of the booking service ends, whatever its peers answer.
RequestsEnd == \A h \in Handlers : handler[h] # Idle ~> handler[h] = Idle

\* A seat that a booking creation locked is free again in the end: a creation
\* that failed, died or got its answer too late cannot keep it.
CreationsLetGo == \A h \in Handlers : holder = h ~> holder # h

\* NOT SO: a cancellation that gave the money back leaves the booking cancelled.
RefundedIsCancelled ==
  \A b \in Bookings : payment[b] = "REFUNDED" /\ ~InUse(b) => booking[b] = "CANCELLED"
=============================================================================
