# Jatra in TLA+

Jatra sells railway seats: a set of NestJS services around one Postgres database,
a Redis, a RabbitMQ exchange, and an API gateway written in Go. These modules state
what must be true of it: a seat is sold once, money is taken and given back once, a
confirmed booking gets one ticket and one passenger through the gate, a token is spent once,
and what was locked, leaked, opened or queued comes to an end. TLC
checks them on small instances, and TLAPS proves every safety property they check for all sizes.

## Inventory

| Part | State | Operations | What is hard | What makes it correct |
| --- | --- | --- | --- | --- |
| seat-reservation-service | a key per seat in Redis, with a time to live; `reservation` rows | acquire, release, extend, confirm, cancel, cleanup cron | every handler is several awaits long; keys and rows expire apart; several replicas | no seat booked twice, a live lock has its keys, nothing stays locked for ever |
| payment-service | one `payment` row per reservation | initiate, confirm, refund, cancel | the gateway acts between a read and a write; answers and events get lost | refunds on record are the money returned, one charge per live payment |
| payment-service, way to SSLCommerz | nothing but calls under way | initiate, validate (IPN), status, refund, webhook | notices repeated, late, or of strangers; lost answers | no success that did not happen |
| api-gateway circuit breaker | state, failure count, time of the last change | Execute (admit, record), Reset | results recorded in a later state | the cool-down, an earned opening, recovery |
| api-gateway, before it | a token bucket per address, swept when idle | limit, check token, check role, route | the sweep races the requests; two route tables in two languages | forgetting is harmless, the routes of the services without an `/api` prefix land (the others do not, see below) |
| booking-service | `booking` row | create, confirm and cancel sagas, `payment.failed` consumer | retries of calls that are not idempotent, half-finished sagas | one refund but for those that were never recorded, seats let go, requests end |
| ticket-service | `ticket` row, PDF files | generate (consumer and HTTP), validate | redelivery, tags of a lost channel, two gates at a time | no confirmation lost, every ticket printed, one entry |
| notification-service | `notification` row | consumer, e-mail with retries, resend | redelivery after part of the work | acknowledged means settled, one mail a sending unless its end is unknown |
| libs/common idempotency | cached response and lock in Redis | interceptor (the middleware class beside it is used nowhere) | lock shorter than a handler, lock of no owner | a key never runs its handler twice at a time |
| auth-service | users, refresh tokens, the browser's cookie | register, login, refresh, logout | rotation against reuse, tokens equal by the second | a token is spent once, the cookie is known |
| search-service | cache in Redis | search, invalidate | filling after invalidation, pages that shift | staleness is bounded; a stale page names nothing that a search would not find, though it may stand on a later page now |
| schedule, admin services | stations, trains, routes, journeys | create, update, remove, search | check-then-act on tables two services write | no duplicate, no broken journey, searches that agree |
| user, reporting services | none of their own | profile, queries | | routes and bodies only |
| web, infra | none of their own | pages, deployment | | |

How they interact: the gateway proxies every HTTP call. booking-service calls
seat-reservation-service and payment-service over HTTP with retries; all of them publish
events on RabbitMQ, which booking, ticket and notification consume. All services share
one Postgres schema; Redis is used by seats, search and idempotency.

## Modules

| Module | Models |
| --- | --- |
| `SeatTable` | what seat locking promises: a table of seats, taken all or none in one step |
| `SeatReservation` | the service, one action per stretch of code between two awaits |
| `MCSeatReservation` | the symmetry of its instances |
| `SeatReservationProofs`, `SeatSafetyProofs`, `SeatRefinementProofs` | its types, its safety, and that it implements `SeatTable`, proved |
| `Payments`, `MCPayments`, `PaymentsProofs` | the payment service and the gateway as its environment |
| `CircuitBreaker` | one breaker of the gateway and the calls through it |
| `Contracts` | the routes, DTOs and validation of the NestJS controllers: what a call is answered before its handler runs |
| `Gateway` | rate limiter, token and role checks, and the route table, over `Contracts` |
| `BookingSaga` | the sagas of booking-service and its calls, over `Contracts` |
| `PaymentProvider` | the calls to SSLCommerz and what comes back |
| `TicketOffice` | what ticketing promises: a number per confirmed booking, settled when it has it, one passenger |
| `Tickets` | the consumer of `booking.confirmed`, ticket generation and validation, an implementation of `TicketOffice` |
| `Notifications` | the consumer of `notification.events`, mails and resending |
| `Idempotency` | the interceptor and its two Redis keys |
| `Accounts` | registration, login, refresh and logout |
| `Catalogue` | what schedule-service and admin-service write, and the two searches |
| `SearchCache` | search-service's cache over `Catalogue` |
| `MCServices`, `MCMessaging` | the instances of these ten, for safety and for liveness |
| `MiddlewareProofs` | proofs about `CircuitBreaker`, `Gateway` and `Idempotency` |
| `ConsumersProofs` | proofs about `Notifications` and `Tickets`, and that `Tickets` implements `TicketOffice` |
| `RecordsProofs` | proofs about `Accounts`, `Catalogue`, `SearchCache`, `PaymentProvider` and `BookingSaga` |
| `ServicesProofs` | what was proved of each component, of `MCServices`' composition |

### SeatReservation

`key[s]` is the Redis key `seat:lock:<journey>:<s>`; it stores the user, and `by`
remembers which acquire set it (the code does not store that). `row[r]` is the
reservation that acquire `r` inserted: its id, `lockId` and acquire are one here.
`acq`, `req` and `job` are the locals of the handlers in flight, so that what a handler read before
an await is used, stale, after it. `acquireLock` is `AcquireStart`,
then one `AcquireSet` or `AcquireTaken` per seat (`atomicLockSeats` in
`lua-script.service.ts` sends its SETs one by one; it does not use the Lua scripts that
lie beside it), `AcquireRollback` per seat, `AcquireCheck`, and `AcquireInsert` or
`AcquireCollide`. Confirm, release, extend and cancel begin with a `...Read` and end with a
`...Write`, with one step per Redis command in between. Time is relative: `ttl` and
`lease` are what is left, counted down by `Tick`; a key goes at 0, a row is expired
below 0.

`Perils` says what the environment may do: `expiry` lets time run out on a lock that
somebody uses, `overlap` lets two requests about one lock be in flight together,
`failure` lets any await reject or the process die. A property is checked in the widest
environment it holds in; the find runs show what happens outside it.

* `NoDoubleBooking`: two CONFIRMED reservations share no seat.
* `LockHoldsItsKeys`: a lock that can be confirmed still has its keys. Confirm
  never looks at Redis, so this is what it relies on.
* `ActsAsTable`: the service refines `SeatTable`. A seat is mapped to the lock with a claim
  to it: an acquire that passed the check, a LOCKED row not being given up, or a CONFIRMED
  row. Hence all seats of a request pass together although the code takes them one by one.
* `TakenAcquireHoldsNothing`: an acquire that met a taken seat has undone its keys.
* `KeysGo`, `LocksEnd`: liveness, see below.

### Payments

`pay[r]` is the row, `gw[t]` what the gateway knows of a transaction, `told[r]` the last
event about a payment, `req[p]` the locals of a request. The gateway is external and tells
the truth: a confirmation says COMPLETED only of a transaction that was paid. The
regime (`perils`) is chosen in `Init` from the constant `Regimes`, so one run covers
serial, overlapping and failing requests.

### CircuitBreaker

`Admit`, `Fail` and `Succeed` are the three critical sections under the mutex; `busy` is
the calls between them. `since` and `recorded` only observe: the ticks since the circuit
opened and the failures recorded since it closed. Counting stops at `MaxFailures` and
`Timeout`, beyond which the code compares nothing.

### Contracts and Gateway

A request is a method, a path and the names of its fields. `Answer` is what Nest says to it: 404
without a route, 400 when `ValidationPipe` (whitelist, forbidNonWhitelisted) refuses the body, else
200, the handler's turn. `BookingSaga` asks it of every call it makes to a peer, so that a
wrong path or a missing field is not abstracted away. `Gateway` has the Go route table, with what
`jwt` and `role` do to a token, and the limiter: `visitors` is the map, `ideal` (an observer) a limiter
that never forgets. `rate.Limiter` itself is external.

### BookingSaga

`handler[h]` has the step a handler is at and the answer it waits for; `sent` the HTTP requests not
yet answered. `TimeOut` gives an answer up and leaves the request in `sent` (`Promise.race`), `Retry`
sends another one, `Proceed` goes to the next step or writes the row. The peers are reduced to the
row a call reads and writes, in one step, but for a refund: `refundPayment` reads its row (`StartRefund`), the gateway
gives the money back (`GatewayRefunds`) or says no (`GatewayRefuses`), and then the row is written (`Serve`) or, when the
gateway's answer is lost, the update is refused or the payment service dies, is not (`LoseRefund`). The row then
stays COMPLETED, and the next attempt of `HttpRetryService`, or of the customer, refunds again. `unrecorded` counts such refunds, and
`RefundedOnce` says that nothing else gives money back twice: `refunds[b] <= unrecorded[b] + 1`. `createBooking` can never insert
its row (the schema requires a `paymentId`), so bookings in `Init` are rows of
the synchronous release, and a creation is followed to its compensation. Money can
come back without the booking being cancelled, see the findings.

### Tickets and Notifications

One action per stretch between two awaits, for every handler side by side (no prefetch is set). `Tickets` keeps
RabbitMQ's delivery tags: `unacked` is per channel, `Reconnect` starts another channel while handlers
of the old one go on and answer there. A random number is drawn in `ReadBooking`; only the
peril `draws` lets it repeat. `TicketOffice` has no queue: `Office` in `Tickets` maps `announced` to the bookings once
confirmed, `due` to the messages ready or out, `issued` to the rows' numbers, and the two perils that excuse it to
`muddled` (a lost connection: an answer may settle another message) and `crowded` (two gates). `Notifications` has rows, the attempts of a mail, and resending by hand. A
provider that reports an error may have sent the mail or not: `mailgun.provider.ts` turns any error of its transport into `success: false`, and `sendEmail` tries again. `doubted`
counts the mails of a sending whose end it cannot know, for this reason or because the write of SENT was refused, and `MailedOnce` says that only these are followed by another. The
schema has no `Notification` table: peril `noTable` is the code as it is, the others the code on a
database that has it.

### Idempotency, Accounts, Catalogue, SearchCache, PaymentProvider

`Idempotency`: cache, lock, handler, store, release, with both keys timing out. `Accounts`: a refresh token is
`<<user, second>>`, because that is all its JWT is made of; `exchanged` and `loggedOut` observe how a row
was used up, `issued` how often a token was stored: `CookieIsKnown` holds of tokens stored once. `Catalogue`: look and write are two actions except where a unique column makes them
one. A journey has a date and a time of departure, which nothing ties together: `create` compares the departure with the
arrival only. `ScheduleSearch` takes the journeys of a date; `SearchJourneys` is the list that search-service cuts its
pages from, the departures of the 24 hours from the date on (`InWindow`). `Connects` is the definition both are
compared with, each for what it means by a day. `SearchCache` extends it with readers that look in Redis, read the tables, and store. A key of
journeys has the stations, the date, the page and the limit; `Orders` are the orders in which Postgres may
return a list sorted by departure alone, `Pages` what `skip` and `take` leave of it, and `Current` all the answers
a query may give for a key now. An earlier departure that is added pushes the others on, so a cached page may name a journey
that has moved to a later page. `CacheNamesWhatIsThere` says that this is all that can happen to it: every journey of a cached
page is still found by the search (`Found`) and still has the pages before it full of departures no later than its own; it
never belongs on an earlier one. The total beside the page is left out.
`PaymentProvider`: SSLCommerz's side is an environment that may agree or not, and whose
answer may be lost; `told` is the last answer given to anybody.

## Runs

| Run | Instance | Shows |
| --- | --- | --- |
| `SeatSerial` | 2 seats, 2 users, 3 acquires, 2 requests, no perils | safety, and the refinement of `SeatTable` |
| `SeatRetry` | the same with overlap and failure, without release and cancel | no seat is booked twice when confirmations and extensions repeat and stop |
| `SeatLiveness` | 2 seats, 1 user, 2 acquires, all perils | rollback, and that keys and locks end |
| `SeatFindExpiry` | confirm only, expiry | `NoDoubleBooking` fails |
| `SeatFindOverlap` | confirm and release, overlap | `ConfirmedStays` fails |
| `SeatFindExtend` | extend | `ExtendExtends` fails |
| `Payments` | 1 reservation, 3 transactions, 3 requests, 4 regimes | the books, the gateway and the events agree |
| `PaymentsFindDouble` | serial | `NoDoubleCharge` fails |
| `CircuitBreaker` | 5 calls, 5 failures, 3 ticks | cool-down, opening, recovery |
| `Services` | eight components, about two actors each, each in its regimes | 16 invariants: who is forgotten, what lands, what is spent, doubled, broken, answered, refunded, lost, printed, boarded, settled, mailed; and the refinement of `TicketOffice` |
| `Messaging` | saga, tickets, notifications, search cache, under fairness | requests end, locks are let go, tickets come, handlers rest, the cache settles and never names what is not there, page by page |
| `SagaFindCancel` | one booking, one handler, no perils | `RefundedIsCancelled` fails |

`Services` and `Messaging` hold several components that share no state. In a behaviour one of them
moves (`part`, chosen in `Init`) and the others rest as they start: the states add up instead of
multiplying, and nothing is lost because no action of one reads the other. Where components do interact, one
module has both sides: `BookingSaga` over `Contracts`, `Gateway` over `Contracts`, `SearchCache` over
`Catalogue`, `Payments` with its gateway.

Bounds. Two seats are the fewest of which a request can have a part; two users and three acquires
give a holder, a rival, and a third that sees what the first two left. Journeys do not
interact. `TTL` 1 with `MaxLease` 2, or 2 with 3, gives a lock that is fresh, extended, about to run out and gone.
`MaxLease` stops extensions that would go on for ever. Payments of two
reservations share nothing, so one is enough; `MaxGiven` (twice the price) bounds what repeated refunds
return; three transactions allow an attempt, a second one and its made-up failure.
For the breaker 5 calls can between them exhaust the 5 failures of `proxy.go`.
`Gateway`: one address (buckets are apart), a bucket of 3 and a cost of 2, so that a request may
be refused, and `Window = IdleLimit`, the least the assumption allows.
`Accounts`: one user with two browsers and two requests at a time, and three seconds, so
that tokens are equal, expired and fresh, and with three rows used up and stored again; with four seconds and four
rows the module was checked by itself. `Catalogue`: three stations and routes of up to two legs, where a middle station lies on
two legs (`Visits`: there and half the way back); two journeys and two editors to be doubled; two dates, and a departure that is of the second
date's day whatever the journey's date is; of the statuses the three that some look tells apart. `SearchCache`: two journeys with two
departures of one day, and the two pages of one journey each, so that an earlier departure moves the other journey to the second page while either page is
cached, being read or being stored; the list of stations; one reader. `Idempotency`: two requests and a lock of two ticks. `PaymentProvider`: two
transactions, whose ids a notice can mix up. `BookingSaga`: one booking, two handlers, one retry, and
two refunds, one of which may go unrecorded; for liveness one handler, one refund and two retries (`CreationsLetGo` needs the first request to outlive its
answer, which is one retry). `Tickets`: one booking with two handlers and two tags; with
two bookings the module was checked by itself, and its safety is proved for any number.
`Notifications`: one confirmation, one other message, two handlers, two rows, one retry.
`MaxFailed`, `MaxRefunds` (the gateway refuses more), `MaxRuns`, `MaxRows`, `MaxSecond`, `MaxUnder`, `MaxTag`, `MaxTicketFaults` and
`MaxNotifications` end what the code would let go on.

`Payments`, `PaymentsFindDouble`, `Services`, `Messaging` and `SagaFindCancel` do not check
deadlock: when transactions, seconds, rows or retries are used up the system stops.

Symmetry is used in safety runs only, with all of a set's values interchangeable.

Fairness. `SeatReservation`: the clock runs and each cron job keeps running (`@Cron`
every minute); nothing is assumed of clients. `LocksEnd` supposes that cleanup does not
fail for ever, and it and `KeysGo` that extensions end, because the code bounds neither their number nor
their length: a client may keep a seat locked for ever. `CircuitBreaker`: a call ends (the
HTTP client gives up after 30 s), the clock runs, clients keep coming. `Payments` states no
liveness, because the code promises none: `expiresAt` is computed and never stored.
`SagaFairness`: a handler's own steps follow one another, a peer answers in the end (it may answer 5xx, and the
answer may come too late), and a Redis lock runs out; that answers are given up is never assumed. `TicketsFairness`: handlers
go on, and RabbitMQ delivers a message that keeps coming back (strongly fair: a handler must be
free again and again, since a refused message is requeued at once). The faults of `Tickets` are bounded, not
excluded: `TicketsCome` says that a confirmation survives them. `NotificationsFairness` and
`SearchFairness`: handlers go on, and time to live ends.

## What disagrees with the documentation

Shown by runs, quoted in `PROJECT.json`: a seat confirmed twice after expiry, a confirmed
reservation released, an extension that shortens, a reservation that can be paid twice, a
cancellation that gives the money back and leaves the booking live.

Seen while modelling, no run of their own:

* two overlapping acquires may both be refused (docs say one wins);
* an acquire refused by the check for booked seats leaves its keys in Redis until they expire
  (`locks.service.ts:89`), and a seat of no reservation is locked meanwhile;
* rollback, confirm, cancel and cleanup DEL keys without looking at their holder;
* `halfOpenTimeout` is never read and the half-open circuit admits everything
  (`circuitbreaker.go:79` says "limited");
* `createBooking` never succeeds: `prisma.booking.create` lacks the required `paymentId`, and the
  compensation posts to `/locks/release`, which is a 404 that is only logged. `payment.process` is never
  published, so that no booking reaches PAYMENT_PENDING by this code;
* `confirmBooking` posts to `/payments/confirm` without the `status` that its DTO requires: always 400,
  and `booking.confirmed` is never published;
* `payment.failed` carries the reservation's id as `bookingId` (`payments.service.ts:174`): the consumer of
  booking-service finds no booking and acknowledges, so the rollback never runs;
* the idempotency interceptor is commented out of both controllers (`bookings.controller.ts:34`,
  `payments.controller.ts:34`), and does not look at the cache again once it has the lock;
* a ticket number is random and unique by comment only (`tickets.service.ts:402`): a repeated one overwrites
  the older ticket's PDF before the unique column refuses the new row (peril `draws`);
* an error between the gateway's refund and the row (`payments.service.ts:277` to `:291`), or a lost answer of SSLCommerz
  (`gateway.service.ts:287`), leaves the payment COMPLETED: a retry after a 5xx, or the customer's next try, refunds again;
* an error of the mail provider after the mail went out, or a refused write of SENT, sends the mail again
  (`mailgun.provider.ts:84`, `email.service.ts:127`);
* a `booking.confirmed` of a booking that is not CONFIRMED is requeued for ever, at once;
* the notification consumer names the template `booking-confirmation`, and the file is
  `booking-confirmed.hbs`: every confirmation mail ends FAILED. The schema has no `Notification` model;
* the gateway strips `/api`, while search, user, admin and reporting services have it as a global prefix: their
  routes are 404 through the gateway. Its tokens carry no role, so role routes are 403. An invalid cookie hides a valid
  header. With the default localhost URLs `getServiceName` is "unknown" and the breaker nil;
* schedule-service's search misses journeys between the stations of one leg and those from the
  first leg's start; search-service's offers the way back and cancelled journeys. The first looks for `journeyDate`, the second for
  a `departureTime` in the day (`search.service.ts:109`), and `create` ties neither to the other, so each may miss what is of the day for the other. The pages
  of search-service are sorted by departure alone: equal departures have no order from one page to the next, and cached pages shift against fresh ones;
* two logins of one person in one second get the same refresh token (`auth.service.ts:183`): the unique column refuses
  the second while the first row is there, but once that was exchanged the token is stored again, and a tab that still
  has the old cookie exchanges the other browser's row;
* an IPN's `val_id` and `tran_id` are not compared, and no payment row is updated by it; an answer of SSLCommerz lost
  after 30 s turns a success into FAILED.

## Proofs

Checked by `tlapm` for every value of the constants. They assume `ConstantsAssumption` of each module
(the limits are positive numbers, `None` is none of the values) and, for the seats, `Calm`.

| Theorem | Says | Under |
| --- | --- | --- |
| `SeatReservationProofs!TypeCorrect` | types | any environment |
| `SeatReservationProofs!RefusedGivesBack` | `[]TakenAcquireHoldsNothing` | any environment |
| `SeatSafetyProofs!NoSeatSoldTwice` | `[]NoDoubleBooking` | `Calm` |
| `SeatSafetyProofs!LocksKeepTheirKeys` | `[]LockHoldsItsKeys` | `Calm` |
| `SeatRefinementProofs!ImplementsTable` | `ActsAsTable` | `Calm` |
| `PaymentsProofs!RefundsOnRecord` | `[]RecordedRefundsWereMade` | any regime |
| `PaymentsProofs!RefundsOnRecordMatch` | `[]RefundsMatch` | any regime (the property names its own) |
| `PaymentsProofs!OneLiveCharge`, `EventsTellTheRow` | `[]LivePaymentIsTheOnlyCharge`, `[]EventsTellStatus` | requests one by one, no failure (named) |
| `MiddlewareProofs!CoolDown`, `Earned` | `[]CoolDownIsTimeout`, `OpeningIsEarned` | any number of calls |
| `PaymentsProofs!TypeCorrect`, `MiddlewareProofs!BreakerTyped` | types | any |
| `MiddlewareProofs!Harmless` | `[]ForgettingIsHarmless` | buckets fill no slower than visitors are forgotten |
| `MiddlewareProofs!CallsLand` | `[]ProxiedCallsLand` | any caller with a token and the role |
| `MiddlewareProofs!Alone` | `[]NeverTogether` | handlers quicker than their lock (the property names it) |
| `ConsumersProofs!NoConfirmationLost` | `[]AckedHasTicket` | no lost connection (named) |
| `ConsumersProofs!TicketsArePrinted` | `[]TicketIsPrinted` | no number drawn twice (named) |
| `ConsumersProofs!OneEntry` | `[]BoardsOnce` | one gate at a time (named) |
| `ConsumersProofs!ImplementsOffice` | `ActsAsOffice` | any (the office has the two excuses) |
| `ConsumersProofs!OneMessageEach` | `[]MessagesInv` | any |
| `ConsumersProofs!NewsAreSettled`, `OneMail` | `[]AckedIsSettled`, `[]MailedOnce` | no resending; a mail of unknown end excuses one more (named) |
| `RecordsProofs!TokensAreSpentOnce` | `[]SpentOnce` | any interleaving and crash |
| `RecordsProofs!CookiesAreKnown` | `[]CookieIsKnown` | no lost answer, not expired, stored once (named) |
| `RecordsProofs!NoJourneyIsBroken`, `NothingIsDoubled` | `[]JourneysAreWhole`, `[]NoDuplicates` | any; requests one by one (named) |
| `RecordsProofs!SearchesAgree` | `[]SearchesBracketTheTruth` | lines that visit a station once, each search by its own day |
| `RecordsProofs!CacheIsSound` | `[]CacheNamesWhatIsThere` | finitely many journeys |
| `RecordsProofs!NoSuccessIsMadeUp` | `[]SuccessIsReal` | any notices and losses |
| `RecordsProofs!OneRefund` | `[]RefundedOnce` | requests of a booking one by one, answers waited for; an unrecorded refund excuses one more (named) |
| `RecordsProofs!BookingsStandStill` | `[][booking' = booking]_sagaVars` | any |
| `ServicesProofs!ServicesTyped` | `[]ServicesTypeOK` | any |
| `ServicesProofs!ServicesAreSafe` | the invariants and the refinement above, of the composition | as each says |

`Calm` is what the code needs for a lock to protect its seats: no lock in use runs out, and either the
requests about one lock come one by one and complete, or nobody releases or cancels.
`SeatSerial` and `SeatRetry` are its two halves, and `SeatFindExpiry` and
`SeatFindOverlap` what happens outside it.

Seats. `NoDoubleBooking` is far from inductive: a confirmation reads its own row only, so
it is safe because the keys kept everybody else out, long before. `SeatSafetyProofs` strengthens it to
`IInv == Shape /\ Keys`. `Shape` says what a handler's locals still say of
its row after an await (a confirmation about to write finds its row LOCKED, or confirmed by an
overlapping one; nobody else has the lock of a handler that gives it up). `Keys` follows the key of a seat:
an acquire has the keys it has set (`GotKeys`), a handler deletes only
keys of its own lock (`ToDeleteKeys`, the code never looks), a lock that can be confirmed has its
keys (`ClaimKeys`), and no two locks claim a seat (`ClaimsDisjoint`). The exception is a seat that
is booked for good (`Stuck`): a repeated confirmation may then delete the key of a
later acquire, which the check for booked seats refuses. `KeysFrame` reduces a step
to what it adds and to the keys it takes away (`NoneMissed`), and each action has a lemma. For the refinement
`Holder` is shown to be the inverse of `Claims`, so that a step is a step of the table
as soon as the claims of one lock appear, go, or stay; `NonEmpty` (a lock has a seat) excludes selling nothing.
`TakenAcquireHoldsNothing` needs no `Calm`: the keys an acquire has set are of seats that it has done, or that its
rollback has still to undo (`Tracked`), and nobody else sets a key in its name (`KeysFade`).

Payments. A refund writes what it saw before the gateway plus its amount. The invariant follows that
stale value: what a refund in flight saw has been returned (`Made`), and without overlap it is
still what the row says (`Books`); two rows never share a transaction (`Rows`, `Fresh`).
Where requests about a payment come one by one, `SInv` relates a row to the transaction it names, to the last event, and
to the locals of its one request, step by step: what the request read is still what the row says (`Agrees`), the last event tells it (`Matches`), and a transaction the
gateway accepted is the row's, or that of the request about to write the row (`OnlyCharge`).

Circuit breaker. The counter of a closed circuit never runs ahead of the failures recorded since it
closed, which a success lowers and a late result cannot restart.

Rate limiter and idempotency. A remembered bucket is the ideal one and was silent no longer than it has been
filling; so who is forgotten was full. Of two requests of one key, one past the lock
owns it in fact though not in name: while handlers are quicker than the lock, the lock that is there
is its own.

Tickets. Each property follows one thing that a handler carries across its awaits (`ConsumersProofs`). `Delivered`: on one
channel a tag is one handler's and stands for its message, so an acknowledgement cannot be of another's;
`Printed`: a number drawn is nobody else's, now or later, so writing its PDF overwrites none;
`Seated`: whoever is about to let somebody through saw an unused ticket that is still unused.

Notifications. `NewsOwned`: without resending a handler works on a row that is only its own, of its message;
`NewsTold`: the row of an acknowledged message is settled and nobody works on it. One
mail: a handler that still goes on has sent only mails whose end it doubts; it stops right after the first that it knows of (`Single`).

Accounts. `SpentOnce` rests on `Unspent` (a row that is there, or is to come, was never used) and on
a row being one token's: the delete by id is what makes the second of two refreshes fail.
`CookieIsKnown` rests on `CookieInv`: a token stored once has one owner, the request that will answer with it or the
browser that got it (`OneOwner`), so nobody else can use up its row without first being that browser's own tab.

Catalogue. Where requests come one by one, what a request has looked for is still absent when it writes
(`LooksHold`); a route is never deleted (`RoutesStay`), and the foreign keys do the rest.

Saga. In `RefundedOnce`'s perils a booking has one request under way, which its one handler waits for or which has
outlived it (`OneRequest`); hence a payment the gateway is giving back is still COMPLETED, and one that was given back and
written down is REFUNDED and stays so, which needs that `/payments/confirm` refuses the saga's body (`PayIsRefused`,
computed from `Contracts`). `RefundsOnBooks` is the account: one refund more than were lost is REFUNDED in the row, or is with the
one request that is about to write it, so that no other can be asked for.

Routes. What is to be shown of `ProxiedCallsLand` is a computation over two tables, and it is done line by
line (`CallsLand`): the path a proxy strips and forwards is one of the routes of the controller it reaches.

The ticket office. A step of `Tickets` is a step of the office only because of `MessagesInv`: a booking has one
message at most, ready once or out under one tag (`OneMessage`), and a handler works for a booking that was
confirmed, about to let in only whom it saw a ticket of (`ClerksRead`). Delivery, refusal, reconnection and crash then
move a message between the queue and the tags and leave `due` as it is (`OfficeHandsOut`, `OfficeTakesBack`,
`OfficeReconnects`); an acknowledgement takes one booking out of it, which by `Delivered` is the handler's own and has
its ticket, or else the connection was lost (`OfficeSettles`); a row that is written is one step of `Issue`.

Searches. A line visits each station once (`Visits`). If the first leg that touches one station comes before the first that touches
another, the second is where that leg ends, and the first station lies at or before it (`InOrderConnects`); the first leg
exists because numbers have a least one (`LeastOf`, by well-foundedness: no induction over the line is needed). A journey of a date that
the schedule service finds is of that date by its own column, a departure of the day is in the search service's window by the other: no
theorem says that one finds what the other does.

Search cache. Routes and journeys are only added, and a journey's route exists (`JourneysAreWhole`, proved of
`Catalogue` and inherited by `SearchesOnlyRead`). So what a search finds only grows, while a page of it does not. What does
last is `StillThere`: that a journey is found, and that the pages before it are full of departures no later than its own,
whose number only grows (`AnswersGrow`). A page has that when it is cut, because the rows that `skip` leaves out are an injection
into those departures (`PageInPlace`), also when it is cut from the fewer journeys of the routes that were read one query before
(`ReadersKnow`); from then on, in a handler's hands or in Redis, it keeps it.

Saga, stuck. `Blocked` says which calls are still to come: each write of a booking follows a call that its peer answers
with 400 or 404 (`PayIsRefused`, `UnreserveIsRefused`), follows a row that cannot be inserted, or is for a booking that
`payment.failed` does not name. Hence `BookingsStandStill`: no behaviour changes the status of a booking, whatever fails
and is retried; the finding on `cancelBooking` is one case of it.

The composition. A step of `MCServices` is a step of each component or leaves it alone (`PartsMove`), so
`ServicesSpec` implies their eight specifications, and what was proved of each holds of the whole.

Only model-checked: liveness (`KeysGo`, `LocksEnd`, `Recovers`, `RequestsEnd`, `CreationsLetGo`, `TicketsCome`,
`CouriersRest`, `CacheSettles`), because it needs fairness and ENABLED. The five runs that end in a violation show
what does not hold.

## Plan

1. Done: seats, payments, circuit breaker, with proofs and the refinement of `SeatTable`.
2. Done: `BookingSaga`, `Idempotency`, `Tickets`, `Notifications`, `Gateway`, `Accounts`, `Catalogue`,
   `SearchCache`, `PaymentProvider`, over `Contracts`; all their safety proved.
3. Done: `TicketOffice`, and that `Tickets` implements it.
4. Left: an abstract ledger that `Payments` refines where requests do not overlap.

## Not modelled

The web front end, infrastructure and deployment: no program logic. Reads that change nothing: listings with their paging, `checkAvailability` (which reads the Redis keys and the CONFIRMED rows at different times, and may
offer a seat that acquire then refuses), reports, statistics, rankings and autocompletion. User-service's passengers and
preferences are placeholders that store nothing. SMS is a log line. Payment pages, PDF, QR and templates are
formatting, apart from the name of the template. The queue processor of payment-service is not registered, and neither is the class
`IdempotencyMiddleware` (`idempotency.middleware.ts:5`), beside the interceptor. The gateway's `rate.Limiter`,
Postgres, Redis, RabbitMQ, SSLCommerz and the clock are external. The collision of two `lockId`s is an acquire that fails;
booking rows that confirm before they pay cannot be reached by this code.
