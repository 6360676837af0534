------------------------------ MODULE Contracts ------------------------------
(***************************************************************************)
(* What the services of Jatra accept from one another over HTTP: the       *)
(* routes each controller declares and the fields its DTOs require and     *)
(* allow.  Every service runs the same global ValidationPipe, which        *)
(* refuses a body with a field its DTO does not name.                      *)
(*                                                                         *)
(* A path is the sequence of its segments, ":id" for any parameter.  A     *)
(* body is the set of the fields it carries, with values of the right      *)
(* types; the DTOs' bounds on values are left to the modules that use them.*)
(***************************************************************************)
EXTENDS Sequences

Dto(must, may) == [must |-> must, may |-> may]

\* A handler without @Body and @Query takes any request.
AnyBody == Dto({}, {"*"})

\* ValidationPipe({ whitelist, forbidNonWhitelisted })
ValidationPipe(dto, body) ==
  dto = AnyBody \/ (dto.must \subseteq body /\ body \subseteq dto.must \cup dto.may)

\* The answer before the handler runs: no such route, a refused body, or none yet.
Answer(routes, method, path, body) ==
  IF ~\E r \in routes : r[1] = method /\ r[2] = path THEN 404
  ELSE IF \E r \in routes : r[1] = method /\ r[2] = path /\ ValidationPipe(r[3], body)
       THEN 200 ELSE 400

-----------------------------------------------------------------------------
(* Seat reservation service.                                               *)

AcquireLockDto == Dto({"userId", "journeyId", "seatIds", "fromStationId", "toStationId"}, {})
CheckAvailabilityDto == Dto({"fromStationId", "toStationId"}, {"seatIds"})
ExtendLockDto == Dto({"lockId", "extensionSeconds"}, {})
ConfirmReservationDto == Dto({"lockId", "paymentId"}, {})
QueryReservationDto == Dto({}, {"status", "page", "limit"})

LocksController ==
  {<<"POST", <<"locks", "acquire">>, AcquireLockDto>>,
   <<"GET", <<"locks", "availability", ":id">>, CheckAvailabilityDto>>,
   <<"POST", <<"locks", "extend">>, ExtendLockDto>>,
   <<"DELETE", <<"locks", ":id">>, AnyBody>>,
   <<"GET", <<"locks", "user", ":id">>, AnyBody>>}

ReservationsController ==
  {<<"POST", <<"reservations", "confirm">>, ConfirmReservationDto>>,
   <<"GET", <<"reservations", ":id">>, AnyBody>>,
   <<"GET", <<"reservations", "user", ":id">>, QueryReservationDto>>,
   <<"DELETE", <<"reservations", ":id">>, AnyBody>>}

SeatRoutes == LocksController \cup ReservationsController

-----------------------------------------------------------------------------
(* Payment service.                                                        *)

InitiatePaymentDto ==
  Dto({"reservationId", "userId", "amount", "paymentMethod"},
      {"cardDetails", "mobileNumber", "customerName", "customerEmail"})
ConfirmPaymentDto == Dto({"transactionId", "status"}, {"gatewayResponse"})
RefundPaymentDto == Dto({"reason"}, {"amount"})
QueryPaymentDto == Dto({}, {"status", "page", "limit", "sortBy", "order"})

PaymentsController ==
  {<<"POST", <<"payments", "initiate">>, InitiatePaymentDto>>,
   <<"POST", <<"payments", "confirm">>, ConfirmPaymentDto>>,
   <<"GET", <<"payments", ":id">>, AnyBody>>,
   <<"GET", <<"payments", "reservation", ":id">>, AnyBody>>,
   <<"GET", <<"payments", "user", ":id">>, QueryPaymentDto>>,
   <<"POST", <<"payments", ":id", "refund">>, RefundPaymentDto>>,
   <<"POST", <<"payments", ":id", "cancel">>, AnyBody>>}

GatewayController ==
  {<<"POST", <<"gateway", "webhook", "sslcommerz", "ipn">>, AnyBody>>,
   <<"POST", <<"gateway", "webhook">>, AnyBody>>,
   <<"GET", <<"gateway", "status", ":id">>, AnyBody>>}

PaymentRoutes == PaymentsController \cup GatewayController

-----------------------------------------------------------------------------
(* Booking service.                                                        *)

CreateBookingDto ==
  Dto({"userId", "journeyId", "seatIds", "fromStationId", "toStationId", "totalAmount",
       "paymentMethod"}, {})
ConfirmBookingDto == Dto({"paymentId", "transactionId"}, {})
CancelBookingDto == Dto({"reason"}, {"userId"})
QueryBookingsDto == Dto({}, {"status", "page", "limit", "sortBy", "sortOrder"})

BookingRoutes ==
  {<<"POST", <<"bookings", "create">>, CreateBookingDto>>,
   <<"POST", <<"bookings", ":id", "confirm">>, ConfirmBookingDto>>,
   <<"GET", <<"bookings", ":id">>, AnyBody>>,
   <<"GET", <<"bookings", "user", ":id">>, QueryBookingsDto>>,
   <<"POST", <<"bookings", ":id", "cancel">>, CancelBookingDto>>,
   <<"GET", <<"bookings", ":id", "status">>, AnyBody>>}

-----------------------------------------------------------------------------
(* Auth service.                                                           *)

RegisterDto == Dto({"nid", "email", "phone", "name", "password"}, {})
LoginDto == Dto({"identifier", "password"}, {})

AuthController ==
  {<<"POST", <<"auth", "register">>, RegisterDto>>,
   <<"POST", <<"auth", "login">>, LoginDto>>,
   <<"POST", <<"auth", "refresh-token">>, AnyBody>>,
   <<"POST", <<"auth", "logout">>, AnyBody>>}

VerifyController == {<<"GET", <<"users", "verify-token">>, AnyBody>>}

AuthRoutes == AuthController \cup VerifyController

-----------------------------------------------------------------------------
(* Ticket and notification services.                                       *)

GenerateTicketDto == Dto({"bookingId"}, {})
ValidateTicketDto == Dto({"ticketNumber", "validatedBy"}, {})

TicketRoutes ==
  {<<"POST", <<"tickets", "generate">>, GenerateTicketDto>>,
   <<"GET", <<"tickets", ":id">>, AnyBody>>,
   <<"GET", <<"tickets", "booking", ":id">>, AnyBody>>,
   <<"GET", <<"tickets", "user", ":id">>, AnyBody>>,
   <<"GET", <<"tickets", ":id", "qr">>, AnyBody>>,
   <<"GET", <<"tickets", ":id", "pdf">>, AnyBody>>,
   <<"POST", <<"tickets", "validate">>, ValidateTicketDto>>}

CreateNotificationDto ==
  Dto({"userId", "type", "subject", "content"}, {"channel", "recipient", "metadata"})
QueryNotificationsDto == Dto({}, {"type", "status", "fromDate", "toDate", "page", "limit"})

NotificationRoutes ==
  {<<"POST", <<"notifications">>, CreateNotificationDto>>,
   <<"GET", <<"notifications", "user", ":id">>, QueryNotificationsDto>>,
   <<"GET", <<"notifications", "user", ":id", "stats">>, AnyBody>>,
   <<"GET", <<"notifications", ":id">>, AnyBody>>,
   <<"POST", <<"notifications", ":id", "resend">>, AnyBody>>}

-----------------------------------------------------------------------------
(* User service.  Its controllers carry the prefix api.                    *)

UpdateProfileDto ==
  Dto({}, {"name", "email", "phone", "dateOfBirth", "gender", "address", "nidNumber",
           "passportNumber"})
UpdatePassengerDto ==
  Dto({}, {"name", "type", "gender", "dateOfBirth", "nidNumber", "passportNumber", "email",
           "phone", "isDefault"})
CreatePassengerDto == Dto({"name", "type"}, UpdatePassengerDto.may)
UpdatePreferencesDto ==
  Dto({}, {"preferredSeatType", "preferredClass", "emailNotifications", "smsNotifications",
           "pushNotifications", "language", "currency", "theme"})
TravelHistoryQueryDto == Dto({}, {"page", "limit"})

ProfileController ==
  {<<"GET", <<"api", "users", "profile">>, AnyBody>>,
   <<"PUT", <<"api", "users", "profile">>, UpdateProfileDto>>,
   <<"DELETE", <<"api", "users", "profile">>, AnyBody>>}

PassengersController ==
  {<<"GET", <<"api", "users", "passengers">>, AnyBody>>,
   <<"POST", <<"api", "users", "passengers">>, CreatePassengerDto>>,
   <<"PUT", <<"api", "users", "passengers", ":id">>, UpdatePassengerDto>>,
   <<"DELETE", <<"api", "users", "passengers", ":id">>, AnyBody>>}

PreferencesController ==
  {<<"GET", <<"api", "users", "preferences">>, AnyBody>>,
   <<"PUT", <<"api", "users", "preferences">>, UpdatePreferencesDto>>}

TravelHistoryController == {<<"GET", <<"api", "users", "travel-history">>, TravelHistoryQueryDto>>}

UserRoutes == ProfileController \cup PassengersController \cup PreferencesController
                \cup TravelHistoryController

-----------------------------------------------------------------------------
(* Schedule service.                                                       *)

CreateTrainDto == Dto({"trainNumber", "name", "type"}, {"isActive"})
CreateStationDto == Dto({"code", "name", "city", "district"}, {"latitude", "longitude", "isActive"})
CreateRouteDto == Dto({"routeName", "totalDistance", "stops"}, {"isActive"})
CreateJourneyDto ==
  Dto({"trainId", "routeId", "departureTime", "arrivalTime", "journeyDate", "totalSeats",
       "availableSeats"}, {"status"})
SearchJourneysDto == Dto({"from", "to", "date"}, {"trainType"})

TrainsController ==
  {<<"POST", <<"trains">>, CreateTrainDto>>,
   <<"GET", <<"trains">>, AnyBody>>,
   <<"GET", <<"trains", ":id">>, AnyBody>>,
   <<"GET", <<"trains", "number", ":id">>, AnyBody>>}

StationsController ==
  {<<"POST", <<"stations">>, CreateStationDto>>,
   <<"GET", <<"stations">>, AnyBody>>,
   <<"GET", <<"stations", ":id">>, AnyBody>>,
   <<"GET", <<"stations", "code", ":id">>, AnyBody>>}

RoutesController ==
  {<<"POST", <<"routes">>, CreateRouteDto>>,
   <<"GET", <<"routes">>, AnyBody>>,
   <<"GET", <<"routes", ":id">>, AnyBody>>}

JourneysController ==
  {<<"POST", <<"journeys">>, CreateJourneyDto>>,
   <<"GET", <<"journeys", "search">>, SearchJourneysDto>>,
   <<"GET", <<"journeys", ":id">>, AnyBody>>,
   <<"GET", <<"journeys", "train", ":id">>, AnyBody>>}

ScheduleRoutes == TrainsController \cup StationsController \cup RoutesController
                    \cup JourneysController

-----------------------------------------------------------------------------
(* Search service.  The prefix api is set for all its controllers.         *)

SearchDto == Dto({"from", "to", "date"}, {"page", "limit", "bypassCache"})
AutocompleteStationsDto == Dto({"query"}, {"limit"})
InvalidateCacheDto == Dto({}, {"keys", "pattern"})

SearchController ==
  {<<"GET", <<"api", "search", "journeys">>, SearchDto>>,
   <<"GET", <<"api", "search", "popular-routes">>, AnyBody>>,
   <<"GET", <<"api", "search", "autocomplete", "stations">>, AutocompleteStationsDto>>,
   <<"GET", <<"api", "search", "stations">>, AnyBody>>}

CacheController ==
  {<<"POST", <<"api", "search", "cache", "invalidate">>, InvalidateCacheDto>>,
   <<"DELETE", <<"api", "search", "cache", "clear">>, AnyBody>>,
   <<"GET", <<"api", "search", "cache", "stats">>, AnyBody>>}

AnalyticsController == {<<"GET", <<"api", "search", "analytics", "popular-searches">>, AnyBody>>}

SearchRoutes == SearchController \cup CacheController \cup AnalyticsController

-----------------------------------------------------------------------------
(* Admin and reporting services.                                           *)

AdminCreateTrainDto == Dto({"name", "trainNumber"}, {"type"})
AdminUpdateTrainDto == Dto({}, {"name", "trainNumber", "type", "isActive"})
QueryTrainsDto == Dto({}, {"page", "limit", "search"})

AdminTrainsController ==
  {<<"GET", <<"api", "admin", "trains">>, QueryTrainsDto>>,
   <<"GET", <<"api", "admin", "trains", ":id">>, AnyBody>>,
   <<"POST", <<"api", "admin", "trains">>, AdminCreateTrainDto>>,
   <<"PUT", <<"api", "admin", "trains", ":id">>, AdminUpdateTrainDto>>,
   <<"DELETE", <<"api", "admin", "trains", ":id">>, AnyBody>>}

\* The five controllers that only list and show.
Shown(name) == {<<"GET", <<"api", "admin", name>>, AnyBody>>,
                <<"GET", <<"api", "admin", name, ":id">>, AnyBody>>}
AdminUsersController == Shown("users")
AdminJourneysController == Shown("journeys")
AdminBookingsController == Shown("bookings")
AdminRoutesController == Shown("routes")
AdminStationsController == {<<"GET", <<"api", "admin", "stations">>, AnyBody>>}
StatsController ==
  {<<"GET", <<"api", "admin", "stats", which>>, AnyBody>> : which \in {"overview", "revenue"}}

AdminRoutes == AdminTrainsController \cup AdminUsersController \cup AdminJourneysController
                 \cup AdminBookingsController \cup AdminRoutesController
                 \cup AdminStationsController \cup StatsController

Reports(topic, names) == {<<"GET", <<"api", "reports", topic, name>>, AnyBody>> : name \in names}
SalesController == Reports("sales", {"revenue", "bookings", "trends"})
FinancialController == Reports("financial", {"summary", "by-route", "by-train"})
OperationsController == Reports("operations", {"trains", "routes", "occupancy"})
UsersReportController == Reports("users", {"growth", "activity", "demographics"})

ReportingRoutes == SalesController \cup FinancialController \cup OperationsController
                     \cup UsersReportController
=============================================================================
