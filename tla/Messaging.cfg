SPECIFICATION MessagingSpec
CONSTANTS
  Bookings = {b1}
  Handlers = {h1}
  MaxRetries = 2
  MaxFailed = 1
  MaxRefunds = 1
  SagaRegimes <- MCSagaRegimes
  Nobody = Nobody
  Booked = {k1}
  Clerks = {c1, c2}
  TicketNumbers = {m1, m2}
  MaxTag = 2
  MaxTicketFaults = 1
  TicketRegimes <- MCTicketRegimes
  NoTicket = NoTicket
  Confirmations = {e1}
  OtherNews = {e2}
  Couriers = {c1, c2}
  MaxMailAttempts = 1
  MaxNotifications = 2
  NewsRegimes <- MCNewsRegimes
  NoNews = NoNews
  s1 = s1
  s2 = s2
  Stations = {s1, s2}
  TrainIds = {t1}
  Numbers = {n1}
  RouteIds = {x1}
  RouteNames = {"Dhaka-Chittagong"}
  JourneyIds = {j1, j2}
  Statuses = {"SCHEDULED"}
  Dates = {0, 1}
  Departures = {0, 1}
  DayLength = 2
  Visits <- MCVisits
  Editors = {d1}
  MayOverlap = {FALSE}
  NoRow = NoRow
  CacheKeys <- MCCacheKeys
  CacheTtl = 1
  Readers = {r1}
  Missing = Missing
INVARIANTS CacheNamesWhatIsThere
PROPERTIES
  RequestsEnd
  CreationsLetGo
  TicketsCome
  CouriersRest
  CacheSettles
CHECK_DEADLOCK FALSE
