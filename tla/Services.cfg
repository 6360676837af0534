SPECIFICATION ServicesSpec
CONSTANTS
  Addresses = {a1}
  Window = 3
  Cost = 2
  IdleLimit = 3
  SweepEvery = 2
  Unknown = Unknown
  People = {w1}
  Browsers = {browser1, browser2}
  AuthHandlers = {r1, r2}
  MaxSecond = 2
  MaxRows = 3
  JwtLife = 3
  RowLife = 1
  MayCrash = {TRUE, FALSE}
  NoToken = NoToken
  Stations = {s1, s2, s3}
  TrainIds = {t1}
  Numbers = {n1}
  RouteIds = {x1, x2}
  RouteNames = {m1}
  JourneyIds = {j1, j2}
  Statuses = {"SCHEDULED", "DELAYED", "CANCELLED"}
  Dates = {0, 1}
  Departures = {1}
  DayLength = 1
  s1 = s1
  s2 = s2
  s3 = s3
  Visits <- MCVisits
  Editors = {e1, e2}
  MayOverlap = {TRUE, FALSE}
  NoRow = NoRow
  Posts = {p1, p2}
  LockTtl = 2
  ResultTtl = 3
  MaxRuns = 3
  PostRegimes <- MCPostRegimes
  Txns = {k1, k2}
  Providers = {"MOCK", "SSLCOMMERZ"}
  Configured = {TRUE, FALSE}
  MaxUnder = 2
  Bookings = {b1}
  Handlers = {h1, h2}
  MaxRetries = 1
  MaxFailed = 1
  MaxRefunds = 2
  SagaRegimes <- MCSagaRegimes
  Nobody = Nobody
  Booked = {g1}
  Clerks = {c1, c2}
  TicketNumbers = {i1, i2}
  MaxTag = 2
  MaxTicketFaults = 1
  TicketRegimes <- MCTicketRegimes
  NoTicket = NoTicket
  Confirmations = {v1}
  OtherNews = {v2}
  Couriers = {d1, d2}
  MaxMailAttempts = 1
  MaxNotifications = 2
  NewsRegimes <- MCNewsRegimes
  NoNews = NoNews
INVARIANTS
  ServicesTypeOK
  ForgettingIsHarmless
  ProxiedCallsLand
  SpentOnce
  CookieIsKnown
  NoDuplicates
  JourneysAreWhole
  SearchesBracketTheTruth
  NeverTogether
  SuccessIsReal
  RefundedOnce
  AckedHasTicket
  TicketIsPrinted
  BoardsOnce
  AckedIsSettled
  MailedOnce
PROPERTIES ActsAsOffice
CHECK_DEADLOCK FALSE
