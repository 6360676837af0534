------------------------------- MODULE Gateway -------------------------------
(***************************************************************************)
(* What the API gateway does with a request before the circuit breaker:    *)
(* the rate limiter with its forgetful table of visitors, the token check, *)
(* the role check, and the route to a service.                             *)
(*                                                                         *)
(* Time is in units in which a bucket gets one unit back per tick: a token *)
(* costs Cost units and a full bucket holds Window of them                 *)
(* (RateLimitRequests tokens, refilled in RateLimitWindowSeconds).         *)
(***************************************************************************)
EXTENDS Integers, Contracts

CONSTANTS
  Addresses,   \* client IPs
  Window,      \* a full bucket, and the ticks that fill an empty one
  Cost,        \* one token
  IdleLimit,   \* ticks after which a silent visitor is forgotten: 10 minutes
  SweepEvery,  \* ticks between two sweeps: 5 minutes
  Unknown

VisitorRec == [tokens : 0..Window, idle : 0..IdleLimit + 1]

\* The defaults fill a bucket in one minute: longer than IdleLimit it must not take.
ASSUME GatewayAssumption ==
  /\ Window \in Nat \ {0} /\ Cost \in 1..Window
  /\ IdleLimit \in Nat /\ Window <= IdleLimit
  /\ SweepEvery \in Nat \ {0}
  /\ Unknown \notin VisitorRec

VARIABLES
  visitors,  \* Unknown, or what is in the bucket and the ticks since lastSeen
  ideal,     \* observer: the bucket of a limiter that never forgets
  sweep,     \* ticks until the next sweep
  answered   \* observer: the request just handled and its answer

gatewayVars == <<visitors, ideal, sweep, answered>>

-----------------------------------------------------------------------------
(* The routes: method, path behind /api, guards, service.                  *)

To(service, guards, calls) == {<<call[1], call[2], guards, service>> : call \in calls}
Gets(base, rests) == {<<"GET", base \o rest>> : rest \in rests}
Sends(method, base, rests) == {<<method, base \o rest>> : rest \in rests}

AuthRoutesOfGateway ==
  To("auth", {}, Sends("POST", <<"auth">>, {<<"register">>, <<"login">>, <<"refresh-token">>}))
  \cup To("auth", {"jwt"}, Sends("POST", <<"auth">>, {<<"logout">>})
                           \cup {<<"GET", <<"users", "me">>>>, <<"PATCH", <<"users", "me">>>>})

ScheduleRoutesOfGateway ==
  To("schedule", {},
     Gets(<<"trains">>, {<<>>, <<":id">>, <<"number", ":id">>})
     \cup Gets(<<"stations">>, {<<>>, <<":id">>, <<"code", ":id">>})
     \cup Gets(<<"routes">>, {<<>>, <<":id">>})
     \cup Gets(<<"journeys">>, {<<"search">>, <<":id">>, <<"train", ":id">>}))
  \cup To("schedule", {"jwt"},
          Sends("POST", <<>>, {<<"trains">>, <<"stations">>, <<"routes">>, <<"journeys">>}))

BookingRoutesOfGateway ==
  To("booking", {"jwt"},
     Sends("POST", <<"bookings">>, {<<"create">>, <<":id", "confirm">>, <<":id", "cancel">>})
     \cup Gets(<<"bookings">>, {<<>>, <<":id">>}))

TicketRoutesOfGateway == To("ticket", {"jwt"}, Gets(<<"tickets">>, {<<":id">>, <<":id", "pdf">>}))

PaymentRoutesOfGateway ==
  To("payment", {"jwt"},
     Sends("POST", <<"payments">>, {<<"initiate">>, <<"confirm">>, <<":id", "refund">>,
                                    <<":id", "cancel">>})
     \cup Gets(<<"payments">>, {<<":id">>, <<"reservation", ":id">>, <<"user", ":id">>})
     \cup Gets(<<"gateway">>, {<<"status", ":id">>}))
  \cup To("payment", {}, Sends("POST", <<"gateway", "webhook">>, {<<>>, <<"sslcommerz", "ipn">>}))

UserRoutesOfGateway ==
  To("user", {"jwt"},
     Gets(<<"user">>, {<<"profile">>, <<"passengers">>, <<"preferences">>})
     \cup Sends("PATCH", <<"user">>, {<<"profile">>, <<"passengers", ":id">>, <<"preferences">>})
     \cup Sends("POST", <<"user">>, {<<"change-password">>, <<"passengers">>})
     \cup Sends("DELETE", <<"user">>, {<<"passengers", ":id">>}))

SearchRoutesOfGateway ==
  To("search", {}, Gets(<<"search">>, {<<"journeys">>, <<"autocomplete">>, <<"suggestions">>}))
  \cup To("search", {"jwt", "role"}, {<<"POST", <<"search", "cache", "invalidate">>>>,
                                      <<"GET", <<"search", "cache", "stats">>>>})

AdminRoutesOfGateway ==
  To("admin", {"jwt", "role"},
     Gets(<<"admin">>, {<<"users">>, <<"users", ":id">>, <<"bookings">>})
     \cup {<<"PATCH", <<"admin", "users", ":id">>>>, <<"PATCH", <<"admin", "bookings", ":id", "status">>>>}
     \cup UNION {{<<"POST", <<"admin", x>>>>, <<"PATCH", <<"admin", x, ":id">>>>,
                  <<"DELETE", <<"admin", x, ":id">>>>} :
                 x \in {"trains", "stations", "routes", "journeys"}})

ReportRoutesOfGateway ==
  To("reporting", {"jwt", "role"},
     Gets(<<"reports">>, {<<x>> : x \in {"bookings", "revenue", "trains", "users", "daily", "weekly",
                                         "monthly", "dashboard"}}
                         \cup {<<x, "export">> : x \in {"bookings", "revenue", "trains", "users"}}))

SetupRoutes ==
  AuthRoutesOfGateway \cup ScheduleRoutesOfGateway \cup BookingRoutesOfGateway
  \cup TicketRoutesOfGateway \cup PaymentRoutesOfGateway \cup UserRoutesOfGateway
  \cup SearchRoutesOfGateway \cup AdminRoutesOfGateway \cup ReportRoutesOfGateway

RoutesOf(service) ==
  CASE service = "auth" -> AuthRoutes         [] service = "schedule" -> ScheduleRoutes
    [] service = "booking" -> BookingRoutes   [] service = "ticket" -> TicketRoutes
    [] service = "payment" -> PaymentRoutes   [] service = "user" -> UserRoutes
    [] service = "search" -> SearchRoutes     [] service = "admin" -> AdminRoutes
    [] service = "reporting" -> ReportingRoutes

\* Mutant: the path goes on as it came.
ForwardUnstripped(path) == <<"api">> \o path

\* ProxyRequest strips /api.
Forward(path) == path

\* What a service answers to the proxied call, its body aside.
Landing(call) ==
  IF \E r \in RoutesOf(call[4]) : r[1] = call[1] /\ r[2] = Forward(call[2]) THEN 200 ELSE 404

-----------------------------------------------------------------------------
(* The middlewares.                                                        *)

Tokens == {"none", "stale", "valid"}

\* JWTAuth: a cookie, whatever it is worth, hides the header.
Token(cookie, header) == IF cookie # "none" THEN cookie ELSE header

\* generateTokens signs nothing but sub, so the role of every token is "".
SignedRole == ""
RequireRole(call) == IF call[4] = "reporting" THEN {"ADMIN", "MANAGER"} ELSE {"ADMIN"}

Pass(call, cookie, header) ==
  IF "jwt" \in call[3] /\ Token(cookie, header) # "valid" THEN 401
  ELSE IF "role" \in call[3] /\ SignedRole \notin RequireRole(call) THEN 403
  ELSE Landing(call)

Least(x, y) == IF x <= y THEN x ELSE y

\* A new limiter starts with a full bucket.
Bucket(ip) == IF visitors[ip] = Unknown THEN Window ELSE visitors[ip].tokens

\* Mutant: an empty bucket is overdrawn.
SpendAlways(tokens) == tokens - Cost

Spend(tokens) == IF tokens >= Cost THEN tokens - Cost ELSE tokens

\* Mutant: lastSeen stays what it was when the visitor was new.
GetVisitorUnseen(ip) ==
  [tokens |-> Spend(Bucket(ip)), idle |-> IF visitors[ip] = Unknown THEN 0 ELSE visitors[ip].idle]

\* getVisitor and Allow: a refused request is seen, too.
GetVisitor(ip) == [tokens |-> Spend(Bucket(ip)), idle |-> 0]

RateLimiter(ip, call, cookie, header) ==
  /\ visitors' = [visitors EXCEPT ![ip] = GetVisitor(ip)]
  /\ ideal' = [ideal EXCEPT ![ip] = Spend(@)]
  /\ answered' = <<call, IF Bucket(ip) < Cost THEN 429 ELSE Pass(call, cookie, header)>>
  /\ UNCHANGED sweep

CleanupVisitors ==
  /\ sweep = 0
  /\ visitors' = [ip \in Addresses |->
       IF visitors[ip] # Unknown /\ visitors[ip].idle > IdleLimit THEN Unknown ELSE visitors[ip]]
  /\ sweep' = SweepEvery
  /\ answered' = <<>>
  /\ UNCHANGED ideal

\* Beyond IdleLimit + 1 nothing compares the idle time.
GatewayTick ==
  /\ sweep > 0
  /\ sweep' = sweep - 1
  /\ visitors' = [ip \in Addresses |->
       IF visitors[ip] = Unknown THEN Unknown
       ELSE [tokens |-> Least(Window, visitors[ip].tokens + 1),
             idle |-> Least(IdleLimit + 1, visitors[ip].idle + 1)]]
  /\ ideal' = [ip \in Addresses |-> Least(Window, ideal[ip] + 1)]
  /\ answered' = <<>>

GatewayInit ==
  /\ visitors = [ip \in Addresses |-> Unknown]
  /\ ideal = [ip \in Addresses |-> Window]
  /\ sweep = SweepEvery
  /\ answered = <<>>

GatewayNext ==
  \/ \E ip \in Addresses, call \in SetupRoutes, cookie, header \in Tokens :
       RateLimiter(ip, call, cookie, header)
  \/ CleanupVisitors
  \/ GatewayTick

GatewaySpec == GatewayInit /\ [][GatewayNext]_gatewayVars

GatewayTypeOK ==
  /\ visitors \in [Addresses -> VisitorRec \cup {Unknown}]
  /\ ideal \in [Addresses -> 0..Window]
  /\ sweep \in 0..SweepEvery
  /\ answered = <<>> \/ (Len(answered) = 2 /\ answered[1] \in SetupRoutes)

-----------------------------------------------------------------------------
\* The sweep never gives anybody tokens: a visitor is forgotten only when the
\* bucket was full again, so that forgetting and starting anew with a full one
\* cannot be told from remembering, whatever the timing of requests and sweeps.
ForgettingIsHarmless == \A ip \in Addresses : Bucket(ip) = ideal[ip]

\* The Go routes and the Nest controllers agree: a request that the gateway lets
\* through to one of the five core services lands on a handler, except for the
\* three routes that no controller declares.
DeadRoutes == {<<"GET", <<"users", "me">>>>, <<"PATCH", <<"users", "me">>>>, <<"GET", <<"bookings">>>>}
CoreServices == {"auth", "schedule", "booking", "ticket", "payment"}
ProxiedCallsLand ==
  answered # <<>> /\ answered[2] = 404 /\ answered[1][4] \in CoreServices
    => <<answered[1][1], answered[1][2]>> \in DeadRoutes
=============================================================================
