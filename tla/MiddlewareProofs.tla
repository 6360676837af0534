--------------------------- MODULE MiddlewareProofs ---------------------------
(***************************************************************************)
(* Proofs about what stands before the handlers: the gateway's rate        *)
(* limiter and its routes, for any clients, costs and limits; the          *)
(* idempotency library, for any number of requests and any times to live;  *)
(* and the circuit breaker, for any number of concurrent calls, any        *)
(* threshold and any timeout.                                              *)
(***************************************************************************)
EXTENDS CircuitBreaker, Gateway, Idempotency, FiniteSetTheorems, SequenceTheorems, TLAPS

-----------------------------------------------------------------------------
(* The rate limiter.                                                       *)

\* What is known of one visitor: a bucket that is remembered is the ideal one and
\* has been filling for as long as its owner was silent; a forgotten one is full.
Remembers(ip) ==
  IF visitors[ip] = Unknown THEN ideal[ip] = Window
  ELSE /\ visitors[ip].tokens = ideal[ip]
       /\ visitors[ip].idle <= ideal[ip] \/ ideal[ip] = Window

GatewayInv ==
  /\ visitors \in [Addresses -> VisitorRec \cup {Unknown}]
  /\ ideal \in [Addresses -> 0..Window]
  /\ sweep \in 0..SweepEvery
  /\ \A ip \in Addresses : Remembers(ip)

\* A token taken from a bucket leaves a bucket: Allow never overdraws.
LEMMA SpendTyped ==
  ASSUME NEW tokens \in 0..Window
  PROVE  Spend(tokens) \in 0..Window
BY GatewayAssumption DEF Spend

\* A bucket that gets a unit back never overflows.
LEMMA FillTyped ==
  ASSUME NEW tokens \in 0..Window
  PROVE  Least(Window, tokens + 1) \in 0..Window
BY GatewayAssumption DEF Least

\* A new limiter starts with the invariant.
LEMMA GatewayInitInv == GatewayInit => GatewayInv
BY GatewayAssumption DEF GatewayInit, GatewayInv, Remembers

\* A request, served or refused, keeps the invariant: both buckets pay alike.
LEMMA RateLimiterInv ==
  ASSUME GatewayInv, NEW ip \in Addresses, NEW call, NEW cookie, NEW header,
         RateLimiter(ip, call, cookie, header)
  PROVE  GatewayInv'
<1>1. Bucket(ip) = ideal[ip]
  BY DEF GatewayInv, Remembers, Bucket
<1>2. /\ visitors[ip] \in VisitorRec \cup {Unknown} /\ ideal[ip] \in 0..Window
  BY DEF GatewayInv
<1>3. GetVisitor(ip) = [tokens |-> Spend(ideal[ip]), idle |-> 0]
  BY <1>1 DEF GetVisitor
<1>4. Spend(ideal[ip]) \in 0..Window
  BY <1>2, SpendTyped
<1>5. GetVisitor(ip) \in VisitorRec
  BY <1>3, <1>4, GatewayAssumption DEF VisitorRec
<1>6. /\ visitors' = [visitors EXCEPT ![ip] = GetVisitor(ip)]
      /\ ideal' = [ideal EXCEPT ![ip] = Spend(ideal[ip])]
      /\ sweep' = sweep
  BY DEF RateLimiter
<1>7. visitors' \in [Addresses -> VisitorRec \cup {Unknown}] /\ ideal' \in [Addresses -> 0..Window]
  BY <1>4, <1>5, <1>6 DEF GatewayInv
<1>8. ASSUME NEW x \in Addresses PROVE Remembers(x)'
  <2>1. CASE x = ip
    <3>1. visitors'[x] = GetVisitor(ip) /\ ideal'[x] = Spend(ideal[ip])
      BY <1>6, <2>1 DEF GatewayInv
    <3>2. visitors'[x] # Unknown
      BY <1>5, <3>1, GatewayAssumption
    <3>3. visitors'[x].tokens = ideal'[x] /\ visitors'[x].idle = 0
      BY <1>3, <3>1
    <3> QED
      BY <1>4, <3>1, <3>2, <3>3 DEF Remembers
  <2>2. CASE x # ip
    <3>1. visitors'[x] = visitors[x] /\ ideal'[x] = ideal[x]
      BY <1>6, <2>2 DEF GatewayInv
    <3> QED
      BY <3>1 DEF GatewayInv, Remembers
  <2> QED
    BY <2>1, <2>2
<1> QED
  BY <1>6, <1>7, <1>8 DEF GatewayInv

\* A sweep keeps the invariant: whoever was silent longer than IdleLimit has had
\* the time to fill the bucket.
LEMMA CleanupVisitorsInv ==
  ASSUME GatewayInv, CleanupVisitors
  PROVE  GatewayInv'
<1>1. visitors' \in [Addresses -> VisitorRec \cup {Unknown}]
  BY DEF GatewayInv, CleanupVisitors
<1>2. ideal' = ideal /\ sweep' \in 0..SweepEvery
  BY GatewayAssumption DEF CleanupVisitors
<1>3. ASSUME NEW x \in Addresses PROVE Remembers(x)'
  <2>1. visitors[x] \in VisitorRec \cup {Unknown} /\ ideal[x] \in 0..Window /\ Remembers(x)
    BY DEF GatewayInv
  <2>2. CASE visitors[x] # Unknown /\ visitors[x].idle > IdleLimit
    <3>1. visitors'[x] = Unknown
      BY <2>2 DEF CleanupVisitors
    <3>2. visitors[x].idle \in 0..IdleLimit + 1
      BY <2>1, <2>2 DEF VisitorRec
    <3>3. ideal[x] = Window
      BY <2>1, <2>2, <3>2, GatewayAssumption DEF Remembers
    <3> QED
      BY <1>2, <3>1, <3>3 DEF Remembers
  <2>3. CASE ~(visitors[x] # Unknown /\ visitors[x].idle > IdleLimit)
    <3>1. visitors'[x] = visitors[x]
      BY <2>3 DEF CleanupVisitors
    <3> QED
      BY <1>2, <2>1, <3>1 DEF Remembers
  <2> QED
    BY <2>2, <2>3
<1> QED
  BY <1>1, <1>2, <1>3 DEF GatewayInv

\* A tick keeps the invariant: it adds one unit and one tick of silence to both.
LEMMA GatewayTickInv ==
  ASSUME GatewayInv, GatewayTick
  PROVE  GatewayInv'
<1>1. ASSUME NEW x \in Addresses
      PROVE  /\ ideal'[x] = Least(Window, ideal[x] + 1) /\ ideal'[x] \in 0..Window
             /\ visitors'[x] \in VisitorRec \cup {Unknown} /\ Remembers(x)'
  <2>1. visitors[x] \in VisitorRec \cup {Unknown} /\ ideal[x] \in 0..Window /\ Remembers(x)
    BY DEF GatewayInv
  <2>2. ideal'[x] = Least(Window, ideal[x] + 1) /\ ideal'[x] \in 0..Window
    BY <2>1, FillTyped DEF GatewayTick
  <2>3. CASE visitors[x] = Unknown
    <3>1. visitors'[x] = Unknown
      BY <2>3 DEF GatewayTick
    <3>2. ideal'[x] = Window
      BY <2>1, <2>2, <2>3, GatewayAssumption DEF Remembers, Least
    <3> QED
      BY <2>2, <3>1, <3>2 DEF Remembers
  <2>4. CASE visitors[x] # Unknown
    <3> DEFINE t == visitors[x].tokens
               i == visitors[x].idle
    <3>1. t \in 0..Window /\ i \in 0..IdleLimit + 1
      BY <2>1, <2>4 DEF VisitorRec
    <3>2. visitors'[x] = [tokens |-> Least(Window, t + 1), idle |-> Least(IdleLimit + 1, i + 1)]
      BY <2>4 DEF GatewayTick
    <3>3. Least(Window, t + 1) \in 0..Window
      BY <3>1, FillTyped
    <3>4. Least(IdleLimit + 1, i + 1) \in 0..IdleLimit + 1 /\ Least(IdleLimit + 1, i + 1) <= i + 1
      BY <3>1, GatewayAssumption DEF Least
    <3>5. visitors'[x] \in VisitorRec
      BY <3>2, <3>3, <3>4 DEF VisitorRec
    <3>6. t = ideal[x] /\ (i <= ideal[x] \/ ideal[x] = Window)
      BY <2>1, <2>4 DEF Remembers
    <3>7. visitors'[x].tokens = ideal'[x] /\ visitors'[x].idle = Least(IdleLimit + 1, i + 1)
      BY <2>2, <3>2, <3>6
    <3>8. visitors'[x].idle <= ideal'[x] \/ ideal'[x] = Window
      <4>1. CASE ideal[x] + 1 <= Window /\ ideal[x] # Window
        <5>1. ideal'[x] = ideal[x] + 1
          BY <2>1, <2>2, <4>1, GatewayAssumption DEF Least
        <5> QED
          BY <2>1, <3>1, <3>4, <3>6, <3>7, <4>1, <5>1
      <4>2. CASE ~(ideal[x] + 1 <= Window /\ ideal[x] # Window)
        BY <2>1, <2>2, <4>2, GatewayAssumption DEF Least
      <4> QED
        BY <4>1, <4>2
    <3> QED
      BY <2>2, <3>5, <3>7, <3>8, GatewayAssumption DEF Remembers
  <2> QED
    BY <2>3, <2>4
<1>2. sweep' \in 0..SweepEvery
  BY GatewayAssumption DEF GatewayInv, GatewayTick
<1>3. visitors' = [x \in Addresses |-> visitors'[x]] /\ ideal' = [x \in Addresses |-> ideal'[x]]
  BY DEF GatewayTick
<1> QED
  BY <1>1, <1>2, <1>3 DEF GatewayInv

\* Every step keeps the invariant.
LEMMA GatewayNextInv == GatewayInv /\ [GatewayNext]_gatewayVars => GatewayInv'
<1> SUFFICES ASSUME GatewayInv, [GatewayNext]_gatewayVars PROVE GatewayInv'
  OBVIOUS
<1>1. CASE UNCHANGED gatewayVars
  BY <1>1 DEF gatewayVars, GatewayInv, Remembers
<1>2. CASE GatewayNext
  BY <1>2, RateLimiterInv, CleanupVisitorsInv, GatewayTickInv DEF GatewayNext
<1> QED
  BY <1>1, <1>2

\* The sweep never gives anybody tokens: whatever the timing of requests and
\* sweeps, each client's bucket is the one of a limiter that forgets nobody.  It
\* rests on GatewayAssumption: a bucket fills within IdleLimit.
THEOREM Harmless == GatewaySpec => []ForgettingIsHarmless
<1>1. GatewayInv => ForgettingIsHarmless
  BY DEF GatewayInv, Remembers, ForgettingIsHarmless, Bucket
<1> QED
  BY <1>1, GatewayInitInv, GatewayNextInv, PTL DEF GatewaySpec

-----------------------------------------------------------------------------
(* The routes.                                                             *)

\* Short paths, joined.
LEMMA Joined ==
  /\ \A x : <<x>> \o <<>> = <<x>>
  /\ \A x, y : <<x>> \o <<y>> = <<x, y>>
  /\ \A x, y, z : <<x>> \o <<y, z>> = <<x, y, z>>
  /\ \A x, y : <<x, y>> \o <<>> = <<x, y>>
  /\ \A x, y, z, w : <<x, y>> \o <<z, w>> = <<x, y, z, w>>
  /\ \A x : <<>> \o <<x>> = <<x>>
<1>1. \A x : <<x>> \o <<>> = <<x>>
  OBVIOUS
<1>2. ASSUME NEW x, NEW y PROVE <<x>> \o <<y>> = <<x, y>>
  <2> PICK c, d, S : c = <<x>> \o <<y>> /\ d = <<x, y>> /\ S = {x, y}
    OBVIOUS
  <2>1. <<x>> \in Seq(S) /\ <<y>> \in Seq(S)
    OBVIOUS
  <2>2. d \in Seq(S) /\ Len(d) = 2 /\ d[1] = x /\ d[2] = y
    OBVIOUS
  <2>3. c \in Seq(S) /\ Len(c) = 2 /\ c[1] = x /\ c[2] = y
    BY <2>1, ConcatProperties
  <2>4. \A i \in 1..2 : c[i] = d[i]
    <3>1. \A i \in 1..2 : i = 1 \/ i = 2
      OBVIOUS
    <3> QED
      BY <2>2, <2>3, <3>1
  <2> QED
    BY <2>2, <2>3, <2>4, SeqEqual
<1>3. ASSUME NEW x, NEW y, NEW z PROVE <<x>> \o <<y, z>> = <<x, y, z>>
  <2> PICK c, d, S : c = <<x>> \o <<y, z>> /\ d = <<x, y, z>> /\ S = {x, y, z}
    OBVIOUS
  <2>1. <<x>> \in Seq(S) /\ <<y, z>> \in Seq(S)
    OBVIOUS
  <2>2. d \in Seq(S) /\ Len(d) = 3 /\ d[1] = x /\ d[2] = y /\ d[3] = z
    OBVIOUS
  <2>3. c \in Seq(S) /\ Len(c) = 3 /\ c[1] = x /\ c[2] = y /\ c[3] = z
    BY <2>1, ConcatProperties
  <2>4. \A i \in 1..3 : c[i] = d[i]
    BY <2>2, <2>3
  <2> QED
    BY <2>2, <2>3, <2>4, SeqEqual
<1>4. \A x, y : <<x, y>> \o <<>> = <<x, y>>
  OBVIOUS
<1>5. ASSUME NEW x, NEW y, NEW z, NEW w PROVE <<x, y>> \o <<z, w>> = <<x, y, z, w>>
  <2> PICK c, d, S : c = <<x, y>> \o <<z, w>> /\ d = <<x, y, z, w>> /\ S = {x, y, z, w}
    OBVIOUS
  <2>1. <<x, y>> \in Seq(S) /\ <<z, w>> \in Seq(S)
    OBVIOUS
  <2>2. d \in Seq(S) /\ Len(d) = 4 /\ d[1] = x /\ d[2] = y /\ d[3] = z /\ d[4] = w
    OBVIOUS
  <2>3. c \in Seq(S) /\ Len(c) = 4 /\ c[1] = x /\ c[2] = y /\ c[3] = z /\ c[4] = w
    BY <2>1, ConcatProperties
  <2>4. \A i \in 1..4 : c[i] = d[i]
    BY <2>2, <2>3
  <2> QED
    BY <2>2, <2>3, <2>4, SeqEqual
<1>6. \A x : <<>> \o <<x>> = <<x>>
  OBVIOUS
<1> QED
  BY <1>1, <1>2, <1>3, <1>4, <1>5, <1>6


\* What the Go table calls is declared by the controllers, the dead routes aside.
Lands(routes, calls) == \A c \in calls : \E r \in routes : r[1] = c[1] /\ r[2] = c[2]

LEMMA ScheduleLands == Lands(ScheduleRoutes, ScheduleRoutesOfGateway)
BY Joined DEF Lands, Gets, Sends, To, ScheduleRoutesOfGateway, ScheduleRoutes, TrainsController,
   StationsController, RoutesController, JourneysController

LEMMA TicketLands == Lands(TicketRoutes, TicketRoutesOfGateway)
BY Joined DEF Lands, Gets, To, TicketRoutesOfGateway, TicketRoutes

LEMMA PaymentLands == Lands(PaymentRoutes, PaymentRoutesOfGateway)
BY Joined DEF Lands, Gets, Sends, To, PaymentRoutesOfGateway, PaymentRoutes, PaymentsController,
   GatewayController

LEMMA AuthLands ==
  Lands(AuthRoutes, {c \in AuthRoutesOfGateway : <<c[1], c[2]>> \notin DeadRoutes})
BY Joined DEF Lands, Sends, To, AuthRoutesOfGateway, AuthRoutes, AuthController, VerifyController, DeadRoutes

LEMMA BookingLands ==
  Lands(BookingRoutes, {c \in BookingRoutesOfGateway : <<c[1], c[2]>> \notin DeadRoutes})
BY Joined DEF Lands, Gets, Sends, To, BookingRoutesOfGateway, BookingRoutes, DeadRoutes

\* A route is in the table of its service.
LEMMA ServiceOf ==
  /\ \A c \in AuthRoutesOfGateway : c[4] = "auth"
  /\ \A c \in ScheduleRoutesOfGateway : c[4] = "schedule"
  /\ \A c \in BookingRoutesOfGateway : c[4] = "booking"
  /\ \A c \in TicketRoutesOfGateway : c[4] = "ticket"
  /\ \A c \in PaymentRoutesOfGateway : c[4] = "payment"
  /\ \A c \in UserRoutesOfGateway : c[4] = "user"
  /\ \A c \in SearchRoutesOfGateway : c[4] = "search"
  /\ \A c \in AdminRoutesOfGateway : c[4] = "admin"
  /\ \A c \in ReportRoutesOfGateway : c[4] = "reporting"
<1>1. \A service, guards, calls : \A c \in To(service, guards, calls) : c[4] = service
  BY DEF To
<1> QED
  BY <1>1 DEF AuthRoutesOfGateway, ScheduleRoutesOfGateway, BookingRoutesOfGateway,
              TicketRoutesOfGateway, PaymentRoutesOfGateway, UserRoutesOfGateway,
              SearchRoutesOfGateway, AdminRoutesOfGateway, ReportRoutesOfGateway

\* A call of a core service has a handler, unless its route is dead.
LEMMA CoreLanding ==
  ASSUME NEW call \in SetupRoutes, call[4] \in CoreServices,
         <<call[1], call[2]>> \notin DeadRoutes
  PROVE  Landing(call) = 200
<1>1. CASE call[4] = "auth"
  <2>1. call \in AuthRoutesOfGateway
    BY <1>1, ServiceOf DEF SetupRoutes
  <2> QED
    BY <1>1, <2>1, AuthLands DEF Lands, Landing, RoutesOf, Forward
<1>2. CASE call[4] = "schedule"
  <2>1. call \in ScheduleRoutesOfGateway
    BY <1>2, ServiceOf DEF SetupRoutes
  <2> QED
    BY <1>2, <2>1, ScheduleLands DEF Lands, Landing, RoutesOf, Forward
<1>3. CASE call[4] = "booking"
  <2>1. call \in BookingRoutesOfGateway
    BY <1>3, ServiceOf DEF SetupRoutes
  <2> QED
    BY <1>3, <2>1, BookingLands DEF Lands, Landing, RoutesOf, Forward
<1>4. CASE call[4] = "ticket"
  <2>1. call \in TicketRoutesOfGateway
    BY <1>4, ServiceOf DEF SetupRoutes
  <2> QED
    BY <1>4, <2>1, TicketLands DEF Lands, Landing, RoutesOf, Forward
<1>5. CASE call[4] = "payment"
  <2>1. call \in PaymentRoutesOfGateway
    BY <1>5, ServiceOf DEF SetupRoutes
  <2> QED
    BY <1>5, <2>1, PaymentLands DEF Lands, Landing, RoutesOf, Forward
<1> QED
  BY <1>1, <1>2, <1>3, <1>4, <1>5 DEF CoreServices

\* ProxiedCallsLand: the two route tables agree, line by line.
THEOREM CallsLand == GatewaySpec => []ProxiedCallsLand
<1>1. GatewayInit => ProxiedCallsLand
  BY DEF GatewayInit, ProxiedCallsLand
<1>2. ProxiedCallsLand /\ [GatewayNext]_gatewayVars => ProxiedCallsLand'
  <2> SUFFICES ASSUME ProxiedCallsLand, [GatewayNext]_gatewayVars PROVE ProxiedCallsLand'
    OBVIOUS
  <2>1. ASSUME NEW ip \in Addresses, NEW call \in SetupRoutes, NEW cookie \in Tokens,
               NEW header \in Tokens, RateLimiter(ip, call, cookie, header)
        PROVE  ProxiedCallsLand'
    <3>1. PICK status : /\ answered' = <<call, status>>
                        /\ status = 404 => Landing(call) = 404
      BY <2>1 DEF RateLimiter, Pass
    <3> QED
      BY <3>1, CoreLanding DEF ProxiedCallsLand
  <2>2. CASE answered' = <<>>
    BY <2>2 DEF ProxiedCallsLand
  <2>3. CASE UNCHANGED gatewayVars
    BY <2>3 DEF ProxiedCallsLand, gatewayVars
  <2> QED
    BY <2>1, <2>2, <2>3 DEF GatewayNext, CleanupVisitors, GatewayTick
<1> QED
  BY <1>1, <1>2, PTL DEF GatewaySpec

\* Types of the gateway: the request just handled is one of the table.
THEOREM GatewayTyped == GatewaySpec => []GatewayTypeOK
<1> DEFINE Known == answered = <<>> \/ (Len(answered) = 2 /\ answered[1] \in SetupRoutes)
<1>1. GatewayInit => Known
  BY DEF GatewayInit
<1>2. Known /\ [GatewayNext]_gatewayVars => Known'
  <2> SUFFICES ASSUME Known, [GatewayNext]_gatewayVars PROVE Known'
    OBVIOUS
  <2>1. ASSUME NEW ip \in Addresses, NEW call \in SetupRoutes, NEW cookie \in Tokens,
               NEW header \in Tokens, RateLimiter(ip, call, cookie, header)
        PROVE  Known'
    <3>1. PICK status : answered' = <<call, status>>
      BY <2>1 DEF RateLimiter
    <3> QED
      BY <3>1
  <2> QED
    BY <2>1 DEF GatewayNext, CleanupVisitors, GatewayTick, gatewayVars
<1>3. GatewayInv /\ Known => GatewayTypeOK
  BY DEF GatewayInv, GatewayTypeOK
<1> QED
  BY <1>1, <1>2, <1>3, GatewayInitInv, GatewayNextInv, PTL DEF GatewaySpec

-----------------------------------------------------------------------------
(* The idempotency library.                                                *)

\* Where a request holds the lock, or thinks so.
Holding == {"handler", "store", "release"}

\* Handlers that are quicker than their lock have it while they think so, and so
\* there is but one of them.
IdempotencyInv ==
  /\ IdempotencyTypeOK
  /\ "slow" \notin postPerils =>
       /\ \A p \in Posts : post[p] \in Holding => lock # 0
       /\ \A p, q \in Posts : post[p] \in Holding /\ post[q] \in Holding => p = q

\* Before the first request nobody holds anything.
LEMMA IdempotencyInitInv == IdempotencyInit => IdempotencyInv
BY IdempotencyAssumption DEF IdempotencyInit, IdempotencyInv, IdempotencyTypeOK, Holding, PostSteps

\* Every step keeps the invariant; the lock's last tick waits for its handler.
LEMMA IdempotencyNextInv ==
  IdempotencyInv /\ [IdempotencyNext]_idempotencyVars => IdempotencyInv'
<1> SUFFICES ASSUME IdempotencyInv, [IdempotencyNext]_idempotencyVars PROVE IdempotencyInv'
  OBVIOUS
<1> USE IdempotencyAssumption DEF IdempotencyInv, IdempotencyTypeOK, Holding, PostSteps, Move
<1>1. ASSUME NEW p \in Posts, CheckIdempotency(p) PROVE IdempotencyInv'
  BY <1>1 DEF CheckIdempotency
<1>2. ASSUME NEW p \in Posts, AcquireIdempotencyLock(p) PROVE IdempotencyInv'
  <2>1. CASE /\ lock = 0 /\ runs < MaxRuns
             /\ lock' = LockTtl /\ Move(p, "handler") /\ runs' = runs + 1
    <3>1. IdempotencyTypeOK'
      BY <1>2, <2>1 DEF AcquireIdempotencyLock
    <3>2. \A q \in Posts : post'[q] = IF q = p THEN "handler" ELSE post[q]
      BY <2>1
    <3>3. "slow" \notin postPerils => \A q \in Posts : post[q] \notin Holding
      BY <2>1
    <3> QED
      BY <1>2, <2>1, <3>1, <3>2, <3>3 DEF AcquireIdempotencyLock
  <2>2. CASE lock # 0 /\ Move(p, "none") /\ UNCHANGED <<lock, runs>>
    BY <1>2, <2>2 DEF AcquireIdempotencyLock
  <2>3. CASE /\ lock' \in {lock, IF lock = 0 THEN LockTtl ELSE lock}
             /\ Move(p, "none") /\ UNCHANGED runs
    BY <1>2, <2>3 DEF AcquireIdempotencyLock
  <2> QED
    BY <1>2, <2>1, <2>2, <2>3 DEF AcquireIdempotencyLock
<1>3. ASSUME NEW p \in Posts, Handle(p) PROVE IdempotencyInv'
  BY <1>3 DEF Handle
<1>4. ASSUME NEW p \in Posts, StoreAnswer(p) PROVE IdempotencyInv'
  BY <1>4 DEF StoreAnswer
<1>5. ASSUME NEW p \in Posts, ReleaseIdempotencyLock(p) PROVE IdempotencyInv'
  <2>1. IdempotencyTypeOK'
    BY <1>5 DEF ReleaseIdempotencyLock
  <2>2. \A q \in Posts : post'[q] = IF q = p THEN "none" ELSE post[q]
    BY <1>5 DEF ReleaseIdempotencyLock
  <2>3. "slow" \notin postPerils => \A q \in Posts : post'[q] \notin Holding
    BY <1>5, <2>2 DEF ReleaseIdempotencyLock
  <2> QED
    BY <1>5, <2>1, <2>3 DEF ReleaseIdempotencyLock
<1>6. ASSUME NEW p \in Posts, PostDies(p) PROVE IdempotencyInv'
  BY <1>6 DEF PostDies
<1>7. CASE PostTick
  BY <1>7 DEF PostTick
<1>8. CASE UNCHANGED idempotencyVars
  BY <1>8 DEF idempotencyVars
<1> QED
  BY <1>1, <1>2, <1>3, <1>4, <1>5, <1>6, <1>7, <1>8 DEF IdempotencyNext

\* A set of which any two members are the same has at most one.
LEMMA AtMostOne ==
  ASSUME NEW S, \A x, y \in S : x = y
  PROVE  Cardinality(S) <= 1
<1>1. CASE S = {}
  BY <1>1, FS_EmptySet
<1>2. CASE S # {}
  <2>1. PICK x \in S : TRUE
    BY <1>2
  <2>2. S = {x}
    BY <2>1
  <2> QED
    BY <2>2, FS_Singleton
<1> QED
  BY <1>1, <1>2

\* Two handlers of one idempotency key never run together as long as they are
\* quicker than their lock, whatever Redis, the handlers and the processes do,
\* although the lock names no owner and anybody's release deletes it.
THEOREM Alone == IdempotencySpec => []NeverTogether
<1>1. IdempotencyInv => NeverTogether
  <2> SUFFICES ASSUME IdempotencyInv, "slow" \notin postPerils
               PROVE  Cardinality({p \in Posts : post[p] \in {"handler", "store"}}) <= 1
    BY DEF NeverTogether
  <2>1. \A p, q \in {x \in Posts : post[x] \in {"handler", "store"}} : p = q
    BY DEF IdempotencyInv, Holding
  <2> QED
    BY <2>1, AtMostOne
<1> QED
  BY <1>1, IdempotencyInitInv, IdempotencyNextInv, PTL DEF IdempotencySpec

\* Types of the idempotency library.
THEOREM IdempotencyTyped == IdempotencySpec => []IdempotencyTypeOK
<1>1. IdempotencyInv => IdempotencyTypeOK
  BY DEF IdempotencyInv
<1> QED
  BY <1>1, IdempotencyInitInv, IdempotencyNextInv, PTL DEF IdempotencySpec

-----------------------------------------------------------------------------
(* The circuit breaker.                                                    *)

\* Types, whatever calls are in flight when the circuit changes.
THEOREM BreakerTyped == Spec => []TypeOK
<1> USE ConstantsAssumption DEF TypeOK
<1>1. Init => TypeOK
  BY DEF Init
<1>2. TypeOK /\ [Next]_vars => TypeOK'
  <2> SUFFICES ASSUME TypeOK, [Next]_vars PROVE TypeOK'
    OBVIOUS
  <2>1. ASSUME NEW c \in Calls, Admit(c) PROVE TypeOK'
    BY <2>1 DEF Admit, Become
  <2>2. ASSUME NEW c \in Calls, Fail(c) PROVE TypeOK'
    BY <2>2 DEF Fail, Become, UpTo
  <2>3. ASSUME NEW c \in Calls, Succeed(c) PROVE TypeOK'
    <3>1. failures \div 2 \in 0..MaxFailures
      OBVIOUS
    <3>2. QED
      BY <2>3, <3>1 DEF Succeed, Become
  <2>4. CASE Reset
    BY <2>4 DEF Reset, Become
  <2>5. CASE Tick
    BY <2>5 DEF Tick, UpTo
  <2>6. ASSUME UNCHANGED vars PROVE TypeOK'
    BY <2>6 DEF vars
  <2>7. QED
    BY <2>1, <2>2, <2>3, <2>4, <2>5, <2>6 DEF Next, RefuseCall
<1>3. QED
  BY <1>1, <1>2, PTL DEF Spec

\* The time since the circuit opened and the time its cool-down is measured by
\* start together and run together: no result that comes back late restarts one.
THEOREM CoolDown == Spec => []CoolDownIsTimeout
<1> USE DEF CoolDownIsTimeout
<1>1. Init => CoolDownIsTimeout
  BY DEF Init
<1>2. CoolDownIsTimeout /\ [Next]_vars => CoolDownIsTimeout'
  <2> SUFFICES ASSUME CoolDownIsTimeout, [Next]_vars PROVE CoolDownIsTimeout'
    OBVIOUS
  <2>1. ASSUME NEW c \in Calls, Admit(c) PROVE CoolDownIsTimeout'
    BY <2>1 DEF Admit, Become
  <2>2. ASSUME NEW c \in Calls, Fail(c) PROVE CoolDownIsTimeout'
    BY <2>2 DEF Fail, Become
  <2>3. ASSUME NEW c \in Calls, Succeed(c) PROVE CoolDownIsTimeout'
    BY <2>3 DEF Succeed, Become
  <2>4. CASE Reset
    BY <2>4 DEF Reset, Become
  <2>5. CASE Tick
    BY <2>5 DEF Tick
  <2>6. ASSUME UNCHANGED vars PROVE CoolDownIsTimeout'
    BY <2>6 DEF vars
  <2>7. QED
    BY <2>1, <2>2, <2>3, <2>4, <2>5, <2>6 DEF Next, RefuseCall
<1>3. QED
  BY <1>1, <1>2, PTL DEF Spec

-----------------------------------------------------------------------------
\* The counter of a closed circuit never runs ahead of the failures recorded
\* since it closed (a success only takes some back), and is below the threshold.
CountIsEarned ==
  state = "closed" => failures <= recorded /\ failures < MaxFailures

\* It is inductive over types.
LEMMA CountIsEarnedStep ==
  ASSUME TypeOK, CountIsEarned, [Next]_vars
  PROVE  CountIsEarned'
<1> USE ConstantsAssumption DEF TypeOK, CountIsEarned
<1>1. ASSUME NEW c \in Calls, Admit(c) PROVE CountIsEarned'
  BY <1>1 DEF Admit, Become
<1>2. ASSUME NEW c \in Calls, Fail(c) PROVE CountIsEarned'
  BY <1>2 DEF Fail, Become, UpTo
<1>3. ASSUME NEW c \in Calls, Succeed(c) PROVE CountIsEarned'
  <2>1. failures \div 2 <= failures
    OBVIOUS
  <2>2. QED
    BY <1>3, <2>1 DEF Succeed, Become
<1>4. CASE Reset
  BY <1>4 DEF Reset, Become
<1>5. CASE Tick
  BY <1>5 DEF Tick
<1>6. ASSUME UNCHANGED vars PROVE CountIsEarned'
  BY <1>6 DEF vars
<1>7. QED
  BY <1>1, <1>2, <1>3, <1>4, <1>5, <1>6 DEF Next, RefuseCall

\* A closed circuit opens after MaxFailures failures recorded since it closed.
THEOREM Earned == Spec => OpeningIsEarned
<1>1. Init => CountIsEarned
  BY ConstantsAssumption DEF Init, CountIsEarned
<1>2. TypeOK /\ CountIsEarned /\ [Next]_vars => CountIsEarned'
  BY CountIsEarnedStep
<1>3. TypeOK /\ CountIsEarned /\ [Next]_vars
        => [state = "closed" /\ state' = "open" => recorded' = MaxFailures]_vars
  <2> SUFFICES ASSUME TypeOK, CountIsEarned, Next, state = "closed", state' = "open"
               PROVE  recorded' = MaxFailures
    OBVIOUS
  <2>1. PICK c \in Calls : Fail(c)
    BY DEF Next, Admit, RefuseCall, Succeed, Reset, Tick, Become, vars
  <2>2. failures + 1 >= MaxFailures /\ recorded' = UpTo(recorded + 1, MaxFailures)
    BY <2>1 DEF Fail
  <2>3. failures <= recorded /\ failures \in Nat /\ recorded \in Nat /\ MaxFailures \in Nat
    BY ConstantsAssumption DEF TypeOK, CountIsEarned
  <2>4. QED
    BY <2>2, <2>3 DEF UpTo
<1>4. QED
  BY <1>1, <1>2, <1>3, BreakerTyped, PTL DEF Spec, OpeningIsEarned
=============================================================================
