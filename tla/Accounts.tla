------------------------------- MODULE Accounts -------------------------------
(***************************************************************************)
(* The auth service: registration, login, and sessions that live on by     *)
(* exchanging a refresh token for the next one.  A handler yields at every *)
(* query, so the requests of two tabs that share a cookie interleave.      *)
(*                                                                         *)
(* A refresh token is a JWT of the user and of the second it was signed    *)
(* in: two of one user from one second are the same string.                *)
(***************************************************************************)
EXTENDS Integers

CONSTANTS
  People,
  Browsers,
  AuthHandlers,  \* requests of the auth service at a time
  MaxSecond,     \* bound: the clock
  MaxRows,       \* bound: rows of refresh_tokens ever inserted
  JwtLife,       \* seconds until jwtService.verify refuses a token
  RowLife,       \* seconds until expiresAt, 7 days in the code
  MayCrash,      \* may a handler die: subset of BOOLEAN
  NoToken

RefreshTokens == People \X (0..MaxSecond)

ASSUME AccountsAssumption ==
  /\ MaxSecond \in Nat /\ MaxRows \in Nat
  /\ JwtLife \in Nat \ {0} /\ RowLife \in Nat \ {0}
  /\ MayCrash \subseteq BOOLEAN
  /\ NoToken \notin RefreshTokens

VARIABLES
  registered,  \* the rows of users
  stored,      \* refresh_tokens: the id of the row of a token, 0 if there is none
  nextRow,
  now,
  cookie,      \* the refresh token a browser has
  request,     \* locals of each handler
  exchanged,   \* observer: refreshes that used up a row and went on to an answer
  loggedOut,   \* observer: rows deleted by a logout
  issued,      \* observer: how many rows a token ever had
  crashes

accountVars == <<registered, stored, nextRow, now, cookie, request, exchanged, loggedOut, issued, crashes>>

NoRequest == [step |-> "none"]
OfPerson(b, does, p, step) ==
  [step |-> step, by |-> b, does |-> does, token |-> <<p, now>>, old |-> NoToken, row |-> 0]

RequestRec ==
  [step : {"check", "create", "store", "expire", "drop", "answer"}, by : Browsers,
   does : {"register", "login", "refresh", "logout"},
   token : RefreshTokens, old : RefreshTokens \cup {NoToken}, row : 0..MaxRows]

AccountsTypeOK ==
  /\ registered \subseteq People
  /\ stored \in [RefreshTokens -> 0..MaxRows]
  /\ nextRow \in 1..MaxRows + 1
  /\ now \in 0..MaxSecond
  /\ cookie \in [Browsers -> RefreshTokens \cup {NoToken}]
  /\ request \in [AuthHandlers -> RequestRec \cup {NoRequest}]
  /\ exchanged \in [1..MaxRows -> Nat]
  /\ loggedOut \subseteq 1..MaxRows
  /\ issued \in [RefreshTokens -> Nat]
  /\ crashes \in MayCrash

AccountsInit ==
  /\ registered = {}
  /\ stored = [t \in RefreshTokens |-> 0]
  /\ nextRow = 1
  /\ now = 0
  /\ cookie = [b \in Browsers |-> NoToken]
  /\ request = [r \in AuthHandlers |-> NoRequest]
  /\ exchanged = [i \in 1..MaxRows |-> 0]
  /\ loggedOut = {}
  /\ issued = [t \in RefreshTokens |-> 0]
  /\ crashes \in MayCrash

-----------------------------------------------------------------------------
End(r) == request' = [request EXCEPT ![r] = NoRequest]
Step(r, step) == request' = [request EXCEPT ![r].step = step]

\* register looks for the user, hashes the password, creates the user.
Register(r, b, p) ==
  /\ request[r] = NoRequest
  /\ IF p \in registered THEN UNCHANGED request
     ELSE request' = [request EXCEPT ![r] = OfPerson(b, "register", p, "create")]
  /\ UNCHANGED <<registered, stored, nextRow, now, cookie, exchanged, loggedOut, issued, crashes>>

\* nid, email and phone are unique.  The tokens are signed at once.
CreateUser(r) ==
  LET p == request[r].token[1] IN
  /\ request[r].step = "create"
  /\ registered' = registered \cup {p}
  /\ IF p \in registered THEN End(r)
     ELSE request' = [request EXCEPT ![r].step = "store", ![r].token = <<p, now>>]
  /\ UNCHANGED <<stored, nextRow, now, cookie, exchanged, loggedOut, issued, crashes>>

\* login finds the user and compares the password, here the right one.
Login(r, b, p) ==
  /\ request[r] = NoRequest /\ p \in registered
  /\ request' = [request EXCEPT ![r] = OfPerson(b, "login", p, "store")]
  /\ UNCHANGED <<registered, stored, nextRow, now, cookie, exchanged, loggedOut, issued, crashes>>

\* refreshToken verifies the cookie's token and finds its row.
Refresh(r, b) ==
  LET t == cookie[b] IN
  /\ request[r] = NoRequest /\ t # NoToken
  /\ now - t[2] < JwtLife /\ stored[t] # 0
  /\ request' = [request EXCEPT ![r] =
       [OfPerson(b, "refresh", t[1], IF now - t[2] > RowLife THEN "expire" ELSE "store")
          EXCEPT !.old = t, !.row = stored[t]]]
  /\ UNCHANGED <<registered, stored, nextRow, now, cookie, exchanged, loggedOut, issued, crashes>>

HasItsRow(r) == request[r].row # 0 /\ stored[request[r].old] = request[r].row

\* An expired row is deleted, and the refresh refused.
DeleteExpired(r) ==
  /\ request[r].step = "expire"
  /\ stored' = IF HasItsRow(r) THEN [stored EXCEPT ![request[r].old] = 0] ELSE stored
  /\ End(r)
  /\ UNCHANGED <<registered, nextRow, now, cookie, exchanged, loggedOut, issued, crashes>>

\* Mutant: a token that is there already will do.
StoreAnyToken(r) ==
  LET t == request[r].token IN
  /\ request[r].step = "store" /\ nextRow <= MaxRows
  /\ stored' = IF stored[t] # 0 THEN stored ELSE [stored EXCEPT ![t] = nextRow]
  /\ nextRow' = IF stored[t] # 0 THEN nextRow ELSE nextRow + 1
  /\ issued' = IF stored[t] # 0 THEN issued ELSE [issued EXCEPT ![t] = @ + 1]
  /\ Step(r, IF request[r].does = "refresh" THEN "drop" ELSE "answer")
  /\ UNCHANGED <<registered, now, cookie, exchanged, loggedOut, crashes>>

\* generateTokens: refreshToken.create; the token is unique.
StoreToken(r) ==
  LET t == request[r].token IN
  /\ request[r].step = "store" /\ nextRow <= MaxRows
  /\ IF stored[t] # 0 THEN End(r) /\ UNCHANGED <<stored, nextRow, issued>>
     ELSE /\ stored' = [stored EXCEPT ![t] = nextRow]
          /\ nextRow' = nextRow + 1
          /\ issued' = [issued EXCEPT ![t] = @ + 1]
          /\ Step(r, IF request[r].does = "refresh" THEN "drop" ELSE "answer")
  /\ UNCHANGED <<registered, now, cookie, exchanged, loggedOut, crashes>>

\* Mutant: deleteMany, which does not mind a row that is gone.
DropOldMany(r) ==
  LET i == request[r].row IN
  /\ request[r].step = "drop"
  /\ stored' = [stored EXCEPT ![request[r].old] = 0]
  /\ exchanged' = [exchanged EXCEPT ![i] = @ + 1]
  /\ Step(r, "answer")
  /\ UNCHANGED <<registered, nextRow, now, cookie, loggedOut, issued, crashes>>

\* refreshToken.delete by id: a row that is gone makes it a 500, with the new
\* token stored and known to nobody.
DropOld(r) ==
  LET i == request[r].row IN
  /\ request[r].step = "drop"
  /\ IF HasItsRow(r)
     THEN /\ stored' = [stored EXCEPT ![request[r].old] = 0]
          /\ exchanged' = [exchanged EXCEPT ![i] = @ + 1]
          /\ Step(r, "answer")
     ELSE End(r) /\ UNCHANGED <<stored, exchanged>>
  /\ UNCHANGED <<registered, nextRow, now, cookie, loggedOut, issued, crashes>>

\* logout: deleteMany of the cookie's token, there or not.
Logout(r, b) ==
  LET t == cookie[b] IN
  /\ request[r] = NoRequest /\ t # NoToken
  /\ stored' = [stored EXCEPT ![t] = 0]
  /\ loggedOut' = IF stored[t] = 0 THEN loggedOut ELSE loggedOut \cup {stored[t]}
  /\ request' = [request EXCEPT ![r] = OfPerson(b, "logout", t[1], "answer")]
  /\ UNCHANGED <<registered, nextRow, now, cookie, exchanged, issued, crashes>>

\* setCookies or clearCookies reaches the browser.
AnswerBrowser(r) ==
  /\ request[r].step = "answer"
  /\ cookie' = [cookie EXCEPT ![request[r].by] =
                  IF request[r].does = "logout" THEN NoToken ELSE request[r].token]
  /\ End(r)
  /\ UNCHANGED <<registered, stored, nextRow, now, exchanged, loggedOut, issued, crashes>>

\* The process dies, or a query rejects, or the answer is lost.
DieAtAuth(r) ==
  /\ crashes /\ request[r] # NoRequest
  /\ End(r)
  /\ UNCHANGED <<registered, stored, nextRow, now, cookie, exchanged, loggedOut, issued, crashes>>

Second ==
  /\ now < MaxSecond
  /\ now' = now + 1
  /\ UNCHANGED <<registered, stored, nextRow, cookie, request, exchanged, loggedOut, issued, crashes>>

AccountsNext ==
  \/ \E r \in AuthHandlers :
       \/ \E b \in Browsers : Refresh(r, b) \/ Logout(r, b)
                              \/ \E p \in People : Register(r, b, p) \/ Login(r, b, p)
       \/ CreateUser(r) \/ DeleteExpired(r) \/ StoreToken(r) \/ DropOld(r) \/ AnswerBrowser(r)
       \/ DieAtAuth(r)
  \/ Second

AccountsSpec == AccountsInit /\ [][AccountsNext]_accountVars

-----------------------------------------------------------------------------
\* A stored refresh token is used up once: by one refresh that goes on to an
\* answer, however many tabs send it at a time, or by a logout, after which a
\* refresh that was already under way is never answered.
SpentOnce ==
  \A i \in 1..MaxRows : exchanged[i] <= IF i \in loggedOut THEN 0 ELSE 1

\* A browser with nothing under way has no cookie, or one that the service still
\* knows: tabs that race each other through refresh, login and logout never leave it
\* with a token that was deleted.  Not so when an answer is lost, when the token
\* expires, or when the token was stored twice: a login of another browser that was
\* under way in the same second stores it again once the first refresh is through.
CookieIsKnown ==
  \A b \in Browsers :
    \/ crashes
    \/ cookie[b] = NoToken
    \/ \E r \in AuthHandlers : request[r] # NoRequest /\ request[r].by = b
    \/ now - cookie[b][2] > RowLife
    \/ issued[cookie[b]] > 1
    \/ stored[cookie[b]] # 0
=============================================================================
