----------------------------- MODULE RecordsProofs -----------------------------
(****************************************************************************)
(* What the services keep on record, for any number of rows and requests: a *)
(* refresh token is spent once, a journey has its train and its route, a    *)
(* success of the payment provider is real, and a payment is given back     *)
(* once, but for refunds that were never recorded.  In each of them a       *)
(* handler writes after a look that may be stale; the invariants say what   *)
(* the look is still good for.  Of what is read, the two searches bracket   *)
(* the truth, each of its own day, and a page of the cache names nothing    *)
(* that a search would not find.  And the saga stands still: its peers      *)
(* refuse every call that comes before a change of a booking.               *)
(****************************************************************************)
EXTENDS Accounts, SearchCache, PaymentProvider, BookingSaga, FiniteSetTheorems,
        WellFoundedInduction, TLAPS

(***************************************************************************)
(* Accounts.                                                               *)
(***************************************************************************)

\* Tokens and their rows: a row is one token's, and numbers are not used again.
RowsOfTokens ==
  /\ \A t \in RefreshTokens : stored[t] < nextRow
  /\ \A t, u \in RefreshTokens : stored[t] = stored[u] => t = u \/ stored[t] = 0
  /\ \A r \in AuthHandlers : request[r] # NoRequest /\ request[r].row # 0 =>
       request[r].old \in RefreshTokens

LoggedOut(i) == i \in loggedOut

\* A row that is there, or is still to come, is unspent.
Unspent ==
  \A i \in 1..MaxRows :
    nextRow <= i \/ (\E t \in RefreshTokens : stored[t] = i) => exchanged[i] = 0 /\ ~LoggedOut(i)

AccountsInv == AccountsTypeOK /\ RowsOfTokens /\ Unspent /\ SpentOnce

\* A handler at a step has its locals.
LEMMA AtAStep ==
  ASSUME AccountsTypeOK, NEW r \in AuthHandlers, request[r] # NoRequest \/ request[r].step # "none"
  PROVE  request[r] \in RequestRec /\ request[r] # NoRequest
BY DEF AccountsTypeOK, NoRequest, RequestRec

\* A handler that only takes down or changes its locals, or ends, keeps the invariant.
LEMMA LocalsInv ==
  ASSUME AccountsInv, NEW r \in AuthHandlers, NEW q \in RequestRec \cup {NoRequest},
         q # NoRequest /\ q.row # 0 => q.old \in RefreshTokens,
         request' = [request EXCEPT ![r] = q],
         cookie' \in [Browsers -> RefreshTokens \cup {NoToken}],
         registered' \subseteq People,
         UNCHANGED <<stored, nextRow, now, exchanged, loggedOut, issued, crashes>>
  PROVE  AccountsInv'
<1>1. request' \in [AuthHandlers -> RequestRec \cup {NoRequest}]
  BY DEF AccountsInv, AccountsTypeOK
<1>2. AccountsTypeOK'
  BY <1>1 DEF AccountsInv, AccountsTypeOK
<1>3. \A d \in AuthHandlers : request'[d] = IF d = r THEN q ELSE request[d]
  BY DEF AccountsInv, AccountsTypeOK
<1>4. RowsOfTokens'
  BY <1>3 DEF AccountsInv, RowsOfTokens
<1>5. Unspent' /\ SpentOnce'
  BY DEF AccountsInv, Unspent, SpentOnce, LoggedOut
<1> QED
  BY <1>2, <1>4, <1>5 DEF AccountsInv

\* What a handler that starts takes down.
LEMMA OfPersonOK ==
  ASSUME AccountsTypeOK, AccountsAssumption, NEW b \in Browsers, NEW p \in People,
         NEW does \in {"register", "login", "refresh", "logout"},
         NEW step \in {"check", "create", "store", "expire", "drop", "answer"}
  PROVE  /\ OfPerson(b, does, p, step) \in RequestRec
         /\ OfPerson(b, does, p, step).row = 0
<1>1. <<p, now>> \in RefreshTokens
  BY DEF AccountsTypeOK, RefreshTokens
<1>2. 0 \in 0..MaxRows
  BY DEF AccountsAssumption
<1> QED
  BY <1>1, <1>2 DEF OfPerson, RequestRec

\* A row that is used up, by a refresh or a logout, was unspent, and is nobody's now.
LEMMA SpendInv ==
  ASSUME AccountsInv, AccountsAssumption,
         NEW t \in RefreshTokens, NEW i \in 1..MaxRows, stored[t] = i,
         NEW r \in AuthHandlers, NEW q \in RequestRec,
         q.row # 0 => q.old \in RefreshTokens,
         request' = [request EXCEPT ![r] = q],
         stored' = [stored EXCEPT ![t] = 0],
         \/ exchanged' = [exchanged EXCEPT ![i] = @ + 1] /\ loggedOut' = loggedOut
         \/ exchanged' = exchanged /\ loggedOut' = loggedOut \cup {i},
         UNCHANGED <<registered, nextRow, now, cookie, issued, crashes>>
  PROVE  AccountsInv'
<1>1. exchanged[i] = 0 /\ ~LoggedOut(i)
  BY DEF AccountsInv, Unspent
<1>2. /\ stored' \in [RefreshTokens -> 0..MaxRows]
      /\ \A u \in RefreshTokens : stored'[u] = IF u = t THEN 0 ELSE stored[u]
  BY DEF AccountsInv, AccountsTypeOK, AccountsAssumption
<1>3. /\ request' \in [AuthHandlers -> RequestRec \cup {NoRequest}]
      /\ \A d \in AuthHandlers : request'[d] = IF d = r THEN q ELSE request[d]
  BY DEF AccountsInv, AccountsTypeOK
<1>4. /\ exchanged' \in [1..MaxRows -> Nat]
      /\ exchanged'[i] = IF loggedOut' = loggedOut THEN exchanged'[i] ELSE 0
      /\ exchanged'[i] <= 1
      /\ \A j \in 1..MaxRows \ {i} : exchanged'[j] = exchanged[j]
  BY <1>1 DEF AccountsInv, AccountsTypeOK
<1>5. /\ loggedOut' \subseteq 1..MaxRows
      /\ \A j \in 1..MaxRows \ {i} : LoggedOut(j)' <=> LoggedOut(j)
      /\ LoggedOut(i)' => exchanged'[i] = 0
  BY <1>1 DEF AccountsInv, AccountsTypeOK, LoggedOut
<1>6. AccountsTypeOK'
  BY <1>2, <1>3, <1>4, <1>5 DEF AccountsInv, AccountsTypeOK
<1>7. RowsOfTokens'
  <2>1. 0 < nextRow
    BY DEF AccountsInv, AccountsTypeOK
  <2> QED
    BY <1>2, <1>3, <2>1 DEF AccountsInv, RowsOfTokens
<1>8. ~(nextRow' <= i) /\ \A u \in RefreshTokens : stored'[u] # i
  <2>1. stored[t] < nextRow /\ \A u \in RefreshTokens \ {t} : stored[u] # i
    BY DEF AccountsInv, RowsOfTokens
  <2> QED
    BY <1>2, <2>1 DEF AccountsInv, AccountsTypeOK
<1>9. Unspent'
  <2> SUFFICES ASSUME NEW j \in 1..MaxRows,
                      nextRow' <= j \/ \E u \in RefreshTokens : stored'[u] = j
               PROVE  exchanged'[j] = 0 /\ ~LoggedOut(j)'
    BY DEF Unspent, LoggedOut
  <2>1. j # i
    BY <1>8
  <2>2. nextRow <= j \/ \E u \in RefreshTokens : stored[u] = j
    BY <1>2
  <2>3. exchanged[j] = 0 /\ ~LoggedOut(j)
    BY <2>2 DEF AccountsInv, Unspent
  <2> QED
    BY <1>4, <1>5, <2>1, <2>3
<1>10. SpentOnce'
  <2> SUFFICES ASSUME NEW j \in 1..MaxRows
               PROVE  exchanged'[j] <= IF LoggedOut(j)' THEN 0 ELSE 1
    BY DEF SpentOnce, LoggedOut
  <2>1. exchanged[j] <= IF LoggedOut(j) THEN 0 ELSE 1
    BY DEF AccountsInv, SpentOnce, LoggedOut
  <2>2. CASE j = i
    BY <1>4, <1>5, <2>2
  <2>3. CASE j # i
    BY <1>4, <1>5, <2>1, <2>3
  <2> QED
    BY <2>2, <2>3
<1> QED
  BY <1>6, <1>7, <1>9, <1>10 DEF AccountsInv

\* A token that expires, or is gone, takes its row with it.
LEMMA ForgetInv ==
  ASSUME AccountsInv, AccountsAssumption, NEW r \in AuthHandlers,
         NEW q \in RequestRec \cup {NoRequest},
         q # NoRequest => q.row = 0,
         request' = [request EXCEPT ![r] = q],
         NEW t \in RefreshTokens, stored' = [stored EXCEPT ![t] = 0],
         UNCHANGED <<registered, nextRow, now, cookie, exchanged, loggedOut, issued, crashes>>
  PROVE  AccountsInv'
<1>1. /\ stored' \in [RefreshTokens -> 0..MaxRows]
      /\ \A u \in RefreshTokens : stored'[u] = IF u = t THEN 0 ELSE stored[u]
  BY DEF AccountsInv, AccountsTypeOK, AccountsAssumption
<1>2. /\ request' \in [AuthHandlers -> RequestRec \cup {NoRequest}]
      /\ \A d \in AuthHandlers : request'[d] = IF d = r THEN q ELSE request[d]
  BY DEF AccountsInv, AccountsTypeOK
<1>3. AccountsTypeOK'
  BY <1>1, <1>2 DEF AccountsInv, AccountsTypeOK
<1>4. RowsOfTokens'
  <2>1. 0 < nextRow
    BY DEF AccountsInv, AccountsTypeOK
  <2> QED
    BY <1>1, <1>2, <2>1 DEF AccountsInv, RowsOfTokens
<1>5. Unspent' /\ SpentOnce'
  BY <1>1 DEF AccountsInv, Unspent, SpentOnce, LoggedOut
<1> QED
  BY <1>3, <1>4, <1>5 DEF AccountsInv

\* A token that is stored gets a row that nobody had.
LEMMA StoreTokenInv ==
  ASSUME AccountsInv, AccountsAssumption, NEW r \in AuthHandlers, StoreToken(r)
  PROVE  AccountsInv'
<1>1. request[r] \in RequestRec /\ request[r] # NoRequest
  BY AtAStep DEF StoreToken, AccountsInv
<1> PICK t \in RefreshTokens : t = request[r].token
  BY <1>1 DEF RequestRec
<1>2. CASE stored[t] # 0
  BY <1>2, LocalsInv DEF StoreToken, End, AccountsInv, AccountsTypeOK
<1>3. CASE stored[t] = 0
  <2> PICK step : step = IF request[r].does = "refresh" THEN "drop" ELSE "answer"
    OBVIOUS
  <2>1. /\ nextRow <= MaxRows
        /\ stored' = [stored EXCEPT ![t] = nextRow] /\ nextRow' = nextRow + 1
        /\ request' = [request EXCEPT ![r].step = step]
        /\ issued' = [issued EXCEPT ![t] = @ + 1]
        /\ UNCHANGED <<registered, now, cookie, exchanged, loggedOut, crashes>>
    BY <1>3 DEF StoreToken, Step
  <2> DEFINE q == [request[r] EXCEPT !.step = step]
  <2>2. q \in RequestRec /\ q.row = request[r].row /\ q.old = request[r].old
    BY <1>1 DEF RequestRec
  <2>3. request' = [request EXCEPT ![r] = q]
    BY <2>1
  <2> HIDE DEF q
  <2>4. /\ request' \in [AuthHandlers -> RequestRec \cup {NoRequest}]
        /\ \A d \in AuthHandlers : request'[d] = IF d = r THEN q ELSE request[d]
    BY <2>2, <2>3 DEF AccountsInv, AccountsTypeOK
  <2>5. nextRow \in 1..MaxRows /\ nextRow + 1 \in 1..MaxRows + 1 /\ MaxRows \in Nat
    BY <2>1 DEF AccountsInv, AccountsTypeOK, AccountsAssumption
  <2>6. /\ stored' \in [RefreshTokens -> 0..MaxRows]
        /\ \A u \in RefreshTokens : stored'[u] = IF u = t THEN nextRow ELSE stored[u]
    BY <2>1, <2>5 DEF AccountsInv, AccountsTypeOK
  <2>7. AccountsTypeOK'
    <3>1. issued' \in [RefreshTokens -> Nat]
      BY <2>1 DEF AccountsInv, AccountsTypeOK
    <3>2. nextRow' \in 1..MaxRows + 1
      BY <2>1, <2>5
    <3>3. /\ registered' \subseteq People /\ now' \in 0..MaxSecond
          /\ cookie' \in [Browsers -> RefreshTokens \cup {NoToken}]
          /\ exchanged' \in [1..MaxRows -> Nat] /\ loggedOut' \subseteq 1..MaxRows
          /\ crashes' \in MayCrash
      BY <2>1 DEF AccountsInv, AccountsTypeOK
    <3> QED
      BY <2>4, <2>6, <3>1, <3>2, <3>3 DEF AccountsTypeOK
  <2>8. \A u \in RefreshTokens : stored[u] < nextRow /\ stored[u] \in Int
    BY DEF AccountsInv, RowsOfTokens, AccountsTypeOK
  <2>9. RowsOfTokens'
    <3>1. \A u \in RefreshTokens : stored'[u] < nextRow'
      BY <2>1, <2>5, <2>6, <2>8
    <3>2. \A u, v \in RefreshTokens : stored'[u] = stored'[v] => u = v \/ stored'[u] = 0
      BY <2>6, <2>8, <2>5 DEF AccountsInv, RowsOfTokens
    <3>3. \A d \in AuthHandlers : request'[d] # NoRequest /\ request'[d].row # 0 =>
            request'[d].old \in RefreshTokens
      BY <1>1, <2>2, <2>4 DEF AccountsInv, RowsOfTokens
    <3> QED
      BY <3>1, <3>2, <3>3 DEF RowsOfTokens
  <2>10. Unspent'
    <3> SUFFICES ASSUME NEW j \in 1..MaxRows,
                        nextRow' <= j \/ \E u \in RefreshTokens : stored'[u] = j
                 PROVE  nextRow <= j \/ \E u \in RefreshTokens : stored[u] = j
      BY <2>1 DEF AccountsInv, Unspent, LoggedOut
    <3> QED
      BY <2>1, <2>5, <2>6
  <2>11. SpentOnce'
    BY <2>1 DEF AccountsInv, SpentOnce
  <2> QED
    BY <2>7, <2>9, <2>10, <2>11 DEF AccountsInv
<1> QED
  BY <1>2, <1>3

\* A refresh is answered only if the row that it found is there to be deleted.
LEMMA DropOldInv ==
  ASSUME AccountsInv, AccountsAssumption, NEW r \in AuthHandlers, DropOld(r)
  PROVE  AccountsInv'
<1>1. request[r] \in RequestRec /\ request[r] # NoRequest
  BY AtAStep DEF DropOld, AccountsInv
<1>2. CASE HasItsRow(r)
  <2> PICK t, i : t = request[r].old /\ i = request[r].row
    OBVIOUS
  <2>1. i # 0 /\ i \in 0..MaxRows /\ stored[t] = i /\ t \in RefreshTokens
    BY <1>1, <1>2 DEF HasItsRow, RequestRec, AccountsInv, RowsOfTokens
  <2>2. i \in 1..MaxRows
    BY <2>1 DEF AccountsAssumption
  <2> DEFINE q == [request[r] EXCEPT !.step = "answer"]
  <2>3. q \in RequestRec /\ q.row = i /\ q.old = t
    BY <1>1 DEF RequestRec
  <2>4. /\ request' = [request EXCEPT ![r] = q]
        /\ stored' = [stored EXCEPT ![t] = 0] /\ exchanged' = [exchanged EXCEPT ![i] = @ + 1]
        /\ UNCHANGED <<registered, nextRow, now, cookie, loggedOut, issued, crashes>>
    BY <1>2 DEF DropOld, Step
  <2> HIDE DEF q
  <2> QED
    BY <2>1, <2>2, <2>3, <2>4, SpendInv
<1>3. CASE ~HasItsRow(r)
  BY <1>3, LocalsInv DEF DropOld, End, AccountsInv, AccountsTypeOK
<1> QED
  BY <1>2, <1>3

\* A logout forgets the token and its row.
LEMMA LogoutInv ==
  ASSUME AccountsInv, AccountsAssumption, NEW r \in AuthHandlers, NEW b \in Browsers, Logout(r, b)
  PROVE  AccountsInv'
<1> PICK t : t = cookie[b]
  OBVIOUS
<1>1. t \in RefreshTokens /\ t[1] \in People
  BY DEF Logout, AccountsInv, AccountsTypeOK, RefreshTokens
<1> PICK q : q = OfPerson(b, "logout", t[1], "answer")
  OBVIOUS
<1>2. q \in RequestRec /\ q.row = 0
  BY <1>1, OfPersonOK DEF AccountsInv
<1>3. /\ request' = [request EXCEPT ![r] = q] /\ stored' = [stored EXCEPT ![t] = 0]
      /\ loggedOut' = IF stored[t] = 0 THEN loggedOut ELSE loggedOut \cup {stored[t]}
      /\ UNCHANGED <<registered, nextRow, now, cookie, exchanged, issued, crashes>>
  BY DEF Logout
<1>4. CASE stored[t] = 0
  BY <1>1, <1>2, <1>3, <1>4, ForgetInv
<1>5. CASE stored[t] # 0
  <2>1. stored[t] \in 1..MaxRows
    BY <1>1, <1>5 DEF AccountsInv, AccountsTypeOK, AccountsAssumption
  <2> QED
    BY <1>1, <1>2, <1>3, <1>5, <2>1, SpendInv
<1> QED
  BY <1>4, <1>5

\* A refresh remembers the row of the browser's token.
LEMMA RefreshInv ==
  ASSUME AccountsInv, AccountsAssumption, NEW r \in AuthHandlers, NEW b \in Browsers, Refresh(r, b)
  PROVE  AccountsInv'
<1> PICK t : t = cookie[b]
  OBVIOUS
<1>1. t \in RefreshTokens /\ t[1] \in People /\ stored[t] \in 0..MaxRows
  BY DEF Refresh, AccountsInv, AccountsTypeOK, RefreshTokens
<1> PICK step \in {"expire", "store"} : step = IF now - t[2] > RowLife THEN "expire" ELSE "store"
  OBVIOUS
<1> PICK p : p = OfPerson(b, "refresh", t[1], step)
  OBVIOUS
<1>2. p \in RequestRec
  BY <1>1, OfPersonOK DEF AccountsInv
<1> DEFINE q == [p EXCEPT !.old = t, !.row = stored[t]]
<1>3. q \in RequestRec /\ q.old = t
  BY <1>1, <1>2 DEF RequestRec
<1>4. /\ request' = [request EXCEPT ![r] = q]
      /\ UNCHANGED <<registered, stored, nextRow, now, cookie, exchanged, loggedOut, issued, crashes>>
  BY DEF Refresh
<1> HIDE DEF q
<1> QED
  BY <1>1, <1>3, <1>4, LocalsInv DEF AccountsInv, AccountsTypeOK

\* The invariant of the auth service holds from the start and is kept.
THEOREM AccountsInvariance == AccountsSpec => []AccountsInv
<1>1. AccountsInit => AccountsInv
  BY AccountsAssumption DEF AccountsInit, AccountsInv, AccountsTypeOK, RowsOfTokens, Unspent,
     SpentOnce, LoggedOut, AccountsAssumption
<1>2. AccountsInv /\ [AccountsNext]_accountVars => AccountsInv'
  <2> SUFFICES ASSUME AccountsInv, [AccountsNext]_accountVars
               PROVE  AccountsInv'
    OBVIOUS
  <2> USE AccountsAssumption
  <2>1. CASE UNCHANGED accountVars
    BY <2>1 DEF accountVars, AccountsInv, AccountsTypeOK, RowsOfTokens, Unspent, SpentOnce, LoggedOut
  <2>2. CASE Second
    BY <2>2 DEF Second, AccountsInv, AccountsTypeOK, RowsOfTokens, Unspent, SpentOnce, LoggedOut,
       AccountsAssumption
  <2>3. ASSUME NEW r \in AuthHandlers, NEW b \in Browsers, NEW p \in People, Register(r, b, p)
        PROVE  AccountsInv'
    <3>1. CASE p \in registered
      BY <2>3, <3>1 DEF Register, AccountsInv, AccountsTypeOK, RowsOfTokens, Unspent, SpentOnce,
         LoggedOut
    <3>2. CASE p \notin registered
      BY <2>3, <3>2, LocalsInv, OfPersonOK DEF Register, AccountsInv, AccountsTypeOK
    <3> QED
      BY <3>1, <3>2
  <2>4. ASSUME NEW r \in AuthHandlers, NEW b \in Browsers, NEW p \in People, Login(r, b, p)
        PROVE  AccountsInv'
    BY <2>4, LocalsInv, OfPersonOK DEF Login, AccountsInv, AccountsTypeOK
  <2>5. ASSUME NEW r \in AuthHandlers, CreateUser(r)
        PROVE  AccountsInv'
    <3>1. request[r] \in RequestRec /\ request[r] # NoRequest
      BY <2>5, AtAStep DEF CreateUser, AccountsInv
    <3> PICK p : p = request[r].token[1]
      OBVIOUS
    <3>2. p \in People /\ <<p, now>> \in RefreshTokens
      BY <3>1 DEF RequestRec, RefreshTokens, AccountsInv, AccountsTypeOK
    <3>3. registered' \subseteq People
      BY <2>5, <3>2 DEF CreateUser, AccountsInv, AccountsTypeOK
    <3>4. CASE p \in registered
      BY <2>5, <3>3, <3>4, LocalsInv DEF CreateUser, End, AccountsInv, AccountsTypeOK
    <3>5. CASE p \notin registered
      <4> DEFINE q == [request[r] EXCEPT !.step = "store", !.token = <<p, now>>]
      <4>1. q \in RequestRec /\ q.row = request[r].row /\ q.old = request[r].old
        BY <3>1, <3>2 DEF RequestRec
      <4>2. request' = [request EXCEPT ![r] = q]
        BY <2>5, <3>5 DEF CreateUser
      <4> HIDE DEF q
      <4>3. q # NoRequest /\ q.row # 0 => q.old \in RefreshTokens
        BY <3>1, <4>1 DEF AccountsInv, RowsOfTokens
      <4> QED
        BY <2>5, <3>3, <4>1, <4>2, <4>3, LocalsInv DEF CreateUser, AccountsInv, AccountsTypeOK
    <3> QED
      BY <3>4, <3>5
  <2>6. ASSUME NEW r \in AuthHandlers, DeleteExpired(r)
        PROVE  AccountsInv'
    <3>1. CASE HasItsRow(r)
      <4>1. request[r].old \in RefreshTokens
        BY <2>6, <3>1, AtAStep DEF DeleteExpired, HasItsRow, AccountsInv, RowsOfTokens
      <4> QED
        BY <2>6, <3>1, <4>1, ForgetInv DEF DeleteExpired, End
    <3>2. CASE ~HasItsRow(r)
      BY <2>6, <3>2, LocalsInv DEF DeleteExpired, End, AccountsInv, AccountsTypeOK
    <3> QED
      BY <3>1, <3>2
  <2>7. ASSUME NEW r \in AuthHandlers, AnswerBrowser(r)
        PROVE  AccountsInv'
    <3>1. request[r] \in RequestRec
      BY <2>7, AtAStep DEF AnswerBrowser, AccountsInv
    <3>2. cookie' \in [Browsers -> RefreshTokens \cup {NoToken}]
      BY <2>7, <3>1 DEF AnswerBrowser, RequestRec, AccountsInv, AccountsTypeOK
    <3> QED
      BY <2>7, <3>2, LocalsInv DEF AnswerBrowser, End, AccountsInv, AccountsTypeOK
  <2>8. ASSUME NEW r \in AuthHandlers, DieAtAuth(r)
        PROVE  AccountsInv'
    BY <2>8, LocalsInv DEF DieAtAuth, End, AccountsInv, AccountsTypeOK
  <2> QED
    BY <2>1, <2>2, <2>3, <2>4, <2>5, <2>6, <2>7, <2>8, RefreshInv, LogoutInv, StoreTokenInv,
       DropOldInv DEF AccountsNext
<1> QED
  BY <1>1, <1>2, PTL DEF AccountsSpec

\* SpentOnce: one refresh, or one logout, uses up a refresh token.
THEOREM TokensAreSpentOnce == AccountsSpec => []SpentOnce
<1>1. AccountsInv => SpentOnce
  BY DEF AccountsInv
<1> QED
  BY <1>1, AccountsInvariance, PTL

\* A request that has stored its token and will hand it to its browser.
Pending(q) == q # NoRequest /\ q.step \in {"drop", "answer"} /\ q.does # "logout"

Expired(t) == now - t[2] > RowLife
Reissued(t) == issued[t] > 1

\* A browser that uses a token that was stored once is the one who has it.
Entitled(q) ==
  q # NoRequest /\ q.old # NoToken =>
    /\ issued[q.old] > 0
    /\ q.step = "expire" => Expired(q.old)
    /\ \/ Reissued(q.old)
       \/ /\ \A d \in AuthHandlers : Pending(request[d]) => request[d].token # q.old
          /\ \A b \in Browsers : cookie[b] = q.old => b = q.by

\* A token that was handed out, or is to be, is on record.
Recorded ==
  /\ \A b \in Browsers : cookie[b] # NoToken => issued[cookie[b]] > 0
  /\ \A r \in AuthHandlers : Pending(request[r]) =>
       /\ issued[request[r].token] > 0
       /\ stored[request[r].token] # 0 \/ Reissued(request[r].token)

\* A token that was stored once is with one request or with one browser.
OneOwner ==
  /\ \A r \in AuthHandlers : Entitled(request[r])
  /\ \A r \in AuthHandlers : Pending(request[r]) /\ ~Reissued(request[r].token) =>
       /\ \A b \in Browsers : cookie[b] # request[r].token
       /\ \A d \in AuthHandlers : Pending(request[d]) /\ request[d].token = request[r].token => d = r
  /\ \A a, b \in Browsers : cookie[a] = cookie[b] /\ cookie[a] # NoToken => a = b \/ Reissued(cookie[a])

\* A browser whose token was deleted is about to get an answer.
Consoled ==
  \A b \in Browsers :
    \/ cookie[b] = NoToken \/ Expired(cookie[b]) \/ Reissued(cookie[b]) \/ stored[cookie[b]] # 0
    \/ \E r \in AuthHandlers :
         request[r] # NoRequest /\ request[r].by = b /\ request[r].step = "answer"

CookieInv == ~crashes => Recorded /\ OneOwner /\ Consoled

\* A row that may go: of nobody's next token, and of a cookie that expired or is
\* about to be replaced.
Forgettable(t, q) ==
  /\ \A d \in AuthHandlers : Pending(request[d]) /\ request[d].token = t => Reissued(t)
  /\ \A b \in Browsers : cookie[b] = t =>
       Expired(t) \/ Reissued(t) \/ (q # NoRequest /\ q.step = "answer" /\ q.by = b)

\* A handler that moves on, and deletes no row but such a one.
LEMMA CookieMoves ==
  ASSUME AccountsInv, CookieInv, ~crashes, NEW r \in AuthHandlers,
         NEW q \in RequestRec \cup {NoRequest}, request' = [request EXCEPT ![r] = q],
         request[r] # NoRequest => request[r].step # "answer",
         UNCHANGED <<cookie, issued, now, crashes>>,
         Pending(q) => Pending(request[r]) /\ q.token = request[r].token,
         Entitled(q),
         \A t \in RefreshTokens : stored'[t] = stored[t] \/ Forgettable(t, q)
  PROVE  CookieInv'
<1>1. \A d \in AuthHandlers : request'[d] = IF d = r THEN q ELSE request[d]
  BY DEF AccountsInv, AccountsTypeOK
<1>2. Recorded /\ OneOwner /\ Consoled
  BY DEF CookieInv
<1>3. /\ \A b \in Browsers : cookie[b] # NoToken => cookie[b] \in RefreshTokens
      /\ \A d \in AuthHandlers : Pending(request[d]) => request[d].token \in RefreshTokens
  BY DEF AccountsInv, AccountsTypeOK, Pending, RequestRec
<1>4. \A d \in AuthHandlers : Pending(request'[d]) =>
        Pending(request[d]) /\ request'[d].token = request[d].token
  BY <1>1
<1>5. Recorded'
  BY <1>2, <1>3, <1>4 DEF Recorded, Forgettable, Reissued
<1>6. OneOwner'
  <2>1. \A d \in AuthHandlers : Entitled(request[d]) /\ Entitled(request'[d])
    BY <1>1, <1>2 DEF OneOwner
  <2>2. \A d \in AuthHandlers : Entitled(request[d])'
    BY <1>4, <2>1 DEF Entitled, Reissued, Expired
  <2> QED
    BY <1>2, <1>4, <2>2 DEF OneOwner, Reissued
<1>7. Consoled'
  <2> SUFFICES ASSUME NEW b \in Browsers, cookie[b] # NoToken, ~Expired(cookie[b]),
                      ~Reissued(cookie[b]), stored'[cookie[b]] = 0
               PROVE  \E d \in AuthHandlers :
                        request'[d] # NoRequest /\ request'[d].by = b /\ request'[d].step = "answer"
    BY DEF Consoled, Expired, Reissued
  <2>1. CASE stored[cookie[b]] = 0
    <3>1. PICK d \in AuthHandlers :
            request[d] # NoRequest /\ request[d].by = b /\ request[d].step = "answer"
      BY <1>2, <2>1 DEF Consoled
    <3> QED
      BY <1>1, <3>1
  <2>2. CASE stored[cookie[b]] # 0
    <3>1. q # NoRequest /\ q.step = "answer" /\ q.by = b
      BY <1>3, <2>2 DEF Forgettable
    <3> QED
      BY <1>1, <3>1
  <2> QED
    BY <2>1, <2>2
<1> QED
  BY <1>5, <1>6, <1>7 DEF CookieInv

\* A token that is stored for the first time is in nobody's hands.
LEMMA CookieStored ==
  ASSUME AccountsInv, CookieInv, ~crashes, NEW r \in AuthHandlers, NEW q \in RequestRec,
         request[r] \in RequestRec, request[r].step = "store",
         request' = [request EXCEPT ![r] = q], q.step \in {"drop", "answer"},
         q.token = request[r].token, q.old = request[r].old, q.by = request[r].by,
         issued' = [issued EXCEPT ![q.token] = @ + 1], stored'[q.token] # 0,
         \A t \in RefreshTokens : stored[t] # 0 => stored'[t] # 0,
         UNCHANGED <<cookie, now, crashes>>
  PROVE  CookieInv'
<1> PICK t \in RefreshTokens : t = q.token
  BY DEF RequestRec
<1>1. /\ \A d \in AuthHandlers : request'[d] = IF d = r THEN q ELSE request[d]
      /\ request[r] # NoRequest /\ ~Pending(request[r]) /\ q # NoRequest
  BY DEF AccountsInv, AccountsTypeOK, Pending, NoRequest, RequestRec
<1>2. Recorded /\ OneOwner /\ Consoled
  BY DEF CookieInv
<1>3. /\ \A b \in Browsers : cookie[b] # NoToken => cookie[b] \in RefreshTokens
      /\ \A d \in AuthHandlers : Pending(request[d]) => request[d].token \in RefreshTokens
      /\ \A d \in AuthHandlers : request[d] # NoRequest /\ request[d].old # NoToken =>
           request[d].old \in RefreshTokens
  BY DEF AccountsInv, AccountsTypeOK, Pending, RequestRec
<1>4. \A u \in RefreshTokens :
        /\ issued[u] \in Nat /\ issued'[u] = IF u = t THEN issued[u] + 1 ELSE issued[u]
        /\ issued'[u] >= issued[u] /\ (Reissued(u) => Reissued(u)')
  BY DEF AccountsInv, AccountsTypeOK, Reissued
<1>5. issued'[t] > 0 /\ (issued[t] > 0 => Reissued(t)')
  BY <1>4 DEF Reissued
<1>6. Recorded'
  BY <1>1, <1>2, <1>3, <1>4, <1>5 DEF Recorded, Pending
<1>7. ~Reissued(t)' => /\ \A b \in Browsers : cookie[b] # t
                       /\ \A d \in AuthHandlers : Pending(request[d]) => request[d].token # t
                       /\ \A d \in AuthHandlers : request[d] # NoRequest => request[d].old # t
  BY <1>2, <1>3, <1>5, AccountsAssumption DEF Recorded, OneOwner, Entitled, AccountsAssumption
<1>8. OneOwner'
  <2>1. ASSUME NEW d \in AuthHandlers PROVE Entitled(request[d])'
    <3>1. Entitled(request[d])
      BY <1>2 DEF OneOwner
    <3>2. CASE request[d] = NoRequest
      BY <1>1, <3>2 DEF Entitled
    <3>3. CASE request[d] # NoRequest
      <4>1. request'[d].old = request[d].old /\ request'[d].by = request[d].by
            /\ (request'[d].step = "expire" => request[d].step = "expire")
        BY <1>1
      <4>2. ASSUME request[d].old \in RefreshTokens, ~Reissued(request[d].old)',
                   NEW e \in AuthHandlers, Pending(request'[e])
            PROVE  request'[e].token # request[d].old
        <5>1. CASE e = r
          BY <1>1, <1>7, <3>3, <4>2, <5>1
        <5>2. CASE e # r
          <6>1. Pending(request[e]) /\ request'[e] = request[e]
            BY <1>1, <4>2, <5>2
          <6>2. request[d].old # NoToken /\ ~Reissued(request[d].old)
            BY <1>4, <4>2, AccountsAssumption DEF AccountsAssumption
          <6> QED
            BY <3>1, <3>3, <6>1, <6>2 DEF Entitled
        <5> QED
          BY <5>1, <5>2
      <4>3. request[d].old # NoToken =>
              /\ request[d].old \in RefreshTokens /\ issued'[request[d].old] > 0
              /\ Reissued(request[d].old) => Reissued(request[d].old)'
        BY <1>3, <1>4, <3>1, <3>3 DEF Entitled
      <4> QED
        BY <3>1, <3>3, <4>1, <4>2, <4>3 DEF Entitled, Expired, Reissued
    <3> QED
      BY <3>2, <3>3
  <2>2. ASSUME NEW d \in AuthHandlers, Pending(request'[d]), ~Reissued(request[d].token)'
        PROVE  /\ \A b \in Browsers : cookie[b] # request'[d].token
               /\ \A e \in AuthHandlers :
                    Pending(request'[e]) /\ request'[e].token = request'[d].token => e = d
    <3> PICK u : u = request'[d].token
      OBVIOUS
    <3>1. issued'[u] <= 1 /\ ~Reissued(u)'
      BY <1>1, <1>3, <1>4, <2>2 DEF Reissued
    <3>2. CASE d = r
      BY <1>1, <1>7, <2>2, <3>1, <3>2
    <3>3. CASE d # r
      <4>1. /\ request'[d] = request[d] /\ u \in RefreshTokens /\ ~Reissued(u)
            /\ u # t
        BY <1>1, <1>3, <1>4, <1>7, <2>2, <3>1, <3>3
      <4> QED
        BY <1>1, <1>2, <2>2, <3>3, <4>1 DEF OneOwner
    <3> QED
      BY <3>2, <3>3
  <2>3. \A a, b \in Browsers :
          cookie[a] = cookie[b] /\ cookie[a] # NoToken => a = b \/ Reissued(cookie[a])'
    BY <1>2, <1>3, <1>4 DEF OneOwner
  <2> QED
    BY <2>1, <2>2, <2>3 DEF OneOwner, Reissued
<1>9. Consoled'
  <2>1. \A d \in AuthHandlers : request[d] # NoRequest /\ request[d].step = "answer" =>
          request'[d] = request[d]
    BY <1>1
  <2> QED
    BY <1>2, <1>3, <1>4, <2>1 DEF Consoled, Expired, Reissued
<1> QED
  BY <1>6, <1>8, <1>9 DEF CookieInv

\* A token that reaches its browser leaves its request.
LEMMA CookieAnswered ==
  ASSUME AccountsInv, CookieInv, ~crashes, NEW r \in AuthHandlers, AnswerBrowser(r)
  PROVE  CookieInv'
<1>1. request[r] \in RequestRec /\ request[r] # NoRequest
  BY AtAStep DEF AnswerBrowser, AccountsInv
<1> PICK b \in Browsers : b = request[r].by
  BY <1>1 DEF RequestRec
<1> PICK t \in RefreshTokens \cup {NoToken} :
      t = IF request[r].does = "logout" THEN NoToken ELSE request[r].token
  BY <1>1 DEF RequestRec
<1>2. /\ \A d \in AuthHandlers : request'[d] = IF d = r THEN NoRequest ELSE request[d]
      /\ \A a \in Browsers : cookie'[a] = IF a = b THEN t ELSE cookie[a]
      /\ UNCHANGED <<stored, now, issued, crashes>>
      /\ request[r].step = "answer"
  BY DEF AnswerBrowser, End, AccountsInv, AccountsTypeOK
<1>3. t # NoToken => Pending(request[r]) /\ t = request[r].token
  BY <1>1, <1>2 DEF Pending
<1>4. Recorded /\ OneOwner /\ Consoled
  BY DEF CookieInv
<1>5. \A d \in AuthHandlers : Pending(request'[d]) => d # r /\ Pending(request[d]) /\ request'[d] = request[d]
  BY <1>2 DEF Pending
<1>6. Recorded'
  BY <1>2, <1>3, <1>4, <1>5 DEF Recorded, Reissued
<1>7. t # NoToken => \/ Reissued(t)
                     \/ /\ \A a \in Browsers : cookie[a] # t
                        /\ \A d \in AuthHandlers : Pending(request[d]) /\ request[d].token = t => d = r
                        /\ \A d \in AuthHandlers : request[d] # NoRequest => request[d].old # t
  <2> SUFFICES ASSUME t # NoToken, ~Reissued(t), NEW d \in AuthHandlers, request[d] # NoRequest,
                      request[d].old = t
               PROVE  FALSE
    BY <1>3, <1>4 DEF OneOwner
  <2> QED
    BY <1>3, <1>4 DEF OneOwner, Entitled
<1>8. OneOwner'
  <2>1. ASSUME NEW d \in AuthHandlers PROVE Entitled(request[d])'
    <3>1. CASE d = r
      BY <1>2, <3>1 DEF Entitled
    <3>2. CASE d # r
      <4>1. Entitled(request[d]) /\ request'[d] = request[d]
        BY <1>2, <1>4, <3>2 DEF OneOwner
      <4> QED
        BY <1>2, <1>5, <1>7, <4>1 DEF Entitled, Expired, Reissued
    <3> QED
      BY <3>1, <3>2
  <2>2. ASSUME NEW d \in AuthHandlers, Pending(request'[d]), ~Reissued(request'[d].token)
        PROVE  /\ \A a \in Browsers : cookie'[a] # request'[d].token
               /\ \A e \in AuthHandlers :
                    Pending(request'[e]) /\ request'[e].token = request'[d].token => e = d
    <3>1. request'[d].token # NoToken
      BY <1>5, <2>2, AccountsAssumption DEF Pending, AccountsInv, AccountsTypeOK, RequestRec,
         AccountsAssumption
    <3> QED
      BY <1>2, <1>4, <1>5, <1>7, <2>2, <3>1 DEF OneOwner
  <2>3. \A a, c \in Browsers :
          cookie'[a] = cookie'[c] /\ cookie'[a] # NoToken => a = c \/ Reissued(cookie'[a])
    BY <1>2, <1>4, <1>7 DEF OneOwner
  <2> QED
    BY <1>2, <2>1, <2>2, <2>3 DEF OneOwner, Reissued
<1>9. Consoled'
  <2>1. t = NoToken \/ Reissued(t) \/ stored[t] # 0
    BY <1>3, <1>4 DEF Recorded
  <2>2. \A d \in AuthHandlers : request[d] # NoRequest /\ request[d].by # b => request'[d] = request[d]
    BY <1>2
  <2> QED
    BY <1>2, <1>4, <2>1, <2>2 DEF Consoled, Expired, Reissued
<1> QED
  BY <1>2, <1>6, <1>8, <1>9 DEF CookieInv

\* What a request that just started takes down.
LEMMA CookieStarts ==
  ASSUME AccountsInv, CookieInv, ~crashes, NEW r \in AuthHandlers, NEW b \in Browsers,
         \/ \E p \in People : Register(r, b, p) \/ Login(r, b, p)
         \/ Refresh(r, b) \/ Logout(r, b)
  PROVE  CookieInv'
<1>1. request[r] = NoRequest /\ Entitled(NoRequest) /\ ~Pending(NoRequest)
  BY DEF Register, Login, Refresh, Logout, Entitled, Pending
<1>2. ASSUME NEW does \in {"register", "login"}, NEW p \in People,
             NEW step \in {"create", "store"}, request' = [request EXCEPT ![r] = OfPerson(b, does, p, step)],
             UNCHANGED <<stored, cookie, issued, now, crashes>>
      PROVE  CookieInv'
  <2> PICK q : q = OfPerson(b, does, p, step)
    OBVIOUS
  <2>1. q \in RequestRec
    BY OfPersonOK, AccountsAssumption DEF AccountsInv
  <2>2. Entitled(q) /\ ~Pending(q)
    BY DEF OfPerson, Entitled, Pending
  <2> QED
    BY <1>1, <1>2, <2>1, <2>2, CookieMoves
<1>3. ASSUME NEW p \in People, Register(r, b, p), UNCHANGED request
      PROVE  CookieInv'
  <2>1. request' = [request EXCEPT ![r] = NoRequest]
    BY <1>1, <1>3 DEF AccountsInv, AccountsTypeOK
  <2> QED
    BY <1>1, <1>3, <2>1, CookieMoves DEF Register
<1>4. ASSUME Refresh(r, b)
      PROVE  CookieInv'
  <2> PICK t : t = cookie[b]
    OBVIOUS
  <2>1. t \in RefreshTokens /\ t # NoToken /\ t[1] \in People /\ stored[t] \in 0..MaxRows
    BY <1>4 DEF Refresh, AccountsInv, AccountsTypeOK, RefreshTokens
  <2> PICK step \in {"expire", "store"} : step = IF Expired(t) THEN "expire" ELSE "store"
    OBVIOUS
  <2> PICK p : p = OfPerson(b, "refresh", t[1], step)
    OBVIOUS
  <2>2. p \in RequestRec /\ p.by = b /\ p.step = step
    BY <2>1, OfPersonOK, AccountsAssumption DEF AccountsInv, OfPerson
  <2> DEFINE q == [p EXCEPT !.old = t, !.row = stored[t]]
  <2>3. q \in RequestRec /\ q.old = t /\ q.by = b /\ q.step = step
    BY <2>1, <2>2 DEF RequestRec
  <2>4. request' = [request EXCEPT ![r] = q] /\ UNCHANGED <<stored, cookie, issued, now, crashes>>
    BY <1>4 DEF Refresh, Expired
  <2> HIDE DEF q
  <2>5. Entitled(q)
    <3>1. issued[t] > 0
      BY <2>1 DEF CookieInv, Recorded
    <3>2. Reissued(t) \/ /\ \A d \in AuthHandlers : Pending(request[d]) => request[d].token # t
                         /\ \A a \in Browsers : cookie[a] = t => a = b
      BY <2>1 DEF CookieInv, OneOwner
    <3> QED
      BY <2>3, <3>1, <3>2 DEF Entitled
  <2>6. ~Pending(q)
    BY <2>3 DEF Pending
  <2> QED
    BY <1>1, <2>3, <2>4, <2>5, <2>6, CookieMoves
<1>5. ASSUME Logout(r, b)
      PROVE  CookieInv'
  <2> PICK t : t = cookie[b]
    OBVIOUS
  <2>1. t \in RefreshTokens /\ t # NoToken /\ t[1] \in People
    BY <1>5 DEF Logout, AccountsInv, AccountsTypeOK, RefreshTokens
  <2> PICK q : q = OfPerson(b, "logout", t[1], "answer")
    OBVIOUS
  <2>2. q \in RequestRec
    BY <2>1, OfPersonOK, AccountsAssumption DEF AccountsInv
  <2>3. q # NoRequest /\ q.by = b /\ q.step = "answer" /\ Entitled(q) /\ ~Pending(q)
    BY DEF OfPerson, Entitled, Pending, NoRequest
  <2>4. /\ request' = [request EXCEPT ![r] = q] /\ UNCHANGED <<cookie, issued, now, crashes>>
        /\ \A u \in RefreshTokens \ {t} : stored'[u] = stored[u]
    BY <1>5 DEF Logout, AccountsInv, AccountsTypeOK
  <2>5. Forgettable(t, q)
    BY <2>1, <2>3 DEF Forgettable, CookieInv, OneOwner
  <2> QED
    BY <1>1, <2>2, <2>3, <2>4, <2>5, CookieMoves
<1>6. ASSUME NEW p \in People, Register(r, b, p) \/ Login(r, b, p)
      PROVE  CookieInv'
  BY <1>2, <1>3, <1>6 DEF Register, Login
<1> QED
  BY <1>4, <1>5, <1>6

\* A request under way.
LEMMA CookieSteps ==
  ASSUME AccountsInv, CookieInv, ~crashes, NEW r \in AuthHandlers,
         CreateUser(r) \/ DeleteExpired(r) \/ StoreToken(r) \/ DropOld(r)
  PROVE  CookieInv'
<1>1. /\ request[r] \in RequestRec /\ request[r] # NoRequest
      /\ request[r].step \in {"create", "expire", "store", "drop"} /\ request[r].step # "answer"
  BY AtAStep DEF CreateUser, DeleteExpired, StoreToken, DropOld, AccountsInv
<1>2. Entitled(request[r]) /\ Entitled(NoRequest) /\ ~Pending(NoRequest)
  BY DEF CookieInv, OneOwner, Entitled, Pending
<1>3. ASSUME End(r), UNCHANGED <<stored, cookie, issued, now, crashes>>
      PROVE  CookieInv'
  BY <1>1, <1>2, <1>3, CookieMoves DEF End
<1>4. CASE CreateUser(r)
  <2> PICK p : p = request[r].token[1]
    OBVIOUS
  <2>1. <<p, now>> \in RefreshTokens
    BY <1>1 DEF RequestRec, RefreshTokens, AccountsInv, AccountsTypeOK
  <2>2. CASE p \in registered
    BY <1>3, <1>4, <2>2 DEF CreateUser
  <2>3. CASE p \notin registered
    <3> DEFINE q == [request[r] EXCEPT !.step = "store", !.token = <<p, now>>]
    <3>1. q \in RequestRec /\ q.old = request[r].old /\ q.by = request[r].by /\ q.step = "store"
      BY <1>1, <2>1 DEF RequestRec
    <3>2. request' = [request EXCEPT ![r] = q] /\ UNCHANGED <<stored, cookie, issued, now, crashes>>
      BY <1>4, <2>3 DEF CreateUser
    <3> HIDE DEF q
    <3>3. Entitled(q) /\ ~Pending(q)
      BY <1>1, <1>2, <3>1 DEF Entitled, Pending
    <3> QED
      BY <1>1, <3>1, <3>2, <3>3, CookieMoves
  <2> QED
    BY <2>2, <2>3
<1>5. CASE DeleteExpired(r)
  <2>1. CASE HasItsRow(r)
    <3> PICK t : t = request[r].old
      OBVIOUS
    <3>1. t \in RefreshTokens /\ t # NoToken
      BY <1>1, <2>1, AccountsAssumption DEF HasItsRow, AccountsInv, RowsOfTokens, AccountsAssumption
    <3>2. /\ request' = [request EXCEPT ![r] = NoRequest] /\ UNCHANGED <<cookie, issued, now, crashes>>
          /\ \A u \in RefreshTokens \ {t} : stored'[u] = stored[u]
      BY <1>5, <2>1 DEF DeleteExpired, End, AccountsInv, AccountsTypeOK
    <3>3. Forgettable(t, NoRequest)
      BY <1>1, <1>2, <1>5, <3>1 DEF Entitled, Forgettable, DeleteExpired
    <3> QED
      BY <1>1, <1>2, <3>2, <3>3, CookieMoves
  <2>2. CASE ~HasItsRow(r)
    BY <1>3, <1>5, <2>2 DEF DeleteExpired
  <2> QED
    BY <2>1, <2>2
<1>6. CASE StoreToken(r)
  <2> PICK t \in RefreshTokens : t = request[r].token
    BY <1>1 DEF RequestRec
  <2>1. CASE stored[t] # 0
    BY <1>3, <1>6, <2>1 DEF StoreToken
  <2>2. CASE stored[t] = 0
    <3> PICK step \in {"drop", "answer"} : step = IF request[r].does = "refresh" THEN "drop" ELSE "answer"
      OBVIOUS
    <3> DEFINE q == [request[r] EXCEPT !.step = step]
    <3>1. /\ q \in RequestRec /\ q.step = step /\ q.token = t /\ q.old = request[r].old
          /\ q.by = request[r].by
      BY <1>1 DEF RequestRec
    <3>2. /\ request' = [request EXCEPT ![r] = q] /\ issued' = [issued EXCEPT ![t] = @ + 1]
          /\ stored' = [stored EXCEPT ![t] = nextRow] /\ request[r].step = "store"
          /\ UNCHANGED <<cookie, now, crashes>>
      BY <1>6, <2>2 DEF StoreToken, Step
    <3> HIDE DEF q
    <3>3. stored'[t] # 0 /\ \A u \in RefreshTokens : stored[u] # 0 => stored'[u] # 0
      BY <3>2 DEF AccountsInv, AccountsTypeOK
    <3> QED
      BY <1>1, <3>1, <3>2, <3>3, CookieStored
  <2> QED
    BY <2>1, <2>2
<1>7. CASE DropOld(r)
  <2>1. CASE HasItsRow(r)
    <3> PICK t : t = request[r].old
      OBVIOUS
    <3>1. t \in RefreshTokens /\ t # NoToken
      BY <1>1, <2>1, AccountsAssumption DEF HasItsRow, AccountsInv, RowsOfTokens, AccountsAssumption
    <3> DEFINE q == [request[r] EXCEPT !.step = "answer"]
    <3>2. /\ q \in RequestRec /\ q.step = "answer" /\ q.token = request[r].token
          /\ q.does = request[r].does /\ q.old = t /\ q.by = request[r].by
      BY <1>1 DEF RequestRec
    <3>3. /\ request' = [request EXCEPT ![r] = q] /\ UNCHANGED <<cookie, issued, now, crashes>>
          /\ request[r].step = "drop"
          /\ \A u \in RefreshTokens \ {t} : stored'[u] = stored[u]
      BY <1>7, <2>1 DEF DropOld, Step, AccountsInv, AccountsTypeOK
    <3> HIDE DEF q
    <3>4. q # NoRequest
      BY <3>2 DEF NoRequest
    <3>5. Entitled(q) /\ (Pending(q) => Pending(request[r]))
      BY <1>1, <1>2, <3>2, <3>3, <3>4 DEF Entitled, Pending
    <3>6. Forgettable(t, q)
      BY <1>1, <1>2, <3>1, <3>2, <3>4 DEF Entitled, Forgettable
    <3> QED
      BY <1>1, <3>2, <3>3, <3>5, <3>6, CookieMoves
  <2>2. CASE ~HasItsRow(r)
    BY <1>3, <1>7, <2>2 DEF DropOld
  <2> QED
    BY <2>1, <2>2
<1> QED
  BY <1>4, <1>5, <1>6, <1>7

\* CookieIsKnown: tabs that race each other never leave their browser with a token
\* that was deleted, unless it expired or was stored twice.
THEOREM CookiesAreKnown == AccountsSpec => []CookieIsKnown
<1>1. AccountsInit => CookieInv
  BY DEF AccountsInit, CookieInv, Recorded, OneOwner, Consoled, Entitled, Pending
<1>2. AccountsInv /\ CookieInv /\ [AccountsNext]_accountVars => CookieInv'
  <2> SUFFICES ASSUME AccountsInv, CookieInv, [AccountsNext]_accountVars, ~crashes'
               PROVE  CookieInv'
    BY DEF CookieInv
  <2>1. ~crashes
    BY DEF AccountsNext, accountVars, Refresh, Logout, Register, Login, CreateUser, DeleteExpired,
       StoreToken, DropOld, AnswerBrowser, DieAtAuth, Second
  <2>2. CASE UNCHANGED accountVars
    BY <2>1, <2>2 DEF accountVars, CookieInv, Recorded, OneOwner, Consoled, Entitled, Expired, Reissued
  <2>3. CASE Second
    <3>1. UNCHANGED <<stored, cookie, request, issued>> /\ now \in Int /\ now' = now + 1
      BY <2>3 DEF Second, AccountsInv, AccountsTypeOK
    <3>2. \A t \in RefreshTokens : Expired(t) => Expired(t)'
      BY <3>1, AccountsAssumption DEF Expired, RefreshTokens, AccountsAssumption
    <3>3. /\ \A b \in Browsers : cookie[b] # NoToken => cookie[b] \in RefreshTokens
          /\ \A r \in AuthHandlers : request[r] # NoRequest /\ request[r].old # NoToken =>
               request[r].old \in RefreshTokens
      BY DEF AccountsInv, AccountsTypeOK, RequestRec
    <3>4. Recorded' /\ Consoled'
      BY <2>1, <3>1, <3>2, <3>3 DEF CookieInv, Recorded, Consoled, Reissued
    <3>5. OneOwner'
      BY <2>1, <3>1, <3>2, <3>3 DEF CookieInv, OneOwner, Entitled, Reissued
    <3> QED
      BY <3>4, <3>5 DEF CookieInv
  <2>4. \A r \in AuthHandlers : ~DieAtAuth(r)
    BY <2>1 DEF DieAtAuth
  <2> QED
    BY <2>1, <2>2, <2>3, <2>4, CookieStarts, CookieSteps, CookieAnswered DEF AccountsNext
<1>3. CookieInv => CookieIsKnown
  BY DEF CookieInv, Consoled, Expired, Reissued, CookieIsKnown
<1> QED
  BY <1>1, <1>2, <1>3, AccountsInvariance, PTL DEF AccountsSpec

(***************************************************************************)
(* Catalogue.                                                              *)
(***************************************************************************)

\* Where requests come one by one, what a request has looked for is still not there.
LooksHold ==
  ~overlap =>
    /\ \A d, e \in Editors : editor[d] # Resting /\ editor[e] # Resting => d = e
    /\ \A e \in Editors : editor[e].does = "journey" =>
         \A j \in Journeys :
           <<journey[j].train, journey[j].route, journey[j].date>>
             # <<editor[e].row.train, editor[e].row.route, editor[e].row.date>>
    /\ \A e \in Editors : editor[e].does = "route" =>
         \A x \in Routes : route[x].name # editor[e].name

\* A route is never deleted: a journey under way has its route.
RoutesStay == \A e \in Editors : editor[e].does = "journey" => route[editor[e].row.route] # NoRow

CatalogueInv == CatalogueTypeOK /\ RoutesStay /\ LooksHold /\ JourneysAreWhole /\ NoDuplicates

\* The rows and the locals, one by one.
LEMMA CatalogueRows ==
  ASSUME CatalogueTypeOK
  PROVE  /\ \A e \in Editors : editor[e].does = "journey" =>
              /\ editor[e].row \in JourneyRec
              /\ editor[e].row.train \in TrainIds /\ editor[e].row.route \in RouteIds
         /\ \A e \in Editors : editor[e].does = "route" =>
              /\ editor[e].name \in RouteNames
              /\ [name |-> editor[e].name, legs |-> editor[e].legs] \in RouteRec
         /\ \A j \in Journeys :
              /\ j \in JourneyIds /\ journey[j] \in JourneyRec
              /\ journey[j].train \in TrainIds /\ journey[j].route \in RouteIds
BY DEF CatalogueTypeOK, EditorRec, Resting, JourneyRec, RouteRec, Journeys

\* A station or a train may come, and a train change its number.
LEMMA TrainsInv ==
  ASSUME CatalogueInv, CatalogueAssumption, NEW t \in TrainIds, NEW n \in Numbers,
         CreateTrain(t, n) \/ UpdateTrain(t, n)
  PROVE  CatalogueInv'
<1>1. /\ trainNumber' = [trainNumber EXCEPT ![t] = n] /\ n # NoRow
      /\ UNCHANGED <<station, route, journey, editor, overlap>>
  BY DEF CreateTrain, UpdateTrain, CatalogueAssumption
<1>2. /\ trainNumber' \in [TrainIds -> Numbers \cup {NoRow}]
      /\ \A u \in TrainIds : trainNumber[u] # NoRow => trainNumber'[u] # NoRow
  BY <1>1 DEF CatalogueInv, CatalogueTypeOK
<1>3. CatalogueTypeOK'
  BY <1>1, <1>2 DEF CatalogueInv, CatalogueTypeOK
<1>4. JourneysAreWhole'
  BY <1>1, <1>2, CatalogueRows DEF CatalogueInv, JourneysAreWhole, Journeys
<1>5. RoutesStay' /\ LooksHold' /\ NoDuplicates'
  BY <1>1 DEF CatalogueInv, RoutesStay, LooksHold, NoDuplicates, Journeys, Routes
<1> QED
  BY <1>3, <1>4, <1>5 DEF CatalogueInv

\* A look takes down what is to be written, and finds that it is not there.
LEMMA LookInv ==
  ASSUME CatalogueInv, NEW e \in Editors, Turn(e), NEW q \in EditorRec, Edit(e, q),
         q.does = "journey" =>
           /\ route[q.row.route] # NoRow
           /\ \A j \in Journeys : <<journey[j].train, journey[j].route, journey[j].date>>
                                   # <<q.row.train, q.row.route, q.row.date>>,
         q.does = "route" => \A x \in Routes : route[x].name # q.name,
         UNCHANGED <<station, trainNumber, route, journey, overlap>>
  PROVE  CatalogueInv'
<1>1. /\ editor' \in [Editors -> EditorRec \cup {Resting}]
      /\ \A d \in Editors : editor'[d] = IF d = e THEN q ELSE editor[d]
  BY DEF Edit, CatalogueInv, CatalogueTypeOK
<1>2. CatalogueTypeOK'
  BY <1>1 DEF CatalogueInv, CatalogueTypeOK
<1>3. RoutesStay'
  BY <1>1 DEF CatalogueInv, RoutesStay
<1>4. LooksHold'
  <2> SUFFICES ASSUME ~overlap
               PROVE  LooksHold'
    BY DEF LooksHold
  <2>1. \A d \in Editors : d # e => editor'[d] = Resting /\ editor[d] = Resting
    BY <1>1 DEF Turn
  <2>2. \A c, d \in Editors : editor'[c] # Resting /\ editor'[d] # Resting => c = d
    BY <2>1
  <2>3. Journeys' = Journeys /\ Routes' = Routes
    BY DEF Journeys, Routes
  <2> QED
    BY <1>1, <2>1, <2>2, <2>3 DEF LooksHold, Resting
<1>5. JourneysAreWhole' /\ NoDuplicates'
  BY DEF CatalogueInv, JourneysAreWhole, NoDuplicates, Journeys, Routes
<1> QED
  BY <1>2, <1>3, <1>4, <1>5 DEF CatalogueInv

\* What a request that rests again leaves of the others' locals.
LEMMA RestFrame ==
  ASSUME CatalogueInv, NEW e \in Editors, Edit(e, Resting)
  PROVE  /\ editor' \in [Editors -> EditorRec \cup {Resting}]
         /\ \A d \in Editors : editor'[d] = IF d = e THEN Resting ELSE editor[d]
         /\ Resting.does \notin {"journey", "route", "remove"}
BY DEF Edit, CatalogueInv, CatalogueTypeOK, Resting

\* A new route has a name of its own, where the look still holds.
LEMMA WriteRouteInv ==
  ASSUME CatalogueInv, CatalogueAssumption, NEW e \in Editors, NEW x \in RouteIds, WriteRoute(e, x)
  PROVE  CatalogueInv'
<1> PICK new : new = [name |-> editor[e].name, legs |-> editor[e].legs]
  OBVIOUS
<1>1. /\ editor[e].does = "route" /\ route[x] = NoRow
      /\ route' = [route EXCEPT ![x] = new] /\ Edit(e, Resting)
      /\ UNCHANGED <<station, trainNumber, journey, overlap>>
  BY DEF WriteRoute
<1>2. new \in RouteRec /\ new # NoRow /\ new.name = editor[e].name
  BY <1>1, CatalogueRows DEF CatalogueInv, CatalogueAssumption
<1>3. /\ route' \in [RouteIds -> RouteRec \cup {NoRow}]
      /\ \A y \in RouteIds : route'[y] = IF y = x THEN new ELSE route[y]
  BY <1>1, <1>2 DEF CatalogueInv, CatalogueTypeOK
<1>4. CatalogueTypeOK'
  BY <1>1, <1>3, RestFrame DEF CatalogueInv, CatalogueTypeOK
<1>5. \A y \in RouteIds : route[y] # NoRow => route'[y] = route[y]
  BY <1>1, <1>3
<1>6. RoutesStay'
  BY <1>2, <1>3, RestFrame, CatalogueRows, <1>1 DEF CatalogueInv, RoutesStay
<1>7. Journeys' = Journeys /\ Routes' = Routes \cup {x}
  BY <1>1, <1>2, <1>3 DEF Journeys, Routes
<1>8. JourneysAreWhole'
  BY <1>1, <1>5, <1>7, CatalogueRows DEF CatalogueInv, JourneysAreWhole
<1>9. LooksHold'
  <2> SUFFICES ASSUME ~overlap
               PROVE  LooksHold'
    BY <1>1 DEF LooksHold
  <2>1. \A d \in Editors : editor'[d] = Resting
    BY <1>1, RestFrame DEF CatalogueInv, LooksHold, Resting
  <2> QED
    BY <1>1, <2>1, RestFrame DEF LooksHold
<1>10. NoDuplicates'
  <2> SUFFICES ASSUME ~overlap
               PROVE  NoDuplicates'
    BY <1>1 DEF NoDuplicates
  <2>1. \A y \in Routes : route[y].name # new.name /\ route'[y] = route[y] /\ y # x
    BY <1>1, <1>2, <1>3 DEF CatalogueInv, LooksHold, Routes
  <2>2. \A y, z \in Routes' : y # z => route'[y].name # route'[z].name
    BY <1>3, <1>7, <2>1 DEF CatalogueInv, NoDuplicates
  <2> QED
    BY <1>1, <1>7, <2>2 DEF CatalogueInv, NoDuplicates
<1> QED
  BY <1>4, <1>6, <1>8, <1>9, <1>10 DEF CatalogueInv

\* A new journey has its train, or is refused, and is the only one where the look
\* still holds.
LEMMA WriteJourneyInv ==
  ASSUME CatalogueInv, CatalogueAssumption, NEW e \in Editors, NEW j \in JourneyIds,
         WriteJourney(e, j)
  PROVE  CatalogueInv'
<1> PICK new : new = editor[e].row
  OBVIOUS
<1>1. /\ editor[e].does = "journey" /\ journey[j] = NoRow
      /\ journey' = IF trainNumber[new.train] = NoRow THEN journey
                    ELSE [journey EXCEPT ![j] = new]
      /\ Edit(e, Resting) /\ UNCHANGED <<station, trainNumber, route, overlap>>
  BY DEF WriteJourney
<1>2. new \in JourneyRec /\ new # NoRow /\ route[new.route] # NoRow
  BY <1>1, CatalogueRows DEF CatalogueInv, CatalogueAssumption, RoutesStay
<1>3. /\ journey' \in [JourneyIds -> JourneyRec \cup {NoRow}]
      /\ \A k \in JourneyIds : k # j => journey'[k] = journey[k]
      /\ journey'[j] = NoRow \/ (journey'[j] = new /\ trainNumber[new.train] # NoRow)
  BY <1>1, <1>2 DEF CatalogueInv, CatalogueTypeOK
<1>4. CatalogueTypeOK'
  BY <1>1, <1>3, RestFrame DEF CatalogueInv, CatalogueTypeOK
<1>5. \A k \in Journeys' : \/ k \in Journeys /\ k # j /\ journey'[k] = journey[k]
                           \/ k = j /\ journey'[k] = new /\ trainNumber[new.train] # NoRow
  BY <1>1, <1>3 DEF Journeys
<1>6. RoutesStay'
  BY <1>1, RestFrame DEF CatalogueInv, RoutesStay
<1>7. JourneysAreWhole'
  BY <1>1, <1>2, <1>5 DEF CatalogueInv, JourneysAreWhole
<1>8. LooksHold'
  <2> SUFFICES ASSUME ~overlap
               PROVE  LooksHold'
    BY <1>1 DEF LooksHold
  <2>1. \A d \in Editors : editor'[d] = Resting
    BY <1>1, RestFrame DEF CatalogueInv, LooksHold, Resting
  <2> QED
    BY <1>1, <2>1, RestFrame DEF LooksHold
<1>9. NoDuplicates'
  <2> SUFFICES ASSUME ~overlap
               PROVE  NoDuplicates'
    BY <1>1 DEF NoDuplicates
  <2>1. \A k \in Journeys : <<journey[k].train, journey[k].route, journey[k].date>>
                            # <<new.train, new.route, new.date>>
    BY <1>1 DEF CatalogueInv, LooksHold
  <2>2. \A k, l \in Journeys' : k # l =>
          <<journey'[k].train, journey'[k].route, journey'[k].date>>
            # <<journey'[l].train, journey'[l].route, journey'[l].date>>
    <3> TAKE k, l \in Journeys'
    <3> HAVE k # l
    <3>1. CASE k # j /\ l # j
      BY <1>5, <3>1 DEF CatalogueInv, NoDuplicates
    <3>2. CASE k = j \/ l = j
      BY <1>5, <2>1, <3>2
    <3> QED
      BY <3>1, <3>2
  <2> QED
    BY <1>1, <2>2 DEF CatalogueInv, NoDuplicates, Routes
<1> QED
  BY <1>4, <1>6, <1>7, <1>8, <1>9 DEF CatalogueInv

\* A train that goes has no journey.
LEMMA RemoveTrainInv ==
  ASSUME CatalogueInv, NEW e \in Editors, RemoveTrain(e)
  PROVE  CatalogueInv'
<1> PICK t : t = editor[e].train
  OBVIOUS
<1>1. /\ editor[e].does = "remove"
      /\ trainNumber' = IF \E j \in Journeys : journey[j].train = t THEN trainNumber
                        ELSE [trainNumber EXCEPT ![t] = NoRow]
      /\ Edit(e, Resting) /\ UNCHANGED <<station, route, journey, overlap>>
  BY DEF RemoveTrain
<1>2. /\ trainNumber' \in [TrainIds -> Numbers \cup {NoRow}]
      /\ \A j \in Journeys : trainNumber'[journey[j].train] = trainNumber[journey[j].train]
  BY <1>1, CatalogueRows DEF CatalogueInv, CatalogueTypeOK
<1>3. Journeys' = Journeys /\ Routes' = Routes
  BY <1>1 DEF Journeys, Routes
<1>4. CatalogueTypeOK'
  BY <1>1, <1>2, RestFrame DEF CatalogueInv, CatalogueTypeOK
<1>5. JourneysAreWhole' /\ NoDuplicates'
  BY <1>1, <1>2, <1>3 DEF CatalogueInv, JourneysAreWhole, NoDuplicates
<1>6. RoutesStay' /\ LooksHold'
  BY <1>1, <1>3, RestFrame DEF CatalogueInv, RoutesStay, LooksHold
<1> QED
  BY <1>4, <1>5, <1>6 DEF CatalogueInv

\* The invariant of the catalogue holds from the start and is kept.
THEOREM CatalogueInvariance == CatalogueSpec => []CatalogueInv
<1>1. CatalogueInit => CatalogueInv
  BY DEF CatalogueInit, CatalogueInv, CatalogueTypeOK, RoutesStay, LooksHold, JourneysAreWhole,
     NoDuplicates, Journeys, Routes, Resting
<1>2. CatalogueInv /\ [CatalogueNext]_catalogueVars => CatalogueInv'
  <2> SUFFICES ASSUME CatalogueInv, [CatalogueNext]_catalogueVars
               PROVE  CatalogueInv'
    OBVIOUS
  <2> USE CatalogueAssumption
  <2>1. CASE UNCHANGED catalogueVars
    BY <2>1 DEF catalogueVars, CatalogueInv, CatalogueTypeOK, RoutesStay, LooksHold,
       JourneysAreWhole, NoDuplicates, Journeys, Routes
  <2>2. ASSUME NEW s \in Stations, CreateStation(s)
        PROVE  CatalogueInv'
    BY <2>2 DEF CreateStation, CatalogueInv, CatalogueTypeOK, RoutesStay, LooksHold,
       JourneysAreWhole, NoDuplicates, Journeys, Routes
  <2>3. ASSUME NEW e \in Editors, NEW name \in RouteNames, NEW visits \in Visits,
               CheckRoute(e, name, visits)
        PROVE  CatalogueInv'
    <3> PICK legs \in {LegsOf(v) : v \in Visits} : legs = LegsOf(visits)
      OBVIOUS
    <3> DEFINE q == [does |-> "route", name |-> name, legs |-> legs]
    <3>1. q \in EditorRec /\ q.does = "route" /\ q.name = name
      BY DEF EditorRec
    <3>2. Edit(e, q)
      BY <2>3 DEF CheckRoute
    <3> HIDE DEF q
    <3> QED
      BY <2>3, <3>1, <3>2, LookInv DEF CheckRoute
  <2>4. ASSUME NEW e \in Editors, NEW row \in JourneyRec, CheckJourney(e, row)
        PROVE  CatalogueInv'
    <3> DEFINE q == [does |-> "journey", row |-> row]
    <3>1. q \in EditorRec /\ q.does = "journey" /\ q.row = row
      BY DEF EditorRec
    <3>2. Edit(e, q)
      BY <2>4 DEF CheckJourney
    <3> HIDE DEF q
    <3> QED
      BY <2>4, <3>1, <3>2, LookInv DEF CheckJourney
  <2>5. ASSUME NEW e \in Editors, NEW t \in TrainIds, CheckRemove(e, t)
        PROVE  CatalogueInv'
    <3> DEFINE q == [does |-> "remove", train |-> t]
    <3>1. q \in EditorRec /\ q.does = "remove"
      BY DEF EditorRec
    <3>2. Edit(e, q)
      BY <2>5 DEF CheckRemove
    <3> HIDE DEF q
    <3> QED
      BY <2>5, <3>1, <3>2, LookInv DEF CheckRemove
  <2> QED
    BY <2>1, <2>2, <2>3, <2>4, <2>5, TrainsInv, WriteRouteInv, WriteJourneyInv, RemoveTrainInv
    DEF CatalogueNext
<1> QED
  BY <1>1, <1>2, PTL DEF CatalogueSpec

\* JourneysAreWhole: a journey never loses its train or its route.
THEOREM NoJourneyIsBroken == CatalogueSpec => []JourneysAreWhole
<1>1. CatalogueInv => JourneysAreWhole
  BY DEF CatalogueInv
<1> QED
  BY <1>1, CatalogueInvariance, PTL

\* NoDuplicates: one request after the other, nothing is written twice.
THEOREM NothingIsDoubled == CatalogueSpec => []NoDuplicates
<1>1. CatalogueInv => NoDuplicates
  BY DEF CatalogueInv
<1> QED
  BY <1>1, CatalogueInvariance, PTL

\* Any numbers have a least one.
LEMMA LeastOf ==
  ASSUME NEW S, S \subseteq Nat, S # {}
  PROVE \E n \in S : \A m \in S : n <= m
<1> DEFINE R == OpToRel(<, Nat)
<1>1. IsWellFoundedOn(R, Nat)
  BY NatLessThanWellFounded
<1>2. \A m, n \in Nat : m < n => <<m, n>> \in R
  BY DEF OpToRel
<1> HIDE DEF R
<1>3. PICK n \in S : \A m \in S : ~ (<<m, n>> \in R)
  BY <1>1, WFMin
<1>4. \A m \in S : ~ (m < n)
  BY <1>2, <1>3, Zenon
<1> QED
  BY <1>4


\* The legs of a line lead from each of its stations to the next.
LEMMA LegsOfVisits ==
  ASSUME NEW v \in Visits
  PROVE  \E n \in Nat \ {0} :
           /\ DOMAIN LegsOf(v) = 1..n
           /\ \A i \in 1..n : LegsOf(v)[i] = <<v[i], v[i + 1]>>
           /\ \A i, j \in 1..n + 1 : i # j => v[i] # v[j]
<1> PICK n : n = Len(v)
  OBVIOUS
<1>1. v \in Seq(Stations) /\ n >= 2 /\ \A i, j \in DOMAIN v : i # j => v[i] # v[j]
  BY CatalogueAssumption DEF CatalogueAssumption
<1>2. n \in Nat /\ Len(v) = n /\ DOMAIN v = 1..n
  BY <1>1
<1>3. n - 1 \in Nat \ {0} /\ (n - 1) + 1 = n
  BY <1>1, <1>2
<1>4. \A i, j \in 1..n : i # j => v[i] # v[j]
  BY <1>1, <1>2
<1>5. DOMAIN LegsOf(v) = 1..n - 1 /\ \A i \in 1..n - 1 : LegsOf(v)[i] = <<v[i], v[i + 1]>>
  BY <1>2, <1>3 DEF LegsOf
<1> QED
  BY <1>3, <1>4, <1>5

\* FindIndex is the first leg that touches a station.
LEMMA FirstTouch ==
  ASSUME NEW legs, NEW n \in Nat, DOMAIN legs = 1..n, NEW s, FindIndex(legs, s) # 0
  PROVE  /\ FindIndex(legs, s) \in 1..n
         /\ Touches(legs[FindIndex(legs, s)], s)
         /\ \A j \in 1..FindIndex(legs, s) - 1 : ~Touches(legs[j], s)
<1> DEFINE T == {i \in 1..n : Touches(legs[i], s)}
<1>1. T # {} /\ T \subseteq Nat
  BY DEF FindIndex
<1>2. PICK i \in T : \A m \in T : i <= m
  BY <1>1, LeastOf
<1>3. \A j \in 1..i - 1 : ~Touches(legs[j], s)
  BY <1>2
<1> DEFINE First(j) == Touches(legs[j], s) /\ \A k \in 1..j - 1 : ~Touches(legs[k], s)
<1>4. \E j \in DOMAIN legs : First(j)
  BY <1>2, <1>3
<1>5. FindIndex(legs, s) = CHOOSE j \in DOMAIN legs : First(j)
  BY <1>1 DEF FindIndex
<1> HIDE DEF First
<1>6. FindIndex(legs, s) \in DOMAIN legs /\ First(FindIndex(legs, s))
  BY <1>4, <1>5
<1> QED
  BY <1>6 DEF First

\* A line visits each station once: the first leg that touches the station where one
\* gets in comes before the first that touches the one where one gets out only if
\* the train goes from the one to the other.
LEMMA InOrderConnects ==
  ASSUME NEW v \in Visits, NEW from, NEW to, from # to, InOrder(LegsOf(v), from, to)
  PROVE  Connects(LegsOf(v), from, to)
<1> PICK legs : legs = LegsOf(v)
  OBVIOUS
<1>1. PICK n \in Nat \ {0} :
        /\ DOMAIN legs = 1..n
        /\ \A i \in 1..n : legs[i] = <<v[i], v[i + 1]>>
        /\ \A i, j \in 1..n + 1 : i # j => v[i] # v[j]
  BY LegsOfVisits
<1>2. \A i \in 1..n : /\ legs[i][1] = v[i] /\ legs[i][2] = v[i + 1]
                      /\ \A s : Touches(legs[i], s) <=> s = v[i] \/ s = v[i + 1]
  BY <1>1 DEF Touches
<1> PICK f, t : f = FindIndex(legs, from) /\ t = FindIndex(legs, to)
  OBVIOUS
<1>3. f # 0 /\ f < t
  BY DEF InOrder
<1>4. f \in 1..n /\ (v[f] = from \/ v[f + 1] = from)
  BY <1>1, <1>2, <1>3, FirstTouch
<1>5. t # 0
  BY <1>3, <1>4
<1>6. t \in 1..n /\ (v[t] = to \/ v[t + 1] = to) /\ \A j \in 1..t - 1 : v[j] # to /\ v[j + 1] # to
  <2>1. t \in 1..n /\ Touches(legs[t], to) /\ \A j \in 1..t - 1 : ~Touches(legs[j], to)
    BY <1>1, <1>5, FirstTouch
  <2>2. \A j \in 1..t - 1 : j \in 1..n
    BY <2>1
  <2> QED
    BY <1>2, <2>1, <2>2
<1>7. v[t + 1] = to
  <2>1. t - 1 \in 1..t - 1 /\ (t - 1) + 1 = t
    BY <1>3, <1>4, <1>6
  <2> QED
    BY <1>6, <2>1
<1>8. PICK i \in 1..t : v[i] = from
  BY <1>3, <1>4, <1>6
<1>9. i \in DOMAIN legs /\ t \in DOMAIN legs /\ i <= t /\ legs[i][1] = from /\ legs[t][2] = to
  BY <1>1, <1>2, <1>6, <1>7, <1>8
<1> QED
  BY <1>9 DEF Connects

\* A train that goes from one station to another touches both.
LEMMA ConnectsHasBoth ==
  ASSUME NEW legs, NEW from, NEW to, Connects(legs, from, to)
  PROVE  HasBoth(legs, from, to)
BY DEF Connects, HasBoth, Touches

\* SearchesBracketTheTruth: for every line, journey, day and pair of stations.
THEOREM SearchesAgree == CatalogueSpec => []SearchesBracketTheTruth
<1>1. CatalogueInv => SearchesBracketTheTruth
  <2> SUFFICES ASSUME CatalogueInv, NEW from \in Stations, NEW to \in Stations, from # to,
                      NEW j \in Journeys, NEW legs, legs = route[journey[j].route].legs
               PROVE  /\ InOrder(legs, from, to) => Connects(legs, from, to)
                      /\ Connects(legs, from, to) => HasBoth(legs, from, to)
    BY DEF SearchesBracketTheTruth, ScheduleSearch, SearchJourneys
  <2>1. journey[j].route \in RouteIds /\ route[journey[j].route] # NoRow
    BY CatalogueRows DEF CatalogueInv, JourneysAreWhole
  <2>2. route[journey[j].route] \in RouteRec
    BY <2>1 DEF CatalogueInv, CatalogueTypeOK
  <2>3. PICK v \in Visits : legs = LegsOf(v)
    BY <2>2 DEF RouteRec
  <2> QED
    BY <2>3, InOrderConnects, ConnectsHasBoth
<1> QED
  BY <1>1, CatalogueInvariance, PTL

(***************************************************************************)
(* Search cache. Rows of the catalogue are only added, so what a handler   *)
(* has read of them stays a part of the answer, in its locals and in Redis.*)
(***************************************************************************)

Cached == CacheKeys \cup {<<>>}
Readable == JourneyIds \cup RouteIds \cup Stations \cup (Stations \X Stations) \cup CacheKeys \cup {Ranking}
AnswerRec == [data : SUBSET Readable, ttl : Int]
ReaderRec == [step : {"routes", "read", "store", "count", "clear"}, key : Cached, data : SUBSET Readable]

SearchTyped ==
  /\ cache \in [CacheKeys -> AnswerRec \cup {Missing}]
  /\ reader \in [Readers -> ReaderRec \cup {NoReader}]
  /\ searched \subseteq Stations \X Stations
  /\ \A r \in Readers : reader[r] # NoReader =>
       /\ reader[r].step \in {"read", "store", "routes", "count"} => reader[r].key \in CacheKeys
       /\ reader[r].step \in {"routes", "count"} => IsJourney(reader[r].key)

\* The routes a handler has read have both stations, the answer it has read is a
\* part of what it would read now.
ReadersKnow ==
  \A r \in Readers : reader[r] # NoReader =>
    /\ reader[r].step = "read" /\ IsJourney(reader[r].key) =>
         \A x \in reader[r].data :
           x \in Routes /\ HasBoth(route[x].legs, reader[r].key[2], reader[r].key[3])
    /\ reader[r].step = "store" /\ reader[r].key # <<"popular">> =>
         StillThere(reader[r].key, reader[r].data)

SearchInv == SearchTyped /\ ReadersKnow /\ CacheNamesWhatIsThere

\* The keys by their kinds.
LEMMA KindsOfKeys ==
  ASSUME NEW k \in CacheKeys
  PROVE  \/ /\ IsJourney(k) /\ k # <<"popular">> /\ k # <<"stations">>
            /\ k[2] \in Stations /\ k[3] \in Stations /\ k[5] \in Nat \ {0} /\ k[6] \in Nat \ {0}
         \/ k = <<"stations">> /\ ~IsJourney(k) /\ k # <<"popular">>
         \/ k = <<"popular">> /\ ~IsJourney(k)
<1>1. \/ k \in {"journey"} \X Stations \X Stations \X Dates \X (Nat \ {0}) \X (Nat \ {0})
      \/ k = <<"stations">>
      \/ k = <<"popular">>
  BY SearchAssumption DEF SearchAssumption
<1>2. ASSUME k \in {"journey"} \X Stations \X Stations \X Dates \X (Nat \ {0}) \X (Nat \ {0})
      PROVE  /\ IsJourney(k) /\ k # <<"popular">> /\ k # <<"stations">>
             /\ k[2] \in Stations /\ k[3] \in Stations /\ k[5] \in Nat \ {0} /\ k[6] \in Nat \ {0}
  <2>1. /\ k[1] = "journey"
        /\ k[2] \in Stations /\ k[3] \in Stations /\ k[5] \in Nat \ {0} /\ k[6] \in Nat \ {0}
    BY <1>2
  <2>2. k # <<"popular">> /\ k # <<"stations">> /\ IsJourney(k)
    BY <2>1 DEF IsJourney
  <2> QED
    BY <2>1, <2>2
<1>3. ASSUME k = <<"stations">>
      PROVE  ~IsJourney(k) /\ k # <<"popular">>
  <2>1. k[1] = "stations"
    BY <1>3
  <2> QED
    BY <2>1 DEF IsJourney
<1>4. ASSUME k = <<"popular">>
      PROVE  ~IsJourney(k)
  <2>1. k[1] = "popular"
    BY <1>4
  <2> QED
    BY <2>1 DEF IsJourney
<1> QED
  BY <1>1, <1>2, <1>3, <1>4

\* What is found for each kind of key.
LEMMA FoundFor ==
  ASSUME NEW k \in CacheKeys
  PROVE  /\ IsJourney(k) => Found(k) = SearchJourneys(k[2], k[3], k[4])
         /\ k = <<"stations">> => Found(k) = station
         /\ k = <<"popular">> => Found(k) = searched
<1>1. CASE IsJourney(k)
  BY <1>1, KindsOfKeys DEF Found
<1>2. CASE k = <<"stations">>
  BY <1>2, KindsOfKeys DEF Found
<1>3. CASE k = <<"popular">>
  <2>1. k # <<"stations">>
    BY <1>3
  <2> QED
    BY <1>3, <2>1, KindsOfKeys DEF Found
<1> QED
  BY <1>1, <1>2, <1>3, KindsOfKeys

\* Nothing is taken from the catalogue that a search reads.
LEMMA CatalogueGrows ==
  ASSUME CatalogueInv, CatalogueNext
  PROVE  /\ station \subseteq station'
         /\ \A x \in Routes : x \in Routes' /\ route'[x] = route[x]
         /\ \A j \in Journeys : j \in Journeys' /\ journey'[j] = journey[j]
<1>1. route \in [RouteIds -> RouteRec \cup {NoRow}] /\ journey \in [JourneyIds -> JourneyRec \cup {NoRow}]
  BY DEF CatalogueInv, CatalogueTypeOK
<1>2. CASE UNCHANGED <<route, journey>> /\ station \subseteq station'
  BY <1>2 DEF Routes, Journeys
<1>3. ASSUME NEW e \in Editors, NEW x \in RouteIds, WriteRoute(e, x)
      PROVE  /\ station \subseteq station'
             /\ \A y \in Routes : y \in Routes' /\ route'[y] = route[y]
             /\ \A j \in Journeys : j \in Journeys' /\ journey'[j] = journey[j]
  <2>1. /\ route[x] = NoRow /\ UNCHANGED <<station, journey>>
        /\ \A y \in RouteIds \ {x} : route'[y] = route[y]
    BY <1>1, <1>3 DEF WriteRoute
  <2> QED
    BY <2>1 DEF Routes, Journeys
<1>4. ASSUME NEW e \in Editors, NEW j \in JourneyIds, WriteJourney(e, j)
      PROVE  /\ station \subseteq station'
             /\ \A y \in Routes : y \in Routes' /\ route'[y] = route[y]
             /\ \A i \in Journeys : i \in Journeys' /\ journey'[i] = journey[i]
  <2>1. /\ journey[j] = NoRow /\ UNCHANGED <<station, route>>
        /\ \A i \in JourneyIds \ {j} : journey'[i] = journey[i]
    BY <1>1, <1>4 DEF WriteJourney
  <2> QED
    BY <2>1 DEF Routes, Journeys
<1> QED
  BY <1>2, <1>3, <1>4 DEF CatalogueNext, CreateStation, CreateTrain, UpdateTrain, CheckRoute,
     CheckJourney, CheckRemove, RemoveTrain

\* So nothing that was found is lost, and what is in place stays there.
LEMMA AnswersGrow ==
  ASSUME CatalogueInv, CatalogueNext, NEW k \in CacheKeys, k # <<"popular">>, NEW data,
         StillThere(k, data)
  PROVE  StillThere(k, data)'
<1>1. CASE k = <<"stations">>
  <2>1. Found(k) = station /\ Found(k)' = station' /\ ~IsJourney(k)
    BY <1>1, KindsOfKeys DEF Found
  <2> QED
    BY <2>1, CatalogueGrows DEF StillThere
<1>2. CASE IsJourney(k)
  <2> PICK found : found = Found(k)
    OBVIOUS
  <2> PICK more : more = Found(k)'
    OBVIOUS
  <2>1. found = SearchJourneys(k[2], k[3], k[4]) /\ more = SearchJourneys(k[2], k[3], k[4])'
    BY <1>2, KindsOfKeys DEF Found
  <2>2. ASSUME NEW j \in found
        PROVE  j \in more /\ journey'[j] = journey[j]
    <3>1. j \in Journeys /\ HasBoth(route[journey[j].route].legs, k[2], k[3])
          /\ InWindow(journey[j].departs, k[4])
      BY <2>1, <2>2 DEF SearchJourneys
    <3>2. journey[j].route \in Routes
      BY <3>1, CatalogueRows DEF CatalogueInv, JourneysAreWhole, Routes
    <3>3. /\ j \in Journeys' /\ journey'[j] = journey[j]
          /\ route'[journey[j].route] = route[journey[j].route]
      BY <3>1, <3>2, CatalogueGrows
    <3>4. HasBoth(route'[journey'[j].route].legs, k[2], k[3]) /\ InWindow(journey'[j].departs, k[4])
      BY <3>1, <3>3
    <3> QED
      BY <2>1, <3>3, <3>4 DEF SearchJourneys
  <2>3. ASSUME NEW j \in data
        PROVE  (k[5] - 1) * k[6]
                 <= Cardinality({i \in more \ {j} : journey'[i].departs <= journey'[j].departs})
    <3> PICK before, after :
          /\ before = {i \in found \ {j} : journey[i].departs <= journey[j].departs}
          /\ after = {i \in more \ {j} : journey'[i].departs <= journey'[j].departs}
      OBVIOUS
    <3>1. j \in found /\ (k[5] - 1) * k[6] <= Cardinality(before)
      BY <1>2 DEF StillThere
    <3>2. before \subseteq after
      BY <2>2, <3>1
    <3>3. after \subseteq JourneyIds
      BY <2>1 DEF SearchJourneys, Journeys
    <3>4. IsFiniteSet(after)
      BY <3>3, SearchAssumption, FS_Subset DEF SearchAssumption
    <3>5. /\ Cardinality(before) <= Cardinality(after)
          /\ Cardinality(before) \in Nat /\ Cardinality(after) \in Nat
      BY <3>2, <3>4, FS_Subset, FS_CardinalityType
    <3> PICK skip : skip = (k[5] - 1) * k[6]
      OBVIOUS
    <3>6. skip \in Int
      BY <1>2, KindsOfKeys
    <3>7. skip <= Cardinality(before)
      BY <3>1
    <3> QED
      BY <3>5, <3>6, <3>7
  <2>4. data \subseteq more
    BY <2>2 DEF StillThere
  <2> QED
    BY <2>3, <2>4 DEF StillThere
<1> QED
  BY <1>1, <1>2, KindsOfKeys

\* A handler's locals, written.
LEMMA GoesTo ==
  ASSUME SearchTyped, NEW r \in Readers, NEW locals, Goes(r, locals)
  PROVE  \A q \in Readers : reader'[q] = IF q = r THEN locals ELSE reader[q]
BY DEF SearchTyped, Goes

\* In an unchanged catalogue it stays there, too.
LEMMA AnswersStay ==
  ASSUME UNCHANGED catalogueVars
  PROVE  /\ route' = route /\ Routes' = Routes
         /\ \A k \in CacheKeys : \A data : k # <<"popular">> /\ StillThere(k, data) => StillThere(k, data)'
<1>1. /\ route' = route /\ journey' = journey /\ station' = station
      /\ Routes' = Routes /\ Journeys' = Journeys
  BY DEF catalogueVars, Routes, Journeys
<1>2. ASSUME NEW k \in CacheKeys, NEW data, IsJourney(k), StillThere(k, data)
      PROVE  StillThere(k, data)'
  <2>1. Found(k) = SearchJourneys(k[2], k[3], k[4]) /\ Found(k)' = SearchJourneys(k[2], k[3], k[4])'
    BY <1>2, KindsOfKeys DEF Found
  <2>2. SearchJourneys(k[2], k[3], k[4])' = SearchJourneys(k[2], k[3], k[4])
    BY <1>1 DEF SearchJourneys, HasBoth
  <2>3. Found(k)' = Found(k)
    BY <2>1, <2>2
  <2> QED
    BY <1>1, <1>2, <2>3 DEF StillThere
<1>3. ASSUME NEW k \in CacheKeys, NEW data, k = <<"stations">>, StillThere(k, data)
      PROVE  StillThere(k, data)'
  <2>1. Found(k) = station /\ Found(k)' = station' /\ ~IsJourney(k)
    BY <1>3, KindsOfKeys DEF Found
  <2> QED
    BY <1>1, <1>3, <2>1 DEF StillThere
<1> QED
  BY <1>1, <1>2, <1>3, KindsOfKeys

\* A step of the search service that leaves the catalogue alone keeps the
\* invariant if what it puts into one handler's locals and into the cache is right.
LEMMA ReaderFrame ==
  ASSUME SearchInv, UNCHANGED catalogueVars,
         NEW r \in Readers, NEW locals \in ReaderRec \cup {NoReader}, Goes(r, locals),
         locals # NoReader =>
           /\ locals.step \in {"read", "store", "routes", "count"} => locals.key \in CacheKeys
           /\ locals.step \in {"routes", "count"} => IsJourney(locals.key)
           /\ locals.step = "read" /\ IsJourney(locals.key) =>
                \A x \in locals.data : x \in Routes /\ HasBoth(route[x].legs, locals.key[2], locals.key[3])
           /\ locals.step = "store" /\ locals.key # <<"popular">> =>
                StillThere(locals.key, locals.data),
         searched' \subseteq Stations \X Stations,
         cache' \in [CacheKeys -> AnswerRec \cup {Missing}],
         \A k \in CacheKeys :
           \/ cache'[k] = cache[k] \/ cache'[k] = Missing
           \/ k # <<"popular">> => \E data : cache'[k].data = data /\ StillThere(k, data)
  PROVE  SearchInv'
<1>1. \A q \in Readers : reader'[q] = IF q = r THEN locals ELSE reader[q]
  BY GoesTo DEF SearchInv
<1>2. reader' \in [Readers -> ReaderRec \cup {NoReader}]
  BY DEF SearchInv, SearchTyped, Goes
<1>3. route' = route /\ Routes' = Routes
  BY AnswersStay
<1>4. \A k \in CacheKeys : \A data : k # <<"popular">> /\ StillThere(k, data) => StillThere(k, data)'
  BY AnswersStay
<1>5. SearchTyped'
  BY <1>1, <1>2 DEF SearchInv, SearchTyped
<1>6. ReadersKnow'
  <2>1. ASSUME NEW q \in Readers, reader'[q] # NoReader
        PROVE  /\ reader'[q].step = "read" /\ IsJourney(reader'[q].key) =>
                    \A x \in reader'[q].data :
                      x \in Routes /\ HasBoth(route[x].legs, reader'[q].key[2], reader'[q].key[3])
               /\ reader'[q].step = "store" /\ reader'[q].key # <<"popular">> =>
                    \A k, data : k = reader'[q].key /\ data = reader'[q].data => StillThere(k, data)
    <3>1. CASE q = r
      BY <1>1, <2>1, <3>1
    <3>2. CASE q # r
      BY <1>1, <2>1, <3>2 DEF SearchInv, ReadersKnow
    <3> QED
      BY <3>1, <3>2
  <2>2. ASSUME NEW q \in Readers, reader'[q] # NoReader, reader'[q].step = "store",
               reader'[q].key # <<"popular">>, NEW k, k = reader'[q].key,
               NEW data, data = reader'[q].data
        PROVE  StillThere(k, data)'
    <3>1. k \in CacheKeys
      BY <1>5, <2>2 DEF SearchTyped
    <3> QED
      BY <1>4, <2>1, <2>2, <3>1
  <2> QED
    BY <1>3, <2>1, <2>2 DEF ReadersKnow, HasBoth
<1>7. CacheNamesWhatIsThere'
  <2>1. ASSUME NEW k \in CacheKeys, k # <<"popular">>, cache'[k] # Missing
        PROVE  \E data : cache'[k].data = data /\ StillThere(k, data)
    BY <2>1 DEF SearchInv, CacheNamesWhatIsThere
  <2>2. ASSUME NEW k \in CacheKeys, k # <<"popular">>, cache'[k] # Missing,
               NEW data, data = cache'[k].data
        PROVE  StillThere(k, data)'
    BY <1>4, <2>1, <2>2
  <2> QED
    BY <2>2 DEF CacheNamesWhatIsThere
<1> QED
  BY <1>5, <1>6, <1>7 DEF SearchInv

\* Entries that only age or go keep the invariant.
LEMMA CacheFrame ==
  ASSUME SearchInv, UNCHANGED catalogueVars, searched' = searched, reader' = reader,
         cache' \in [CacheKeys -> AnswerRec \cup {Missing}],
         \A k \in CacheKeys : cache'[k] = Missing \/ (cache'[k].data = cache[k].data /\ cache[k] # Missing)
  PROVE  SearchInv'
<1>1. route' = route /\ Routes' = Routes
  BY AnswersStay
<1>2. \A k \in CacheKeys : \A data : k # <<"popular">> /\ StillThere(k, data) => StillThere(k, data)'
  BY AnswersStay
<1>3. SearchTyped'
  BY DEF SearchInv, SearchTyped
<1>4. ReadersKnow'
  <2>1. ASSUME NEW q \in Readers, reader[q] # NoReader, reader[q].step = "store",
               reader[q].key # <<"popular">>, NEW k, k = reader[q].key,
               NEW data, data = reader[q].data
        PROVE  StillThere(k, data)'
    <3>1. k \in CacheKeys
      BY <2>1 DEF SearchInv, SearchTyped
    <3> QED
      BY <1>2, <2>1, <3>1 DEF SearchInv, ReadersKnow
  <2> QED
    BY <1>1, <2>1 DEF SearchInv, ReadersKnow, HasBoth
<1>5. CacheNamesWhatIsThere'
  <2>1. ASSUME NEW k \in CacheKeys, k # <<"popular">>, cache'[k] # Missing,
               NEW data, data = cache'[k].data
        PROVE  StillThere(k, data)'
    BY <1>2, <2>1 DEF SearchInv, CacheNamesWhatIsThere
  <2> QED
    BY <2>1 DEF CacheNamesWhatIsThere
<1> QED
  BY <1>3, <1>4, <1>5 DEF SearchInv

\* A step of the catalogue takes nothing from what was read.
LEMMA CatalogueFrame ==
  ASSUME SearchInv, CatalogueInv, CatalogueNext, UNCHANGED searchVars
  PROVE  SearchInv'
<1>1. UNCHANGED <<cache, searched, reader>>
  BY DEF searchVars
<1>2. \A k \in CacheKeys : \A data : k # <<"popular">> /\ StillThere(k, data) => StillThere(k, data)'
  BY AnswersGrow
<1>3. SearchTyped'
  BY <1>1 DEF SearchInv, SearchTyped
<1>4. ReadersKnow'
  <2>1. ASSUME NEW q \in Readers, reader[q] # NoReader, reader[q].step = "store",
               reader[q].key # <<"popular">>, NEW k, k = reader[q].key,
               NEW data, data = reader[q].data
        PROVE  StillThere(k, data)'
    <3>1. k \in CacheKeys
      BY <2>1 DEF SearchInv, SearchTyped
    <3> QED
      BY <1>2, <2>1, <3>1 DEF SearchInv, ReadersKnow
  <2>2. \A x \in Routes : x \in Routes' /\ route'[x] = route[x]
    BY CatalogueGrows
  <2> QED
    BY <1>1, <2>1, <2>2 DEF SearchInv, ReadersKnow, HasBoth
<1>5. CacheNamesWhatIsThere'
  <2>1. ASSUME NEW k \in CacheKeys, k # <<"popular">>, cache[k] # Missing,
               NEW data, data = cache[k].data
        PROVE  StillThere(k, data)'
    BY <1>2, <2>1 DEF SearchInv, CacheNamesWhatIsThere
  <2> QED
    BY <1>1, <2>1 DEF CacheNamesWhatIsThere
<1> QED
  BY <1>3, <1>4, <1>5 DEF SearchInv

\* A request begins with what is cached, or with a query.
LEMMA SearchStep ==
  ASSUME SearchInv, NEW r \in Readers, NEW k \in CacheKeys, Search(r, k)
  PROVE  SearchInv'
<1> DEFINE counts == [step |-> "count", key |-> k, data |-> {}]
           queries == [step |-> IF IsJourney(k) THEN "routes" ELSE "read", key |-> k, data |-> {}]
<1>1. counts \in ReaderRec /\ counts.step = "count" /\ counts.key = k
  BY DEF ReaderRec, Cached
<1>2. /\ queries \in ReaderRec /\ queries.key = k /\ queries.data = {}
      /\ queries.step = IF IsJourney(k) THEN "routes" ELSE "read"
  BY DEF ReaderRec, Cached
<1>3. /\ \/ IsJourney(k) /\ Goes(r, counts)
         \/ Goes(r, NoReader)
         \/ Goes(r, queries)
      /\ UNCHANGED catalogueVars /\ UNCHANGED <<cache, searched>>
  BY DEF Search
<1> HIDE DEF counts, queries
<1>4. /\ searched' \subseteq Stations \X Stations
      /\ cache' \in [CacheKeys -> AnswerRec \cup {Missing}]
  BY <1>3 DEF SearchInv, SearchTyped
<1>5. CASE IsJourney(k) /\ Goes(r, counts)
  BY <1>1, <1>3, <1>4, <1>5, ReaderFrame
<1>6. CASE Goes(r, NoReader)
  BY <1>3, <1>4, <1>6, ReaderFrame
<1>7. CASE Goes(r, queries)
  BY <1>2, <1>3, <1>4, <1>7, ReaderFrame
<1> QED
  BY <1>3, <1>5, <1>6, <1>7

\* The locals of a handler that is past its first step.
LEMMA ReaderAt ==
  ASSUME SearchInv, NEW r \in Readers, NEW step, step # "none", At(r, step)
  PROVE  reader[r] \in ReaderRec /\ reader[r].step = step /\ reader[r] # NoReader
BY DEF At, NoReader, SearchInv, SearchTyped

\* The routes are filtered by the stations of the key.
LEMMA ReadRoutesStep ==
  ASSUME SearchInv, NEW r \in Readers, ReadRoutes(r)
  PROVE  SearchInv'
<1> PICK k : k = reader[r].key
  OBVIOUS
<1> DEFINE found == {x \in Routes : HasBoth(route[x].legs, k[2], k[3])}
           locals == [step |-> "read", key |-> k, data |-> found]
<1>1. Goes(r, locals) /\ UNCHANGED catalogueVars /\ UNCHANGED <<cache, searched>> /\ At(r, "routes")
  BY DEF ReadRoutes, On
<1>2. k \in CacheKeys /\ IsJourney(k)
  BY <1>1, ReaderAt DEF SearchInv, SearchTyped
<1>3. found \subseteq Readable
  BY DEF Routes, Readable
<1> HIDE DEF found
<1>4. locals \in ReaderRec /\ locals.step = "read" /\ locals.key = k /\ locals.data = found
  BY <1>2, <1>3 DEF ReaderRec, Cached
<1>5. \A x \in found : x \in Routes /\ HasBoth(route[x].legs, k[2], k[3])
  BY DEF found
<1> HIDE DEF locals
<1>6. searched' \subseteq Stations \X Stations /\ cache' \in [CacheKeys -> AnswerRec \cup {Missing}]
  BY <1>1 DEF SearchInv, SearchTyped
<1> QED
  BY <1>1, <1>2, <1>4, <1>5, <1>6, ReaderFrame

InPlace(data, found, skip) ==
  /\ data \subseteq found
  /\ \A j \in data : skip <= Cardinality({i \in found \ {j} : journey[i].departs <= journey[j].departs})

\* Whatever stands on a page has what was skipped before it.
LEMMA PageInPlace ==
  ASSUME NEW found, found \subseteq Journeys, NEW page \in Nat \ {0}, NEW limit \in Nat \ {0},
         NEW answer \in Pages(found, page, limit)
  PROVE  InPlace(answer, found, (page - 1) * limit)
<1> PICK q \in Orders(found) :
       answer = {q[n] : n \in DOMAIN q \cap ((page - 1) * limit + 1..page * limit)}
  BY DEF Pages
<1> PICK skip : skip = (page - 1) * limit
  OBVIOUS
<1> PICK last : last = page * limit
  OBVIOUS
<1>1. skip \in Nat /\ last \in Int
  <2>1. page - 1 \in Nat
    OBVIOUS
  <2> QED
    BY <2>1
<1>2. /\ IsFiniteSet(found) /\ Cardinality(found) \in Nat
  <2>1. found \subseteq JourneyIds
    BY DEF Journeys
  <2> QED
    BY <2>1, SearchAssumption, FS_Subset, FS_CardinalityType DEF SearchAssumption
<1> PICK size \in Nat : size = Cardinality(found)
  BY <1>2
<1>3. /\ q \in [1..size -> found] /\ DOMAIN q = 1..size
      /\ \A i, j \in 1..size : i < j => q[i] # q[j] /\ journey[q[i]].departs <= journey[q[j]].departs
  BY DEF Orders
<1>4. answer = {q[n] : n \in DOMAIN q \cap (skip + 1..last)}
  OBVIOUS
<1>5. answer \subseteq found
  BY <1>3, <1>4
<1>6. ASSUME NEW j \in answer
      PROVE  skip <= Cardinality({i \in found \ {j} : journey[i].departs <= journey[j].departs})
  <2> PICK n \in DOMAIN q \cap (skip + 1..last) : j = q[n]
    BY <1>4
  <2>1. n \in 1..size /\ n \in Nat /\ skip < n
    BY <1>1, <1>3
  <2> PICK before : before = {i \in found \ {j} : journey[i].departs <= journey[j].departs}
    OBVIOUS
  <2> PICK f : f = [i \in 1..skip |-> q[i]]
    OBVIOUS
  <2>2. \A i \in 1..skip : i \in 1..size /\ i < n
    BY <1>1, <2>1
  <2>3. \A i \in 1..skip : q[i] \in before
    BY <1>3, <2>1, <2>2
  <2>4. f \in [1..skip -> before] /\ \A i, k \in 1..skip : f[i] = f[k] => i = k
    <3>1. \A i, k \in 1..skip : i < k \/ k < i \/ i = k
      BY <1>1
    <3> QED
      BY <1>3, <2>2, <2>3, <3>1
  <2>5. f \in Injection(1..skip, before)
    BY <2>4 DEF Injection, IsInjective
  <2>6. IsFiniteSet(before)
    BY <1>2, FS_Subset
  <2>7. IsFiniteSet(1..skip) /\ Cardinality(1..skip) = skip
    <3>1. 1 \in Int /\ skip \in Int
      BY <1>1
    <3>2. /\ IsFiniteSet(1..skip)
          /\ Cardinality(1..skip) = IF 1 > skip THEN 0 ELSE skip - 1 + 1
      BY <3>1, FS_Interval, ZenonT(30)
    <3> QED
      BY <1>1, <3>2
  <2>8. Cardinality(1..skip) <= Cardinality(before)
    BY <2>5, <2>6, FS_Injection
  <2> QED
    BY <2>7, <2>8
<1> QED
  BY <1>5, <1>6 DEF InPlace

\* The journeys of the routes read before are journeys with both stations, and all
\* that the search finds now but those of later routes.
LEMMA ReadDataStep ==
  ASSUME SearchInv, CatalogueInv, NEW r \in Readers, ReadData(r)
  PROVE  SearchInv'
<1> PICK k, old : k = reader[r].key /\ old = reader[r].data
  OBVIOUS
<1> PICK found : found = {j \in Journeys : journey[j].route \in old /\ InWindow(journey[j].departs, k[4])}
  OBVIOUS
<1>1. PICK answer \in IF IsJourney(k) THEN Pages(found, k[5], k[6]) ELSE Current(k) :
        /\ Goes(r, [step |-> "store", key |-> k, data |-> answer])
        /\ UNCHANGED catalogueVars /\ UNCHANGED <<cache, searched>> /\ At(r, "read")
  BY DEF ReadData, On
<1> DEFINE locals == [step |-> "store", key |-> k, data |-> answer]
<1>2. k \in CacheKeys /\ reader[r] # NoReader /\ reader[r].step = "read"
  BY <1>1, ReaderAt DEF SearchInv, SearchTyped
<1>3. ASSUME IsJourney(k)
      PROVE  StillThere(k, answer) /\ answer \subseteq Journeys
  <2>1. k[5] \in Nat \ {0} /\ k[6] \in Nat \ {0} /\ Found(k) = SearchJourneys(k[2], k[3], k[4])
    BY <1>2, <1>3, KindsOfKeys, FoundFor
  <2>2. found \subseteq Journeys /\ Journeys \subseteq JourneyIds
    BY DEF Journeys
  <2>3. found \subseteq Found(k)
    <3> SUFFICES ASSUME NEW j \in found
                 PROVE  j \in Found(k)
      OBVIOUS
    <3>1. j \in Journeys /\ journey[j].route \in old /\ InWindow(journey[j].departs, k[4])
      OBVIOUS
    <3>2. HasBoth(route[journey[j].route].legs, k[2], k[3])
      BY <1>2, <1>3, <3>1 DEF SearchInv, ReadersKnow
    <3> QED
      BY <2>1, <3>1, <3>2 DEF SearchJourneys
  <2>4. answer \in Pages(found, k[5], k[6])
    BY <1>3
  <2>5. /\ answer \subseteq found
        /\ \A j \in answer :
             (k[5] - 1) * k[6]
               <= Cardinality({i \in found \ {j} : journey[i].departs <= journey[j].departs})
    <3> PICK page \in Nat \ {0}, limit \in Nat \ {0} : page = k[5] /\ limit = k[6]
      BY <2>1
    <3>1. answer \in Pages(found, page, limit)
      BY <2>4
    <3>2. found \subseteq Journeys
      BY <2>2
    <3>3. InPlace(answer, found, (page - 1) * limit)
      BY <3>1, <3>2, PageInPlace
    <3> QED
      BY <3>3 DEF InPlace
  <2>6. ASSUME NEW j \in answer
        PROVE  (k[5] - 1) * k[6]
                 <= Cardinality({i \in Found(k) \ {j} : journey[i].departs <= journey[j].departs})
    <3> PICK before, here :
          /\ before = {i \in found \ {j} : journey[i].departs <= journey[j].departs}
          /\ here = {i \in Found(k) \ {j} : journey[i].departs <= journey[j].departs}
      OBVIOUS
    <3> PICK skip : skip = (k[5] - 1) * k[6]
      OBVIOUS
    <3>1. skip <= Cardinality(before)
      BY <2>5
    <3>2. before \subseteq here /\ here \subseteq JourneyIds
      BY <2>1, <2>2, <2>3 DEF SearchJourneys
    <3>3. IsFiniteSet(here)
      BY <3>2, SearchAssumption, FS_Subset DEF SearchAssumption
    <3>4. /\ Cardinality(before) <= Cardinality(here)
          /\ Cardinality(before) \in Nat /\ Cardinality(here) \in Nat
      BY <3>2, <3>3, FS_Subset, FS_CardinalityType
    <3>5. skip \in Int
      BY <2>1
    <3>6. skip <= Cardinality(here)
      BY <3>1, <3>4, <3>5
    <3> QED
      BY <3>6
  <2> QED
    BY <2>2, <2>3, <2>5, <2>6 DEF StillThere
<1>4. ASSUME ~IsJourney(k)
      PROVE  StillThere(k, answer) /\ answer \subseteq station \cup searched
  <2>1. answer = Found(k)
    BY <1>4 DEF Current
  <2>2. Found(k) = station \/ Found(k) = searched
    BY <1>2, <1>4, KindsOfKeys, FoundFor
  <2> QED
    BY <1>4, <2>1, <2>2 DEF StillThere
<1>5. answer \subseteq Readable
  <2>1. Journeys \subseteq Readable /\ searched \subseteq Readable
    BY DEF Journeys, Readable, SearchInv, SearchTyped
  <2>2. station \subseteq Readable
    BY DEF CatalogueInv, CatalogueTypeOK, Readable
  <2> QED
    BY <1>3, <1>4, <2>1, <2>2
<1>6. locals \in ReaderRec /\ locals.step = "store" /\ locals.key = k /\ locals.data = answer
  BY <1>2, <1>5 DEF ReaderRec, Cached
<1>7. Goes(r, locals)
  BY <1>1
<1> HIDE DEF locals
<1>8. searched' \subseteq Stations \X Stations /\ cache' \in [CacheKeys -> AnswerRec \cup {Missing}]
  BY <1>1 DEF SearchInv, SearchTyped
<1> QED
  BY <1>1, <1>2, <1>3, <1>4, <1>6, <1>7, <1>8, ReaderFrame

\* An answer is stored over whatever is there.
LEMMA StoreResultStep ==
  ASSUME SearchInv, NEW r \in Readers, StoreResult(r)
  PROVE  SearchInv'
<1> PICK k, found : k = reader[r].key /\ found = reader[r].data
  OBVIOUS
<1> DEFINE locals == [step |-> "count", key |-> k, data |-> {}]
           entry == [data |-> found, ttl |-> CacheTtl]
<1>1. /\ UNCHANGED catalogueVars /\ UNCHANGED searched /\ At(r, "store")
      /\ cache' = [cache EXCEPT ![k] = entry] \/ cache' = cache
      /\ (IsJourney(k) /\ Goes(r, locals)) \/ Goes(r, NoReader)
  BY DEF StoreResult, On
<1>2. /\ k \in CacheKeys /\ found \subseteq Readable
      /\ k # <<"popular">> => StillThere(k, found)
  BY <1>1, ReaderAt DEF SearchInv, SearchTyped, ReadersKnow, ReaderRec
<1>3. entry \in AnswerRec /\ entry.data = found
  BY <1>2, SearchAssumption DEF AnswerRec
<1>4. locals \in ReaderRec /\ locals.step = "count" /\ locals.key = k
  BY <1>2 DEF ReaderRec, Cached
<1> HIDE DEF locals, entry
<1>5. /\ searched' \subseteq Stations \X Stations
      /\ cache' \in [CacheKeys -> AnswerRec \cup {Missing}]
      /\ \A q \in CacheKeys :
           \/ cache'[q] = cache[q] \/ cache'[q] = Missing
           \/ q # <<"popular">> => \E data : cache'[q].data = data /\ StillThere(q, data)
  BY <1>1, <1>2, <1>3 DEF SearchInv, SearchTyped
<1>6. CASE IsJourney(k) /\ Goes(r, locals)
  BY <1>1, <1>2, <1>4, <1>5, <1>6, ReaderFrame
<1>7. CASE Goes(r, NoReader)
  BY <1>1, <1>5, <1>7, ReaderFrame
<1> QED
  BY <1>1, <1>6, <1>7

\* A search is counted under its two stations.
LEMMA CountSearchStep ==
  ASSUME SearchInv, NEW r \in Readers, CountSearch(r)
  PROVE  SearchInv'
<1> PICK k : k = reader[r].key
  OBVIOUS
<1>1. /\ Goes(r, NoReader) /\ UNCHANGED catalogueVars /\ cache' = cache /\ At(r, "count")
      /\ searched' = searched \/ searched' = searched \cup {<<k[2], k[3]>>}
  BY DEF CountSearch
<1>2. k \in CacheKeys /\ IsJourney(k)
  BY <1>1, ReaderAt DEF SearchInv, SearchTyped
<1>3. k[2] \in Stations /\ k[3] \in Stations
  BY <1>2, KindsOfKeys
<1>4. searched' \subseteq Stations \X Stations /\ cache' \in [CacheKeys -> AnswerRec \cup {Missing}]
  BY <1>1, <1>3 DEF SearchInv, SearchTyped
<1> QED
  BY <1>1, <1>4, ReaderFrame

\* The keys to delete are listed, and deleted.
LEMMA ListStep ==
  ASSUME SearchInv, NEW r \in Readers, NEW keys, keys \subseteq CacheKeys \cup {Ranking},
         Goes(r, [step |-> "clear", key |-> <<>>, data |-> keys]),
         UNCHANGED catalogueVars, UNCHANGED <<cache, searched>>
  PROVE  SearchInv'
<1> DEFINE locals == [step |-> "clear", key |-> <<>>, data |-> keys]
<1>1. locals \in ReaderRec /\ locals.step = "clear" /\ Goes(r, locals)
  BY DEF ReaderRec, Cached, Readable
<1> HIDE DEF locals
<1>2. searched' \subseteq Stations \X Stations /\ cache' \in [CacheKeys -> AnswerRec \cup {Missing}]
  BY DEF SearchInv, SearchTyped
<1> QED
  BY <1>1, <1>2, ReaderFrame

LEMMA DeleteKeysStep ==
  ASSUME SearchInv, NEW r \in Readers, DeleteKeys(r)
  PROVE  SearchInv'
<1>1. /\ Goes(r, NoReader) /\ UNCHANGED catalogueVars
      /\ cache' = [k \in CacheKeys |-> IF k \in reader[r].data THEN Missing ELSE cache[k]]
      /\ searched' \subseteq searched
  BY DEF DeleteKeys
<1>2. /\ searched' \subseteq Stations \X Stations /\ cache' \in [CacheKeys -> AnswerRec \cup {Missing}]
      /\ \A k \in CacheKeys : cache'[k] = cache[k] \/ cache'[k] = Missing
  BY <1>1 DEF SearchInv, SearchTyped
<1> QED
  BY <1>1, <1>2, ReaderFrame

\* Entries are deleted, or age.
LEMMA AgeStep ==
  ASSUME SearchInv, CacheTick \/ \E k \in CacheKeys : Invalidate(k)
  PROVE  SearchInv'
<1>1. CASE CacheTick
  <2>1. /\ UNCHANGED catalogueVars /\ searched' = searched /\ reader' = reader
        /\ cache' = [k \in CacheKeys |->
             IF cache[k] = Missing \/ cache[k].ttl = 1 THEN Missing ELSE [cache[k] EXCEPT !.ttl = @ - 1]]
    BY <1>1 DEF CacheTick
  <2>2. ASSUME NEW k \in CacheKeys
        PROVE  \/ cache'[k] = Missing
               \/ /\ cache[k] # Missing /\ cache'[k].data = cache[k].data
                  /\ cache'[k] \in AnswerRec
    <3>1. CASE cache[k] = Missing \/ cache[k].ttl = 1
      BY <2>1, <3>1
    <3>2. CASE cache[k] # Missing /\ cache[k].ttl # 1
      <4>1. cache[k] \in AnswerRec /\ cache'[k] = [cache[k] EXCEPT !.ttl = @ - 1]
        BY <2>1, <3>2 DEF SearchInv, SearchTyped
      <4> QED
        BY <3>2, <4>1 DEF AnswerRec
    <3> QED
      BY <3>1, <3>2
  <2>3. cache' \in [CacheKeys -> AnswerRec \cup {Missing}]
    BY <2>1, <2>2
  <2> QED
    BY <2>1, <2>2, <2>3, CacheFrame
<1>2. ASSUME NEW k \in CacheKeys, Invalidate(k)
      PROVE  SearchInv'
  <2>1. /\ UNCHANGED catalogueVars /\ searched' = searched /\ reader' = reader
        /\ cache' = [cache EXCEPT ![k] = Missing]
    BY <1>2 DEF Invalidate
  <2>2. cache' \in [CacheKeys -> AnswerRec \cup {Missing}]
    BY <2>1 DEF SearchInv, SearchTyped
  <2>3. \A q \in CacheKeys : cache'[q] = Missing \/ (cache'[q].data = cache[q].data /\ cache[q] # Missing)
    BY <2>1 DEF SearchInv, SearchTyped
  <2> QED
    BY <2>1, <2>2, <2>3, CacheFrame
<1> QED
  BY <1>1, <1>2

\* The search service writes nothing to the catalogue.
THEOREM SearchesOnlyRead == SearchSpec => CatalogueSpec
<1>1. [SearchNext]_<<catalogueVars, searchVars>> => [CatalogueNext]_catalogueVars
  <2> SUFFICES ASSUME SearchNext PROVE [CatalogueNext]_catalogueVars
    OBVIOUS
  <2> QED
    BY DEF SearchNext, ReaderStep, Search, ReadRoutes, ReadData, StoreResult, CountSearch, Invalidate,
       ListKeys, ListAllKeys, DeleteKeys, CacheTick
<1> QED
  BY <1>1, PTL DEF SearchSpec, CatalogueSpec

\* CacheNamesWhatIsThere: a stale answer misses rows and invents none, and what it
\* shows stands on its page or on a later one.
THEOREM CacheIsSound == SearchSpec => []CacheNamesWhatIsThere
<1>1. CatalogueInit /\ SearchInit => SearchInv
  <2> SUFFICES ASSUME SearchInit PROVE SearchInv
    OBVIOUS
  <2>1. SearchTyped /\ \A r \in Readers : reader[r] = NoReader
    BY DEF SearchInit, SearchTyped
  <2>2. \A k \in CacheKeys : cache[k] = Missing
    BY DEF SearchInit
  <2> QED
    BY <2>1, <2>2 DEF SearchInv, ReadersKnow, CacheNamesWhatIsThere
<1>2. SearchInv /\ CatalogueInv /\ [SearchNext]_<<catalogueVars, searchVars>> => SearchInv'
  <2> SUFFICES ASSUME SearchInv, CatalogueInv, [SearchNext]_<<catalogueVars, searchVars>>
               PROVE  SearchInv'
    OBVIOUS
  <2>1. CASE UNCHANGED <<catalogueVars, searchVars>>
    <3>1. /\ UNCHANGED catalogueVars /\ searched' = searched /\ reader' = reader /\ cache' = cache
          /\ cache \in [CacheKeys -> AnswerRec \cup {Missing}]
      BY <2>1 DEF searchVars, SearchInv, SearchTyped
    <3> QED
      BY <3>1, CacheFrame
  <2>2. CASE CatalogueNext /\ UNCHANGED searchVars
    BY <2>2, CatalogueFrame
  <2>3. ASSUME NEW r \in Readers, ReaderStep(r)
        PROVE  SearchInv'
    BY <2>3, ReadRoutesStep, ReadDataStep, StoreResultStep, CountSearchStep, DeleteKeysStep DEF ReaderStep
  <2>4. ASSUME NEW r \in Readers, NEW k \in CacheKeys, Search(r, k)
        PROVE  SearchInv'
    BY <2>4, SearchStep
  <2>5. ASSUME NEW r \in Readers, NEW kind, ListKeys(r, kind)
        PROVE  SearchInv'
    BY <2>5, ListStep DEF ListKeys
  <2>6. ASSUME NEW r \in Readers, ListAllKeys(r)
        PROVE  SearchInv'
    BY <2>6, ListStep DEF ListAllKeys
  <2> QED
    BY <2>1, <2>2, <2>3, <2>4, <2>5, <2>6, AgeStep DEF SearchNext
<1>3. SearchInv => CacheNamesWhatIsThere
  BY DEF SearchInv
<1> QED
  BY <1>1, <1>2, <1>3, SearchesOnlyRead, CatalogueInvariance, PTL DEF SearchSpec

(***************************************************************************)
(* Payment provider.                                                       *)
(***************************************************************************)

\* The last answer is all there is to follow: what it says can no longer change.
ProviderInv == PaymentProviderTypeOK /\ SuccessIsReal

\* The invariant of the provider holds from the start and is kept.
THEOREM ProviderInvariance == PaymentProviderSpec => []ProviderInv
<1>1. PaymentProviderInit => ProviderInv
  BY DEF PaymentProviderInit, ProviderInv, PaymentProviderTypeOK, SuccessIsReal
<1>2. ProviderInv /\ [PaymentProviderNext]_providerVars => ProviderInv'
  <2> SUFFICES ASSUME ProviderInv, [PaymentProviderNext]_providerVars
               PROVE  ProviderInv'
    OBVIOUS
  <2>1. CASE UNCHANGED providerVars
    BY <2>1 DEF providerVars, ProviderInv, PaymentProviderTypeOK, SuccessIsReal
  <2>2. ASSUME NEW kind \in Kinds, NEW t \in Txns, NEW u \in Txns,
               NEW mock \in {"COMPLETED", "FAILED"}, Ask(kind, t, u, mock)
        PROVE  ProviderInv'
    <3>1. CASE provider = "SSLCOMMERZ" /\ configured
      <4>1. /\ under' = under \cup {<<kind, t, u>>}
            /\ UNCHANGED <<told, provider, configured, session, returned>>
        BY <2>2, <3>1 DEF Ask
      <4>2. PaymentProviderTypeOK'
        BY <4>1 DEF ProviderInv, PaymentProviderTypeOK
      <4>3. SuccessIsReal'
        BY <4>1 DEF ProviderInv, SuccessIsReal
      <4> QED
        BY <4>2, <4>3 DEF ProviderInv
    <3>2. CASE ~(provider = "SSLCOMMERZ" /\ configured)
      BY <2>2, <3>2 DEF Ask, ProviderInv, PaymentProviderTypeOK, SuccessIsReal
    <3> QED
      BY <3>1, <3>2
  <2>3. ASSUME NEW t \in Txns, HandleWebhook(t)
        PROVE  ProviderInv'
    BY <2>3 DEF HandleWebhook, ProviderInv, PaymentProviderTypeOK, SuccessIsReal, Kinds
  <2>4. ASSUME NEW val \in Txns, NEW tran \in Txns, NEW fields \in BOOLEAN,
               NEW status \in {"VALID", "FAILED"}, HandleSSLCommerzIPN(val, tran, fields, status)
        PROVE  ProviderInv'
    <3>1. CASE Ask("validate", val, tran, "COMPLETED")
      BY <2>2, <3>1 DEF Kinds
    <3>2. CASE /\ told' = <<"validate", val, tran, "received">>
               /\ UNCHANGED <<provider, configured, session, returned, under>>
      BY <3>2 DEF ProviderInv, PaymentProviderTypeOK, SuccessIsReal, Kinds
    <3> QED
      BY <2>4, <3>1, <3>2 DEF HandleSSLCommerzIPN
  <2>5. ASSUME NEW t \in Txns, NEW outcome \in {"paid", "failed"}, Pay(t, outcome)
        PROVE  ProviderInv'
    BY <2>5 DEF Pay, ProviderInv, PaymentProviderTypeOK, SuccessIsReal
  <2>6. ASSUME NEW c \in under, NEW agrees \in BOOLEAN, NEW lost \in BOOLEAN,
               Provide(c, agrees, lost)
        PROVE  ProviderInv'
    <3>1. c[1] \in Kinds /\ c[2] \in Txns /\ c[3] \in Txns
      BY DEF ProviderInv, PaymentProviderTypeOK
    <3> PICK kind, t, u : kind = c[1] /\ t = c[2] /\ u = c[3]
      OBVIOUS
    <3> DEFINE answer == IF lost THEN "FAILED" ELSE StatusOf(c, agrees)
    <3>2. /\ told' = <<kind, t, u, answer>> /\ under' = under \ {c}
          /\ session' = IF agrees /\ kind = "initiate" THEN [session EXCEPT ![t] = "open"]
                        ELSE session
          /\ returned' = IF agrees /\ kind = "refund" THEN returned \cup {t} ELSE returned
          /\ UNCHANGED <<provider, configured>>
      BY <2>6 DEF Provide
    <3>3. /\ answer \in {"FAILED", "PENDING", "COMPLETED"}
          /\ answer # "FAILED" => agrees
          /\ answer = "PENDING" <=> kind = "initiate" /\ answer # "FAILED"
      BY DEF StatusOf
    <3>4. agrees /\ kind = "validate" => session[t] = "paid"
      BY <2>6, <3>1 DEF Provide, Agrees
    <3> HIDE DEF answer
    <3>5. PaymentProviderTypeOK'
      BY <3>1, <3>2, <3>3 DEF ProviderInv, PaymentProviderTypeOK
    <3>6. SuccessIsReal'
      BY <3>1, <3>2, <3>3, <3>4 DEF ProviderInv, PaymentProviderTypeOK, SuccessIsReal
    <3> QED
      BY <3>5, <3>6 DEF ProviderInv
  <2> QED
    BY <2>1, <2>2, <2>3, <2>4, <2>5, <2>6
    DEF PaymentProviderNext, ProcessPayment, GetPaymentStatus, ProcessRefund, Kinds
<1> QED
  BY <1>1, <1>2, PTL DEF PaymentProviderSpec

\* SuccessIsReal: what is answered as a success happened at the provider.
THEOREM NoSuccessIsMadeUp == PaymentProviderSpec => []SuccessIsReal
<1>1. ProviderInv => SuccessIsReal
  BY DEF ProviderInv
<1> QED
  BY <1>1, ProviderInvariance, PTL

(***************************************************************************)
(* Booking saga.                                                           *)
(***************************************************************************)

\* The perils that RefundedOnce is about.
Quiet == sagaPerils \subseteq {"side", "errors", "crash"}

SagaTyped ==
  /\ payment \in [Bookings -> PaymentStatus]
  /\ refunds \in [Bookings -> 0..MaxRefunds] /\ unrecorded \in [Bookings -> Nat]
  /\ handler \in [Handlers -> HandlerRec]
  /\ sent \subseteq SentRec
  /\ \A h \in Handlers :
       /\ handler[h].does = "nothing" => handler[h] = Idle
       /\ handler[h].does = "create" => handler[h].for = Nobody
       /\ handler[h].step = "insert" => handler[h].does = "create"

\* Where answers are waited for and requests of a booking come one by one, a booking
\* has one handler at most, and one request at most, which its handler waits for.
OneRequest ==
  Quiet =>
    /\ \A m, n \in sent : m.for = n.for /\ m.for # Nobody => m = n
    /\ \A g, h \in Handlers : handler[g].for = handler[h].for /\ handler[g].for # Nobody => g = h
    /\ \A m \in sent, h \in Handlers : m.for = handler[h].for /\ m.for # Nobody =>
         /\ m.by = h /\ m.step = handler[h].step /\ m.try = handler[h].try
         /\ handler[h].answer = 0
    /\ \A m \in sent : handler[m.by] = Idle \/ handler[m.by].for = m.for

\* The gateway is giving payment b back, and the payment service has not written it.
Given(b) == \E m \in sent : m.for = b /\ m.stage = "given"

\* The gateway is only asked for COMPLETED payments.  One refund more than were lost
\* is on the books, or about to be: what the row says keeps the gateway from another.
RefundsOnBooks ==
  Quiet =>
    /\ \A m \in sent : m.stage # "new" =>
         m.step = "refund" /\ (m.for \in Bookings => payment[m.for] = "COMPLETED")
    /\ \A b \in Bookings :
         \/ refunds[b] <= unrecorded[b]
         \/ refunds[b] = unrecorded[b] + 1 /\ (payment[b] = "REFUNDED" \/ Given(b))

SagaInv == SagaTyped /\ OneRequest /\ RefundsOnBooks

\* confirmBooking leaves out a field that the payment service needs.
LEMMA PayIsRefused == Taken("pay") # 200
<1> DEFINE path == <<"payments", "confirm">>
           body == {"paymentId", "transactionId"}
<1>1. \A r \in PaymentRoutes : r[2] = path => r[3] = ConfirmPaymentDto
  BY DEF PaymentRoutes, PaymentsController, GatewayController
<1>2. ~ValidationPipe(ConfirmPaymentDto, body)
  BY DEF ValidationPipe, ConfirmPaymentDto, AnyBody, Dto
<1>3. Answer(PaymentRoutes, "POST", path, body) # 200
  BY <1>1, <1>2 DEF Answer
<1> QED
  BY <1>3 DEF Taken, Post

\* A request is answered with one of the statuses that handlers know.
LEMMA AnswersAreKnown ==
  ASSUME NEW step \in HttpSteps
  PROVE  Taken(step) \in {200, 400, 404}
BY DEF Taken, Post, Answer, HttpSteps

\* The locals of a handler at rest have their type.
LEMMA IdleOK == Idle \in HandlerRec /\ Idle.for = Nobody /\ Idle.step = "none" /\ Idle.does = "nothing"
BY SagaAssumption DEF Idle, HandlerRec

\* Requests may come, and go unless the gateway has given what they ask for.
LEMMA BooksInv ==
  ASSUME SagaInv, UNCHANGED <<payment, refunds, unrecorded, sagaPerils>>,
         Quiet => /\ \A n \in sent' : n \in sent \/ n.stage = "new"
                       \/ (n.step = "refund" /\ (n.for \in Bookings => payment[n.for] = "COMPLETED"))
                  /\ \A n \in sent : n.stage = "given" => n \in sent'
  PROVE  RefundsOnBooks'
<1> SUFFICES ASSUME Quiet
             PROVE  RefundsOnBooks'
  BY DEF RefundsOnBooks, Quiet
<1>1. payment' = payment /\ refunds' = refunds /\ unrecorded' = unrecorded
  OBVIOUS
<1>2. \A b \in Bookings : Given(b) => \E m \in sent' : m.for = b /\ m.stage = "given"
  BY DEF Given
<1>3. \A m \in sent' : m.stage # "new" =>
        m.step = "refund" /\ (m.for \in Bookings => payment[m.for] = "COMPLETED")
  BY DEF SagaInv, RefundsOnBooks
<1>4. \A b \in Bookings :
        \/ refunds[b] <= unrecorded[b]
        \/ /\ refunds[b] = unrecorded[b] + 1
           /\ payment[b] = "REFUNDED" \/ \E m \in sent' : m.for = b /\ m.stage = "given"
  BY <1>2 DEF SagaInv, RefundsOnBooks
<1> QED
  BY <1>1, <1>3, <1>4 DEF RefundsOnBooks, Given

\* A handler may send the first request of a step, or go to one without, when it
\* alone is about its booking and waits for no answer.
LEMMA GotoInv ==
  ASSUME SagaInv, NEW h \in Handlers, NEW does \in {"create", "confirm", "cancel", "rollback"},
         NEW b \in Bookings \cup {Nobody}, NEW step \in HttpSteps \cup {"none", "insert"},
         Goto(h, does, b, step),
         does = "create" => b = Nobody, step = "insert" => does = "create",
         Quiet => /\ \A m \in sent : m.by = h => step = "none" \/ m.for = b
                  /\ b # Nobody => /\ \A m \in sent : m.for # b
                                   /\ \A g \in Handlers \ {h} : handler[g].for # b,
         UNCHANGED <<payment, refunds, unrecorded, sagaPerils>>
  PROVE  SagaInv'
<1> DEFINE q == IF step = "none" THEN Idle
                ELSE [does |-> does, for |-> b, step |-> step, answer |-> 0,
                      try |-> IF step \in HttpSteps THEN 1 ELSE 0]
           new == [by |-> h, for |-> b, step |-> step, try |-> 1, stage |-> "new"]
<1>1. handler' = [handler EXCEPT ![h] = q]
      /\ sent' = IF step \in HttpSteps THEN sent \cup {new} ELSE sent
  BY DEF Goto
<1>2. 1 \in 1..MaxRetries + 1 /\ 1 \in 0..MaxRetries + 1 /\ 0 \in 0..MaxRetries + 1
  BY SagaAssumption DEF SagaAssumption
<1>3. CASE step = "none"
  <2>1. q = Idle /\ sent' = sent
    BY <1>1, <1>3 DEF HttpSteps
  <2>2. /\ handler' \in [Handlers -> HandlerRec]
        /\ \A g \in Handlers : handler'[g] = IF g = h THEN Idle ELSE handler[g]
    BY <1>1, <2>1, IdleOK DEF SagaInv, SagaTyped
  <2>3. SagaTyped'
    BY <2>1, <2>2, IdleOK DEF SagaInv, SagaTyped
  <2>4. OneRequest'
    <3> SUFFICES ASSUME Quiet
                 PROVE  OneRequest'
      BY DEF OneRequest, Quiet
    <3>1. \A g \in Handlers : handler'[g].for # Nobody => handler'[g] = handler[g]
      BY <2>2, IdleOK
    <3>2. \A m \in sent : m.by \in Handlers
      BY DEF SagaInv, SagaTyped, SentRec
    <3> QED
      BY <2>1, <2>2, <3>1, <3>2 DEF SagaInv, OneRequest
  <2>5. RefundsOnBooks'
    BY <2>1, BooksInv
  <2> QED
    BY <2>3, <2>4, <2>5 DEF SagaInv
<1>4. CASE step # "none"
  <2>1. /\ q \in HandlerRec /\ q.does = does /\ q.for = b /\ q.step = step /\ q.answer = 0
        /\ step \in HttpSteps => q.try = 1
    BY <1>2, <1>4 DEF HandlerRec
  <2>2. /\ step \in HttpSteps => new \in SentRec
        /\ new.by = h /\ new.for = b /\ new.step = step /\ new.try = 1 /\ new.stage = "new"
    BY <1>2 DEF SentRec, Stages
  <2> HIDE DEF q, new
  <2>3. /\ handler' \in [Handlers -> HandlerRec]
        /\ \A g \in Handlers : handler'[g] = IF g = h THEN q ELSE handler[g]
    BY <1>1, <2>1 DEF SagaInv, SagaTyped
  <2>4. SagaTyped'
    BY <1>1, <2>1, <2>2, <2>3 DEF SagaInv, SagaTyped
  <2>5. OneRequest'
    <3> SUFFICES ASSUME Quiet
                 PROVE  OneRequest'
      BY DEF OneRequest, Quiet
    <3>1. \A m \in sent' : m \in sent \/ (m = new /\ step \in HttpSteps)
      BY <1>1
    <3>2. \A m, n \in sent' : m.for = n.for /\ m.for # Nobody => m = n
      BY <2>2, <3>1 DEF SagaInv, OneRequest
    <3>3. \A f, g \in Handlers : handler'[f].for = handler'[g].for /\ handler'[f].for # Nobody => f = g
      BY <2>1, <2>3 DEF SagaInv, OneRequest
    <3>4. \A m \in sent', g \in Handlers : m.for = handler'[g].for /\ m.for # Nobody =>
            /\ m.by = g /\ m.step = handler'[g].step /\ m.try = handler'[g].try
            /\ handler'[g].answer = 0
      BY <2>1, <2>2, <2>3, <3>1 DEF SagaInv, OneRequest
    <3>5. \A m \in sent' : handler'[m.by] = Idle \/ handler'[m.by].for = m.for
      <4>1. \A m \in sent : m.by \in Handlers
        BY DEF SagaInv, SagaTyped, SentRec
      <4> QED
        BY <1>4, <2>1, <2>2, <2>3, <3>1, <4>1 DEF SagaInv, OneRequest
    <3> QED
      BY <3>2, <3>3, <3>4, <3>5 DEF OneRequest
  <2>6. RefundsOnBooks'
    BY <1>1, <2>2, BooksInv
  <2> QED
    BY <2>4, <2>5, <2>6 DEF SagaInv
<1> QED
  BY <1>3, <1>4

\* A handler that starts finds nobody else at work on its booking.
LEMMA StartInv ==
  ASSUME SagaInv, NEW h \in Handlers, NEW b \in Bookings, Receive(h, b),
         NEW does \in {"confirm", "cancel", "rollback"}, NEW step \in HttpSteps,
         Goto(h, does, b, step), UNCHANGED <<payment, refunds, unrecorded, sagaPerils>>
  PROVE  SagaInv'
<1>1. ~\E m \in sent : m.by = h
  BY DEF Receive, Ready
<1>2. Quiet => (\A m \in sent : m.for # b) /\ \A g \in Handlers : handler[g].for # b
  BY DEF Receive, InUse, Quiet
<1> QED
  BY <1>1, <1>2, GotoInv DEF HttpSteps

\* A handler that was answered goes on: nothing more of its booking is under way.
LEMMA ProceedInv ==
  ASSUME SagaInv, NEW h \in Handlers, Proceed(h)
  PROVE  SagaInv'
<1> DEFINE c == handler[h]
           done == c.answer = 200 \/ (c.does = "rollback" /\ Refused(h))
           next == IF done THEN After(c.does, c.step) ELSE "none"
<1> PICK step : step = IF next = "write" THEN "none" ELSE next
  OBVIOUS
<1> PICK does, b : does = c.does /\ b = c.for
  OBVIOUS
<1>1. /\ c.answer = 200 \/ Refused(h)
      /\ Goto(h, does, b, step) /\ UNCHANGED <<payment, refunds, unrecorded, sagaPerils>>
  BY DEF Proceed, WriteAndPublish, rows
<1>2. c \in HandlerRec /\ c.answer # 0 /\ c # Idle /\ does \in {"create", "confirm", "cancel", "rollback"}
  <2>1. c \in HandlerRec /\ (c.does = "nothing" => c = Idle)
    BY DEF SagaInv, SagaTyped
  <2>2. /\ c.does \in {"nothing", "create", "confirm", "cancel", "rollback"}
        /\ c.answer \in {0, 200, 400, 404, 409, 500}
    <3> HIDE DEF c
    <3> QED
      BY <2>1 DEF HandlerRec
  <2>3. c.answer \in Int /\ (c.answer = 200 \/ c.answer \in 400..499 \/ c.answer = 500)
    <3>1. Refused(h) => c.answer \in 400..499 \/ c.answer = 500
      BY DEF Refused
    <3>2. c.answer \in Int
      <4> HIDE DEF c
      <4> QED
        BY <2>2
    <3> QED
      BY <1>1, <3>1, <3>2
  <2>4. c.answer # 0
    <3> HIDE DEF c
    <3> QED
      BY <2>3
  <2>5. c # Idle
    BY <2>4 DEF Idle
  <2> QED
    BY <2>1, <2>2, <2>4, <2>5
<1>3. b \in Bookings \cup {Nobody} /\ (does = "create" => b = Nobody)
  BY <1>2 DEF HandlerRec, SagaInv, SagaTyped
<1>4. step \in HttpSteps \cup {"none", "insert"} /\ (step = "insert" => does = "create")
  BY <1>2 DEF After, HttpSteps
<1>5. Quiet => /\ \A m \in sent : m.by = h => m.for = b
               /\ b # Nobody => /\ \A m \in sent : m.for # b
                                /\ \A g \in Handlers \ {h} : handler[g].for # b
  BY <1>2 DEF SagaInv, OneRequest
<1> QED
  BY <1>1, <1>2, <1>3, <1>4, <1>5, GotoInv

\* A retry is sent when the answer has come: it is the only request again.
LEMMA RetryInv ==
  ASSUME SagaInv, NEW h \in Handlers, Retry(h)
  PROVE  SagaInv'
<1> PICK c : c = handler[h]
  OBVIOUS
<1>1. /\ c.step \in HttpSteps /\ c.answer = 500 /\ c.try <= MaxRetries
      /\ UNCHANGED <<payment, refunds, unrecorded, sagaPerils>>
  BY DEF Retry, rows
<1>2. c \in HandlerRec /\ c.for \in Bookings \cup {Nobody} /\ c # Idle /\ c.step # "insert"
  BY <1>1 DEF SagaInv, SagaTyped, HandlerRec, Idle, HttpSteps
<1>3. c.try + 1 \in 1..MaxRetries + 1 /\ c.try + 1 \in 0..MaxRetries + 1
  BY <1>1, <1>2, SagaAssumption DEF SagaAssumption, HandlerRec
<1> PICK again \in 0..MaxRetries + 1 : again = c.try + 1 /\ again \in 1..MaxRetries + 1
  BY <1>3
<1> DEFINE q == [c EXCEPT !.answer = 0, !.try = again]
           new == [by |-> h, for |-> c.for, step |-> c.step, try |-> again, stage |-> "new"]
<1>4. sent' = sent \cup {new}
  BY DEF Retry
<1>5. handler' = [handler EXCEPT ![h] = q]
  <2>1. handler' = [handler EXCEPT ![h].answer = 0, ![h].try = @ + 1]
    BY DEF Retry
  <2>2. handler' = [handler EXCEPT ![h] = [[c EXCEPT !.answer = 0] EXCEPT !.try = c.try + 1]]
    BY <2>1 DEF SagaInv, SagaTyped
  <2> QED
    BY <2>2
<1>6. /\ q \in HandlerRec /\ q.does = c.does /\ q.for = c.for /\ q.step = c.step
      /\ q.answer = 0 /\ q.try = again
  <2> DEFINE p == [c EXCEPT !.answer = 0]
  <2>1. /\ p \in HandlerRec /\ p.does = c.does /\ p.for = c.for /\ p.step = c.step
        /\ p.answer = 0
    BY <1>2 DEF HandlerRec
  <2>2. q = [p EXCEPT !.try = again]
    OBVIOUS
  <2> HIDE DEF p, q
  <2> QED
    BY <2>1, <2>2 DEF HandlerRec
<1>7. /\ new \in SentRec /\ new.by = h /\ new.for = c.for /\ new.step = c.step
      /\ new.try = again /\ new.stage = "new"
  BY <1>1, <1>2, <1>3 DEF SentRec, Stages
<1> HIDE DEF q, new
<1>8. /\ handler' \in [Handlers -> HandlerRec]
      /\ \A g \in Handlers : handler'[g] = IF g = h THEN q ELSE handler[g]
  BY <1>6, <1>5 DEF SagaInv, SagaTyped
<1>9. SagaTyped'
  <2>1. c.does # "nothing"
    BY <1>2 DEF SagaInv, SagaTyped
  <2> QED
    BY <1>1, <1>2, <1>6, <1>7, <1>8, <1>4, <2>1 DEF SagaInv, SagaTyped
<1>10. OneRequest'
  <2> SUFFICES ASSUME Quiet
               PROVE  OneRequest'
    BY <1>1 DEF OneRequest, Quiet
  <2>1. c.for # Nobody => \A m \in sent : m.for # c.for
    BY <1>1 DEF SagaInv, OneRequest
  <2>2. \A m, n \in sent' : m.for = n.for /\ m.for # Nobody => m = n
    BY <1>7, <1>4, <2>1 DEF SagaInv, OneRequest
  <2>3. \A f, g \in Handlers : handler'[f].for = handler'[g].for /\ handler'[f].for # Nobody => f = g
    BY <1>6, <1>8 DEF SagaInv, OneRequest
  <2>4. \A m \in sent', g \in Handlers : m.for = handler'[g].for /\ m.for # Nobody =>
          /\ m.by = g /\ m.step = handler'[g].step /\ m.try = handler'[g].try
          /\ handler'[g].answer = 0
    <3>1. \A m \in sent, g \in Handlers : m.for = handler'[g].for /\ m.for # Nobody => g # h
      BY <1>6, <1>8, <2>1
    <3>2. \A g \in Handlers : new.for = handler'[g].for /\ new.for # Nobody => g = h
      <4> SUFFICES ASSUME NEW g \in Handlers \ {h}, new.for = handler'[g].for, new.for # Nobody
                   PROVE  FALSE
        OBVIOUS
      <4>1. handler[g].for = handler[h].for /\ handler[g].for # Nobody
        BY <1>7, <1>8
      <4> QED
        BY <4>1 DEF SagaInv, OneRequest
    <3> QED
      BY <1>6, <1>7, <1>8, <1>4, <3>1, <3>2 DEF SagaInv, OneRequest
  <2>5. \A m \in sent' : handler'[m.by] = Idle \/ handler'[m.by].for = m.for
    <3>1. \A m \in sent : m.by \in Handlers
      BY DEF SagaInv, SagaTyped, SentRec
    <3> QED
      BY <1>2, <1>6, <1>7, <1>8, <1>4, <3>1 DEF SagaInv, OneRequest
  <2> QED
    BY <2>2, <2>3, <2>4, <2>5 DEF OneRequest
<1>11. RefundsOnBooks'
  BY <1>1, <1>7, <1>4, BooksInv
<1> QED
  BY <1>9, <1>10, <1>11 DEF SagaInv

\* A peer's answer takes its request away, and is for the handler that waits for it.
LEMMA ReplyInv ==
  ASSUME SagaInv, NEW m \in sent, NEW status \in {200, 400, 404, 409, 500}, Reply(m, status),
         payment' \in [Bookings -> PaymentStatus], refunds' = refunds,
         unrecorded' \in [Bookings -> Nat], UNCHANGED sagaPerils
  PROVE  SagaTyped' /\ OneRequest' /\ sent' = sent \ {m}
<1> PICK h : h = m.by
  OBVIOUS
<1> DEFINE q == [handler[h] EXCEPT !.answer = status]
<1>1. /\ sent' = sent \ {m}
      /\ handler' = handler \/ (handler' = [handler EXCEPT ![h] = q] /\ Waiting(h))
  BY DEF Reply
<1>2. h \in Handlers /\ \A n \in sent : n.by \in Handlers
  BY DEF SagaInv, SagaTyped, SentRec
<1>3. CASE handler' = handler
  <2>1. SagaTyped'
    BY <1>1, <1>3 DEF SagaInv, SagaTyped
  <2>2. OneRequest'
    BY <1>1, <1>3 DEF SagaInv, OneRequest, Quiet
  <2> QED
    BY <1>1, <2>1, <2>2
<1>4. CASE handler' = [handler EXCEPT ![h] = q] /\ Waiting(h)
  <2>1. handler[h] \in HandlerRec /\ handler[h] # Idle
    BY <1>2, <1>4 DEF Waiting, Idle, HttpSteps, SagaInv, SagaTyped
  <2>2. /\ q \in HandlerRec /\ q.does = handler[h].does /\ q.for = handler[h].for
        /\ q.step = handler[h].step /\ q.try = handler[h].try
    BY <2>1 DEF HandlerRec
  <2> HIDE DEF q
  <2>3. /\ handler' \in [Handlers -> HandlerRec]
        /\ \A g \in Handlers : handler'[g] = IF g = h THEN q ELSE handler[g]
    BY <1>2, <1>4, <2>2 DEF SagaInv, SagaTyped
  <2>4. SagaTyped'
    BY <1>1, <1>2, <2>1, <2>2, <2>3 DEF SagaInv, SagaTyped
  <2>5. OneRequest'
    <3> SUFFICES ASSUME Quiet
                 PROVE  OneRequest'
      BY DEF OneRequest, Quiet
    <3>1. handler[h].for = m.for
      BY <2>1 DEF SagaInv, OneRequest
    <3>2. \A n \in sent' : n.for = m.for => n.for = Nobody
      BY <1>1 DEF SagaInv, OneRequest
    <3>3. \A n \in sent', g \in Handlers : n.for = handler'[g].for /\ n.for # Nobody => g # h
      BY <2>2, <2>3, <3>1, <3>2
    <3>4. \A n \in sent', g \in Handlers : n.for = handler'[g].for /\ n.for # Nobody =>
            /\ n.by = g /\ n.step = handler'[g].step /\ n.try = handler'[g].try
            /\ handler'[g].answer = 0
      BY <1>1, <2>3, <3>3 DEF SagaInv, OneRequest
    <3>5. \A f, g \in Handlers : handler'[f].for = handler'[g].for /\ handler'[f].for # Nobody => f = g
      BY <2>2, <2>3 DEF SagaInv, OneRequest
    <3>6. \A n \in sent' : handler'[n.by] = Idle \/ handler'[n.by].for = n.for
      BY <1>1, <1>2, <2>1, <2>2, <2>3 DEF SagaInv, OneRequest
    <3> QED
      BY <1>1, <3>4, <3>5, <3>6 DEF SagaInv, OneRequest
  <2> QED
    BY <1>1, <2>4, <2>5
<1> QED
  BY <1>1, <1>3, <1>4

\* An answer that changed nothing at the payment service.
LEMMA NoEffectInv ==
  ASSUME SagaInv, NEW m \in sent, NEW status \in {200, 400, 404, 409, 500}, Reply(m, status),
         Quiet => m.stage # "given", UNCHANGED <<payment, refunds, unrecorded, sagaPerils>>
  PROVE  SagaInv'
<1>1. SagaTyped' /\ OneRequest' /\ sent' = sent \ {m}
  BY ReplyInv DEF SagaInv, SagaTyped
<1>2. RefundsOnBooks'
  BY <1>1, BooksInv
<1> QED
  BY <1>1, <1>2 DEF SagaInv

\* A refund goes from one stage to the next.
LEMMA EntersInv ==
  ASSUME SagaInv, NEW m \in sent, NEW stage \in Stages, Enters(m, stage),
         UNCHANGED <<payment, handler, unrecorded, sagaPerils>>,
         refunds' \in [Bookings -> 0..MaxRefunds]
  PROVE  SagaTyped' /\ OneRequest'
<1> DEFINE new == [m EXCEPT !.stage = stage]
<1>1. sent' = (sent \ {m}) \cup {new}
  BY DEF Enters
<1>2. m \in SentRec
  BY DEF SagaInv, SagaTyped
<1>3. /\ new \in SentRec /\ new.by = m.by /\ new.for = m.for /\ new.step = m.step /\ new.try = m.try
  BY <1>2 DEF SentRec
<1> HIDE DEF new
<1>4. SagaTyped'
  BY <1>1, <1>3 DEF SagaInv, SagaTyped
<1>5. OneRequest'
  BY <1>1, <1>3 DEF SagaInv, OneRequest, Quiet
<1> QED
  BY <1>4, <1>5

\* What setting the status of a payment, or of none, does to all of them.
LEMMA PayFrame ==
  ASSUME SagaInv, NEW b \in Bookings \cup {Nobody}, NEW new \in PaymentStatus,
         payment' = [payment EXCEPT ![b] = new]
  PROVE  /\ payment' \in [Bookings -> PaymentStatus]
         /\ \A x \in Bookings : payment'[x] = IF x = b THEN new ELSE payment[x]
<1>1. CASE b \in Bookings
  BY <1>1 DEF SagaInv, SagaTyped
<1>2. CASE b \notin Bookings
  <2>1. payment' = payment
    BY <1>2 DEF SagaInv, SagaTyped
  <2> QED
    BY <1>2, <2>1 DEF SagaInv, SagaTyped
<1> QED
  BY <1>1, <1>2

\* How a request ends that a peer did: with its answer, or with an error after it.
Served == {200, 500}

\* A peer that serves a request: a payment is given back from COMPLETED only, once.
LEMMA ServeInv ==
  ASSUME SagaInv, NEW m \in sent, NEW status \in Served, Serve(m, status)
  PROVE  SagaInv'
<1> PICK b \in Bookings \cup {Nobody} : b = m.for
  BY DEF SagaInv, SagaTyped, SentRec
<1>1. Reply(m, status) /\ UNCHANGED sagaPerils
  BY DEF Serve
<1>2. CASE m.step \notin {"pay", "refund", "void"}
  <2>1. Quiet => m.stage # "given"
    BY <1>2 DEF SagaInv, RefundsOnBooks
  <2>2. UNCHANGED <<payment, refunds, unrecorded>>
    BY <1>2 DEF Serve
  <2> QED
    BY <1>1, <2>1, <2>2, NoEffectInv DEF Served
<1>3. CASE m.step = "pay"
  BY <1>3, PayIsRefused DEF Serve
<1>4. CASE m.step = "void"
  <2>1. payment[b] = "PROCESSING" /\ payment' = [payment EXCEPT ![b] = "CANCELLED"]
        /\ refunds' = refunds /\ unrecorded' = unrecorded
    BY <1>4 DEF Serve, Willing
  <2> PICK s \in PaymentStatus : s = "CANCELLED"
    BY DEF PaymentStatus
  <2>2. payment' = [payment EXCEPT ![b] = s]
    BY <2>1
  <2>3. /\ payment' \in [Bookings -> PaymentStatus]
        /\ \A x \in Bookings : payment'[x] = IF x = b THEN s ELSE payment[x]
    BY <2>2, PayFrame
  <2>4. SagaTyped' /\ OneRequest' /\ sent' = sent \ {m}
    BY <1>1, <2>1, <2>3, ReplyInv DEF Served, SagaInv, SagaTyped
  <2>5. RefundsOnBooks'
    <3> SUFFICES ASSUME Quiet
                 PROVE  RefundsOnBooks'
      BY <1>1 DEF RefundsOnBooks, Quiet
    <3>1. m.stage # "given"
      BY <1>4 DEF SagaInv, RefundsOnBooks
    <3>2. \A x \in Bookings : Given(x) => \E n \in sent' : n.for = x /\ n.stage = "given"
      BY <2>4, <3>1 DEF Given
    <3>3. \A n \in sent' : n.stage # "new" =>
            n.step = "refund" /\ (n.for \in Bookings => payment'[n.for] = "COMPLETED")
      BY <2>1, <2>3, <2>4 DEF SagaInv, RefundsOnBooks
    <3>4. \A x \in Bookings : payment[x] = "REFUNDED" => payment'[x] = "REFUNDED"
      BY <2>1, <2>3
    <3> QED
      BY <2>1, <3>2, <3>3, <3>4 DEF SagaInv, RefundsOnBooks, Given
  <2> QED
    BY <2>4, <2>5 DEF SagaInv
<1>5. CASE m.step = "refund"
  <2>1. /\ m.stage = "given" /\ payment' = [payment EXCEPT ![b] = "REFUNDED"]
        /\ refunds' = refunds /\ unrecorded' = unrecorded
    BY <1>5 DEF Serve
  <2> PICK s \in PaymentStatus : s = "REFUNDED"
    BY DEF PaymentStatus
  <2>2. payment' = [payment EXCEPT ![b] = s]
    BY <2>1
  <2>3. /\ payment' \in [Bookings -> PaymentStatus]
        /\ \A x \in Bookings : payment'[x] = IF x = b THEN s ELSE payment[x]
    BY <2>2, PayFrame
  <2>5. SagaTyped' /\ OneRequest' /\ sent' = sent \ {m}
    BY <1>1, <2>1, <2>3, ReplyInv DEF Served, SagaInv, SagaTyped
  <2>6. RefundsOnBooks'
    <3> SUFFICES ASSUME Quiet
                 PROVE  RefundsOnBooks'
      BY <1>1 DEF RefundsOnBooks, Quiet
    <3>1. \A n \in sent' : n.for = b => b \notin Bookings
      BY <2>5, SagaAssumption DEF SagaInv, OneRequest, SagaAssumption
    <3>2. \A n \in sent' : n.stage # "new" =>
            n.step = "refund" /\ (n.for \in Bookings => payment'[n.for] = "COMPLETED")
      BY <2>3, <2>5, <3>1 DEF SagaInv, RefundsOnBooks
    <3>3. \A x \in Bookings : x # b /\ Given(x) => \E n \in sent' : n.for = x /\ n.stage = "given"
      BY <2>5 DEF Given
    <3>4. \A x \in Bookings :
            \/ refunds[x] <= unrecorded[x]
            \/ /\ refunds[x] = unrecorded[x] + 1
               /\ payment'[x] = "REFUNDED" \/ \E n \in sent' : n.for = x /\ n.stage = "given"
      BY <2>3, <3>3 DEF SagaInv, RefundsOnBooks
    <3> QED
      BY <2>1, <3>2, <3>4 DEF RefundsOnBooks, Given
  <2> QED
    BY <2>5, <2>6 DEF SagaInv
<1> QED
  BY <1>2, <1>3, <1>4, <1>5

\* The payment service has looked at a COMPLETED payment and asks the gateway.
LEMMA StartRefundInv ==
  ASSUME SagaInv, NEW m \in sent, StartRefund(m)
  PROVE  SagaInv'
<1>1. /\ m.step = "refund" /\ payment[m.for] = "COMPLETED" /\ m.stage = "new"
      /\ Enters(m, "asked") /\ sent' = (sent \ {m}) \cup {[m EXCEPT !.stage = "asked"]}
      /\ UNCHANGED <<payment, refunds, unrecorded, handler, sagaPerils>>
  BY DEF StartRefund, Enters, Willing, rows
<1>2. m \in SentRec
  BY DEF SagaInv, SagaTyped
<1>3. SagaTyped' /\ OneRequest'
  BY <1>1, EntersInv DEF Stages, SagaInv, SagaTyped
<1>4. \A n \in sent' : n \in sent
                         \/ (n.step = "refund" /\ (n.for \in Bookings => payment[n.for] = "COMPLETED"))
  BY <1>1, <1>2 DEF SentRec
<1>5. RefundsOnBooks'
  BY <1>1, <1>4, BooksInv
<1> QED
  BY <1>3, <1>5 DEF SagaInv

\* The gateway gives the money back once more: it was asked, so what it gave before
\* was lost.
LEMMA GatewayRefundsInv ==
  ASSUME SagaInv, NEW m \in sent, GatewayRefunds(m)
  PROVE  SagaInv'
<1> PICK b \in Bookings \cup {Nobody} : b = m.for
  BY DEF SagaInv, SagaTyped, SentRec
<1> PICK new : new = [m EXCEPT !.stage = "given"]
  OBVIOUS
<1>1. /\ m.stage = "asked" /\ refunds[b] < MaxRefunds /\ refunds' = [refunds EXCEPT ![b] = @ + 1]
      /\ Enters(m, "given") /\ sent' = (sent \ {m}) \cup {new}
      /\ UNCHANGED <<payment, unrecorded, handler, sagaPerils>>
  BY DEF GatewayRefunds, Enters
<1>2. m \in SentRec
  BY DEF SagaInv, SagaTyped
<1>3. new.for = b /\ new.stage = "given" /\ new.step = m.step
  BY <1>2 DEF SentRec
<1>4. /\ refunds' \in [Bookings -> 0..MaxRefunds]
      /\ \A x \in Bookings : refunds'[x] = IF x = b THEN refunds[x] + 1 ELSE refunds[x]
  <2>1. CASE b \in Bookings
    <3>1. refunds[b] + 1 \in 0..MaxRefunds
      BY <1>1, <2>1, SagaAssumption DEF SagaInv, SagaTyped, SagaAssumption
    <3> QED
      BY <1>1, <2>1, <3>1 DEF SagaInv, SagaTyped
  <2>2. CASE b \notin Bookings
    <3>1. refunds' = refunds
      BY <1>1, <2>2 DEF SagaInv, SagaTyped
    <3> QED
      BY <2>2, <3>1 DEF SagaInv, SagaTyped
  <2> QED
    BY <2>1, <2>2
<1>5. SagaTyped' /\ OneRequest'
  BY <1>1, <1>4, EntersInv DEF Stages
<1>6. RefundsOnBooks'
  <2> SUFFICES ASSUME Quiet
               PROVE  RefundsOnBooks'
    BY <1>1 DEF RefundsOnBooks, Quiet
  <2>1. \A x \in Bookings : Given(x) => \E n \in sent' : n.for = x /\ n.stage = "given"
    BY <1>1 DEF Given
  <2>2. new \in sent'
    BY <1>1
  <2>3. b \in Bookings => payment[b] = "COMPLETED" /\ ~Given(b)
    BY <1>1, SagaAssumption DEF SagaInv, RefundsOnBooks, OneRequest, Given, SagaAssumption
  <2>4. b \in Bookings => refunds[b] <= unrecorded[b]
    BY <2>3 DEF SagaInv, RefundsOnBooks
  <2>5. \A n \in sent' : n.stage # "new" =>
          n.step = "refund" /\ (n.for \in Bookings => payment[n.for] = "COMPLETED")
    BY <1>1, <1>3 DEF SagaInv, RefundsOnBooks
  <2>6. \A x \in Bookings :
          \/ refunds'[x] <= unrecorded[x]
          \/ /\ refunds'[x] = unrecorded[x] + 1
             /\ payment[x] = "REFUNDED" \/ \E n \in sent' : n.for = x /\ n.stage = "given"
    <3> TAKE x \in Bookings
    <3>1. refunds[x] \in Int /\ unrecorded[x] \in Int
      BY DEF SagaInv, SagaTyped
    <3>2. CASE x = b
      <4>1. \E n \in sent' : n.for = x /\ n.stage = "given"
        BY <1>3, <2>2, <3>2
      <4>2. refunds[x] + 1 <= unrecorded[x] \/ refunds[x] + 1 = unrecorded[x] + 1
        BY <2>4, <3>1, <3>2
      <4>3. refunds'[x] = refunds[x] + 1
        BY <1>4, <3>2
      <4> QED
        BY <4>1, <4>2, <4>3
    <3>3. CASE x # b
      BY <1>4, <2>1, <3>3 DEF SagaInv, RefundsOnBooks
    <3> QED
      BY <3>2, <3>3
  <2> QED
    BY <1>1, <2>5, <2>6 DEF RefundsOnBooks, Given
<1> QED
  BY <1>5, <1>6 DEF SagaInv

\* A refund that is lost counts as lost.
LEMMA LoseRefundInv ==
  ASSUME SagaInv, NEW m \in sent, LoseRefund(m)
  PROVE  SagaInv'
<1> PICK b \in Bookings \cup {Nobody} : b = m.for
  BY DEF SagaInv, SagaTyped, SentRec
<1> PICK status \in {400, 500} : Reply(m, status)
  BY DEF LoseRefund
<1>1. /\ unrecorded' = [unrecorded EXCEPT ![b] = @ + 1]
      /\ payment' = payment /\ refunds' = refunds /\ sagaPerils' = sagaPerils
  BY DEF LoseRefund
<1>2. /\ unrecorded' \in [Bookings -> Nat]
      /\ \A x \in Bookings : unrecorded'[x] = IF x = b THEN unrecorded[x] + 1 ELSE unrecorded[x]
  <2>1. CASE b \in Bookings
    <3>1. unrecorded[b] + 1 \in Nat
      BY <2>1 DEF SagaInv, SagaTyped
    <3> QED
      BY <1>1, <2>1, <3>1 DEF SagaInv, SagaTyped
  <2>2. CASE b \notin Bookings
    <3>1. unrecorded' = unrecorded
      BY <1>1, <2>2 DEF SagaInv, SagaTyped
    <3> QED
      BY <2>2, <3>1 DEF SagaInv, SagaTyped
  <2> QED
    BY <2>1, <2>2
<1>3. SagaTyped' /\ OneRequest' /\ sent' = sent \ {m}
  BY <1>1, <1>2, ReplyInv DEF SagaInv, SagaTyped
<1>4. RefundsOnBooks'
  <2> SUFFICES ASSUME Quiet
               PROVE  RefundsOnBooks'
    BY <1>1 DEF RefundsOnBooks, Quiet
  <2>1. \A x \in Bookings : x # b /\ Given(x) => \E n \in sent' : n.for = x /\ n.stage = "given"
    BY <1>3 DEF Given
  <2>2. \A x \in Bookings :
          \/ refunds[x] <= unrecorded'[x]
          \/ /\ refunds[x] = unrecorded'[x] + 1
             /\ payment[x] = "REFUNDED" \/ \E n \in sent' : n.for = x /\ n.stage = "given"
    <3> TAKE x \in Bookings
    <3>1. refunds[x] \in Int /\ unrecorded[x] \in Int
      BY DEF SagaInv, SagaTyped
    <3>2. refunds[x] <= unrecorded[x] + 1
      BY <3>1 DEF SagaInv, RefundsOnBooks
    <3>3. CASE x = b
      BY <1>2, <3>1, <3>2, <3>3
    <3>4. CASE x # b
      BY <1>2, <2>1, <3>4 DEF SagaInv, RefundsOnBooks
    <3> QED
      BY <3>3, <3>4
  <2>3. \A n \in sent' : n.stage # "new" =>
          n.step = "refund" /\ (n.for \in Bookings => payment[n.for] = "COMPLETED")
    BY <1>3 DEF SagaInv, RefundsOnBooks
  <2> QED
    BY <1>1, <2>2, <2>3 DEF RefundsOnBooks, Given
<1> QED
  BY <1>3, <1>4 DEF SagaInv

\* The customer pays, or fails to, a payment that nobody is giving back.
LEMMA SettleInv ==
  ASSUME SagaInv, NEW b \in Bookings, NEW status \in {"COMPLETED", "FAILED"}, Settle(b, status)
  PROVE  SagaInv'
<1>1. /\ payment[b] = "PROCESSING" /\ payment' = [payment EXCEPT ![b] = status]
      /\ UNCHANGED <<refunds, unrecorded, handler, sent, sagaPerils>>
  BY DEF Settle
<1>2. /\ payment' \in [Bookings -> PaymentStatus]
      /\ \A x \in Bookings : payment'[x] = IF x = b THEN status ELSE payment[x]
  BY <1>1, PayFrame DEF PaymentStatus
<1>3. SagaTyped' /\ OneRequest'
  BY <1>1, <1>2 DEF SagaInv, SagaTyped, OneRequest, Quiet
<1>4. RefundsOnBooks'
  <2> SUFFICES ASSUME Quiet
               PROVE  RefundsOnBooks'
    BY <1>1 DEF RefundsOnBooks, Quiet
  <2>1. \A n \in sent : n.stage # "new" =>
          n.step = "refund" /\ (n.for \in Bookings => payment'[n.for] = "COMPLETED")
    BY <1>1, <1>2 DEF SagaInv, RefundsOnBooks
  <2>2. \A x \in Bookings : payment[x] = "REFUNDED" => payment'[x] = "REFUNDED"
    BY <1>1, <1>2
  <2> QED
    BY <1>1, <2>1, <2>2 DEF SagaInv, RefundsOnBooks, Given
<1> QED
  BY <1>3, <1>4 DEF SagaInv

\* A handler dies, and its request is under way without it.
LEMMA DieInv ==
  ASSUME SagaInv, NEW h \in Handlers, handler' = [handler EXCEPT ![h] = Idle],
         UNCHANGED <<payment, refunds, unrecorded, sent, sagaPerils>>
  PROVE  SagaInv'
<1>1. Goto(h, "create", Nobody, "none")
  BY DEF Goto, HttpSteps
<1> QED
  BY <1>1, GotoInv

\* What a timeout of an answer is, where it is considered at all.
LEMMA TimeOutInv ==
  ASSUME SagaInv, NEW h \in Handlers, TimeOut(h)
  PROVE  SagaInv'
<1> DEFINE q == [handler[h] EXCEPT !.answer = 500]
<1>1. ~Quiet /\ handler' = [handler EXCEPT ![h] = q] /\ UNCHANGED <<payment, refunds, unrecorded, sent, sagaPerils>>
      /\ Waiting(h)
  BY DEF TimeOut, Quiet, rows
<1>2. handler[h] \in HandlerRec /\ handler[h] # Idle
  BY <1>1 DEF SagaInv, SagaTyped, Waiting, Idle, HttpSteps
<1>3. /\ q \in HandlerRec /\ q.does = handler[h].does /\ q.for = handler[h].for
      /\ q.step = handler[h].step
  BY <1>2 DEF HandlerRec
<1> HIDE DEF q
<1>4. SagaTyped'
  BY <1>1, <1>2, <1>3 DEF SagaInv, SagaTyped
<1>5. OneRequest' /\ RefundsOnBooks'
  BY <1>1 DEF OneRequest, RefundsOnBooks, Quiet
<1> QED
  BY <1>4, <1>5 DEF SagaInv

\* The invariant of the booking saga holds from the start and is kept.
THEOREM SagaInvariance == SagaSpec => []SagaInv
<1>1. SagaInit => SagaInv
  <2> SUFFICES ASSUME SagaInit
               PROVE  SagaInv
    OBVIOUS
  <2>1. SagaTyped
    BY IdleOK, SagaAssumption DEF SagaInit, SagaTyped, PaymentStatus, SagaAssumption
  <2>2. OneRequest /\ RefundsOnBooks
    BY IdleOK DEF SagaInit, OneRequest, RefundsOnBooks
  <2> QED
    BY <2>1, <2>2 DEF SagaInv
<1>2. SagaInv /\ [SagaNext]_sagaVars => SagaInv'
  <2> SUFFICES ASSUME SagaInv, [SagaNext]_sagaVars
               PROVE  SagaInv'
    OBVIOUS
  <2>1. CASE UNCHANGED <<payment, refunds, unrecorded, handler, sent, sagaPerils>>
    BY <2>1 DEF SagaInv, SagaTyped, OneRequest, RefundsOnBooks, Given, Quiet
  <2>2. ASSUME NEW h \in Handlers, CreateBooking(h)
        PROVE  SagaInv'
    BY <2>2, GotoInv DEF CreateBooking, Ready, HttpSteps, rows
  <2>3. ASSUME NEW h \in Handlers, Insert(h)
        PROVE  SagaInv'
    <3>1. /\ handler[h].for = Nobody /\ handler[h] # Idle
          /\ \E step \in {"none", "release"} : Goto(h, "create", Nobody, step)
          /\ UNCHANGED <<payment, refunds, unrecorded, sagaPerils>>
      BY <2>3, IdleOK DEF Insert, SagaInv, SagaTyped, rows
    <3>2. Quiet => \A m \in sent : m.by = h => m.for = Nobody
      BY <3>1 DEF SagaInv, OneRequest
    <3> QED
      BY <3>1, <3>2, GotoInv DEF HttpSteps
  <2>4. ASSUME NEW h \in Handlers, Die(h)
        PROVE  SagaInv'
    BY <2>4, DieInv DEF Die, rows
  <2>5. ASSUME NEW h \in Handlers, NEW b \in Bookings, ConfirmBooking(h, b)
        PROVE  SagaInv'
    BY <2>5, StartInv DEF ConfirmBooking, HttpSteps, rows
  <2>6. ASSUME NEW h \in Handlers, NEW b \in Bookings, CancelBooking(h, b)
        PROVE  SagaInv'
    BY <2>6, StartInv DEF CancelBooking, HttpSteps, rows
  <2>7. ASSUME NEW h \in Handlers, NEW b \in Bookings, HandlePaymentFailed(h, b)
        PROVE  SagaInv'
    <3>1. CASE UNCHANGED <<handler, sent>>
      BY <2>1, <2>7, <3>1 DEF HandlePaymentFailed, rows
    <3>2. CASE Goto(h, "rollback", b, "release")
      BY <2>7, <3>2, StartInv DEF HandlePaymentFailed, HttpSteps, rows
    <3> QED
      BY <2>7, <3>1, <3>2 DEF HandlePaymentFailed
  <2>8. ASSUME NEW m \in sent, Refuse(m)
        PROVE  SagaInv'
    <3>1. m.step \in HttpSteps
      BY DEF SagaInv, SagaTyped, SentRec
    <3> QED
      BY <2>8, <3>1, AnswersAreKnown, NoEffectInv DEF Refuse, rows
  <2>13. ASSUME NEW m \in sent, GatewayRefuses(m)
         PROVE  SagaInv'
    BY <2>13, NoEffectInv DEF GatewayRefuses, rows
  <2>9. ASSUME NEW m \in sent, Break(m)
        PROVE  SagaInv'
    BY <2>9, NoEffectInv DEF Break, rows
  <2>10. ASSUME NEW b \in Bookings, ReservationRunsOut(b)
         PROVE  SagaInv'
    BY <2>1, <2>10 DEF ReservationRunsOut
  <2>11. CASE SeatsRunOut
    BY <2>1, <2>11 DEF SeatsRunOut, rows
  <2>12. CASE UNCHANGED sagaVars
    BY <2>1, <2>12 DEF sagaVars
  <2> QED
    BY <2>2, <2>3, <2>4, <2>5, <2>6, <2>7, <2>8, <2>9, <2>10, <2>11, <2>12, RetryInv, ProceedInv,
       <2>13, TimeOutInv, StartRefundInv, GatewayRefundsInv, LoseRefundInv, ServeInv, SettleInv
    DEF SagaNext, Served
<1> QED
  BY <1>1, <1>2, PTL DEF SagaSpec

\* RefundedOnce: repeated cancellations give a payment back once, and again only for
\* each time that its refund was not written down.
THEOREM OneRefund == SagaSpec => []RefundedOnce
<1>1. SagaInv => RefundedOnce
  <2> SUFFICES ASSUME SagaInv, Quiet, NEW b \in Bookings
               PROVE  refunds[b] <= unrecorded[b] + 1
    BY DEF RefundedOnce, Quiet
  <2>1. refunds[b] \in Int /\ unrecorded[b] \in Int
    BY DEF SagaInv, SagaTyped
  <2> QED
    BY <2>1 DEF SagaInv, RefundsOnBooks
<1> QED
  BY <1>1, SagaInvariance, PTL

\* What no handler gets past: it never rolls back, and what confirms the payment or
\* gives the seats back is never answered with success.
Blocked ==
  \A h \in Handlers :
    /\ handler[h].does # "rollback"
    /\ handler[h].does = "confirm" => handler[h].step = "pay"
    /\ handler[h].does = "cancel" => handler[h].step \in {"refund", "void", "unreserve"}
    /\ handler[h].step \in {"pay", "unreserve"} => handler[h].answer # 200

\* The columns that SagaTyped leaves out.
RestTyped ==
  /\ booking \in [Bookings -> BookingStatus]
  /\ reservation \in [Bookings -> ReservationStatus]
  /\ failed \in [Bookings -> 0..MaxFailed]
  /\ cancelled \in [Bookings -> Nat]
  /\ holder \in Handlers \cup {Nobody}
  /\ sagaPerils \in SagaRegimes

\* The seat service has no route for what cancelBooking asks of it.
LEMMA UnreserveIsRefused == Taken("unreserve") # 200
<1> DEFINE path == <<"reservations", ":id", "cancel">>
<1>1. ~\E r \in SeatRoutes : r[1] = "POST" /\ r[2] = path
  BY DEF SeatRoutes, LocksController, ReservationsController
<1>2. Answer(SeatRoutes, "POST", path, {"userId"}) = 404
  BY <1>1 DEF Answer
<1> QED
  BY <1>2 DEF Taken, Post

\* No booking goes by the id of a reservation, which is what payment.failed carries.
LEMMA NoBookingIsFound ==
  ASSUME NEW b \in Bookings
  PROVE  FindBooking(FailedBookingId(b)) = {}
BY DEF FindBooking, FailedBookingId

\* A handler goes to a step that is not blocked.
LEMMA GotoBlocked ==
  ASSUME SagaInv, Blocked, NEW h \in Handlers, NEW does, NEW b, NEW step,
         Goto(h, does, b, step), does # "rollback",
         step = "none" \/ /\ does = "confirm" => step = "pay"
                          /\ does = "cancel" => step \in {"refund", "void", "unreserve"}
  PROVE  Blocked'
<1> DEFINE q == IF step = "none" THEN Idle
                ELSE [does |-> does, for |-> b, step |-> step, answer |-> 0,
                      try |-> IF step \in HttpSteps THEN 1 ELSE 0]
<1>1. handler' = [handler EXCEPT ![h] = q] /\ handler \in [Handlers -> HandlerRec]
  BY DEF Goto, SagaInv, SagaTyped
<1>2. /\ q.does # "rollback" /\ q.answer = 0
      /\ q.does = "confirm" => q.step = "pay"
      /\ q.does = "cancel" => q.step \in {"refund", "void", "unreserve"}
  BY DEF Idle
<1> HIDE DEF q
<1>3. \A g \in Handlers : handler'[g] = IF g = h THEN q ELSE handler[g]
  BY <1>1
<1> QED
  BY <1>2, <1>3 DEF Blocked

\* A handler that stays at its step, without a success there that is blocked.
LEMMA StayBlocked ==
  ASSUME SagaInv, Blocked, NEW h \in Handlers, NEW q, handler' = [handler EXCEPT ![h] = q],
         q.does = handler[h].does, q.step = handler[h].step,
         q.step \in {"pay", "unreserve"} => q.answer # 200
  PROVE  Blocked'
<1>1. \A g \in Handlers : handler'[g] = IF g = h THEN q ELSE handler[g]
  BY DEF SagaInv, SagaTyped
<1> QED
  BY <1>1 DEF Blocked

\* A peer answers with success only what it takes.
LEMMA ReplyBlocked ==
  ASSUME SagaInv, Blocked, NEW m \in sent, NEW status, Reply(m, status),
         m.step \in {"pay", "unreserve"} => status # 200
  PROVE  Blocked'
<1> PICK h \in Handlers : h = m.by
  BY DEF SagaInv, SagaTyped, SentRec
<1> DEFINE q == [handler[h] EXCEPT !.answer = status]
<1>1. handler' = handler
      \/ (handler' = [handler EXCEPT ![h] = q] /\ handler[h].step = m.step)
  BY DEF Reply
<1>2. CASE handler' = handler
  BY <1>2 DEF Blocked
<1>3. CASE handler' = [handler EXCEPT ![h] = q] /\ handler[h].step = m.step
  <2>1. handler[h] \in HandlerRec
    BY DEF SagaInv, SagaTyped
  <2>2. q.does = handler[h].does /\ q.step = handler[h].step /\ q.answer = status
    BY <2>1 DEF HandlerRec
  <2> HIDE DEF q
  <2> QED
    BY <1>3, <2>2, StayBlocked
<1> QED
  BY <1>1, <1>2, <1>3

\* A handler that goes on never comes to the write.
LEMMA ProceedBlocked ==
  ASSUME SagaInv, Blocked, NEW h \in Handlers, Proceed(h)
  PROVE  Blocked' /\ UNCHANGED <<booking, reservation, failed, cancelled, holder, sagaPerils>>
<1> DEFINE c == handler[h]
           next == IF c.answer = 200 \/ (c.does = "rollback" /\ Refused(h))
                   THEN After(c.does, c.step) ELSE "none"
<1>1. c \in HandlerRec /\ (c.does = "nothing" => c = Idle) /\ c.does # "rollback"
  BY DEF SagaInv, SagaTyped, Blocked
<1>2. CASE c.answer = 200
  <2>1. /\ c.does \in {"create", "confirm", "cancel"} /\ c.step \notin {"pay", "unreserve"}
        /\ c.does = "confirm" => c.step = "pay"
    <3>1. c # Idle
      BY <1>2 DEF Idle
    <3>2. c.does \in {"nothing", "create", "confirm", "cancel", "rollback"}
      <4> HIDE DEF c
      <4> QED
        BY <1>1 DEF HandlerRec
    <3> QED
      BY <1>1, <1>2, <3>1, <3>2 DEF Blocked
  <2>2. /\ next = After(c.does, c.step)
        /\ c.does \in {"create", "cancel"}
        /\ c.does = "create" => next \in {"insert", "none"}
        /\ c.does = "cancel" => next = "unreserve"
    BY <1>2, <2>1 DEF After
  <2>3. Goto(h, c.does, c.for, next)
        /\ UNCHANGED <<booking, reservation, failed, cancelled, holder, sagaPerils>>
    BY <2>2 DEF Proceed, rows
  <2> HIDE DEF c, next
  <2> QED
    BY <1>1, <2>2, <2>3, GotoBlocked
<1>3. CASE c.answer # 200
  <2>1. next = "none"
    BY <1>1, <1>3
  <2>2. Goto(h, c.does, c.for, next)
        /\ UNCHANGED <<booking, reservation, failed, cancelled, holder, sagaPerils>>
    BY <2>1 DEF Proceed, rows
  <2> HIDE DEF c, next
  <2> QED
    BY <1>1, <2>1, <2>2, GotoBlocked
<1> QED
  BY <1>2, <1>3

\* What a peer does changes no booking, and what is blocked stays so.
LEMMA ServeBlocked ==
  ASSUME SagaInv, Blocked, RestTyped, NEW m \in sent, NEW status \in {200, 500}, Serve(m, status)
  PROVE  Blocked' /\ RestTyped' /\ booking' = booking
<1> PICK b : b = m.for
  OBVIOUS
<1>0. m.step # "pay" /\ m.step # "unreserve"
  <2>1. CASE m.step = "pay"
    BY <2>1, PayIsRefused DEF Serve
  <2>2. CASE m.step = "unreserve"
    BY <2>2, UnreserveIsRefused DEF Serve
  <2> QED
    BY <2>1, <2>2
<1>1. /\ Reply(m, status) /\ UNCHANGED <<booking, failed, cancelled, sagaPerils>>
      /\ holder' = m.by \/ holder' = Nobody \/ holder' = holder
      /\ reservation' = reservation \/ reservation' = [reservation EXCEPT ![b] = "CONFIRMED"]
  <2>1. Reply(m, status) /\ UNCHANGED <<booking, failed, cancelled, sagaPerils>>
    BY DEF Serve
  <2>2. holder' = m.by \/ holder' = Nobody \/ holder' = holder
    BY DEF Serve
  <2>3. reservation' = reservation \/ reservation' = [reservation EXCEPT ![b] = "CONFIRMED"]
    BY <1>0 DEF Serve
  <2> QED
    BY <2>1, <2>2, <2>3
<1>2. Blocked'
  BY <1>0, <1>1, ReplyBlocked
<1>3. m.by \in Handlers
  BY DEF SagaInv, SagaTyped, SentRec
<1>4. reservation' \in [Bookings -> ReservationStatus]
  BY <1>1 DEF RestTyped, ReservationStatus
<1> QED
  BY <1>1, <1>2, <1>3, <1>4 DEF RestTyped

\* Each step keeps the invariant, and every booking as it is.
LEMMA NothingMoves ==
  ASSUME SagaInv, Blocked, RestTyped, [SagaNext]_sagaVars
  PROVE  Blocked' /\ RestTyped' /\ booking' = booking
<1>1. CASE UNCHANGED <<booking, reservation, failed, cancelled, holder, handler, sagaPerils>>
  BY <1>1 DEF Blocked, RestTyped
<1>2. ASSUME NEW h \in Handlers, CreateBooking(h) \/ Insert(h)
      PROVE  Blocked' /\ RestTyped' /\ booking' = booking
  <2>1. /\ \E step \in {"lock", "none", "release"} : Goto(h, "create", Nobody, step)
        /\ UNCHANGED <<booking, reservation, failed, cancelled, holder, sagaPerils>>
    BY <1>2 DEF CreateBooking, Insert, rows
  <2>2. Blocked'
    BY <2>1, GotoBlocked
  <2> QED
    BY <2>1, <2>2 DEF RestTyped
<1>3. ASSUME NEW h \in Handlers, NEW b \in Bookings, ConfirmBooking(h, b) \/ CancelBooking(h, b)
      PROVE  Blocked' /\ RestTyped' /\ booking' = booking
  <2>1. /\ Goto(h, "confirm", b, "pay") \/ \E step \in {"refund", "void"} : Goto(h, "cancel", b, step)
        /\ UNCHANGED <<booking, reservation, failed, cancelled, holder, sagaPerils>>
    BY <1>3 DEF ConfirmBooking, CancelBooking, rows
  <2>2. Blocked'
    BY <2>1, GotoBlocked
  <2> QED
    BY <2>1, <2>2 DEF RestTyped
<1>4. ASSUME NEW h \in Handlers, NEW b \in Bookings, HandlePaymentFailed(h, b)
      PROVE  Blocked' /\ RestTyped' /\ booking' = booking
  <2>1. /\ failed[b] > 0 /\ failed' = [failed EXCEPT ![b] = @ - 1]
        /\ UNCHANGED <<booking, reservation, cancelled, holder, handler, sagaPerils>>
    BY <1>4, NoBookingIsFound DEF HandlePaymentFailed, rows
  <2>2. failed' \in [Bookings -> 0..MaxFailed]
    BY <2>1, SagaAssumption DEF RestTyped
  <2> QED
    BY <2>1, <2>2 DEF Blocked, RestTyped
<1>5. ASSUME NEW h \in Handlers, TimeOut(h) \/ Retry(h)
      PROVE  Blocked' /\ RestTyped' /\ booking' = booking
  <2>1. handler[h] \in HandlerRec
    BY DEF SagaInv, SagaTyped
  <2>2. ASSUME TimeOut(h) PROVE Blocked'
    <3> DEFINE q == [handler[h] EXCEPT !.answer = 500]
    <3>1. handler' = [handler EXCEPT ![h] = q]
      BY <2>2 DEF TimeOut
    <3>2. q.does = handler[h].does /\ q.step = handler[h].step /\ q.answer # 200
      BY <2>1 DEF HandlerRec
    <3> HIDE DEF q
    <3> QED
      BY <3>1, <3>2, StayBlocked
  <2>3. ASSUME Retry(h) PROVE Blocked'
    <3> PICK again : again = handler[h].try + 1
      OBVIOUS
    <3> DEFINE q == [handler[h] EXCEPT !.answer = 0, !.try = again]
    <3>1. handler' = [handler EXCEPT ![h] = q]
      <4>1. handler' = [handler EXCEPT ![h].answer = 0, ![h].try = @ + 1]
        BY <2>3 DEF Retry
      <4>2. handler' = [handler EXCEPT ![h] =
                          [[handler[h] EXCEPT !.answer = 0] EXCEPT !.try = handler[h].try + 1]]
        BY <2>1, <4>1 DEF SagaInv, SagaTyped, HandlerRec
      <4>3. q = [[handler[h] EXCEPT !.answer = 0] EXCEPT !.try = again]
        BY <2>1 DEF HandlerRec
      <4> QED
        BY <4>2, <4>3
    <3>2. q.does = handler[h].does /\ q.step = handler[h].step /\ q.answer # 200
      BY <2>1 DEF HandlerRec
    <3> HIDE DEF q
    <3> QED
      BY <3>1, <3>2, StayBlocked
  <2>4. UNCHANGED <<booking, reservation, failed, cancelled, holder, sagaPerils>>
    BY <1>5 DEF TimeOut, Retry, rows
  <2> QED
    BY <1>5, <2>2, <2>3, <2>4 DEF RestTyped
<1>6. ASSUME NEW h \in Handlers, Proceed(h)
      PROVE  Blocked' /\ RestTyped' /\ booking' = booking
  BY <1>6, ProceedBlocked DEF RestTyped
<1>7. ASSUME NEW h \in Handlers, Die(h)
      PROVE  Blocked' /\ RestTyped' /\ booking' = booking
  <2>1. Goto(h, "create", Nobody, "none")
        /\ UNCHANGED <<booking, reservation, failed, cancelled, holder, sagaPerils>>
    BY <1>7 DEF Die, Goto, HttpSteps, rows
  <2>2. Blocked'
    BY <2>1, GotoBlocked
  <2> QED
    BY <2>1, <2>2 DEF RestTyped
<1>8. ASSUME NEW m \in sent, Refuse(m) \/ Break(m) \/ GatewayRefuses(m) \/ LoseRefund(m)
      PROVE  Blocked' /\ RestTyped' /\ booking' = booking
  <2>1. /\ \E status : Reply(m, status) /\ status # 200
        /\ UNCHANGED <<booking, reservation, failed, cancelled, holder, sagaPerils>>
    BY <1>8 DEF Refuse, Break, GatewayRefuses, LoseRefund, rows
  <2>2. Blocked'
    BY <2>1, ReplyBlocked
  <2> QED
    BY <2>1, <2>2 DEF RestTyped
<1>9. ASSUME NEW m \in sent, StartRefund(m) \/ GatewayRefunds(m)
      PROVE  Blocked' /\ RestTyped' /\ booking' = booking
  BY <1>1, <1>9 DEF StartRefund, GatewayRefunds, rows
<1>10. ASSUME NEW b \in Bookings, NEW status \in {"COMPLETED", "FAILED"}, Settle(b, status)
       PROVE  Blocked' /\ RestTyped' /\ booking' = booking
  <2>1. /\ status = "FAILED" => failed[b] < MaxFailed
        /\ failed' = IF status = "FAILED" THEN [failed EXCEPT ![b] = @ + 1] ELSE failed
        /\ UNCHANGED <<booking, reservation, cancelled, holder, handler, sagaPerils>>
    BY <1>10 DEF Settle
  <2>2. failed' \in [Bookings -> 0..MaxFailed]
    BY <2>1, SagaAssumption DEF RestTyped
  <2> QED
    BY <2>1, <2>2 DEF Blocked, RestTyped
<1>11. ASSUME NEW b \in Bookings, ReservationRunsOut(b)
       PROVE  Blocked' /\ RestTyped' /\ booking' = booking
  BY <1>11 DEF ReservationRunsOut, Blocked, RestTyped, ReservationStatus
<1>12. CASE SeatsRunOut
  BY <1>12 DEF SeatsRunOut, rows, Blocked, RestTyped
<1>13. CASE UNCHANGED sagaVars
  BY <1>1, <1>13 DEF sagaVars
<1> QED
  BY <1>2, <1>3, <1>4, <1>5, <1>6, <1>7, <1>8, <1>9, <1>10, <1>11, <1>12, <1>13, ServeBlocked
  DEF SagaNext

\* What is blocked is blocked from the start and for ever.
THEOREM SagaIsBlocked == SagaSpec => [](SagaInv /\ Blocked /\ RestTyped)
<1>1. SagaInit => Blocked /\ RestTyped
  BY IdleOK, SagaAssumption
  DEF SagaInit, Blocked, RestTyped, BookingStatus, ReservationStatus
<1>2. SagaInv /\ Blocked /\ RestTyped /\ [SagaNext]_sagaVars => Blocked' /\ RestTyped'
  BY NothingMoves
<1> QED
  BY <1>1, <1>2, SagaInvariance, PTL DEF SagaSpec

\* The state of the booking service has its type.
THEOREM SagaTypes == SagaSpec => []SagaTypeOK
<1>1. SagaInv /\ Blocked /\ RestTyped => SagaTypeOK
  BY DEF SagaInv, SagaTyped, RestTyped, SagaTypeOK
<1> QED
  BY <1>1, SagaIsBlocked, PTL

\* No booking's status ever changes, whatever is asked, fails or is repeated: every
\* way to a write (create, confirm, cancel, payment.failed) is barred by what the
\* peers accept.
THEOREM BookingsStandStill == SagaSpec => [][booking' = booking]_sagaVars
<1>1. SagaInv /\ Blocked /\ RestTyped /\ [SagaNext]_sagaVars => [booking' = booking]_sagaVars
  BY NothingMoves
<1> QED
  BY <1>1, SagaIsBlocked, PTL DEF SagaSpec
=============================================================================
