------------------------- MODULE SeatRefinementProofs -------------------------
(***************************************************************************)
(* In a Calm environment SeatReservation implements SeatTable, for any     *)
(* seats, users, locks, requests and replicas.                             *)
(***************************************************************************)
EXTENDS SeatSafetyProofs

-----------------------------------------------------------------------------
(* The mapping.                                                            *)

Holder == [s \in Seats |-> IF \E r \in Locks : s \in Claims(r)
                           THEN CHOOSE r \in Locks : s \in Claims(r) ELSE None]

Sold == {r \in Locks : row[r].status = "CONFIRMED"}

\* Requests for no seat are refused by the DTO.
NonEmpty ==
  \A r \in Locks : /\ Acquiring(r) => acq[r].seats # {}
                   /\ row[r].status # "none" => row[r].seats # {}

\* What Claims says of the holders.
HolderIsClaimant ==
  \A s \in Seats, r \in Locks :
    /\ Holder[s] = r <=> s \in Claims(r)
    /\ Holder[s] \in Locks \cup {None}

\* Holder is the inverse of Claims, because no two locks claim one seat.
LEMMA HolderOfClaims == ClaimsDisjoint => HolderIsClaimant
<1> SUFFICES ASSUME ClaimsDisjoint, NEW s \in Seats, NEW r \in Locks
             PROVE  /\ Holder[s] = r <=> s \in Claims(r)
                    /\ Holder[s] \in Locks \cup {None}
  BY DEF HolderIsClaimant
<1>1. CASE \E q \in Locks : s \in Claims(q)
  <2>1. Holder[s] \in Locks /\ s \in Claims(Holder[s])
    <3>1. Holder[s] = CHOOSE q \in Locks : s \in Claims(q)
      BY <1>1 DEF Holder
    <3>2. QED
      BY <1>1, <3>1, Zenon
  <2>2. QED
    BY <2>1 DEF ClaimsDisjoint
<1>2. CASE ~ \E q \in Locks : s \in Claims(q)
  <2>1. Holder[s] = None
    BY <1>2 DEF Holder
  <2>2. QED
    BY <1>2, <2>1, ConstantsAssumption
<1>3. QED
  BY <1>1, <1>2

\* The same of the next state.
LEMMA HolderOfClaimsNext == ClaimsDisjoint' => HolderIsClaimant'
  BY HolderOfClaims, PTL

-----------------------------------------------------------------------------
(* Steps of the table, in terms of claims.                                 *)

\* Claims and confirmations stay: so does the table.
LEMMA Stutters ==
  ASSUME IInv, IInv', \A q \in Locks : Claims(q)' = Claims(q), Sold' = Sold
  PROVE  UNCHANGED Table!tvars
<1>1. HolderIsClaimant /\ HolderIsClaimant'
  BY HolderOfClaims, HolderOfClaimsNext DEF IInv, Keys
<1>2. \A s \in Seats : Holder'[s] = Holder[s]
  <2>1. ASSUME NEW s \in Seats PROVE Holder'[s] = Holder[s]
    <3>1. \A q \in Locks : Holder'[s] = q <=> Holder[s] = q
      BY <1>1 DEF HolderIsClaimant
    <3>2. Locks # {} => Holder'[s] \in Locks \cup {None} /\ Holder[s] \in Locks \cup {None}
      BY <1>1 DEF HolderIsClaimant
    <3>3. Locks = {} => Holder'[s] = None /\ Holder[s] = None
      BY DEF Holder
    <3>4. QED
      BY <3>1, <3>2, <3>3
  <2>2. QED
    BY <2>1
<1>3. Holder' = Holder
  <2>1. Holder = [s \in Seats |-> Holder[s]] /\ Holder' = [s \in Seats |-> Holder'[s]]
    BY DEF Holder
  <2>2. QED
    BY <1>2, <2>1
<1>4. QED
  BY <1>3 DEF Table!tvars, Holder, Sold

\* Lock r passes the check with the seats S, and nothing else changes.
LEMMA Takes ==
  ASSUME IInv, IInv', NEW r \in Locks, NEW S \in SUBSET Seats, S # {},
         Claims(r) = {}, Claims(r)' = S,
         \A q \in Locks \ {r} : Claims(q)' = Claims(q), Sold' = Sold
  PROVE  Table!Take(r, S)
<1>1. HolderIsClaimant /\ HolderIsClaimant'
  BY HolderOfClaims, HolderOfClaimsNext DEF IInv, Keys
<1>2. \A s \in Seats : Holder[s] # r
  BY <1>1 DEF HolderIsClaimant
<1>3. \A s \in S : Holder[s] = None
  <2>1. ASSUME NEW s \in S, Holder[s] # None PROVE FALSE
    <3>1. Holder[s] \in Locks /\ s \in Claims(Holder[s])
      BY <1>1, <2>1 DEF HolderIsClaimant
    <3>2. QED
      BY <1>2, <3>1 DEF IInv, Keys, ClaimsDisjoint
  <2>2. QED
    BY <2>1
<1>4. Holder' = [s \in Seats |-> IF s \in S THEN r ELSE Holder[s]]
  <2>1. ASSUME NEW s \in Seats PROVE Holder'[s] = IF s \in S THEN r ELSE Holder[s]
    <3>1. CASE s \in S
      BY <1>1, <3>1 DEF HolderIsClaimant
    <3>2. CASE s \notin S
      <4>1. \A q \in Locks : Holder'[s] = q <=> Holder[s] = q
        BY <1>1, <3>2 DEF HolderIsClaimant
      <4>2. QED
        BY <1>1, <3>2, <4>1 DEF HolderIsClaimant
    <3>3. QED
      BY <3>1, <3>2
  <2>2. Holder' = [s \in Seats |-> Holder'[s]]
    BY DEF Holder
  <2>3. QED
    BY <2>1, <2>2
<1>5. QED
  BY <1>2, <1>3, <1>4, Zenon DEF Table!Take, Table!SeatsOf, Holder, Sold

\* Lock r is confirmed.
LEMMA Sells ==
  ASSUME IInv, IInv', NEW r \in Locks, Claims(r) # {},
         \A q \in Locks : Claims(q)' = Claims(q), Sold' = Sold \cup {r}
  PROVE  Table!Sell(r)
<1>1. HolderIsClaimant /\ HolderIsClaimant'
  BY HolderOfClaims, HolderOfClaimsNext DEF IInv, Keys
<1>2. \E s \in Seats : Holder[s] = r
  <2>1. Claims(r) \subseteq Seats
    BY Ranges DEF IInv, Shape
  <2>2. QED
    BY <1>1, <2>1 DEF HolderIsClaimant
<1>3. Holder' = Holder
  <2>1. ASSUME NEW s \in Seats PROVE Holder'[s] = Holder[s]
    BY <1>1 DEF HolderIsClaimant
  <2>2. Holder = [s \in Seats |-> Holder[s]] /\ Holder' = [s \in Seats |-> Holder'[s]]
    BY DEF Holder
  <2>3. QED
    BY <2>1, <2>2
<1>4. QED
  BY <1>2, <1>3 DEF Table!Sell, Table!SeatsOf, Holder, Sold

\* Lock r loses all it claims, if anything.
LEMMA GivesBack ==
  ASSUME IInv, IInv', NonEmpty, NEW r \in Locks, Claims(r)' = {},
         \A q \in Locks \ {r} : Claims(q)' = Claims(q), Sold' = Sold \ {r}
  PROVE  Table!GiveBack(r) \/ UNCHANGED Table!tvars
<1>1. HolderIsClaimant /\ HolderIsClaimant'
  BY HolderOfClaims, HolderOfClaimsNext DEF IInv, Keys
<1>2. CASE Claims(r) = {}
  <2>1. r \notin Sold
    BY <1>2, ConfirmedClaims DEF IInv, NonEmpty, Sold
  <2>2. QED
    BY <1>2, <2>1, Stutters
<1>3. CASE Claims(r) # {}
  <2>1. \E s \in Seats : Holder[s] = r
    <3>1. Claims(r) \subseteq Seats
      BY Ranges DEF IInv, Shape
    <3>2. QED
      BY <1>1, <1>3, <3>1 DEF HolderIsClaimant
  <2>2. Holder' = [s \in Seats |-> IF Holder[s] = r THEN None ELSE Holder[s]]
    <3>1. ASSUME NEW s \in Seats PROVE Holder'[s] = IF Holder[s] = r THEN None ELSE Holder[s]
      <4>1. Holder'[s] # r
        BY <1>1 DEF HolderIsClaimant
      <4>2. \A q \in Locks \ {r} : Holder'[s] = q <=> Holder[s] = q
        BY <1>1 DEF HolderIsClaimant
      <4>3. Holder'[s] \in Locks \cup {None} /\ Holder[s] \in Locks \cup {None}
        BY <1>1 DEF HolderIsClaimant
      <4>4. QED
        BY <4>1, <4>2, <4>3
    <3>2. Holder' = [s \in Seats |-> Holder'[s]]
      BY DEF Holder
    <3>3. QED
      BY <3>1, <3>2
  <2>3. QED
    BY <2>1, <2>2 DEF Table!GiveBack, Table!SeatsOf, Holder, Sold
<1>4. QED
  BY <1>2, <1>3

-----------------------------------------------------------------------------
(* No request is for no seat.                                              *)

\* NonEmpty at the start.
LEMMA InitNonEmpty == Init => NonEmpty
  BY DEF Init, NonEmpty, NoRow, NoAcq, Acquiring

\* A step of acquireLock keeps NonEmpty.
LEMMA AcquireNonEmpty ==
  ASSUME TypeOK, NonEmpty, NEW r \in Locks, AcquireBegin(r) \/ AcquireStep(r) \/ AcquireFail(r)
  PROVE  NonEmpty'
<1>0. acq[r] \in AcqRec /\ acq \in [Locks -> AcqRec] /\ row \in [Locks -> RowRec]
  BY DEF TypeOK
<1>1. \A q \in Locks \ {r} : acq'[q] = acq[q] /\ row'[q] = row[q]
  <2>1. CASE AcquireBegin(r)
    BY <1>0, <2>1 DEF AcquireBegin, AcquireStart
  <2>2. CASE AcquireStep(r)
    BY <1>0, <2>2 DEF AcquireStep, AcquireSet, AcquireTaken, AcquireRollback, AcquireCheck,
       AcquireInsert, AcquireCollide
  <2>3. CASE AcquireFail(r)
    BY <1>0, <2>3 DEF AcquireFail
  <2>4. QED
    BY <2>1, <2>2, <2>3
<1>2. \/ UNCHANGED row
      \/ /\ acq[r].step = "insert" /\ row'[r].seats = acq[r].seats
  <2>1. CASE AcquireInsert(r)
    BY <1>0, <2>1 DEF AcquireInsert
  <2>2. CASE ~AcquireInsert(r)
    BY <2>2 DEF AcquireBegin, AcquireStart, AcquireStep, AcquireSet, AcquireTaken,
       AcquireRollback, AcquireCheck, AcquireCollide, AcquireFail
  <2>3. QED
    BY <2>1, <2>2
<1>3. Acquiring(r)' => acq'[r].seats # {}
  <2>1. CASE AcquireBegin(r)
    BY <1>0, <2>1 DEF AcquireBegin, AcquireStart
  <2>2. ASSUME NEW s \in Seats, AcquireSet(r, s)
        PROVE  Acquiring(r) /\ acq'[r].seats = acq[r].seats
    <3>1. acq'[r] = [acq[r] EXCEPT !.todo = acq[r].todo \ {s},
                                   !.step = IF acq[r].todo = {s} THEN "check" ELSE "lock"]
      BY <1>0, <2>2 DEF AcquireSet
    <3>2. QED
      BY <1>0, <2>2, <3>1 DEF AcquireSet, Acquiring, AcqRec
  <2>3. ASSUME NEW s \in Seats, AcquireTaken(r, s)
        PROVE  Acquiring(r) /\ (acq'[r] = Refused \/ acq'[r].seats = acq[r].seats)
    BY <1>0, <2>3 DEF AcquireTaken, Acquiring, AcqRec
  <2>4. ASSUME NEW s \in Seats, AcquireRollback(r, s)
        PROVE  Acquiring(r) /\ (acq'[r] = Refused \/ acq'[r].seats = acq[r].seats)
    BY <1>0, <2>4 DEF AcquireRollback, Acquiring, AcqRec
  <2>5. ASSUME AcquireCheck(r)
        PROVE  Acquiring(r) /\ (acq'[r] = Refused \/ acq'[r].seats = acq[r].seats)
    <3>1. \/ acq'[r] = Refused
          \/ acq'[r] = [acq[r] EXCEPT !.step = "insert", !.lease = TTL]
      BY <1>0, <2>5, Zenon DEF AcquireCheck
    <3>2. QED
      BY <1>0, <2>5, <3>1 DEF AcquireCheck, Acquiring, AcqRec
  <2>6. CASE AcquireInsert(r) \/ AcquireCollide(r) \/ AcquireFail(r)
    BY <1>0, <2>6 DEF AcquireInsert, AcquireCollide, AcquireFail, Refused, NoAcq, Acquiring
  <2>7. ~Acquiring(r)' \/ acq'[r] # Refused
    BY DEF Acquiring, Refused, NoAcq
  <2>8. QED
    BY <2>1, <2>2, <2>3, <2>4, <2>5, <2>6, <2>7 DEF AcquireStep, NonEmpty
<1>4. row'[r].status # "none" => row'[r].seats # {}
  BY <1>2 DEF NonEmpty, Acquiring
<1>5. QED
  BY <1>1, <1>3, <1>4 DEF NonEmpty, Acquiring

\* NonEmpty is inductive.
LEMMA NextNonEmpty ==
  ASSUME Calm, IInv, NonEmpty, [Next]_vars
  PROVE  NonEmpty'
<1>0. Shape /\ TypeOK
  BY DEF IInv, Shape
<1>1. ASSUME \A r \in Locks : row'[r].seats = row[r].seats /\ (row[r].status = "none" => row'[r].status = "none"),
             \A r \in Locks : acq'[r].step = acq[r].step /\ acq'[r].seats = acq[r].seats
      PROVE  NonEmpty'
  BY <1>1 DEF NonEmpty, Acquiring
<1>2. CASE UNCHANGED vars
  BY <1>1, <1>2 DEF vars
<1>3. ASSUME NEW p \in Reqs, RequestStart(p) \/ RequestFail(p) PROVE NonEmpty'
  <2>1. UNCHANGED <<row, acq>>
    BY <1>3 DEF RequestStart, ConfirmRead, ReleaseRead, CancelRead, ExtendRead, RequestFail
  <2>2. QED
    BY <1>1, <2>1
<1>4. ASSUME NEW p \in Reqs, RequestStep(p) PROVE NonEmpty'
  <2>0. row \in [Locks -> RowRec] /\ Knows(req[p]) /\ req[p] \in ReqRec
    BY <1>0 DEF Shape, TypeOK, ReqShape
  <2>1. UNCHANGED acq
    BY <1>4 DEF RequestStep, ConfirmExpire, ConfirmWrite, CancelWrite, ReleaseDel, ReleaseWrite,
       ExtendExpire, ExtendWrite, ConfirmDel, CancelDel, ReleaseGet, ExtendGet
  <2>2. \/ UNCHANGED row
        \/ \E status \in Statuses : SetStatus(req[p].lock, status)
        \/ \E lease : row' = [row EXCEPT ![req[p].lock].lease = lease]
    <3>1. CASE ConfirmExpire(p) \/ ConfirmWrite(p) \/ CancelWrite(p) \/ ReleaseWrite(p)
      BY <3>1 DEF ConfirmExpire, ConfirmWrite, CancelWrite, ReleaseWrite, Statuses
    <3>2. CASE ExtendWrite(p)
      BY <3>2 DEF ExtendWrite
    <3>3. CASE ~(\/ ConfirmExpire(p) \/ ConfirmWrite(p) \/ CancelWrite(p) \/ ReleaseWrite(p)
                 \/ ExtendWrite(p))
      BY <1>4, <3>3 DEF RequestStep, ReleaseDel, ExtendExpire, ConfirmDel, CancelDel,
         ReleaseGet, ExtendGet
    <3>4. QED
      BY <3>1, <3>2, <3>3
  <2>3. UNCHANGED row \/ (req[p].lock \in Locks /\ row[req[p].lock].status # "none")
    <3>1. UNCHANGED row \/ req[p].call # "none"
      BY <1>4 DEF RequestStep, ConfirmExpire, ConfirmWrite, CancelWrite, ReleaseDel, ReleaseWrite,
         ExtendExpire, ExtendWrite, ConfirmDel, CancelDel, ReleaseGet, ExtendGet
    <3>2. QED
      BY <2>0, <3>1 DEF Knows, ReqRec
  <2>4. \A r \in Locks : row'[r].seats = row[r].seats /\ (row[r].status = "none" => row'[r].status = "none")
    <3>1. CASE UNCHANGED row
      BY <3>1
    <3>2. CASE ~UNCHANGED row
      <4>1. PICK l \in Locks : l = req[p].lock /\ row[l].status # "none"
        BY <2>3, <3>2
      <4>2. /\ \A r \in Locks \ {l} : row'[r] = row[r]
            /\ row'[l].seats = row[l].seats
        BY <2>0, <2>2, <3>2, <4>1 DEF SetStatus, RowRec
      <4>3. QED
        BY <4>1, <4>2
    <3>3. QED
      BY <3>1, <3>2
  <2>5. QED
    BY <1>1, <2>1, <2>4
<1>5. CASE Tick
  BY <1>0, <1>1, <1>5, CalmCases, TickFrame
<1>6. QED
  BY <1>0, <1>2, <1>3, <1>4, <1>5, AcquireNonEmpty, NoCleanup DEF Next

-----------------------------------------------------------------------------
(* Every step of a handler is a step of the table, or none.                *)

\* acquireLock takes its seats in the step that finds none of them booked.
LEMMA AcquireMaps ==
  ASSUME IInv, IInv', NonEmpty, NonEmpty', NEW r \in Locks,
         AcquireBegin(r) \/ AcquireStep(r) \/ AcquireFail(r)
  PROVE  [Table!Next]_(Table!tvars)
<1>0. /\ acq[r] \in AcqRec /\ acq \in [Locks -> AcqRec] /\ row \in [Locks -> RowRec]
      /\ acq[r].step = "new" \/ Acquiring(r) => row[r].status = "none"
      /\ \A p \in Reqs : row[r].status = "none" => req[p].lock # r
  BY ConstantsAssumption DEF IInv, Shape, TypeOK, AcqShape, ReqShape, Knows
<1>1. \A q \in Locks \ {r} : acq'[q] = acq[q] /\ row'[q] = row[q]
  <2>1. CASE AcquireBegin(r)
    BY <1>0, <2>1 DEF AcquireBegin, AcquireStart
  <2>2. CASE AcquireStep(r)
    BY <1>0, <2>2 DEF AcquireStep, AcquireSet, AcquireTaken, AcquireRollback, AcquireCheck,
       AcquireInsert, AcquireCollide
  <2>3. CASE AcquireFail(r)
    BY <1>0, <2>3 DEF AcquireFail
  <2>4. QED
    BY <2>1, <2>2, <2>3
<1>2. /\ UNCHANGED req /\ row[r].status = "none"
  BY <1>0 DEF AcquireBegin, AcquireStart, AcquireStep, AcquireSet, AcquireTaken,
     AcquireRollback, AcquireCheck, AcquireInsert, AcquireCollide, AcquireFail, Acquiring
<1>3. \A q \in Locks \ {r} : Claims(q)' = Claims(q)
  BY <1>1, <1>2 DEF Claims, GivingUp
<1>4. CASE AcquireInsert(r)
  <2>1. /\ row'[r].status = "LOCKED" /\ row'[r].seats = acq[r].seats
        /\ acq[r].step = "insert" /\ acq'[r].step = "done"
    BY <1>0, <1>4 DEF AcquireInsert, NoAcq
  <2>2. ~GivingUp(r)'
    BY <1>0, <1>2 DEF GivingUp
  <2>3. Claims(r)' = Claims(r)
    BY <2>1, <2>2 DEF Claims
  <2>4. Sold' = Sold
    BY <1>1, <1>2, <2>1 DEF Sold
  <2>5. QED
    BY <1>3, <2>3, <2>4, Stutters
<1>5. CASE ~AcquireInsert(r)
  <2>1. UNCHANGED row
    BY <1>5 DEF AcquireBegin, AcquireStart, AcquireStep, AcquireSet, AcquireTaken,
       AcquireRollback, AcquireCheck, AcquireCollide, AcquireFail
  <2>2. Sold' = Sold /\ r \notin Sold
    BY <1>2, <2>1 DEF Sold
  <2>3. CASE acq'[r].step = "insert"
    <3>1. /\ acq[r].step = "check" /\ acq'[r].seats = acq[r].seats
      <4>1. AcquireCheck(r)
        <5>1. ~AcquireBegin(r) /\ ~AcquireCollide(r) /\ ~AcquireFail(r)
          BY <1>0, <2>3 DEF AcquireBegin, AcquireStart, AcquireCollide, AcquireFail, Refused, NoAcq
        <5>2. ASSUME NEW s \in Seats, AcquireSet(r, s) PROVE FALSE
          <6>1. acq'[r] = [acq[r] EXCEPT !.todo = acq[r].todo \ {s},
                                   !.step = IF acq[r].todo = {s} THEN "check" ELSE "lock"]
            BY <1>0, <5>2 DEF AcquireSet
          <6>2. QED
            BY <1>0, <2>3, <6>1 DEF AcqRec
        <5>3. ASSUME NEW s \in Seats PROVE ~AcquireTaken(r, s) /\ ~AcquireRollback(r, s)
          <6>1. AcquireTaken(r, s) => acq'[r].step # "insert"
            BY <1>0 DEF AcquireTaken, Refused, NoAcq, AcqRec
          <6>2. AcquireRollback(r, s) => acq'[r].step # "insert"
            BY <1>0 DEF AcquireRollback, Refused, NoAcq, AcqRec
          <6>3. QED
            BY <2>3, <6>1, <6>2
        <5>4. QED
          BY <1>5, <5>1, <5>2, <5>3 DEF AcquireStep
      <4>2. ~Booked(acq[r].seats)
        BY <1>0, <2>3, <4>1 DEF AcquireCheck, Refused, NoAcq
      <4>3. acq'[r] = [acq[r] EXCEPT !.step = "insert", !.lease = TTL]
        BY <1>0, <4>1, <4>2, Zenon DEF AcquireCheck
      <4>4. QED
        BY <1>0, <4>1, <4>3 DEF AcquireCheck, AcqRec
    <3>2. Claims(r) = {} /\ Claims(r)' = acq[r].seats
      BY <1>2, <2>3, <3>1 DEF Claims
    <3>3. acq[r].seats # {} /\ acq[r].seats \in SUBSET Seats
      BY <1>0, <3>1 DEF NonEmpty, Acquiring, AcqRec
    <3>4. Table!Take(r, acq[r].seats)
      BY <1>3, <2>2, <3>2, <3>3, Takes
    <3>5. QED
      BY <3>3, <3>4 DEF Table!Next
  <2>4. CASE acq'[r].step # "insert"
    <3>1. Claims(r)' = {}
      BY <1>2, <2>1, <2>4 DEF Claims
    <3>2. QED
      BY <1>3, <2>2, <3>1, GivesBack DEF Table!Next
  <2>5. QED
    BY <2>3, <2>4
<1>6. QED
  BY <1>4, <1>5

\* Neither the rows nor what is being given up changes.
LEMMA QuietMaps ==
  ASSUME IInv, IInv', UNCHANGED <<row, acq>>, \A q \in Locks : GivingUp(q)' <=> GivingUp(q)
  PROVE  UNCHANGED Table!tvars
<1>1. \A q \in Locks : Claims(q)' = Claims(q)
  BY DEF Claims
<1>2. QED
  BY <1>1, Stutters DEF Sold

\* A release or a cancellation gives a lock back when it reads its row.
LEMMA StartMaps ==
  ASSUME IInv, IInv', NonEmpty, NEW p \in Reqs, RequestStart(p)
  PROVE  [Table!Next]_(Table!tvars)
<1>1. UNCHANGED <<row, acq>>
  BY DEF RequestStart, ConfirmRead, ReleaseRead, CancelRead, ExtendRead
<1>2. PICK r \in Locks, call \in Calls : Start(p, call, r) /\ req'[p].lock = r
  <2>0. req \in [Reqs -> ReqRec]
    BY DEF IInv, Shape, TypeOK
  <2>1. \A call, step, todo : \A r \in Locks : Enter(p, call, r, step, todo) => req'[p].lock = r
    BY <2>0 DEF Enter, NoReq
  <2>2. ASSUME NEW r \in Locks, ConfirmRead(p, r)
        PROVE  "confirm" \in Calls /\ Start(p, "confirm", r) /\ req'[p].lock = r
    BY <2>1, <2>2 DEF ConfirmRead, Start
  <2>3. ASSUME NEW r \in Locks, ReleaseRead(p, r)
        PROVE  "release" \in Calls /\ Start(p, "release", r) /\ req'[p].lock = r
    BY <2>1, <2>3 DEF ReleaseRead, Start
  <2>4. ASSUME NEW r \in Locks, CancelRead(p, r)
        PROVE  "cancel" \in Calls /\ Start(p, "cancel", r) /\ req'[p].lock = r
    BY <2>1, <2>4 DEF CancelRead, Start
  <2>5. ASSUME NEW r \in Locks, NEW ext \in Extensions, ExtendRead(p, r, ext)
        PROVE  "extend" \in Calls /\ Start(p, "extend", r) /\ req'[p].lock = r
    BY <2>0, <2>5 DEF ExtendRead, Start, NoReq
  <2>6. QED
    BY <2>2, <2>3, <2>4, <2>5 DEF RequestStart
<1>3. \A q \in Reqs \ {p} : req'[q] = req[q]
  <2>1. req \in [Reqs -> ReqRec]
    BY DEF IInv, Shape, TypeOK
  <2>2. QED
    BY <2>1 DEF RequestStart, ConfirmRead, ReleaseRead, CancelRead, ExtendRead, Enter
<1>4. req[p] = NoReq
  BY <1>2 DEF Start
<1>5. \A q \in Locks \ {r} : Claims(q)' = Claims(q)
  <2>1. \A q \in Locks \ {r} : GivingUp(q)' <=> GivingUp(q)
    BY <1>2, <1>3, <1>4 DEF GivingUp, NoReq
  <2>2. QED
    BY <1>1, <2>1 DEF Claims
<1>6. Sold' = Sold
  BY <1>1 DEF Sold
<1>7. Claims(r)' = Claims(r) \/ (Claims(r)' = {} /\ r \notin Sold)
  <2>1. acq'[r].step # "insert" /\ acq[r].step # "insert"
    BY <1>1, <1>2 DEF Start, IInv, Shape, AcqShape, Acquiring
  <2>2. GivingUp(r) => GivingUp(r)'
    BY <1>3, <1>4 DEF GivingUp, NoReq
  <2>3. CASE GivingUp(r)' = GivingUp(r)
    BY <1>1, <2>3 DEF Claims
  <2>4. CASE GivingUp(r)' # GivingUp(r)
    <3>1. CASE row[r].status = "CONFIRMED"
      BY <1>1, <2>1, <3>1 DEF Claims
    <3>2. CASE row[r].status # "CONFIRMED"
      <4>1. GivingUp(r)' \in BOOLEAN /\ GivingUp(r) \in BOOLEAN
        BY DEF GivingUp
      <4>2. GivingUp(r)'
        BY <2>2, <2>4, <4>1
      <4>3. QED
        BY <1>1, <2>1, <3>2, <4>2 DEF Claims, Sold
    <3>3. QED
      BY <3>1, <3>2
  <2>5. QED
    BY <2>3, <2>4
<1>8. CASE Claims(r)' = Claims(r)
  BY <1>5, <1>6, <1>8, Stutters
<1>9. CASE Claims(r)' = {} /\ r \notin Sold
  <2>1. Sold' = Sold \ {r}
    BY <1>6, <1>9
  <2>2. QED
    BY <1>5, <1>9, <2>1, GivesBack DEF Table!Next
<1>10. QED
  BY <1>7, <1>8, <1>9

\* The end of a release or of a cancellation unsells its lock.
LEMMA GivenUpMaps ==
  ASSUME IInv, IInv', NonEmpty, NEW p \in Reqs, NEW status \in {"RELEASED", "CANCELLED"},
         req[p].call \in {"release", "cancel"}, SetStatus(req[p].lock, status),
         Finish(p), UNCHANGED <<key, acq>>
  PROVE  [Table!Next]_(Table!tvars)
<1>0. Knows(req[p]) /\ req[p] \in ReqRec /\ req \in [Reqs -> ReqRec] /\ row \in [Locks -> RowRec]
  BY DEF IInv, Shape, TypeOK, ReqShape
<1>1. PICK r \in Locks : r = req[p].lock
  BY <1>0 DEF ReqRec, Knows
<1>2. row'[r].status = status
  BY <1>0, <1>1 DEF SetStatus, RowRec
<1>3. /\ req'[p] = NoReq /\ \A q \in Reqs \ {p} : req'[q] = req[q]
      /\ \A q \in Locks \ {r} : row'[q] = row[q]
  BY <1>0, <1>1 DEF Finish, SetStatus
<1>4. acq'[r].step # "insert"
  BY <1>0, <1>1, ConstantsAssumption DEF IInv, Shape, AcqShape, Acquiring, Knows
<1>5. Claims(r)' = {}
  BY <1>2, <1>4 DEF Claims
<1>6. \A q \in Locks \ {r} : Claims(q)' = Claims(q)
  <2>1. \A q \in Locks \ {r} : GivingUp(q)' <=> GivingUp(q)
    BY <1>1, <1>3, ConstantsAssumption DEF GivingUp, NoReq
  <2>2. QED
    BY <1>3, <2>1 DEF Claims
<1>7. Sold' = Sold \ {r}
  BY <1>2, <1>3 DEF Sold
<1>8. QED
  BY <1>5, <1>6, <1>7, GivesBack DEF Table!Next

\* A confirmation sells what its lock has.
LEMMA ConfirmMaps ==
  ASSUME Calm, IInv, IInv', NonEmpty, NEW p \in Reqs, ConfirmWrite(p)
  PROVE  [Table!Next]_(Table!tvars)
<1>0. Knows(req[p]) /\ req[p] \in ReqRec /\ req \in [Reqs -> ReqRec] /\ Shape
  BY DEF IInv, Shape, TypeOK, ReqShape
<1>1. PICK r \in Locks : r = req[p].lock
  BY <1>0 DEF ReqRec, Knows, ConfirmWrite
<1>2. /\ Claims(r)' = Claims(r) /\ Claims(r) = row[r].seats /\ row[r].status # "none"
      /\ \A q \in Locks \ {r} : row'[q] = row[q]
      /\ row'[r].status = "CONFIRMED"
  BY <1>0, <1>1, ConfirmClaims
<1>3. \A q \in Locks : Claims(q)' = Claims(q)
  <2>1. req'[p].call = req[p].call /\ req'[p].lock = req[p].lock
    BY <1>0 DEF ConfirmWrite, ReqRec
  <2>2. \A q \in Locks : GivingUp(q)' <=> GivingUp(q)
    BY <1>0, <2>1 DEF GivingUp, ConfirmWrite
  <2>3. QED
    BY <1>2, <2>2 DEF Claims, ConfirmWrite
<1>4. Sold' = Sold \cup {r}
  BY <1>2 DEF Sold
<1>5. Table!Sell(r)
  BY <1>2, <1>3, <1>4, Sells DEF NonEmpty
<1>6. QED
  BY <1>5 DEF Table!Next

\* The rest of a handler.
LEMMA StepMaps ==
  ASSUME Calm, IInv, IInv', NonEmpty, NEW p \in Reqs, RequestStep(p) \/ RequestFail(p)
  PROVE  [Table!Next]_(Table!tvars)
<1>0. Knows(req[p]) /\ req[p] \in ReqRec /\ req \in [Reqs -> ReqRec] /\ row \in [Locks -> RowRec]
  BY DEF IInv, Shape, TypeOK, ReqShape
<1>1. ~ConfirmExpire(p)
  BY <1>0 DEF ConfirmExpire, Knows
<1>2. CASE ConfirmWrite(p)
  BY <1>2, ConfirmMaps
<1>3. CASE CancelWrite(p)
  BY <1>3, GivenUpMaps DEF CancelWrite
<1>4. CASE ReleaseWrite(p)
  BY <1>4, GivenUpMaps DEF ReleaseWrite
<1>5. ASSUME \/ req'[p].call = req[p].call /\ req'[p].lock = req[p].lock
             \/ req'[p] = NoReq /\ req[p].call \notin {"release", "cancel"},
             \A q \in Reqs \ {p} : req'[q] = req[q]
      PROVE  \A q \in Locks : GivingUp(q)' <=> GivingUp(q)
  BY <1>5 DEF GivingUp, NoReq
<1>6. ASSUME \/ req'[p].call = req[p].call /\ req'[p].lock = req[p].lock
             \/ req'[p] = NoReq /\ req[p].call \notin {"release", "cancel"},
             \A q \in Reqs \ {p} : req'[q] = req[q], UNCHANGED <<row, acq>>
      PROVE  [Table!Next]_(Table!tvars)
  BY <1>5, <1>6, QuietMaps
<1>7. CASE ExtendWrite(p)
  <2>1. PICK r \in Locks : r = req[p].lock
    BY <1>0, <1>7 DEF ReqRec, Knows, ExtendWrite
  <2>2. /\ \A q \in Locks \ {r} : row'[q] = row[q]
        /\ row'[r].status = row[r].status /\ row'[r].seats = row[r].seats
    BY <1>0, <1>7, <2>1 DEF ExtendWrite, RowRec
  <2>3. \A q \in Locks : GivingUp(q)' <=> GivingUp(q)
    BY <1>0, <1>5, <1>7 DEF ExtendWrite, Finish
  <2>4. \A q \in Locks : Claims(q)' = Claims(q)
    <3>1. UNCHANGED acq /\ \A q \in Locks : row'[q].status = row[q].status /\ row'[q].seats = row[q].seats
      BY <1>7, <2>2 DEF ExtendWrite
    <3>2. QED
      BY <2>3, <3>1 DEF Claims
  <2>5. Sold' = Sold
    BY <2>2 DEF Sold
  <2>6. QED
    BY <2>4, <2>5, Stutters
<1>8. ASSUME NEW s, req' = [req EXCEPT ![p] = Looped(p, s)], UNCHANGED <<row, acq>>
      PROVE  [Table!Next]_(Table!tvars)
  <2>1. req'[p].call = req[p].call /\ req'[p].lock = req[p].lock
    BY <1>0, <1>8 DEF Looped, ReqRec
  <2>2. QED
    BY <1>0, <1>6, <1>8, <2>1
<1>9. CASE ReleaseDel(p) \/ ExtendExpire(p)
  BY <1>8, <1>9 DEF ReleaseDel, ExtendExpire
<1>10. ASSUME NEW s \in Seats, NEW touch, GetNext(p, s, touch), UNCHANGED <<row, acq>>
       PROVE  [Table!Next]_(Table!tvars)
  <2>1. CASE req' = [req EXCEPT ![p] = [req[p] EXCEPT !.step = touch, !.cur = s]]
    <3>1. req'[p].call = req[p].call /\ req'[p].lock = req[p].lock
      BY <1>0, <2>1 DEF ReqRec
    <3>2. QED
      BY <1>0, <1>6, <1>10, <2>1, <3>1
  <2>2. QED
    BY <1>8, <1>10, <2>1 DEF GetNext
<1>11. ASSUME NEW s \in Seats, ReleaseGet(p, s) \/ ExtendGet(p, s)
       PROVE  [Table!Next]_(Table!tvars)
  BY <1>10, <1>11 DEF ReleaseGet, ExtendGet
<1>12. ASSUME NEW s \in Seats, ConfirmDel(p, s) PROVE [Table!Next]_(Table!tvars)
  <2>1. CASE req' = [req EXCEPT ![p] = NoReq]
    BY <1>0, <1>6, <1>12, <2>1 DEF ConfirmDel
  <2>2. CASE req' = [req EXCEPT ![p].todo = @ \ {s}]
    <3>1. req'[p].call = req[p].call /\ req'[p].lock = req[p].lock
      BY <1>0, <2>2 DEF ReqRec
    <3>2. QED
      BY <1>0, <1>6, <1>12, <2>2, <3>1 DEF ConfirmDel
  <2>3. QED
    BY <1>12, <2>1, <2>2 DEF ConfirmDel, DelNext
<1>13. ASSUME NEW s \in Seats, CancelDel(p, s) PROVE [Table!Next]_(Table!tvars)
  <2>1. /\ req'[p].call = req[p].call /\ req'[p].lock = req[p].lock
        /\ \A q \in Reqs \ {p} : req'[q] = req[q]
    BY <1>0, <1>13 DEF CancelDel, DelNext, ReqRec
  <2>2. QED
    BY <1>6, <1>13, <2>1 DEF CancelDel
<1>14. CASE RequestFail(p)
  <2>1. req[p].call \notin {"release", "cancel"}
    BY <1>0, <1>14, CalmCases DEF RequestFail, ReqRec
  <2>2. QED
    BY <1>0, <1>6, <1>14, <2>1 DEF RequestFail, Finish
<1>15. QED
  BY <1>1, <1>2, <1>3, <1>4, <1>7, <1>9, <1>11, <1>12, <1>13, <1>14 DEF RequestStep

\* A tick changes no claim.
LEMMA TickMaps ==
  ASSUME Calm, IInv, IInv', Tick
  PROVE  UNCHANGED Table!tvars
<1>1. /\ \A r \in Locks : row'[r].status = row[r].status /\ row'[r].seats = row[r].seats
      /\ \A r \in Locks : acq'[r].step = acq[r].step /\ acq'[r].seats = acq[r].seats
      /\ \A p \in Reqs : req'[p].call = req[p].call /\ req'[p].lock = req[p].lock
  BY CalmCases, TickFrame DEF IInv
<1>2. \A r \in Locks : GivingUp(r)' <=> GivingUp(r)
  BY <1>1 DEF GivingUp
<1>3. \A r \in Locks : Claims(r)' = Claims(r)
  BY <1>1, <1>2 DEF Claims
<1>4. Sold' = Sold
  BY <1>1 DEF Sold
<1>5. QED
  BY <1>3, <1>4, Stutters

\* No seat has a holder at the start.
LEMMA InitMaps == Init => Table!Init
<1> SUFFICES ASSUME Init PROVE Table!Init
  OBVIOUS
<1>1. \A r \in Locks : Claims(r) = {} /\ row[r].status # "CONFIRMED"
  BY DEF Init, Claims, NoAcq, NoRow
<1>2. Holder = [s \in Seats |-> None]
  BY <1>1 DEF Holder
<1>3. Sold = {}
  BY <1>1 DEF Sold
<1>4. QED
  BY <1>2, <1>3, Zenon DEF Table!Init, Holder, Sold

\* In a Calm environment the awaits cannot be told from the atomic table: the seats
\* of a request are taken together, sold only while they are held, and given back
\* together, whatever the handlers do in between.
THEOREM ImplementsTable ==
  ASSUME Calm
  PROVE  Spec => ActsAsTable
<1> DEFINE Inv == IInv /\ NonEmpty
<1>1. Init => Inv /\ Table!Init
  BY InitShape, InitKeys, InitNonEmpty, InitMaps DEF IInv
<1>2. Inv /\ [Next]_vars => Inv'
  BY NextKeys, NextNonEmpty
<1>3. Inv /\ Inv' /\ [Next]_vars => [Table!Next]_(Table!tvars)
  <2> SUFFICES ASSUME Inv, Inv', [Next]_vars PROVE [Table!Next]_(Table!tvars)
    OBVIOUS
  <2>1. CASE UNCHANGED vars
    <3>1. \A r \in Locks : Claims(r)' = Claims(r)
      BY <2>1 DEF vars, Claims, GivingUp
    <3>2. QED
      BY <2>1, <3>1, Stutters DEF vars, Sold
  <2>2. CASE Next
    BY <2>2, AcquireMaps, StartMaps, StepMaps, NoCleanup, TickMaps DEF Next, IInv
  <2>3. QED
    BY <2>1, <2>2
<1>4. QED
  BY <1>1, <1>2, <1>3, PTL DEF Spec, ActsAsTable, Table!Spec
=============================================================================
