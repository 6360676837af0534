--------------------------- MODULE SeatSafetyProofs ---------------------------
(***************************************************************************)
(* In a Calm environment no seat is booked twice and each lock holds its   *)
(* keys, for any seats, users, locks, requests and replicas.               *)
(***************************************************************************)
EXTENDS SeatReservationProofs

-----------------------------------------------------------------------------
(* The inductive invariant of a Calm environment.                          *)

\* Locks are never given up, and some reservation has booked s: from then on no
\* acquire gets past its check, so whose key s has no longer matters.
Stuck(s) == Calls \cap {"release", "cancel"} = {} /\ Booked({s})

\* The seats an acquire in flight has locked.
Got(r) ==
  IF acq[r].step = "lock" THEN acq[r].seats \ acq[r].todo
  ELSE IF acq[r].step = "rollback" THEN acq[r].todo
  ELSE IF acq[r].step \in {"check", "insert"} THEN acq[r].seats ELSE {}

\* The seats a handler may still delete the keys of.
ToDelete(p) ==
  IF req[p].call \in {"release", "cancel"} \/ req[p].step = "del"
  THEN req[p].todo \cup ({req[p].cur} \ {None}) ELSE {}

KeyShape == \A s \in Seats : key[s].user = None <=> key[s].by = None

AcqShape ==
  \A r \in Locks :
    /\ acq[r].step = "new" \/ Acquiring(r) => row[r].status = "none"
    /\ Acquiring(r) => acq[r].user # None
    /\ acq[r].step = "lock" => acq[r].todo \subseteq acq[r].seats

\* What the locals of a handler say of its row.
Knows(rec) ==
  /\ rec.lock = None <=> rec.call = "none"
  /\ rec.lock = None => rec = NoReq
  /\ rec.lock # None => row[rec.lock].status # "none"
  /\ rec.call = "confirm" =>
       /\ rec.cur = None
       /\ rec.step \in {"write", "del"}
       /\ rec.step = "write" =>
            \/ row[rec.lock].status = "LOCKED"
            \/ row[rec.lock].status = "CONFIRMED" /\ "overlap" \in Perils
       /\ rec.step = "del" => row[rec.lock].status = "CONFIRMED"
       /\ rec.todo \subseteq row[rec.lock].seats
  /\ rec.call = "extend" =>
       /\ row[rec.lock].status \in {"LOCKED", "CONFIRMED"}
       /\ rec.step \in {"get", "set", "write"}
  /\ rec.call = "release" =>
       /\ row[rec.lock].status = "LOCKED"
       /\ rec.step = "del" => rec.cur \in Seats
  /\ rec.call = "cancel" => rec.cur = None

ReqShape == \A p \in Reqs : Knows(req[p])

\* Without the peril "overlap" each lock has one request in flight at most.
OneByOne ==
  "overlap" \notin Perils =>
    \A p, q \in Reqs : p # q /\ req[p].lock # None => req[p].lock # req[q].lock

\* No lock runs out, so no cleanup job ever starts.
NoneExpired ==
  /\ \A r \in Locks : row[r].status = "LOCKED" => row[r].lease >= 0
  /\ \A r \in Locks : acq[r].step = "insert" => acq[r].lease >= 0
  /\ \A p \in Reqs : req[p].call = "extend" => req[p].lease >= 0
  /\ \A j \in Jobs : job[j] = NoJob

GotKeys == \A r \in Locks : \A s \in Got(r) : key[s].by = r \/ Stuck(s)

ToDeleteKeys ==
  \A p \in Reqs : \A s \in ToDelete(p) : key[s].by = req[p].lock \/ Stuck(s)

ClaimKeys ==
  \A r \in Locks : row[r].status # "CONFIRMED" => \A s \in Claims(r) : key[s].by = r

ClaimsDisjoint ==
  \A r, q \in Locks : r # q => Claims(r) \cap Claims(q) = {}

Shape == TypeOK /\ KeyShape /\ AcqShape /\ ReqShape /\ OneByOne /\ NoneExpired

Keys == GotKeys /\ ToDeleteKeys /\ ClaimKeys /\ ClaimsDisjoint

IInv == Shape /\ Keys

-----------------------------------------------------------------------------
(* Shape is inductive.                                                     *)

\* The two halves of Calm, as the proofs use them.
LEMMA CalmCases ==
  ASSUME Calm
  PROVE  /\ "expiry" \notin Perils
         /\ "overlap" \in Perils \/ "failure" \in Perils => Calls \cap {"release", "cancel"} = {}
  BY DEF Calm

\* Shape at the start.
LEMMA InitShape == Init => Shape
  BY InitType, ConstantsAssumption DEF Init, Shape, KeyShape, AcqShape, ReqShape, Knows, OneByOne,
     NoneExpired, NoKey, NoRow, NoAcq, NoReq, NoJob, Acquiring

\* Steps of an acquire that touch no row.
LEMMA AcqShapeStep ==
  ASSUME Shape, TypeOK', NEW r \in Locks, UNCHANGED <<row, req, job>>,
         \A q \in Locks \ {r} : acq'[q] = acq[q],
         Acquiring(r)' \/ acq'[r].step = "new" => row[r].status = "none",
         Acquiring(r)' => acq'[r].user # None,
         acq'[r].step = "lock" => acq'[r].todo \subseteq acq'[r].seats,
         acq'[r].step = "insert" => acq'[r].lease >= 0,
         KeyShape'
  PROVE  Shape'
<1>1. AcqShape'
  BY DEF Shape, AcqShape, Acquiring
<1>2. ReqShape' /\ OneByOne' /\ NoneExpired'
  BY DEF Shape, ReqShape, Knows, OneByOne, NoneExpired
<1>3. QED
  BY <1>1, <1>2 DEF Shape

\* A DEL removes user and setter together.
LEMMA DelKeyShape ==
  ASSUME TypeOK, KeyShape, NEW s, DelKey(s)
  PROVE  KeyShape'
  BY DEF TypeOK, KeyShape, DelKey, NoKey

\* A step of acquireLock keeps Shape.
LEMMA AcquireShape ==
  ASSUME Shape, NEW r \in Locks, AcquireBegin(r) \/ AcquireStep(r) \/ AcquireFail(r)
  PROVE  Shape'
<1> USE DEF Shape
<1>0. TypeOK' /\ acq[r] \in AcqRec
  BY AcquireType DEF TypeOK
<1>00. Acquiring(r) => row[r].status = "none" /\ acq[r].user # None
  BY DEF AcqShape
<1>1. ASSUME NEW u \in Users, NEW S \in SUBSET Seats, AcquireStart(r, u, S) PROVE Shape'
  <2>1. /\ acq'[r] = [step |-> "lock", user |-> u, seats |-> S, todo |-> S, lease |-> 0]
        /\ \A q \in Locks \ {r} : acq'[q] = acq[q]
    BY <1>1 DEF AcquireStart, TypeOK
  <2>2. row[r].status = "none" /\ u # None /\ KeyShape'
    BY <1>1, ConstantsAssumption DEF AcquireStart, AcqShape, KeyShape
  <2>3. QED
    BY <1>0, <1>1, <2>1, <2>2, AcqShapeStep DEF AcquireStart, Acquiring
<1>2. ASSUME NEW s \in Seats, AcquireSet(r, s) PROVE Shape'
  <2>1. /\ acq' = [acq EXCEPT ![r] = [acq[r] EXCEPT !.todo = acq[r].todo \ {s},
                                       !.step = IF acq[r].todo = {s} THEN "check" ELSE "lock"]]
    BY <1>2 DEF AcquireSet, TypeOK, AcqRec
  <2>2. /\ acq'[r].todo = acq[r].todo \ {s} /\ acq'[r].seats = acq[r].seats
        /\ acq'[r].user = acq[r].user /\ acq'[r].step \in {"check", "lock"}
        /\ \A q \in Locks \ {r} : acq'[q] = acq[q]
    BY <1>0, <2>1 DEF TypeOK, AcqRec
  <2>3. Acquiring(r) /\ acq[r].todo \subseteq acq[r].seats
    BY <1>2 DEF AcquireSet, Acquiring, AcqShape
  <2>4. KeyShape'
    <3>1. key' = [key EXCEPT ![s] = [user |-> acq[r].user, by |-> r, ttl |-> TTL]]
      BY <1>2 DEF AcquireSet
    <3>2. acq[r].user # None /\ r # None
      BY <1>00, <2>3, ConstantsAssumption
    <3>3. QED
      BY <3>1, <3>2 DEF KeyShape, TypeOK
  <2>5. QED
    BY <1>0, <1>00, <1>2, <2>2, <2>3, <2>4, AcqShapeStep DEF AcquireSet
<1>3. ASSUME NEW s \in Seats, AcquireTaken(r, s) PROVE Shape'
  <2>1. \A q \in Locks \ {r} : acq'[q] = acq[q]
    BY <1>3 DEF AcquireTaken, TypeOK
  <2>2. acq'[r].step \in {"refused", "rollback"} /\ (acq'[r].step = "rollback" => acq'[r].user = acq[r].user)
    BY <1>0, <1>3 DEF AcquireTaken, TypeOK, Refused, NoAcq, AcqRec
  <2>3. KeyShape' /\ Acquiring(r)
    BY <1>3 DEF AcquireTaken, KeyShape, Acquiring
  <2>4. QED
    BY <1>0, <1>00, <1>3, <2>1, <2>2, <2>3, AcqShapeStep DEF AcquireTaken, Acquiring
<1>4. ASSUME NEW s \in Seats, AcquireRollback(r, s) PROVE Shape'
  <2>1. \A q \in Locks \ {r} : acq'[q] = acq[q]
    BY <1>4 DEF AcquireRollback, TypeOK
  <2>2. acq'[r].step \in {"refused", "rollback"} /\ (acq'[r].step = "rollback" => acq'[r].user = acq[r].user)
    BY <1>0, <1>4 DEF AcquireRollback, TypeOK, Refused, NoAcq, AcqRec
  <2>3. KeyShape' /\ Acquiring(r)
    BY <1>4, DelKeyShape DEF AcquireRollback, Acquiring
  <2>4. QED
    BY <1>0, <1>00, <1>4, <2>1, <2>2, <2>3, AcqShapeStep DEF AcquireRollback, Acquiring
<1>5. CASE AcquireCheck(r)
  <2>1. \A q \in Locks \ {r} : acq'[q] = acq[q]
    BY <1>5 DEF AcquireCheck, TypeOK
  <2>2. /\ acq'[r].step \in {"refused", "insert"}
        /\ acq'[r].step = "insert" => acq'[r].user = acq[r].user /\ acq'[r].lease = TTL
    <3>1. CASE Booked(acq[r].seats)
      BY <1>0, <1>5, <3>1 DEF AcquireCheck, TypeOK, Refused, NoAcq
    <3>2. CASE ~Booked(acq[r].seats)
      BY <1>0, <1>5, <3>2 DEF AcquireCheck, TypeOK, AcqRec
    <3>3. QED
      BY <3>1, <3>2
  <2>3. KeyShape' /\ Acquiring(r) /\ TTL >= 0
    BY <1>5, ConstantsAssumption DEF AcquireCheck, KeyShape, Acquiring
  <2>4. QED
    BY <1>0, <1>00, <1>5, <2>1, <2>2, <2>3, AcqShapeStep DEF AcquireCheck, Acquiring
<1>6. CASE AcquireInsert(r)
  <2>1. /\ row'[r] = [status |-> "LOCKED", user |-> acq[r].user,
                      seats |-> acq[r].seats, lease |-> acq[r].lease]
        /\ acq'[r].step = "done"
        /\ \A q \in Locks \ {r} : acq'[q] = acq[q] /\ row'[q] = row[q]
        /\ UNCHANGED <<key, req, job>> /\ row[r].status = "none" /\ acq[r].step = "insert"
    BY <1>00, <1>6 DEF AcquireInsert, TypeOK, NoAcq, Acquiring
  <2>2. \A p \in Reqs : req[p].lock # r
    BY <2>1, ConstantsAssumption DEF ReqShape, Knows
  <2>3. AcqShape' /\ KeyShape'
    BY <2>1 DEF AcqShape, Acquiring, KeyShape
  <2>4. \A p \in Reqs : req[p].lock # None => row'[req[p].lock] = row[req[p].lock]
    BY <2>1, <2>2 DEF TypeOK, ReqRec
  <2>5. ReqShape' /\ OneByOne'
    <3>1. OneByOne'
      BY <2>1 DEF OneByOne
    <3>2. ReqShape'
      BY <2>1, <2>4 DEF ReqShape, Knows
    <3>3. QED
      BY <3>1, <3>2
  <2>6. NoneExpired'
    BY <2>1 DEF NoneExpired
  <2>7. QED
    BY <1>0, <2>3, <2>5, <2>6
<1>7. CASE AcquireCollide(r)
  <2>1. /\ acq'[r].step = "refused" /\ \A q \in Locks \ {r} : acq'[q] = acq[q]
        /\ KeyShape' /\ UNCHANGED <<row, req, job>>
    BY <1>7 DEF AcquireCollide, TypeOK, Refused, NoAcq, KeyShape
  <2>2. QED
    BY <1>0, <2>1, AcqShapeStep DEF Acquiring
<1>8. CASE AcquireFail(r)
  <2>1. /\ acq'[r].step = "died" /\ \A q \in Locks \ {r} : acq'[q] = acq[q]
        /\ KeyShape' /\ UNCHANGED <<row, req, job>>
    BY <1>8 DEF AcquireFail, TypeOK, NoAcq, KeyShape
  <2>2. QED
    BY <1>0, <2>1, AcqShapeStep DEF Acquiring
<1>9. QED
  BY <1>1, <1>2, <1>3, <1>4, <1>5, <1>6, <1>7, <1>8 DEF AcquireBegin, AcquireStep

\* A step of request p that touches no row.
LEMMA ReqFrame ==
  ASSUME Shape, TypeOK', KeyShape', NEW p \in Reqs, UNCHANGED <<row, acq, job>>,
         \A q \in Reqs \ {p} : req'[q] = req[q],
         Knows(req'[p]),
         req'[p].call = "extend" => req'[p].lease >= 0,
         \/ req'[p].lock \in {None, req[p].lock}
         \/ "overlap" \notin Perils => ~Requested(req'[p].lock)
  PROVE  Shape'
<1>1. AcqShape' /\ NoneExpired'
  BY DEF Shape, AcqShape, Acquiring, NoneExpired
<1>2. ReqShape'
  BY DEF Shape, ReqShape, Knows
<1>3. OneByOne'
  BY DEF Shape, OneByOne, Requested
<1>4. QED
  BY <1>1, <1>2, <1>3 DEF Shape

\* A step of request p that writes its row.
LEMMA RowFrame ==
  ASSUME Shape, TypeOK', NEW p \in Reqs, NEW r \in Locks, UNCHANGED <<key, acq, job>>,
         req[p].lock = r,
         \A q \in Reqs \ {p} : req'[q] = req[q],
         req'[p].lock \in {None, r}, req'[p].call # "extend", Knows(req[p])',
         \A q \in Locks \ {r} : row'[q] = row[q],
         row'[r].seats = row[r].seats,
         row'[r].status # "none", row'[r].status = "LOCKED" => row'[r].lease >= 0,
         \A q \in Reqs \ {p} : req[q].lock = r => Knows(req[q])'
  PROVE  Shape'
<1>1. row[r].status # "none"
  BY ConstantsAssumption DEF Shape, ReqShape, Knows
<1>2. AcqShape' /\ KeyShape'
  BY <1>1 DEF Shape, AcqShape, Acquiring, KeyShape
<1>3. NoneExpired'
  BY DEF Shape, NoneExpired
<1>4. ReqShape'
  <2>1. ASSUME NEW q \in Reqs \ {p}, req[q].lock # r PROVE Knows(req[q])'
    <3>1. req[q].lock \in Locks \cup {None} /\ Knows(req[q])
      BY DEF Shape, TypeOK, ReqRec, ReqShape
    <3>2. CASE req[q].lock = None
      BY <3>1, <3>2 DEF Knows
    <3>3. CASE row'[req[q].lock] = row[req[q].lock]
      BY <3>1, <3>3 DEF Knows
    <3>4. QED
      BY <2>1, <3>1, <3>2, <3>3
  <2>2. QED
    BY <2>1 DEF ReqShape
<1>5. OneByOne'
  BY DEF Shape, OneByOne
<1>6. QED
  BY <1>2, <1>3, <1>4, <1>5 DEF Shape

\* A handler that ends keeps Shape.
LEMMA FinishShape ==
  ASSUME Shape, TypeOK', NEW p \in Reqs, Finish(p), UNCHANGED <<row, acq, job>>, KeyShape'
  PROVE  Shape'
<1>1. req'[p] = NoReq /\ \A q \in Reqs \ {p} : req'[q] = req[q]
  BY DEF Finish, Shape, TypeOK
<1>2. Knows(NoReq)
  BY DEF Knows, NoReq
<1>3. QED
  BY <1>1, <1>2, ReqFrame DEF NoReq

\* A handler that reads its row keeps Shape.
LEMMA StartShape ==
  ASSUME Shape, NEW p \in Reqs, RequestStart(p)
  PROVE  Shape'
<1> USE DEF Shape
<1>0. /\ TypeOK' /\ NoReq \in ReqRec
      /\ \A r \in Locks : r # None /\ row[r] \in RowRec
      /\ "none" \notin Calls
  BY RequestType, ConstantsAssumption DEF NoReq, ReqRec, TypeOK, AllCalls
<1>1. ASSUME NEW r \in Locks, ConfirmRead(p, r) PROVE Shape'
  <2>1. row[r].status = "LOCKED" /\ row[r].lease >= 0
    BY <1>1 DEF ConfirmRead, NoneExpired
  <2>2. /\ req'[p] = [NoReq EXCEPT !.call = "confirm", !.lock = r, !.step = "write",
                                   !.todo = row[r].seats]
        /\ \A q \in Reqs \ {p} : req'[q] = req[q]
    <3>1. ~(row[r].lease < 0)
      BY <1>0, <2>1 DEF RowRec
    <3>2. QED
      BY <1>1, <3>1 DEF ConfirmRead, Enter, TypeOK
  <2>3. Knows(req'[p]) /\ req'[p].lock = r /\ req'[p].call = "confirm"
    BY <1>0, <2>1, <2>2 DEF Knows, NoReq
  <2>4. QED
    BY <1>0, <1>1, <2>2, <2>3, ReqFrame DEF ConfirmRead, Start, KeyShape
<1>2. ASSUME NEW r \in Locks, ReleaseRead(p, r) PROVE Shape'
  <2>1. /\ req'[p] = [NoReq EXCEPT !.call = "release", !.lock = r, !.step = "get",
                                   !.todo = row[r].seats]
        /\ \A q \in Reqs \ {p} : req'[q] = req[q]
        /\ row[r].status = "LOCKED"
    BY <1>2 DEF ReleaseRead, Enter, TypeOK
  <2>2. Knows(req'[p]) /\ req'[p].lock = r /\ req'[p].call = "release"
    BY <1>0, <2>1 DEF Knows, NoReq
  <2>3. QED
    BY <1>0, <1>2, <2>1, <2>2, ReqFrame DEF ReleaseRead, Start, KeyShape
<1>3. ASSUME NEW r \in Locks, CancelRead(p, r) PROVE Shape'
  <2>1. /\ \/ req'[p] = [NoReq EXCEPT !.call = "cancel", !.lock = r, !.step = "del",
                                      !.todo = row[r].seats]
           \/ req'[p] = [NoReq EXCEPT !.call = "cancel", !.lock = r, !.step = "write",
                                      !.todo = {}]
        /\ \A q \in Reqs \ {p} : req'[q] = req[q]
        /\ row[r].status # "none"
    BY <1>3 DEF CancelRead, Start, Enter, TypeOK
  <2>2. Knows(req'[p]) /\ req'[p].lock = r /\ req'[p].call = "cancel"
    BY <1>0, <2>1 DEF Knows, NoReq
  <2>3. QED
    BY <1>0, <1>3, <2>1, <2>2, ReqFrame DEF CancelRead, Start, KeyShape
<1>4. ASSUME NEW r \in Locks, NEW ext \in Extensions, ExtendRead(p, r, ext) PROVE Shape'
  <2>1. /\ req'[p] = [NoReq EXCEPT !.call = "extend", !.lock = r, !.step = "get",
                         !.todo = row[r].seats, !.lease = row[r].lease, !.ext = ext]
        /\ \A q \in Reqs \ {p} : req'[q] = req[q]
        /\ row[r].status = "LOCKED" /\ row[r].lease >= 0
    BY <1>4 DEF ExtendRead, TypeOK
  <2>2. Knows(req'[p]) /\ req'[p].lock = r /\ req'[p].call = "extend" /\ req'[p].lease >= 0
    BY <1>0, <2>1 DEF Knows, NoReq
  <2>3. QED
    BY <1>0, <1>4, <2>1, <2>2, ReqFrame DEF ExtendRead, Start, KeyShape
<1>5. QED
  BY <1>1, <1>2, <1>3, <1>4 DEF RequestStart

\* A handler that has only looked at a key, or dealt with it.
LEMMA LoopShape ==
  ASSUME Shape, TypeOK', KeyShape', NEW p \in Reqs, UNCHANGED <<row, acq, job>>,
         req[p].call \in {"release", "extend"}, NEW s,
         \/ req' = [req EXCEPT ![p] = Looped(p, s)]
         \/ /\ req[p].call = "extend"
            /\ req' = [req EXCEPT ![p] = [req[p] EXCEPT !.step = "set", !.cur = s]]
         \/ /\ req[p].call = "release" /\ s \in Seats
            /\ req' = [req EXCEPT ![p] = [req[p] EXCEPT !.step = "del", !.cur = s]]
  PROVE  Shape'
<1>1. req[p] \in ReqRec /\ \A q \in Reqs \ {p} : req'[q] = req[q]
  BY DEF Shape, TypeOK
<1>2. /\ req'[p].call = req[p].call /\ req'[p].lock = req[p].lock
      /\ req'[p].lease = req[p].lease
      /\ req[p].call = "extend" => req'[p].step \in {"get", "set", "write"}
      /\ req[p].call = "release" /\ req'[p].step = "del" => req'[p].cur \in Seats
  <2>1. req \in [Reqs -> ReqRec]
    BY DEF Shape, TypeOK
  <2>2. CASE req'[p] = Looped(p, s)
    BY <1>1, <2>2 DEF Looped, ReqRec
  <2>3. CASE req[p].call = "extend" /\ req'[p] = [req[p] EXCEPT !.step = "set", !.cur = s]
    BY <1>1, <2>3 DEF ReqRec
  <2>4. CASE req[p].call = "release" /\ s \in Seats /\ req'[p] = [req[p] EXCEPT !.step = "del", !.cur = s]
    BY <1>1, <2>4 DEF ReqRec
  <2>5. QED
    BY <2>1, <2>2, <2>3, <2>4
<1>3. Knows(req[p]) /\ req[p].lock # None
  BY DEF Shape, ReqShape, Knows
<1>4. Knows(req'[p])
  BY <1>2, <1>3 DEF Knows
<1>5. req'[p].call = "extend" => req'[p].lease >= 0
  BY <1>2 DEF Shape, NoneExpired
<1>6. QED
  BY <1>1, <1>2, <1>4, <1>5, ReqFrame

\* Without "overlap" nobody else has the lock of p; and with it nothing is given up.
LEMMA Alone ==
  ASSUME Calm, Shape, NEW p \in Reqs, NEW q \in Reqs \ {p}, req[p].lock # None,
         req[q].lock = req[p].lock
  PROVE  "overlap" \in Perils /\ req[p].call \notin {"release", "cancel"}
                             /\ req[q].call \notin {"release", "cancel"}
<1>1. "overlap" \in Perils
  BY DEF Shape, OneByOne
<1>2. Calls \cap {"release", "cancel"} = {}
  BY <1>1, CalmCases
<1>3. req[p].call \in Calls \cup {"none"} /\ req[q].call \in Calls \cup {"none"}
  BY DEF Shape, TypeOK, ReqRec
<1>4. QED
  BY <1>1, <1>2, <1>3

\* The handler's last write, or the confirmation.
LEMMA StatusShape ==
  ASSUME Calm, Shape, TypeOK', NEW p \in Reqs, NEW status \in Statuses \ {"LOCKED"},
         req[p].lock # None, UNCHANGED <<key, acq, job>>,
         SetStatus(req[p].lock, status),
         \A q \in Reqs \ {p} : req'[q] = req[q],
         \/ req'[p] = NoReq /\ req[p].call \in {"release", "cancel"}
         \/ /\ req[p].call = "confirm" /\ status = "CONFIRMED"
            /\ req'[p] = [req[p] EXCEPT !.step = "del"]
  PROVE  Shape'
<1> DEFINE r == req[p].lock
<1>1. r \in Locks /\ req[p] \in ReqRec /\ Knows(req[p])
  BY DEF Shape, TypeOK, ReqRec, ReqShape
<1>2. /\ \A q \in Locks \ {r} : row'[q] = row[q]
      /\ row'[r].seats = row[r].seats /\ row'[r].status = status
  <2>1. row \in [Locks -> RowRec]
    BY DEF Shape, TypeOK
  <2>2. QED
    BY <1>1, <2>1 DEF SetStatus, RowRec
<1>3. /\ req'[p].lock \in {None, r} /\ req'[p].call # "extend" /\ Knows(req[p])'
  <2>1. CASE req'[p] = NoReq
    BY <2>1 DEF NoReq, Knows
  <2>2. CASE req'[p] = [req[p] EXCEPT !.step = "del"] /\ req[p].call = "confirm"
    <3>1. /\ req'[p].lock = r /\ req'[p].call = "confirm" /\ req'[p].step = "del"
          /\ req'[p].todo = req[p].todo /\ req'[p].cur = req[p].cur
      BY <1>1, <2>2 DEF ReqRec
    <3>2. status = "CONFIRMED"
      BY <2>2
    <3>3. QED
      BY <1>1, <1>2, <3>1, <3>2, <2>2 DEF Knows
  <2>3. QED
    BY <2>1, <2>2
<1>4. ASSUME NEW q \in Reqs \ {p}, req[q].lock = r PROVE Knows(req[q])'
  <2>1. "overlap" \in Perils /\ req[p].call = "confirm" /\ status = "CONFIRMED"
        /\ req[q].call \notin {"release", "cancel"}
    BY <1>4, Alone
  <2>2. Knows(req[q]) /\ req'[q] = req[q]
    BY DEF Shape, ReqShape
  <2>3. QED
    BY <1>2, <1>4, <2>1, <2>2 DEF Knows
<1>5. r # None /\ status # "none"
  BY DEF Statuses
<1>6. QED
  BY <1>1, <1>2, <1>3, <1>4, <1>5, RowFrame

\* A handler that goes on after an await keeps Shape.
LEMMA StepShape ==
  ASSUME Calm, Shape, NEW p \in Reqs, RequestStep(p) \/ RequestFail(p)
  PROVE  Shape'
<1> USE DEF Shape
<1>0. /\ TypeOK' /\ req[p] \in ReqRec /\ Knows(req[p])
      /\ req[p].call # "none" => req[p].lock # None
  BY RequestType DEF TypeOK, ReqShape, Knows
<1>1. ~ConfirmExpire(p)
  BY <1>0 DEF ConfirmExpire, Knows
<1>2. CASE ConfirmWrite(p)
  <2>1. /\ req'[p] = [req[p] EXCEPT !.step = "del"]
        /\ \A q \in Reqs \ {p} : req'[q] = req[q]
    BY <1>2 DEF ConfirmWrite, TypeOK
  <2>2. "CONFIRMED" \in Statuses \ {"LOCKED"}
    BY DEF Statuses
  <2>3. QED
    BY <1>0, <1>2, <2>1, <2>2, StatusShape DEF ConfirmWrite
<1>3. CASE CancelWrite(p)
  <2>1. req'[p] = NoReq /\ \A q \in Reqs \ {p} : req'[q] = req[q]
    BY <1>3 DEF CancelWrite, Finish, TypeOK
  <2>2. "CANCELLED" \in Statuses \ {"LOCKED"}
    BY DEF Statuses
  <2>3. QED
    BY <1>0, <1>3, <2>1, <2>2, StatusShape DEF CancelWrite
<1>4. CASE ReleaseDel(p)
  <2>1. KeyShape' /\ req[p].cur \in Seats
    BY <1>0, <1>4, DelKeyShape DEF ReleaseDel, Knows
  <2>2. QED
    BY <1>0, <1>4, <2>1, LoopShape DEF ReleaseDel
<1>5. CASE ReleaseWrite(p)
  <2>1. req'[p] = NoReq /\ \A q \in Reqs \ {p} : req'[q] = req[q]
    BY <1>5 DEF ReleaseWrite, Finish, TypeOK
  <2>2. "RELEASED" \in Statuses \ {"LOCKED"}
    BY DEF Statuses
  <2>3. QED
    BY <1>0, <1>5, <2>1, <2>2, StatusShape DEF ReleaseWrite
<1>6. CASE ExtendExpire(p)
  <2>1. /\ \A s \in Seats : key'[s].user = key[s].user /\ key'[s].by = key[s].by
    BY <1>6 DEF ExtendExpire, TypeOK, KeyRec
  <2>2. KeyShape'
    BY <2>1 DEF KeyShape
  <2>3. QED
    BY <1>0, <1>6, <2>2, LoopShape DEF ExtendExpire
<1>7. CASE ExtendWrite(p)
  <2>1. req'[p] = NoReq /\ \A q \in Reqs \ {p} : req'[q] = req[q]
    BY <1>7 DEF ExtendWrite, Finish, TypeOK
  <2>2. req[p].lease >= 0 /\ req[p].ext \in Nat /\ req[p].lock \in Locks
    BY <1>0, <1>7 DEF ExtendWrite, NoneExpired, ReqRec
  <2>3. req[p].lease + req[p].ext >= 0
    BY <1>0, <2>2 DEF ReqRec
  <2>4. /\ \A q \in Locks \ {req[p].lock} : row'[q] = row[q]
        /\ row'[req[p].lock].seats = row[req[p].lock].seats
        /\ row'[req[p].lock].status = row[req[p].lock].status
        /\ row'[req[p].lock].lease = req[p].lease + req[p].ext
    <3>1. row \in [Locks -> RowRec]
      BY DEF TypeOK
    <3>2. QED
      BY <1>7, <2>2, <3>1 DEF ExtendWrite, RowRec
  <2>5. \A q \in Reqs \ {p} : req[q].lock = req[p].lock => Knows(req[q])'
    BY <2>1, <2>4 DEF ReqShape, Knows
  <2>6. Knows(req[p])' /\ req'[p].lock = None /\ req'[p].call # "extend"
    BY <2>1 DEF NoReq, Knows
  <2>7. row[req[p].lock].status # "none"
    BY <1>0, <1>7 DEF ExtendWrite, Knows
  <2>8. QED
    BY <1>0, <1>7, <2>1, <2>2, <2>3, <2>4, <2>5, <2>6, <2>7, RowFrame DEF ExtendWrite
<1>8. ASSUME NEW s \in Seats, ConfirmDel(p, s) PROVE Shape'
  <2>1. KeyShape' /\ \A q \in Reqs \ {p} : req'[q] = req[q]
    BY <1>8, DelKeyShape DEF ConfirmDel, DelNext, TypeOK
  <2>2. CASE req' = [req EXCEPT ![p] = NoReq]
    BY <1>0, <1>8, <2>1, <2>2, FinishShape DEF ConfirmDel, Finish
  <2>3. CASE req' = [req EXCEPT ![p].todo = @ \ {s}]
    <3>1. /\ req'[p].call = "confirm" /\ req'[p].lock = req[p].lock /\ req'[p].cur = req[p].cur
          /\ req'[p].step = "del" /\ req'[p].todo = req[p].todo \ {s} /\ req[p].step = "del"
      <4>1. req'[p] = [req[p] EXCEPT !.todo = req[p].todo \ {s}]
        BY <2>3 DEF TypeOK
      <4>2. req[p].call = "confirm" /\ req[p].step = "del"
        BY <1>8 DEF ConfirmDel, DelNext
      <4>3. QED
        BY <1>0, <4>1, <4>2 DEF ReqRec
    <3>2. Knows(req'[p])
      BY <1>0, <1>8, <3>1 DEF Knows, ConfirmDel
    <3>3. QED
      BY <1>0, <1>8, <2>1, <3>1, <3>2, ReqFrame DEF ConfirmDel
  <2>4. QED
    BY <1>8, <2>2, <2>3 DEF ConfirmDel, DelNext
<1>9. ASSUME NEW s \in Seats, CancelDel(p, s) PROVE Shape'
  <2>1. KeyShape' /\ \A q \in Reqs \ {p} : req'[q] = req[q]
    BY <1>9, DelKeyShape DEF CancelDel, DelNext, TypeOK
  <2>2. /\ req'[p].call = "cancel" /\ req'[p].lock = req[p].lock /\ req'[p].cur = req[p].cur
    BY <1>0, <1>9 DEF CancelDel, DelNext, TypeOK, ReqRec
  <2>3. Knows(req'[p])
    BY <1>0, <1>9, <2>2 DEF Knows, CancelDel
  <2>4. QED
    BY <1>0, <1>9, <2>1, <2>2, <2>3, ReqFrame DEF CancelDel
<1>10. ASSUME NEW s \in Seats, ReleaseGet(p, s) PROVE Shape'
  BY <1>0, <1>10, LoopShape DEF ReleaseGet, GetNext, KeyShape
<1>11. ASSUME NEW s \in Seats, ExtendGet(p, s) PROVE Shape'
  BY <1>0, <1>11, LoopShape DEF ExtendGet, GetNext, KeyShape
<1>12. CASE RequestFail(p)
  BY <1>0, <1>12, FinishShape DEF RequestFail, KeyShape
<1>13. QED
  BY <1>1, <1>2, <1>3, <1>4, <1>5, <1>6, <1>7, <1>8, <1>9, <1>10, <1>11, <1>12
     DEF RequestStep

\* The cron job never finds a reservation to clean up.
LEMMA NoCleanup ==
  ASSUME Shape, NEW j \in Jobs
  PROVE  ~CleanupStep(j) /\ ~CleanupFail(j)
<1>1. job[j] = NoJob /\ job[j].batch = {} /\ job[j].lock = None
  BY DEF Shape, NoneExpired, NoJob
<1>2. Expired = {}
  <2>1. \A r \in Locks : row[r].lease \in Int
    BY DEF Shape, TypeOK, RowRec
  <2>2. QED
    BY <2>1 DEF Shape, NoneExpired, Expired
<1>3. QED
  BY <1>1, <1>2 DEF CleanupStep, CleanupScan, CleanupNext, CleanupDel, CleanupWrite, CleanupFail

\* What a tick leaves alone.
LEMMA TickFrame ==
  ASSUME Shape, "expiry" \notin Perils, Tick
  PROVE  /\ \A r \in Locks : /\ row'[r].status = row[r].status /\ row'[r].seats = row[r].seats
                             /\ row[r].status = "LOCKED" => row'[r].lease >= 0
         /\ \A r \in Locks : /\ acq'[r].step = acq[r].step /\ acq'[r].user = acq[r].user
                             /\ acq'[r].seats = acq[r].seats /\ acq'[r].todo = acq[r].todo
                             /\ acq[r].step = "insert" => acq'[r].lease >= 0
         /\ \A p \in Reqs : /\ req'[p].call = req[p].call /\ req'[p].step = req[p].step
                            /\ req'[p].lock = req[p].lock /\ req'[p].todo = req[p].todo
                            /\ req'[p].cur = req[p].cur
                            /\ req[p].call # "extend" => req'[p] = req[p]
                            /\ req[p].call = "extend" => req'[p].lease >= 0
         /\ \A s \in Seats : \/ key'[s] = NoKey /\ ~InUse(key[s].by)
                             \/ key'[s].by = key[s].by /\ key'[s].user = key[s].user
         /\ job' = job
<1> USE DEF Shape
<1>0. NothingRunsOut
  BY DEF Tick
<1>1. \A x \in Int : x > 0 => Older(x) >= 0
  BY ConstantsAssumption DEF Older
<1>2. ASSUME NEW r \in Locks
      PROVE  /\ row'[r].status = row[r].status /\ row'[r].seats = row[r].seats
             /\ row[r].status = "LOCKED" => row'[r].lease >= 0
  <2>1. row[r] \in RowRec
    BY DEF TypeOK
  <2>2. CASE row[r].status = "LOCKED"
    <3>1. row'[r] = [row[r] EXCEPT !.lease = Older(row[r].lease)]
      BY <2>2 DEF Tick
    <3>2. Older(row[r].lease) >= 0
      BY <1>0, <1>1, <2>1, <2>2 DEF NothingRunsOut, RowRec
    <3>3. QED
      BY <2>1, <3>1, <3>2 DEF RowRec
  <2>3. CASE row[r].status # "LOCKED"
    BY <2>3 DEF Tick
  <2>4. QED
    BY <2>2, <2>3
<1>3. ASSUME NEW r \in Locks
      PROVE  /\ acq'[r].step = acq[r].step /\ acq'[r].user = acq[r].user
             /\ acq'[r].seats = acq[r].seats /\ acq'[r].todo = acq[r].todo
             /\ acq[r].step = "insert" => acq'[r].lease >= 0
  <2>1. acq[r] \in AcqRec
    BY DEF TypeOK
  <2>2. CASE acq[r].step = "insert"
    <3>1. acq'[r] = [acq[r] EXCEPT !.lease = Older(acq[r].lease)]
      BY <2>2 DEF Tick
    <3>2. Older(acq[r].lease) >= 0
      BY <1>0, <1>1, <2>1, <2>2 DEF NothingRunsOut, AcqRec
    <3>3. QED
      BY <2>1, <3>1, <3>2 DEF AcqRec
  <2>3. CASE acq[r].step # "insert"
    BY <2>3 DEF Tick
  <2>4. QED
    BY <2>2, <2>3
<1>4. ASSUME NEW p \in Reqs
      PROVE  /\ req'[p].call = req[p].call /\ req'[p].step = req[p].step
             /\ req'[p].lock = req[p].lock /\ req'[p].todo = req[p].todo
             /\ req'[p].cur = req[p].cur
             /\ req[p].call # "extend" => req'[p] = req[p]
             /\ req[p].call = "extend" => req'[p].lease >= 0
  <2>1. req[p] \in ReqRec
    BY DEF TypeOK
  <2>2. CASE req[p].call = "extend"
    <3>1. req'[p] = [req[p] EXCEPT !.lease = Older(req[p].lease)]
      BY <2>2 DEF Tick
    <3>2. Older(req[p].lease) >= 0
      BY <1>0, <1>1, <2>1, <2>2 DEF NothingRunsOut, ReqRec
    <3>3. QED
      BY <2>1, <2>2, <3>1, <3>2 DEF ReqRec
  <2>3. CASE req[p].call # "extend"
    BY <2>3 DEF Tick
  <2>4. QED
    BY <2>2, <2>3
<1>5. ASSUME NEW s \in Seats
      PROVE  \/ key'[s] = NoKey /\ ~InUse(key[s].by)
             \/ key'[s].by = key[s].by /\ key'[s].user = key[s].user
  <2>1. key[s] \in KeyRec /\ key'[s] = Aged(key[s])
    BY DEF TypeOK, Tick
  <2>2. CASE key[s].ttl = 1
    BY <1>0, <2>1, <2>2 DEF NothingRunsOut, Aged
  <2>3. CASE key[s].ttl # 1
    BY <2>1, <2>3 DEF Aged, KeyRec
  <2>4. QED
    BY <2>2, <2>3
<1>6. job' = job
  BY DEF Tick
<1>7. QED
  BY <1>2, <1>3, <1>4, <1>5, <1>6

\* A tick keeps Shape.
LEMMA TickShape ==
  ASSUME Shape, "expiry" \notin Perils, Tick
  PROVE  Shape'
<1>0. TypeOK'
  BY TickType DEF Shape
<1>1. KeyShape'
  BY TickFrame DEF Shape, KeyShape, NoKey
<1>2. AcqShape' /\ OneByOne' /\ NoneExpired'
  <2>1. AcqShape'
    BY TickFrame DEF Shape, AcqShape, Acquiring
  <2>2. OneByOne'
    BY TickFrame DEF Shape, OneByOne
  <2>3. NoneExpired'
    BY TickFrame DEF Shape, NoneExpired
  <2>4. QED
    BY <2>1, <2>2, <2>3
<1>3. ReqShape'
  <2>1. ASSUME NEW p \in Reqs PROVE Knows(req[p])'
    <3>0. Knows(req[p]) /\ req[p].lock \in Locks \cup {None}
      BY DEF Shape, TypeOK, ReqShape, ReqRec
    <3>1. /\ req'[p].call = req[p].call /\ req'[p].step = req[p].step
          /\ req'[p].lock = req[p].lock /\ req'[p].todo = req[p].todo
          /\ req'[p].cur = req[p].cur
          /\ req[p].call # "extend" => req'[p] = req[p]
      BY TickFrame
    <3>2. \A r \in Locks : row'[r].status = row[r].status /\ row'[r].seats = row[r].seats
      BY TickFrame
    <3>3. CASE req[p].lock = None
      BY <3>0, <3>1, <3>3 DEF Knows
    <3>4. CASE req[p].lock \in Locks
      BY <3>0, <3>1, <3>2, <3>4, ConstantsAssumption DEF Knows
    <3>5. QED
      BY <3>0, <3>3, <3>4
  <2>2. QED
    BY <2>1 DEF ReqShape
<1>4. QED
  BY <1>0, <1>1, <1>2, <1>3 DEF Shape

\* Shape is inductive.
LEMMA NextShape ==
  ASSUME Calm, Shape, [Next]_vars
  PROVE  Shape'
<1>1. CASE UNCHANGED vars
  BY <1>1 DEF vars, Shape, TypeOK, KeyShape, AcqShape, Acquiring, ReqShape, Knows, OneByOne,
     NoneExpired
<1>2. CASE Next
  BY <1>2, CalmCases, AcquireShape, StartShape, StepShape, NoCleanup, TickShape DEF Next
<1>3. QED
  BY <1>1, <1>2

-----------------------------------------------------------------------------
(* Keys is preserved by the steps that preserve Shape.                     *)

\* Nothing that r still has to do relies on the key of s.
NotNeeded(r, s) ==
  /\ s \notin Got(r)
  /\ s \in Claims(r) => row[r].status = "CONFIRMED"
  /\ \A p \in Reqs : req[p].lock = r => s \notin ToDelete(p)

\* A step takes away no key that is needed.
NoneMissed ==
  \A r \in Locks, s \in Seats :
    key[s].by = r /\ key'[s].by # r => Stuck(s) \/ NotNeeded(r, s)'

\* What is got, claimed or about to be deleted are seats.
LEMMA Ranges ==
  ASSUME TypeOK
  PROVE  /\ \A r \in Locks : Got(r) \subseteq Seats /\ Claims(r) \subseteq Seats
         /\ \A p \in Reqs : ToDelete(p) \subseteq Seats
<1>1. \A r \in Locks : acq[r] \in AcqRec /\ row[r] \in RowRec
  BY DEF TypeOK
<1>2. \A p \in Reqs : req[p] \in ReqRec
  BY DEF TypeOK
<1>3. QED
  BY <1>1, <1>2 DEF Got, Claims, ToDelete, AcqRec, RowRec, ReqRec

\* A confirmed reservation claims its seats.
LEMMA ConfirmedClaims ==
  ASSUME Shape, NEW r \in Locks, row[r].status = "CONFIRMED"
  PROVE  Claims(r) = row[r].seats
  BY DEF Shape, AcqShape, Acquiring, Claims

\* So does a lock that nobody is giving up.
LEMMA LockedClaims ==
  ASSUME Shape, NEW r \in Locks, row[r].status = "LOCKED", ~GivingUp(r)
  PROVE  Claims(r) = row[r].seats
  BY DEF Shape, AcqShape, Acquiring, Claims

\* A seat that is booked for good is claimed by its reservation only.
LEMMA StuckClaims ==
  ASSUME Shape, ClaimsDisjoint, NEW r \in Locks, NEW s \in Claims(r), Stuck(s)
  PROVE  row[r].status = "CONFIRMED"
<1>1. PICK q \in Locks : row[q].status = "CONFIRMED" /\ s \in row[q].seats
  BY DEF Stuck, Booked
<1>2. s \in Claims(q)
  BY <1>1, ConfirmedClaims
<1>3. QED
  BY <1>1, <1>2 DEF ClaimsDisjoint

\* What a step must do to keep Keys.
LEMMA KeysFrame ==
  ASSUME Shape, Shape', Keys, NoneMissed,
         \A r \in Locks : \A s \in Got(r)' : s \in Got(r) \/ key'[s].by = r,
         \A p \in Reqs : \A s \in ToDelete(p)' :
            \/ s \in ToDelete(p) /\ req'[p].lock = req[p].lock
            \/ key'[s].by = req'[p].lock
            \/ Stuck(s)',
         \A r \in Locks : Claims(r)' \subseteq Claims(r),
         \A r \in Locks : row[r].status = "CONFIRMED" =>
            \/ row'[r].status = "CONFIRMED" /\ row'[r].seats = row[r].seats
            \/ Calls \cap {"release", "cancel"} # {} /\ Claims(r)' = {}
  PROVE  Keys'
<1> USE DEF Keys
<1>0. /\ \A r \in Locks : Got(r) \subseteq Seats /\ Claims(r) \subseteq Seats
      /\ \A p \in Reqs : ToDelete(p) \subseteq Seats
      /\ \A p \in Reqs : ToDelete(p) # {} => req[p].lock \in Locks
  <2>1. \A p \in Reqs : req[p].lock = None => ToDelete(p) = {}
    BY DEF Shape, ReqShape, Knows, ToDelete, NoReq
  <2>2. \A p \in Reqs : req[p].lock \in Locks \cup {None}
    BY DEF Shape, TypeOK, ReqRec
  <2>3. QED
    BY <2>1, <2>2, Ranges DEF Shape
<1>1. \A s : Stuck(s) => Stuck(s)'
  BY DEF Stuck, Booked
<1>2. GotKeys'
  <2>1. ASSUME NEW r \in Locks, NEW s \in Got(r)', s \in Got(r) PROVE key'[s].by = r \/ Stuck(s)'
    <3>1. key[s].by = r \/ Stuck(s)
      BY <2>1 DEF GotKeys
    <3>2. s \in Seats
      BY <1>0, <2>1
    <3>3. QED
      BY <1>1, <2>1, <3>1, <3>2 DEF NoneMissed, NotNeeded
  <2>2. QED
    BY <2>1 DEF GotKeys
<1>3. ToDeleteKeys'
  <2>1. ASSUME NEW p \in Reqs, NEW s \in ToDelete(p)', s \in ToDelete(p), req'[p].lock = req[p].lock
        PROVE  key'[s].by = req'[p].lock \/ Stuck(s)'
    <3>1. key[s].by = req[p].lock \/ Stuck(s)
      BY <2>1 DEF ToDeleteKeys
    <3>2. s \in Seats /\ req[p].lock \in Locks
      BY <1>0, <2>1
    <3>3. QED
      BY <1>1, <2>1, <3>1, <3>2 DEF NoneMissed, NotNeeded
  <2>2. QED
    BY <2>1 DEF ToDeleteKeys
<1>4. ClaimKeys'
  <2>1. ASSUME NEW r \in Locks, row'[r].status # "CONFIRMED", NEW s \in Claims(r)'
        PROVE  key'[s].by = r
    <3>1. s \in Claims(r) /\ row[r].status # "CONFIRMED" /\ s \in Seats
      BY <1>0, <2>1
    <3>2. key[s].by = r /\ ~Stuck(s)
      BY <3>1, StuckClaims DEF ClaimKeys
    <3>3. QED
      BY <2>1, <3>1, <3>2 DEF NoneMissed, NotNeeded
  <2>2. QED
    BY <2>1 DEF ClaimKeys
<1>5. ClaimsDisjoint'
  BY DEF ClaimsDisjoint
<1>6. QED
  BY <1>2, <1>3, <1>4, <1>5

\* A step that deletes no key misses none.
LEMMA KeptKeys ==
  ASSUME \A s \in Seats : key'[s].by = key[s].by \/ key[s].by = None
  PROVE  NoneMissed
  BY ConstantsAssumption DEF NoneMissed

\* A DEL of a key that is no longer needed.
LEMMA DelMisses ==
  ASSUME TypeOK, NEW r \in Locks, NEW s \in Seats, DelKey(s),
         key[s].by = r \/ Stuck(s), Stuck(s) \/ NotNeeded(r, s)'
  PROVE  NoneMissed
<1>1. \A t \in Seats \ {s} : key'[t] = key[t]
  BY DEF TypeOK, DelKey
<1>2. QED
  BY <1>1 DEF NoneMissed

\* A step of acquire r that claims nothing.
LEMMA AcqKeys ==
  ASSUME Shape, Shape', Keys, NoneMissed, NEW r \in Locks, UNCHANGED <<row, req>>,
         \A q \in Locks \ {r} : acq'[q] = acq[q],
         row[r].status = "none", acq'[r].step # "insert",
         \A s \in Got(r)' : s \in Got(r) \/ key'[s].by = r
  PROVE  Keys'
<1>1. \A q \in Locks : Claims(q)' \subseteq Claims(q)
  BY DEF Claims, GivingUp
<1>2. \A q \in Locks \ {r} : Got(q)' = Got(q)
  BY DEF Got
<1>3. \A p \in Reqs : ToDelete(p)' = ToDelete(p)
  BY DEF ToDelete
<1>4. QED
  BY <1>1, <1>2, <1>3, KeysFrame

\* A step of acquireLock keeps Keys: its rollback deletes what it had set, and the check keeps it off booked seats.
LEMMA AcquireKeys ==
  ASSUME Calm, Shape, Shape', Keys, NEW r \in Locks,
         AcquireBegin(r) \/ AcquireStep(r) \/ AcquireFail(r)
  PROVE  Keys'
<1>0. /\ acq[r] \in AcqRec /\ acq \in [Locks -> AcqRec] /\ r # None
      /\ acq[r].step = "new" \/ Acquiring(r) => row[r].status = "none"
      /\ \A p \in Reqs : row[r].status = "none" => req[p].lock # r
  BY ConstantsAssumption DEF Shape, TypeOK, AcqShape, ReqShape, Knows
<1>1. ASSUME NEW u \in Users, NEW S \in SUBSET Seats, AcquireStart(r, u, S) PROVE Keys'
  <2>1. /\ acq'[r] = [step |-> "lock", user |-> u, seats |-> S, todo |-> S, lease |-> 0]
        /\ \A q \in Locks \ {r} : acq'[q] = acq[q]
        /\ UNCHANGED <<key, row, req>> /\ row[r].status = "none"
    BY <1>0, <1>1 DEF AcquireStart
  <2>2. Got(r)' = {}
    BY <2>1 DEF Got
  <2>3. QED
    BY <2>1, <2>2, KeptKeys, AcqKeys
<1>2. ASSUME NEW s \in Seats, AcquireSet(r, s) PROVE Keys'
  <2>1. /\ acq'[r] = [acq[r] EXCEPT !.todo = acq[r].todo \ {s},
                                    !.step = IF acq[r].todo = {s} THEN "check" ELSE "lock"]
        /\ \A q \in Locks \ {r} : acq'[q] = acq[q]
        /\ acq[r].step = "lock" /\ s \in acq[r].todo
        /\ UNCHANGED <<row, req>> /\ row[r].status = "none"
    BY <1>0, <1>2 DEF AcquireSet, Acquiring
  <2>2. /\ acq'[r].seats = acq[r].seats /\ acq'[r].todo = acq[r].todo \ {s}
        /\ acq'[r].step = IF acq[r].todo = {s} THEN "check" ELSE "lock"
    BY <1>0, <2>1 DEF AcqRec
  <2>3. /\ key'[s].by = r /\ key[s].by = None
        /\ \A t \in Seats \ {s} : key'[t] = key[t]
    BY <1>2 DEF AcquireSet, Held, Shape, KeyShape, TypeOK
  <2>4. \A t \in Got(r)' : t \in Got(r) \/ key'[t].by = r
    BY <2>1, <2>2, <2>3 DEF Got
  <2>5. NoneMissed
    BY <2>3, KeptKeys
  <2>6. QED
    BY <2>1, <2>2, <2>4, <2>5, AcqKeys
<1>3. ASSUME NEW s \in Seats, AcquireTaken(r, s) PROVE Keys'
  <2>1. /\ acq'[r] = IF acq[r].seats \ acq[r].todo = {} THEN Refused
                     ELSE [acq[r] EXCEPT !.todo = acq[r].seats \ acq[r].todo, !.step = "rollback"]
        /\ \A q \in Locks \ {r} : acq'[q] = acq[q]
        /\ acq[r].step = "lock"
        /\ UNCHANGED <<key, row, req>> /\ row[r].status = "none"
    BY <1>0, <1>3 DEF AcquireTaken, Acquiring
  <2>2. \/ acq'[r].step = "refused"
        \/ acq'[r].step = "rollback" /\ acq'[r].todo = acq[r].seats \ acq[r].todo
    BY <1>0, <2>1 DEF AcqRec, Refused, NoAcq
  <2>3. Got(r)' \subseteq Got(r)
    BY <2>1, <2>2 DEF Got
  <2>4. QED
    BY <2>1, <2>2, <2>3, KeptKeys, AcqKeys
<1>4. ASSUME NEW s \in Seats, AcquireRollback(r, s) PROVE Keys'
  <2>1. /\ acq'[r] = IF acq[r].todo = {s} THEN Refused
                     ELSE [acq[r] EXCEPT !.todo = acq[r].todo \ {s}]
        /\ \A q \in Locks \ {r} : acq'[q] = acq[q]
        /\ acq[r].step = "rollback" /\ s \in acq[r].todo /\ DelKey(s)
        /\ UNCHANGED <<row, req>> /\ row[r].status = "none"
    BY <1>0, <1>4 DEF AcquireRollback, Acquiring
  <2>2. \/ acq'[r].step = "refused"
        \/ acq'[r].step = "rollback" /\ acq'[r].todo = acq[r].todo \ {s}
    BY <1>0, <2>1 DEF AcqRec, Refused, NoAcq
  <2>3. Got(r)' \subseteq Got(r) \ {s} /\ s \in Got(r)
    BY <2>1, <2>2 DEF Got
  <2>4. s \notin Claims(r)'
    BY <2>1, <2>2 DEF Claims
  <2>5. NotNeeded(r, s)'
    BY <1>0, <2>1, <2>3, <2>4 DEF NotNeeded
  <2>6. key[s].by = r \/ Stuck(s)
    BY <2>3 DEF Keys, GotKeys
  <2>7. NoneMissed
    BY <2>1, <2>5, <2>6, DelMisses DEF Shape
  <2>8. QED
    BY <2>1, <2>2, <2>3, <2>7, AcqKeys
<1>5. CASE AcquireCheck(r)
  <2>0. /\ acq[r].step = "check" /\ row[r].status = "none"
        /\ \A q \in Locks \ {r} : acq'[q] = acq[q]
        /\ UNCHANGED <<key, row, req>> /\ Got(r) = acq[r].seats
    BY <1>0, <1>5 DEF AcquireCheck, Acquiring, Got
  <2>1. CASE Booked(acq[r].seats)
    <3>1. acq'[r].step = "refused"
      BY <1>0, <1>5, <2>1 DEF AcquireCheck, Refused, NoAcq
    <3>2. Got(r)' = {}
      BY <3>1 DEF Got
    <3>3. QED
      BY <2>0, <3>1, <3>2, KeptKeys, AcqKeys
  <2>2. CASE ~Booked(acq[r].seats)
    <3>1. acq'[r] = [acq[r] EXCEPT !.step = "insert", !.lease = TTL]
      BY <1>0, <1>5, <2>2 DEF AcquireCheck
    <3>2. acq'[r].step = "insert" /\ acq'[r].seats = acq[r].seats
      BY <1>0, <3>1 DEF AcqRec
    <3>3. \A s \in acq[r].seats : key[s].by = r /\ ~Stuck(s)
      BY <2>0, <2>2 DEF Keys, GotKeys, Stuck, Booked
    <3>4. Claims(r)' = acq[r].seats /\ \A q \in Locks \ {r} : Claims(q)' = Claims(q)
      BY <2>0, <3>2 DEF Claims, GivingUp
    <3>5. \A q \in Locks \ {r} : Claims(q) \cap acq[r].seats = {}
      <4>1. ASSUME NEW q \in Locks \ {r}, NEW s \in Claims(q) \cap acq[r].seats PROVE FALSE
        <5>1. CASE row[q].status = "CONFIRMED"
          BY <2>2, <4>1, <5>1, ConfirmedClaims DEF Booked
        <5>2. CASE row[q].status # "CONFIRMED"
          BY <3>3, <4>1, <5>2 DEF Keys, ClaimKeys
        <5>3. QED
          BY <5>1, <5>2
      <4>2. QED
        BY <4>1
    <3>6. GotKeys'
      <4>1. Got(r)' = Got(r) /\ \A q \in Locks \ {r} : Got(q)' = Got(q)
        BY <2>0, <3>2 DEF Got
      <4>2. \A s : Stuck(s)' = Stuck(s)
        BY <2>0 DEF Stuck, Booked
      <4>3. QED
        BY <2>0, <4>1, <4>2 DEF Keys, GotKeys
    <3>7. ToDeleteKeys'
      BY <2>0 DEF Keys, ToDeleteKeys, ToDelete, Stuck, Booked
    <3>8. ClaimKeys'
      BY <2>0, <3>3, <3>4 DEF Keys, ClaimKeys
    <3>9. ClaimsDisjoint'
      BY <3>4, <3>5 DEF Keys, ClaimsDisjoint
    <3>10. QED
      BY <3>6, <3>7, <3>8, <3>9 DEF Keys
  <2>3. QED
    BY <2>1, <2>2
<1>6. CASE AcquireInsert(r)
  <2>1. /\ row'[r] = [status |-> "LOCKED", user |-> acq[r].user,
                      seats |-> acq[r].seats, lease |-> acq[r].lease]
        /\ acq'[r].step = "done"
        /\ \A q \in Locks \ {r} : acq'[q] = acq[q] /\ row'[q] = row[q]
        /\ UNCHANGED <<key, req>> /\ row[r].status = "none" /\ acq[r].step = "insert"
    BY <1>0, <1>6 DEF AcquireInsert, Shape, TypeOK, NoAcq, Acquiring
  <2>2. \A q \in Locks : Claims(q)' \subseteq Claims(q)
    BY <2>1 DEF Claims, GivingUp
  <2>3. Got(r)' = {} /\ \A q \in Locks \ {r} : Got(q)' = Got(q)
    BY <2>1 DEF Got
  <2>4. \A p \in Reqs : ToDelete(p)' = ToDelete(p)
    BY <2>1 DEF ToDelete
  <2>5. \A q \in Locks : row[q].status = "CONFIRMED" => row'[q] = row[q]
    BY <2>1
  <2>6. QED
    BY <2>1, <2>2, <2>3, <2>4, <2>5, KeptKeys, KeysFrame
<1>7. ASSUME acq'[r].step \in {"refused", "died"}, UNCHANGED <<key, row, req>>, Acquiring(r),
             \A q \in Locks \ {r} : acq'[q] = acq[q]
      PROVE  Keys'
  <2>1. Got(r)' = {}
    BY <1>7 DEF Got
  <2>2. QED
    BY <1>0, <1>7, <2>1, KeptKeys, AcqKeys
<1>8. CASE AcquireCollide(r)
  BY <1>0, <1>7, <1>8 DEF AcquireCollide, Refused, NoAcq, Acquiring
<1>9. CASE AcquireFail(r)
  BY <1>0, <1>7, <1>9 DEF AcquireFail, NoAcq
<1>10. QED
  BY <1>1, <1>2, <1>3, <1>4, <1>5, <1>6, <1>8, <1>9 DEF AcquireBegin, AcquireStep

\* A step of request p that writes no row, and gives up what it was giving up.
LEMMA ReqKeys ==
  ASSUME Shape, Shape', Keys, NoneMissed, NEW p \in Reqs, UNCHANGED <<row, acq>>,
         \A q \in Reqs \ {p} : req'[q] = req[q],
         req[p].call \in {"release", "cancel"} =>
            req'[p].call \in {"release", "cancel"} /\ req'[p].lock = req[p].lock,
         \A s \in ToDelete(p)' :
            \/ s \in ToDelete(p) /\ req'[p].lock = req[p].lock
            \/ key'[s].by = req'[p].lock
  PROVE  Keys'
<1>1. \A r \in Locks : GivingUp(r) => GivingUp(r)'
  BY DEF GivingUp
<1>2. \A r \in Locks : Claims(r)' \subseteq Claims(r)
  BY <1>1 DEF Claims
<1>3. \A r \in Locks : Got(r)' = Got(r)
  BY DEF Got
<1>4. \A q \in Reqs \ {p} : ToDelete(q)' = ToDelete(q)
  BY DEF ToDelete
<1>5. QED
  BY <1>2, <1>3, <1>4, KeysFrame

\* A request starts to release or cancel a lock it can still count on.
LEMMA GiveUpKeys ==
  ASSUME Calm, Shape, Keys, NEW p \in Reqs, NEW call \in {"release", "cancel"},
         NEW r \in Locks, Start(p, call, r), row[r].status = "LOCKED", NEW s \in row[r].seats
  PROVE  key[s].by = r
<1>1. Perils = {}
  BY DEF Calm, Start
<1>2. ~GivingUp(r)
  BY <1>1 DEF Start, Requested, GivingUp
<1>3. QED
  BY <1>2, LockedClaims DEF Keys, ClaimKeys

\* A handler that reads its row keeps Keys.
LEMMA StartKeys ==
  ASSUME Calm, Shape, Shape', Keys, NEW p \in Reqs, RequestStart(p)
  PROVE  Keys'
<1>0. req \in [Reqs -> ReqRec]
  BY DEF Shape, TypeOK
<1>1. /\ UNCHANGED <<key, row, acq>>
      /\ req[p].call \notin {"release", "cancel"}
  <2>1. UNCHANGED <<key, row, acq>>
    BY DEF RequestStart, ConfirmRead, ReleaseRead, CancelRead, ExtendRead
  <2>2. req[p] = NoReq
    <3>1. \E r \in Locks, call \in {"confirm", "release", "cancel", "extend"} : Start(p, call, r)
      BY DEF RequestStart, ConfirmRead, ReleaseRead, CancelRead, ExtendRead
    <3>2. QED
      BY <3>1 DEF Start
  <2>3. QED
    BY <2>1, <2>2 DEF NoReq
<1>2. \A q \in Reqs \ {p} : req'[q] = req[q]
  BY <1>0 DEF RequestStart, ConfirmRead, ReleaseRead, CancelRead, ExtendRead, Enter
<1>3. ASSUME NEW s \in ToDelete(p)' PROVE key'[s].by = req'[p].lock
  <2>1. ASSUME NEW r \in Locks, ConfirmRead(p, r) PROVE FALSE
    <3>1. req'[p].call = "confirm" /\ req'[p].step \in {"expire", "write"}
      BY <1>0, <2>1 DEF ConfirmRead, Enter, NoReq
    <3>2. QED
      BY <1>3, <3>1 DEF ToDelete
  <2>2. ASSUME NEW r \in Locks, ReleaseRead(p, r) PROVE key'[s].by = req'[p].lock
    <3>1. req'[p].lock = r /\ req'[p].todo = row[r].seats /\ req'[p].cur = None
      BY <1>0, <2>2 DEF ReleaseRead, Enter, NoReq
    <3>2. s \in row[r].seats
      BY <1>3, <3>1 DEF ToDelete
    <3>3. QED
      BY <1>1, <2>2, <3>1, <3>2, GiveUpKeys DEF ReleaseRead
  <2>3. ASSUME NEW r \in Locks, CancelRead(p, r) PROVE key'[s].by = req'[p].lock
    <3>1. /\ req'[p].lock = r /\ req'[p].cur = None
          /\ req'[p].todo = IF row[r].status = "LOCKED" THEN row[r].seats ELSE {}
      <4>1. req' = [req EXCEPT ![p] =
                      [NoReq EXCEPT !.call = "cancel", !.lock = r,
                                    !.step = IF row[r].status = "LOCKED" THEN "del" ELSE "write",
                                    !.todo = IF row[r].status = "LOCKED" THEN row[r].seats ELSE {}]]
        BY <2>3 DEF CancelRead, Enter
      <4>2. QED
        BY <1>0, <4>1 DEF NoReq
    <3>2. s \in row[r].seats /\ row[r].status = "LOCKED"
      BY <1>3, <3>1 DEF ToDelete
    <3>3. QED
      BY <1>1, <2>3, <3>1, <3>2, GiveUpKeys DEF CancelRead
  <2>4. ASSUME NEW r \in Locks, NEW ext \in Extensions, ExtendRead(p, r, ext) PROVE FALSE
    <3>1. req'[p].call = "extend" /\ req'[p].step = "get"
      BY <1>0, <2>4 DEF ExtendRead, NoReq
    <3>2. QED
      BY <1>3, <3>1 DEF ToDelete
  <2>5. QED
    BY <2>1, <2>2, <2>3, <2>4 DEF RequestStart
<1>4. QED
  BY <1>1, <1>2, <1>3, KeptKeys, ReqKeys

\* A DEL by request p, about a lock it is alone with unless locks are never given up.
LEMMA ReqDelMisses ==
  ASSUME Calm, Shape, Shape', Keys, NEW p \in Reqs, NEW s \in Seats, DelKey(s),
         UNCHANGED <<row, acq>>, \A q \in Reqs \ {p} : req'[q] = req[q],
         s \in ToDelete(p), s \notin ToDelete(p)',
         \/ req[p].call = "confirm" /\ req[p].step = "del" /\ s \in req[p].todo
         \/ /\ req[p].call \in {"release", "cancel"} /\ req'[p].call \in {"release", "cancel"}
            /\ req'[p].lock = req[p].lock
  PROVE  NoneMissed
<1>0. Knows(req[p]) /\ req[p] \in ReqRec /\ req[p].call # "none"
  BY DEF Shape, TypeOK, ReqShape
<1>1. PICK r \in Locks : r = req[p].lock
  BY <1>0 DEF ReqRec, Knows
<1>2. key[s].by = r \/ Stuck(s)
  BY <1>1 DEF Keys, ToDeleteKeys
<1>3. Stuck(s) \/ NotNeeded(r, s)'
  <2>1. CASE req[p].call = "confirm" /\ Calls \cap {"release", "cancel"} = {}
    <3>1. row[r].status = "CONFIRMED" /\ s \in row[r].seats
      BY <1>0, <1>1, <2>1 DEF Knows
    <3>2. QED
      BY <1>1, <2>1, <3>1 DEF Stuck, Booked
  <2>2. CASE Calls \cap {"release", "cancel"} # {}
    <3>1. \A q \in Reqs \ {p} : req[q].lock # r
      BY <1>1, <2>2, Alone, CalmCases, ConstantsAssumption
    <3>2. row[r].status # "none" /\ ~Acquiring(r)
      BY <1>0, <1>1, ConstantsAssumption DEF Knows, Shape, AcqShape
    <3>3. Got(r)' = {}
      BY <3>2 DEF Got, Acquiring
    <3>4. s \in Claims(r)' => row'[r].status = "CONFIRMED"
      <4>1. CASE req[p].call = "confirm"
        BY <1>0, <1>1, <4>1 DEF Knows
      <4>2. CASE req[p].call \in {"release", "cancel"}
        <5>1. GivingUp(r)' /\ acq'[r].step # "insert"
          BY <1>1, <3>2, <4>2 DEF GivingUp, Acquiring
        <5>2. QED
          BY <5>1 DEF Claims
      <4>3. QED
        BY <4>1, <4>2
    <3>5. \A q \in Reqs : req'[q].lock = r => s \notin ToDelete(q)'
      BY <1>1, <3>1
    <3>6. QED
      BY <3>3, <3>4, <3>5 DEF NotNeeded
  <2>3. QED
    BY <1>0, <2>1, <2>2 DEF ReqRec
<1>4. QED
  BY <1>1, <1>2, <1>3, DelMisses DEF Shape

\* A handler's write of its row.
LEMMA WriteKeys ==
  ASSUME Shape, Shape', Keys, NEW p \in Reqs, NEW r \in Locks, UNCHANGED <<key, acq>>,
         \A q \in Reqs \ {p} : req'[q] = req[q],
         \A q \in Locks \ {r} : row'[q] = row[q],
         req[p].lock = r, req'[p] = NoReq \/ req'[p].lock = r,
         \A s \in ToDelete(p)' : key[s].by = r \/ Stuck(s)',
         Claims(r)' \subseteq Claims(r),
         row[r].status = "CONFIRMED" =>
            \/ row'[r].status = "CONFIRMED" /\ row'[r].seats = row[r].seats
            \/ Calls \cap {"release", "cancel"} # {} /\ Claims(r)' = {}
  PROVE  Keys'
<1>1. ASSUME NEW q \in Locks \ {r} PROVE Claims(q)' = Claims(q)
  <2>1. GivingUp(q) <=> GivingUp(q)'
    BY ConstantsAssumption DEF GivingUp, NoReq
  <2>2. QED
    BY <2>1 DEF Claims
<1>2. \A q \in Locks : Got(q)' = Got(q)
  BY DEF Got
<1>3. \A q \in Reqs \ {p} : ToDelete(q)' = ToDelete(q)
  BY DEF ToDelete
<1>4. ToDelete(p)' # {} => req'[p].lock = r
  BY DEF ToDelete, NoReq
<1>5. NoneMissed
  BY KeptKeys
<1>6. QED
  BY <1>1, <1>2, <1>3, <1>4, <1>5, KeysFrame

\* The end of a release or of a cancellation.
LEMMA GivenUpKeys ==
  ASSUME Shape, Shape', Keys, NEW p \in Reqs, NEW status \in {"RELEASED", "CANCELLED"},
         req[p].call \in {"release", "cancel"}, SetStatus(req[p].lock, status),
         Finish(p), UNCHANGED <<key, acq>>
  PROVE  Keys'
<1>0. Knows(req[p]) /\ req[p] \in ReqRec /\ req \in [Reqs -> ReqRec] /\ row \in [Locks -> RowRec]
  BY DEF Shape, TypeOK, ReqShape
<1>1. PICK r \in Locks : r = req[p].lock
  BY <1>0 DEF ReqRec, Knows
<1>2. /\ req'[p] = NoReq /\ \A q \in Reqs \ {p} : req'[q] = req[q]
      /\ row'[r].status = status /\ \A q \in Locks \ {r} : row'[q] = row[q]
  <2>1. row'[r].status = status
    BY <1>0, <1>1 DEF SetStatus, RowRec
  <2>2. QED
    BY <1>0, <1>1, <2>1 DEF Finish, SetStatus
<1>3. acq'[r].step # "insert"
  BY <1>0, <1>1, ConstantsAssumption DEF Shape, AcqShape, Acquiring, Knows
<1>4. Claims(r)' = {} /\ ToDelete(p)' = {}
  BY <1>2, <1>3 DEF Claims, ToDelete, NoReq
<1>5. Calls \cap {"release", "cancel"} # {}
  BY <1>0 DEF ReqRec, Shape, TypeOK
<1>6. QED
  BY <1>1, <1>2, <1>4, <1>5, WriteKeys

\* A confirmation claims what its lock claimed.
LEMMA ConfirmClaims ==
  ASSUME Calm, Shape, NEW p \in Reqs, NEW r \in Locks, r = req[p].lock, ConfirmWrite(p)
  PROVE  /\ row[r].status \in {"LOCKED", "CONFIRMED"}
         /\ row[r].status = "CONFIRMED" => "overlap" \in Perils
         /\ \A q \in Locks \ {r} : row'[q] = row[q]
         /\ row'[r].status = "CONFIRMED" /\ row'[r].seats = row[r].seats
         /\ Claims(r) = row[r].seats /\ Claims(r)' = row[r].seats
<1>0. Knows(req[p]) /\ row \in [Locks -> RowRec]
  BY DEF Shape, TypeOK, ReqShape
<1>1. /\ \A q \in Locks \ {r} : row'[q] = row[q]
      /\ row'[r].status = "CONFIRMED" /\ row'[r].seats = row[r].seats
  BY <1>0 DEF ConfirmWrite, SetStatus, RowRec
<1>2. ~GivingUp(r)
  <2>1. ASSUME NEW q \in Reqs, req[q].lock = r, req[q].call \in {"release", "cancel"} PROVE FALSE
    <3>1. q # p
      BY <2>1 DEF ConfirmWrite
    <3>2. QED
      BY <2>1, <3>1, Alone, ConstantsAssumption
  <2>2. QED
    BY <2>1 DEF GivingUp
<1>3. row[r].status = "LOCKED" \/ (row[r].status = "CONFIRMED" /\ "overlap" \in Perils)
  BY <1>0 DEF ConfirmWrite, Knows
<1>4. Claims(r) = row[r].seats
  BY <1>2, <1>3, LockedClaims, ConfirmedClaims
<1>5. acq'[r].step # "insert"
  BY <1>3 DEF ConfirmWrite, Shape, AcqShape, Acquiring
<1>6. Claims(r)' = row[r].seats
  BY <1>1, <1>5 DEF Claims
<1>7. QED
  BY <1>1, <1>3, <1>4, <1>6

\* A confirmation may go on to delete the keys of its own seats.
LEMMA ConfirmKeys ==
  ASSUME Calm, Shape, Shape', Keys, NEW p \in Reqs, ConfirmWrite(p)
  PROVE  Keys'
<1>0. Knows(req[p]) /\ req[p] \in ReqRec /\ req \in [Reqs -> ReqRec]
  BY DEF Shape, TypeOK, ReqShape
<1>1. PICK r \in Locks : r = req[p].lock
  BY <1>0 DEF ReqRec, Knows, ConfirmWrite
<1>2. /\ \A q \in Reqs \ {p} : req'[q] = req[q]
      /\ req'[p].lock = r /\ req'[p].todo = req[p].todo /\ req'[p].cur = None
  BY <1>0, <1>1 DEF ConfirmWrite, ReqRec, Knows
<1>3. \A s \in ToDelete(p)' : key[s].by = r \/ Stuck(s)'
  <2>1. ASSUME NEW s \in ToDelete(p)' PROVE s \in row[r].seats
    BY <1>0, <1>1, <1>2, <2>1 DEF ToDelete, Knows, ConfirmWrite
  <2>2. CASE row[r].status = "LOCKED"
    BY <1>1, <2>1, <2>2, ConfirmClaims DEF Keys, ClaimKeys
  <2>3. CASE row[r].status = "CONFIRMED"
    BY <1>1, <2>1, <2>3, CalmCases, ConfirmClaims DEF Stuck, Booked
  <2>4. QED
    BY <1>1, <2>2, <2>3, ConfirmClaims
<1>4. /\ UNCHANGED <<key, acq>> /\ \A q \in Locks \ {r} : row'[q] = row[q]
      /\ row'[r].status = "CONFIRMED" /\ row'[r].seats = row[r].seats
      /\ Claims(r)' = Claims(r)
  BY <1>1, ConfirmClaims DEF ConfirmWrite
<1>5. QED
  BY <1>1, <1>2, <1>3, <1>4, WriteKeys

\* An extension changes nobody's claims.
LEMMA ExtendWriteKeys ==
  ASSUME Shape, Shape', Keys, NEW p \in Reqs, ExtendWrite(p)
  PROVE  Keys'
<1>0. Knows(req[p]) /\ req[p] \in ReqRec /\ req \in [Reqs -> ReqRec] /\ row \in [Locks -> RowRec]
  BY DEF Shape, TypeOK, ReqShape
<1>1. PICK r \in Locks : r = req[p].lock
  BY <1>0 DEF ReqRec, Knows, ExtendWrite
<1>2. req'[p] = NoReq /\ \A q \in Reqs \ {p} : req'[q] = req[q]
  BY <1>0 DEF ExtendWrite, Finish
<1>3. /\ \A q \in Locks \ {r} : row'[q] = row[q]
      /\ row'[r].status = row[r].status /\ row'[r].seats = row[r].seats
  BY <1>0, <1>1 DEF ExtendWrite, RowRec
<1>4. GivingUp(r) <=> GivingUp(r)'
  BY <1>1, <1>2 DEF GivingUp, NoReq, ExtendWrite
<1>5. Claims(r)' = Claims(r) /\ ToDelete(p)' = {}
  BY <1>2, <1>3, <1>4 DEF Claims, ToDelete, NoReq, ExtendWrite
<1>6. QED
  BY <1>1, <1>2, <1>3, <1>5, WriteKeys DEF ExtendWrite

\* A handler that goes on after an await keeps Keys.
LEMMA StepKeys ==
  ASSUME Calm, Shape, Shape', Keys, NEW p \in Reqs, RequestStep(p) \/ RequestFail(p)
  PROVE  Keys'
<1>0. Knows(req[p]) /\ req[p] \in ReqRec /\ req \in [Reqs -> ReqRec]
  BY DEF Shape, TypeOK, ReqShape
<1>1. ~ConfirmExpire(p)
  BY <1>0 DEF ConfirmExpire, Knows
<1>2. CASE ConfirmWrite(p)
  BY <1>2, ConfirmKeys
<1>3. CASE CancelWrite(p)
  BY <1>3, GivenUpKeys DEF CancelWrite
<1>4. CASE ReleaseDel(p)
  <2>1. PICK s \in Seats : s = req[p].cur
    BY <1>0, <1>4 DEF ReleaseDel, Knows
  <2>2. s # None
    BY <2>1, ConstantsAssumption
  <2>3. /\ req'[p].call = "release" /\ req'[p].lock = req[p].lock
        /\ req'[p].todo = req[p].todo \ {s} /\ req'[p].cur = None
    BY <1>0, <1>4, <2>1 DEF ReleaseDel, Looped, ReqRec
  <2>4. s \in ToDelete(p) /\ ToDelete(p)' \subseteq ToDelete(p) \ {s}
    BY <1>4, <2>1, <2>2, <2>3 DEF ReleaseDel, ToDelete
  <2>5. \A q \in Reqs \ {p} : req'[q] = req[q]
    BY <1>0, <1>4 DEF ReleaseDel
  <2>6. NoneMissed
    BY <1>4, <2>1, <2>3, <2>4, <2>5, ReqDelMisses DEF ReleaseDel
  <2>7. QED
    BY <1>4, <2>3, <2>4, <2>5, <2>6, ReqKeys DEF ReleaseDel
<1>5. CASE ReleaseWrite(p)
  BY <1>5, GivenUpKeys DEF ReleaseWrite
<1>6. CASE ExtendExpire(p)
  <2>1. \A s \in Seats : key'[s].by = key[s].by
    BY <1>6 DEF ExtendExpire, Shape, TypeOK, KeyRec
  <2>2. /\ req'[p].call = "extend" /\ req'[p].step # "del"
        /\ \A q \in Reqs \ {p} : req'[q] = req[q]
    BY <1>0, <1>6 DEF ExtendExpire, Looped, ReqRec
  <2>3. ToDelete(p)' = {}
    BY <2>2 DEF ToDelete
  <2>4. QED
    BY <1>6, <2>1, <2>2, <2>3, KeptKeys, ReqKeys DEF ExtendExpire
<1>7. CASE ExtendWrite(p)
  BY <1>7, ExtendWriteKeys
<1>8. ASSUME NEW s \in Seats, ConfirmDel(p, s) PROVE Keys'
  <2>1. /\ req[p].call = "confirm" /\ req[p].step = "del" /\ s \in req[p].todo
        /\ DelKey(s) /\ UNCHANGED <<row, acq>>
        /\ \A q \in Reqs \ {p} : req'[q] = req[q]
    BY <1>0, <1>8 DEF ConfirmDel, DelNext
  <2>2. \/ req'[p] = NoReq
        \/ /\ req'[p].call = "confirm" /\ req'[p].lock = req[p].lock
           /\ req'[p].todo = req[p].todo \ {s} /\ req'[p].cur = None
    <3>1. \/ req'[p] = NoReq
          \/ req'[p] = [req[p] EXCEPT !.todo = req[p].todo \ {s}]
      BY <1>0, <1>8 DEF ConfirmDel, DelNext
    <3>2. QED
      BY <1>0, <2>1, <3>1 DEF ReqRec, Knows
  <2>3. s \in ToDelete(p)
    BY <2>1 DEF ToDelete
  <2>4. ASSUME NEW t \in ToDelete(p)'
        PROVE  t \in ToDelete(p) \ {s} /\ req'[p].lock = req[p].lock
    BY <2>1, <2>2, <2>4 DEF ToDelete, NoReq
  <2>5. NoneMissed
    BY <2>1, <2>3, <2>4, ReqDelMisses
  <2>6. QED
    BY <2>1, <2>4, <2>5, ReqKeys
<1>9. ASSUME NEW s \in Seats, CancelDel(p, s) PROVE Keys'
  <2>1. /\ req[p].call = "cancel" /\ req[p].step = "del" /\ s \in req[p].todo
        /\ DelKey(s) /\ UNCHANGED <<row, acq>> /\ req[p].cur = None
        /\ \A q \in Reqs \ {p} : req'[q] = req[q]
    BY <1>0, <1>9 DEF CancelDel, DelNext, Knows
  <2>2. /\ req'[p].call = "cancel" /\ req'[p].lock = req[p].lock /\ req'[p].cur = None
        /\ req'[p].todo = req[p].todo \ {s}
    <3>1. \/ req[p].todo = {s} /\ req'[p] = [req[p] EXCEPT !.step = "write", !.todo = {}]
          \/ req'[p] = [req[p] EXCEPT !.todo = req[p].todo \ {s}]
      BY <1>0, <1>9 DEF CancelDel, DelNext
    <3>2. QED
      BY <1>0, <2>1, <3>1 DEF ReqRec
  <2>3. s \in ToDelete(p) /\ ToDelete(p)' \subseteq ToDelete(p) \ {s}
    BY <2>1, <2>2 DEF ToDelete
  <2>4. NoneMissed
    BY <2>1, <2>2, <2>3, ReqDelMisses
  <2>5. QED
    BY <2>1, <2>2, <2>3, <2>4, ReqKeys
<1>10. ASSUME NEW s \in Seats, ReleaseGet(p, s) PROVE Keys'
  <2>1. /\ req[p].call = "release" /\ s \in req[p].todo
        /\ UNCHANGED <<key, row, acq>>
        /\ \A q \in Reqs \ {p} : req'[q] = req[q]
    BY <1>0, <1>10 DEF ReleaseGet, GetNext
  <2>2. /\ req'[p].call = "release" /\ req'[p].lock = req[p].lock
        /\ req'[p].todo \subseteq req[p].todo /\ req'[p].cur \in {s, None}
    <3>1. \/ req'[p] = [req[p] EXCEPT !.step = "del", !.cur = s]
          \/ req'[p] = Looped(p, s)
      BY <1>0, <1>10 DEF ReleaseGet, GetNext
    <3>2. CASE req'[p] = [req[p] EXCEPT !.step = "del", !.cur = s]
      BY <1>0, <2>1, <3>2 DEF ReqRec
    <3>3. CASE req'[p] = Looped(p, s)
      <4>1. req'[p].todo = req[p].todo \ {s}
        BY <1>0, <3>3 DEF Looped, ReqRec
      <4>2. QED
        BY <1>0, <2>1, <3>3, <4>1 DEF Looped, ReqRec
    <3>4. QED
      BY <3>1, <3>2, <3>3
  <2>3. ToDelete(p)' \subseteq ToDelete(p)
    BY <2>1, <2>2 DEF ToDelete
  <2>4. QED
    BY <2>1, <2>2, <2>3, KeptKeys, ReqKeys
<1>11. ASSUME NEW s \in Seats, ExtendGet(p, s) PROVE Keys'
  <2>1. /\ req[p].call = "extend" /\ UNCHANGED <<key, row, acq>>
        /\ \A q \in Reqs \ {p} : req'[q] = req[q]
    BY <1>0, <1>11 DEF ExtendGet, GetNext
  <2>2. req'[p].call = "extend" /\ req'[p].step # "del"
    <3>1. \/ req'[p] = [req[p] EXCEPT !.step = "set", !.cur = s]
          \/ req'[p] = Looped(p, s)
      BY <1>0, <1>11 DEF ExtendGet, GetNext
    <3>2. QED
      BY <1>0, <2>1, <3>1 DEF Looped, ReqRec
  <2>3. ToDelete(p)' = {}
    BY <2>2 DEF ToDelete
  <2>4. QED
    BY <2>1, <2>3, KeptKeys, ReqKeys
<1>12. CASE RequestFail(p)
  <2>1. /\ req'[p] = NoReq /\ \A q \in Reqs \ {p} : req'[q] = req[q]
        /\ UNCHANGED <<key, row, acq>>
    BY <1>0, <1>12 DEF RequestFail, Finish
  <2>2. req[p].call \notin {"release", "cancel"}
    BY <1>0, <1>12, CalmCases DEF RequestFail, ReqRec
  <2>3. ToDelete(p)' = {}
    BY <2>1 DEF ToDelete, NoReq
  <2>4. QED
    BY <2>1, <2>2, <2>3, KeptKeys, ReqKeys
<1>13. QED
  BY <1>1, <1>2, <1>3, <1>4, <1>5, <1>6, <1>7, <1>8, <1>9, <1>10, <1>11, <1>12
     DEF RequestStep

\* Time takes no key of a lock in use, and a lock that is not in use needs none.
LEMMA TickKeys ==
  ASSUME Calm, Shape, Shape', Keys, Tick
  PROVE  Keys'
<1>0. "expiry" \notin Perils
  BY CalmCases
<1>1. /\ \A r \in Locks : row'[r].status = row[r].status /\ row'[r].seats = row[r].seats
      /\ \A r \in Locks : /\ acq'[r].step = acq[r].step /\ acq'[r].seats = acq[r].seats
                          /\ acq'[r].todo = acq[r].todo
      /\ \A p \in Reqs : /\ req'[p].call = req[p].call /\ req'[p].step = req[p].step
                         /\ req'[p].lock = req[p].lock /\ req'[p].todo = req[p].todo
                         /\ req'[p].cur = req[p].cur
      /\ \A s \in Seats : key'[s].by # key[s].by => ~InUse(key[s].by)
  BY <1>0, TickFrame
<1>2. \A r \in Locks : Got(r)' = Got(r)
  BY <1>1 DEF Got
<1>3. \A p \in Reqs : ToDelete(p)' = ToDelete(p)
  BY <1>1 DEF ToDelete
<1>4. \A r \in Locks : Claims(r)' = Claims(r)
  <2>1. \A r \in Locks : GivingUp(r)' <=> GivingUp(r)
    BY <1>1 DEF GivingUp
  <2>2. QED
    BY <1>1, <2>1 DEF Claims
<1>5. NoneMissed
  <2>1. ASSUME NEW r \in Locks, NEW s \in Seats, key[s].by = r, key'[s].by # r
        PROVE  NotNeeded(r, s)'
    <3>1. ~Acquiring(r) /\ row[r].status # "LOCKED" /\ ~Requested(r)
      BY <1>1, <2>1 DEF InUse
    <3>2. s \notin Got(r)'
      BY <1>2, <3>1 DEF Got, Acquiring
    <3>3. s \in Claims(r)' => row'[r].status = "CONFIRMED"
      BY <1>1, <1>4, <3>1 DEF Claims, Acquiring
    <3>4. \A p \in Reqs : req'[p].lock # r
      BY <1>1, <3>1 DEF Requested
    <3>5. QED
      BY <3>2, <3>3, <3>4 DEF NotNeeded
  <2>2. QED
    BY <2>1 DEF NoneMissed
<1>6. QED
  BY <1>1, <1>2, <1>3, <1>4, <1>5, KeysFrame

-----------------------------------------------------------------------------
(* The theorems.                                                           *)

\* Keys at the start.
LEMMA InitKeys == Init => Keys
  BY ConstantsAssumption DEF Init, Keys, GotKeys, ToDeleteKeys, ClaimKeys, ClaimsDisjoint,
     Got, ToDelete, Claims, NoKey, NoRow, NoAcq, NoReq

\* IInv is inductive.
LEMMA NextKeys ==
  ASSUME Calm, IInv, [Next]_vars
  PROVE  IInv'
<1> USE DEF IInv
<1>1. Shape'
  BY NextShape
<1>2. CASE UNCHANGED vars
  BY <1>1, <1>2 DEF vars, Keys, GotKeys, ToDeleteKeys, ClaimKeys, ClaimsDisjoint,
     Got, ToDelete, Claims, GivingUp, Stuck, Booked
<1>3. CASE Next
  BY <1>1, <1>3, AcquireKeys, StartKeys, StepKeys, NoCleanup, TickKeys DEF Next
<1>4. QED
  BY <1>2, <1>3

\* In a Calm environment the invariant holds of every reachable state.
THEOREM Invariance ==
  ASSUME Calm
  PROVE  Spec => []IInv
<1>1. Init => IInv
  BY InitShape, InitKeys DEF IInv
<1>2. IInv /\ [Next]_vars => IInv'
  BY NextKeys
<1>3. QED
  BY <1>1, <1>2, PTL DEF Spec

\* In a Calm environment no seat is sold twice: two reservations that are both
\* CONFIRMED share no seat, although confirmReservation looks at its own row only.
THEOREM NoSeatSoldTwice ==
  ASSUME Calm
  PROVE  Spec => []NoDoubleBooking
<1>1. IInv => NoDoubleBooking
  BY ConfirmedClaims DEF IInv, Keys, ClaimsDisjoint, NoDoubleBooking
<1>2. QED
  BY <1>1, Invariance, PTL

\* In a Calm environment a lock that can still be confirmed owns the Redis keys of
\* all its seats, so nobody else can be past SETNX on one of them.
THEOREM LocksKeepTheirKeys ==
  ASSUME Calm
  PROVE  Spec => []LockHoldsItsKeys
<1>1. IInv => LockHoldsItsKeys
  BY DEF IInv, Keys, ClaimKeys, LockHoldsItsKeys
<1>2. QED
  BY <1>1, Invariance, PTL
=============================================================================
