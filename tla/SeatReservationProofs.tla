------------------------ MODULE SeatReservationProofs ------------------------
(***************************************************************************)
(* Proofs about SeatReservation: types, in every environment.              *)
(***************************************************************************)
EXTENDS SeatReservation, TLAPS

-----------------------------------------------------------------------------
(* Types.                                                                  *)

\* Types at the start.
LEMMA InitType == Init => TypeOK
  BY ConstantsAssumption DEF Init, TypeOK, NoKey, NoRow, NoAcq, NoReq, NoJob,
     KeyRec, RowRec, AcqRec, ReqRec, JobRec

\* Types after a step of acquireLock.
LEMMA AcquireType ==
  ASSUME TypeOK, NEW r \in Locks, AcquireBegin(r) \/ AcquireStep(r) \/ AcquireFail(r)
  PROVE  TypeOK'
<1> USE DEF TypeOK
<1>1. ASSUME NEW u \in Users, NEW S \in SUBSET Seats, AcquireStart(r, u, S) PROVE TypeOK'
  BY <1>1 DEF AcquireStart, AcqRec
<1>2. ASSUME NEW s \in Seats, AcquireSet(r, s) PROVE TypeOK'
  <2>1. key' \in [Seats -> KeyRec]
    BY <1>2, ConstantsAssumption DEF AcquireSet, KeyRec, AcqRec
  <2>2. acq' \in [Locks -> AcqRec]
    <3>1. \A rec \in AcqRec : \A T \in SUBSET Seats, st \in {"check", "lock"} :
             [rec EXCEPT !.todo = T, !.step = st] \in AcqRec
      BY DEF AcqRec
    <3>2. /\ acq[r] \in AcqRec
          /\ acq[r].todo \ {s} \in SUBSET Seats
      BY DEF AcqRec
    <3>3. acq' = [acq EXCEPT ![r] = [acq[r] EXCEPT !.todo = acq[r].todo \ {s},
                                       !.step = IF acq[r].todo = {s} THEN "check" ELSE "lock"]]
      BY <1>2, <3>2 DEF AcquireSet
    <3>4. QED
      BY <3>1, <3>2, <3>3
  <2>3. QED
    BY <1>2, <2>1, <2>2 DEF AcquireSet
<1>3. ASSUME NEW s \in Seats, AcquireTaken(r, s) PROVE TypeOK'
  <2>1. Refused \in AcqRec
    BY DEF Refused, NoAcq, AcqRec
  <2>2. [acq[r] EXCEPT !.todo = acq[r].seats \ acq[r].todo, !.step = "rollback"] \in AcqRec
    BY DEF AcqRec
  <2>3. QED
    BY <1>3, <2>1, <2>2 DEF AcquireTaken
<1>4. ASSUME NEW s \in Seats, AcquireRollback(r, s) PROVE TypeOK'
  <2>1. key' \in [Seats -> KeyRec]
    BY <1>4 DEF AcquireRollback, DelKey, NoKey, KeyRec
  <2>2. acq' \in [Locks -> AcqRec]
    BY <1>4 DEF AcquireRollback, Refused, NoAcq, AcqRec
  <2>3. QED
    BY <1>4, <2>1, <2>2 DEF AcquireRollback
<1>5. CASE AcquireCheck(r)
  <2>1. Refused \in AcqRec
    BY DEF Refused, NoAcq, AcqRec
  <2>2. [acq[r] EXCEPT !.step = "insert", !.lease = TTL] \in AcqRec
    <3>1. TTL \in Int
      BY ConstantsAssumption
    <3>2. acq[r] \in AcqRec
      OBVIOUS
    <3>3. QED
      BY <3>1, <3>2 DEF AcqRec
  <2>3. QED
    BY <1>5, <2>1, <2>2, Zenon DEF AcquireCheck
<1>6. CASE AcquireInsert(r)
  <2>1. row' \in [Locks -> RowRec]
    BY <1>6 DEF AcquireInsert, RowRec, AcqRec, Statuses
  <2>2. acq' \in [Locks -> AcqRec]
    BY <1>6 DEF AcquireInsert, NoAcq, AcqRec
  <2>3. QED
    BY <1>6, <2>1, <2>2 DEF AcquireInsert
<1>7. CASE AcquireCollide(r)
  BY <1>7 DEF AcquireCollide, Refused, NoAcq, AcqRec
<1>8. CASE AcquireFail(r)
  BY <1>8 DEF AcquireFail, NoAcq, AcqRec
<1>9. QED
  BY <1>1, <1>2, <1>3, <1>4, <1>5, <1>6, <1>7, <1>8 DEF AcquireBegin, AcquireStep

\* A handler's update writes a status.
LEMMA SetStatusType ==
  ASSUME TypeOK, NEW r \in Locks \cup {None}, NEW status \in Statuses, SetStatus(r, status)
  PROVE  row' \in [Locks -> RowRec]
<1>1. row \in [Locks -> RowRec] /\ row' = [row EXCEPT ![r].status = status]
  BY DEF TypeOK, SetStatus
<1>2. \A rec \in RowRec : [rec EXCEPT !.status = status] \in RowRec
  BY DEF RowRec
<1>3. row' = [row EXCEPT ![r] = [row[r] EXCEPT !.status = status]]
  BY <1>1
<1>4. QED
  BY <1>1, <1>2, <1>3

\* A DEL leaves no key.
LEMMA DelKeyType ==
  ASSUME TypeOK, NEW s, DelKey(s)
  PROVE  key' \in [Seats -> KeyRec]
  BY DEF TypeOK, DelKey, NoKey, KeyRec

\* A handler that ends has no locals.
LEMMA FinishType ==
  ASSUME TypeOK, NEW p \in Reqs, Finish(p)
  PROVE  req' \in [Reqs -> ReqRec]
  BY DEF TypeOK, Finish, NoReq, ReqRec

\* A loop of lua-script.service.ts that moves on.
LEMMA LoopedType ==
  ASSUME TypeOK, NEW p \in Reqs, NEW s
  PROVE  Looped(p, s) \in ReqRec
  BY DEF TypeOK, Looped, ReqRec

\* A loop of DELs that moves on.
LEMMA DelNextType ==
  ASSUME TypeOK, NEW p \in Reqs, NEW s, NEW after \in ReqRec, DelNext(p, s, after)
  PROVE  key' \in [Seats -> KeyRec] /\ req' \in [Reqs -> ReqRec]
<1>1. key' \in [Seats -> KeyRec]
  BY DelKeyType DEF DelNext
<1>2. req' \in [Reqs -> ReqRec]
  BY DEF TypeOK, DelNext, ReqRec
<1>3. QED
  BY <1>1, <1>2

\* A loop that looks at a key with GET.
LEMMA GetNextType ==
  ASSUME TypeOK, NEW p \in Reqs, NEW s \in Seats, NEW touch \in {"del", "set"},
         GetNext(p, s, touch)
  PROVE  req' \in [Reqs -> ReqRec]
<1>1. [req[p] EXCEPT !.step = touch, !.cur = s] \in ReqRec
  BY DEF TypeOK, ReqRec
<1>2. QED
  BY <1>1, LoopedType DEF TypeOK, GetNext

\* A handler that has read its row.
LEMMA EnterType ==
  ASSUME TypeOK, NEW p \in Reqs, NEW call \in Calls, NEW r \in Locks,
         NEW step \in {"get", "del", "write", "expire"}, NEW todo \in SUBSET Seats,
         Enter(p, call, r, step, todo)
  PROVE  req' \in [Reqs -> ReqRec]
<1>0. NoReq \in ReqRec
  BY DEF NoReq, ReqRec
<1>1. [NoReq EXCEPT !.call = call, !.lock = r, !.step = step, !.todo = todo] \in ReqRec
  BY <1>0 DEF ReqRec
<1>2. QED
  BY <1>1 DEF TypeOK, Enter

\* Types after a step of any other handler.
LEMMA RequestType ==
  ASSUME TypeOK, NEW p \in Reqs, RequestStart(p) \/ RequestStep(p) \/ RequestFail(p)
  PROVE  TypeOK'
<1> USE DEF TypeOK
<1>0. req[p] \in ReqRec /\ NoReq \in ReqRec
  BY DEF NoReq, ReqRec
<1>1. ASSUME NEW r \in Locks, ConfirmRead(p, r) PROVE TypeOK'
  BY <1>1 DEF ConfirmRead, Start, Enter, NoReq, ReqRec, RowRec
<1>2. ASSUME NEW r \in Locks, ReleaseRead(p, r) PROVE TypeOK'
  BY <1>2 DEF ReleaseRead, Start, Enter, NoReq, ReqRec, RowRec
<1>3. ASSUME NEW r \in Locks, CancelRead(p, r) PROVE TypeOK'
  <2>1. "cancel" \in Calls /\ row[r].seats \in SUBSET Seats
    BY <1>3 DEF CancelRead, Start, RowRec
  <2>2. CASE row[r].status = "LOCKED"
    BY <1>3, <2>1, <2>2, EnterType DEF CancelRead
  <2>3. CASE row[r].status # "LOCKED"
    BY <1>3, <2>1, <2>3, EnterType DEF CancelRead
  <2>4. QED
    BY <2>2, <2>3
<1>4. ASSUME NEW r \in Locks, NEW ext \in Extensions, ExtendRead(p, r, ext) PROVE TypeOK'
  BY <1>4, ConstantsAssumption DEF ExtendRead, Start, NoReq, ReqRec, RowRec
<1>5. CASE ConfirmExpire(p)
  BY <1>0, <1>5, SetStatusType, FinishType DEF ConfirmExpire, ReqRec, Statuses
<1>6. CASE ConfirmWrite(p)
  <2>1. req' \in [Reqs -> ReqRec]
    BY <1>6 DEF ConfirmWrite, ReqRec
  <2>2. QED
    BY <1>0, <1>6, <2>1, SetStatusType DEF ConfirmWrite, ReqRec, Statuses
<1>7. CASE CancelWrite(p)
  BY <1>0, <1>7, SetStatusType, FinishType DEF CancelWrite, ReqRec, Statuses
<1>8. CASE ReleaseDel(p)
  BY <1>8, DelKeyType, LoopedType DEF ReleaseDel
<1>9. CASE ReleaseWrite(p)
  BY <1>0, <1>9, SetStatusType, FinishType DEF ReleaseWrite, ReqRec, Statuses
<1>10. CASE ExtendExpire(p)
  <2>1. key' \in [Seats -> KeyRec]
    <3>1. req[p].ext \in Nat
      BY <1>0 DEF ReqRec
    <3>2. \A k \in KeyRec : [k EXCEPT !.ttl = req[p].ext] \in KeyRec
      BY <3>1 DEF KeyRec
    <3>3. \/ key' = key
          \/ key' = [key EXCEPT ![req[p].cur] = [key[req[p].cur] EXCEPT !.ttl = req[p].ext]]
      BY <1>10 DEF ExtendExpire
    <3>4. QED
      BY <3>2, <3>3
  <2>2. QED
    BY <1>10, <2>1, LoopedType DEF ExtendExpire
<1>11. CASE ExtendWrite(p)
  <2>1. row' \in [Locks -> RowRec]
    <3>1. req[p].lease + req[p].ext \in Int
      BY <1>0 DEF ReqRec
    <3>2. \A rec \in RowRec, x \in Int : [rec EXCEPT !.lease = x] \in RowRec
      BY DEF RowRec
    <3>3. row' = [row EXCEPT ![req[p].lock] =
                    [row[req[p].lock] EXCEPT !.lease = req[p].lease + req[p].ext]]
      BY <1>11 DEF ExtendWrite
    <3>4. QED
      BY <3>1, <3>2, <3>3
  <2>2. QED
    BY <1>11, <2>1, FinishType DEF ExtendWrite
<1>12. ASSUME NEW s \in Seats, ConfirmDel(p, s) PROVE TypeOK'
  BY <1>0, <1>12, DelNextType DEF ConfirmDel
<1>13. ASSUME NEW s \in Seats, CancelDel(p, s) PROVE TypeOK'
  <2>1. [req[p] EXCEPT !.step = "write", !.todo = {}] \in ReqRec
    BY <1>0 DEF ReqRec
  <2>2. QED
    BY <1>13, <2>1, DelNextType DEF CancelDel
<1>14. ASSUME NEW s \in Seats, ReleaseGet(p, s) PROVE TypeOK'
  BY <1>14, GetNextType DEF ReleaseGet
<1>15. ASSUME NEW s \in Seats, ExtendGet(p, s) PROVE TypeOK'
  BY <1>15, GetNextType DEF ExtendGet
<1>16. CASE RequestFail(p)
  BY <1>16, FinishType DEF RequestFail
<1>17. QED
  BY <1>1, <1>2, <1>3, <1>4, <1>5, <1>6, <1>7, <1>8, <1>9, <1>10, <1>11, <1>12,
     <1>13, <1>14, <1>15, <1>16 DEF RequestStart, RequestStep

\* Types after a step of the cron job.
LEMMA CleanupType ==
  ASSUME TypeOK, NEW j \in Jobs, CleanupStep(j) \/ CleanupFail(j)
  PROVE  TypeOK'
<1> USE DEF TypeOK
<1>0. job[j] \in JobRec
  OBVIOUS
<1>1. CASE CleanupScan(j)
  BY <1>1 DEF CleanupScan, Expired, JobRec
<1>2. ASSUME NEW r \in Locks, CleanupNext(j, r) PROVE TypeOK'
  BY <1>2 DEF CleanupNext, JobRec, RowRec
<1>3. ASSUME NEW s \in Seats, CleanupDel(j, s) PROVE TypeOK'
  <2>1. job' \in [Jobs -> JobRec]
    BY <1>3 DEF CleanupDel, JobRec
  <2>2. QED
    BY <1>3, <2>1, DelKeyType DEF CleanupDel
<1>4. CASE CleanupWrite(j)
  <2>1. job' \in [Jobs -> JobRec]
    BY <1>4 DEF CleanupWrite, JobRec
  <2>2. QED
    BY <1>0, <1>4, <2>1, SetStatusType DEF CleanupWrite, JobRec, Statuses
<1>5. CASE CleanupFail(j)
  BY <1>5 DEF CleanupFail, NoJob, JobRec
<1>6. QED
  BY <1>1, <1>2, <1>3, <1>4, <1>5 DEF CleanupStep

\* Types after a tick.
LEMMA TickType == TypeOK /\ Tick => TypeOK'
<1> SUFFICES ASSUME TypeOK, Tick PROVE TypeOK'
  OBVIOUS
<1> USE DEF TypeOK, Tick
<1>1. \A x \in Int : Older(x) \in Int
  BY ConstantsAssumption DEF Older
<1>2. key' \in [Seats -> KeyRec]
  <2>1. ASSUME NEW k \in KeyRec PROVE Aged(k) \in KeyRec
    <3>1. NoKey \in KeyRec
      BY DEF NoKey, KeyRec
    <3>2. ASSUME k.ttl > 1 PROVE [k EXCEPT !.ttl = k.ttl - 1] \in KeyRec
      <4>1. k.ttl - 1 \in Nat
        BY <3>2 DEF KeyRec
      <4>2. QED
        BY <4>1 DEF KeyRec
    <3>3. QED
      BY <3>1, <3>2 DEF Aged
  <2>2. QED
    BY <2>1
<1>3. row' \in [Locks -> RowRec]
  <2>1. ASSUME NEW rec \in RowRec PROVE [rec EXCEPT !.lease = Older(rec.lease)] \in RowRec
    <3>1. Older(rec.lease) \in Int
      BY <1>1 DEF RowRec
    <3>2. QED
      BY <3>1 DEF RowRec
  <2>2. QED
    BY <2>1
<1>4. acq' \in [Locks -> AcqRec]
  <2>1. ASSUME NEW rec \in AcqRec PROVE [rec EXCEPT !.lease = Older(rec.lease)] \in AcqRec
    <3>1. Older(rec.lease) \in Int
      BY <1>1 DEF AcqRec
    <3>2. QED
      BY <3>1 DEF AcqRec
  <2>2. QED
    BY <2>1
<1>5. req' \in [Reqs -> ReqRec]
  <2>1. ASSUME NEW rec \in ReqRec PROVE [rec EXCEPT !.lease = Older(rec.lease)] \in ReqRec
    <3>1. Older(rec.lease) \in Int
      BY <1>1 DEF ReqRec
    <3>2. QED
      BY <3>1 DEF ReqRec
  <2>2. QED
    BY <2>1
<1>6. QED
  BY <1>2, <1>3, <1>4, <1>5

\* Types, whatever the environment and the calls.
THEOREM TypeCorrect == Spec => []TypeOK
<1>1. TypeOK /\ [Next]_vars => TypeOK'
  <2> SUFFICES ASSUME TypeOK, [Next]_vars PROVE TypeOK'
    OBVIOUS
  <2>1. CASE UNCHANGED vars
    BY <2>1 DEF vars, TypeOK
  <2>2. QED
    BY <2>1, AcquireType, RequestType, CleanupType, TickType DEF Next
<1>2. QED
  BY <1>1, InitType, PTL DEF Spec

-----------------------------------------------------------------------------
(* What a refused acquire leaves.                                          *)

\* The keys an acquire has set are of the seats it has done, while it locks, and
\* of those it has still to do, while it rolls back.
Tracked ==
  \A r \in Locks :
    /\ acq[r].step = "lock" => acq[r].todo \subseteq acq[r].seats
    /\ \A s \in Seats : key[s].by = r =>
         /\ acq[r].step # "new"
         /\ acq[r].step = "lock" => s \in acq[r].seats \ acq[r].todo
         /\ acq[r].step = "rollback" => s \in acq[r].todo

\* What every step does but the SET of an acquire: keys stay whose they are, or go.
KeysFade == \A s \in Seats : key'[s].by = key[s].by \/ key'[s].by = None

AcquiresStay ==
  \A r \in Locks :
    acq'[r].step = acq[r].step /\ acq'[r].seats = acq[r].seats /\ acq'[r].todo = acq[r].todo

\* A refusal of r that leaves no key.
LeavesNothing(r) ==
  acq[r].step \in {"lock", "rollback"} /\ acq'[r].step = "refused" => \A s \in Seats : key'[s].by # r

TrackedStep == Tracked' /\ \A r \in Locks : LeavesNothing(r)

\* A step that is no acquire's.
LEMMA FadeTracked ==
  ASSUME Tracked, KeysFade, AcquiresStay
  PROVE  TrackedStep
BY ConstantsAssumption DEF Tracked, KeysFade, AcquiresStay, TrackedStep, LeavesNothing

\* A step of acquire r that sets no key is judged by r alone.
LEMMA OwnTracked ==
  ASSUME Tracked, KeysFade, NEW r \in Locks, \A q \in Locks \ {r} : acq'[q] = acq[q],
         LeavesNothing(r), acq'[r].step = "lock" => acq'[r].todo \subseteq acq'[r].seats,
         \A s \in Seats : key'[s].by = r =>
           /\ acq'[r].step # "new"
           /\ acq'[r].step = "lock" => s \in acq'[r].seats \ acq'[r].todo
           /\ acq'[r].step = "rollback" => s \in acq'[r].todo
  PROVE  TrackedStep
<1>1. \A q \in Locks, s \in Seats : key'[s].by = q => key[s].by = q
  BY ConstantsAssumption DEF KeysFade
<1>2. \A q \in Locks \ {r} : LeavesNothing(q)
  BY DEF LeavesNothing
<1> QED
  BY <1>1, <1>2 DEF Tracked, TrackedStep

\* A DEL leaves no holder, and so no acquire.
LEMMA DelFades == TypeOK => \A s \in Seats : DelKey(s) => KeysFade /\ key'[s].by = None
  BY DEF TypeOK, DelKey, KeysFade, NoKey

\* Every step of an acquire.
LEMMA AcquireTracked ==
  ASSUME TypeOK, Tracked, NEW r \in Locks, AcquireBegin(r) \/ AcquireStep(r) \/ AcquireFail(r)
  PROVE  TrackedStep
<1>0. acq \in [Locks -> AcqRec] /\ key \in [Seats -> KeyRec] /\ None \notin Locks
  BY ConstantsAssumption DEF TypeOK
<1>1. ASSUME NEW u \in Users, NEW S \in SUBSET Seats, AcquireStart(r, u, S) PROVE TrackedStep
  BY <1>0, <1>1, OwnTracked DEF AcquireStart, Tracked, KeysFade, LeavesNothing
<1>2. ASSUME NEW s \in Seats, AcquireSet(r, s) PROVE TrackedStep
  <2>1. /\ acq'[r].step \in {"check", "lock"} /\ acq'[r].seats = acq[r].seats
        /\ acq'[r].todo = acq[r].todo \ {s} /\ acq[r].step = "lock" /\ s \in acq[r].todo
        /\ \A q \in Locks \ {r} : acq'[q] = acq[q]
    BY <1>0, <1>2 DEF AcquireSet, AcqRec
  <2>2. key'[s].by = r /\ \A c \in Seats \ {s} : key'[c] = key[c]
    BY <1>0, <1>2 DEF AcquireSet
  <2> QED
    BY <2>1, <2>2 DEF Tracked, TrackedStep, LeavesNothing
<1>3. ASSUME NEW s \in Seats, AcquireTaken(r, s) PROVE TrackedStep
  <2> DEFINE got == acq[r].seats \ acq[r].todo
  <2>1. /\ acq[r].step = "lock" /\ key' = key
        /\ \A q \in Locks \ {r} : acq'[q] = acq[q]
        /\ got = {} => acq'[r].step = "refused"
        /\ got # {} => acq'[r].step = "rollback" /\ acq'[r].todo = got
    BY <1>0, <1>3 DEF AcquireTaken, AcqRec, Refused, NoAcq
  <2>2. \A c \in Seats : key[c].by = r => c \in got
    BY <2>1 DEF Tracked
  <2> QED
    BY <2>1, <2>2, OwnTracked DEF KeysFade, LeavesNothing
<1>4. ASSUME NEW s \in Seats, AcquireRollback(r, s) PROVE TrackedStep
  <2>1. /\ acq[r].step = "rollback" /\ s \in acq[r].todo
        /\ \A q \in Locks \ {r} : acq'[q] = acq[q]
        /\ acq[r].todo = {s} => acq'[r].step = "refused"
        /\ acq[r].todo # {s} => acq'[r].step = "rollback" /\ acq'[r].todo = acq[r].todo \ {s}
    BY <1>0, <1>4 DEF AcquireRollback, AcqRec, Refused, NoAcq
  <2>2. KeysFade /\ key'[s].by = None
    BY <1>4, DelFades DEF AcquireRollback
  <2>3. \A c \in Seats : key'[c].by = r => c \in acq[r].todo \ {s}
    BY <1>0, <2>1, <2>2 DEF Tracked, KeysFade
  <2> QED
    BY <2>1, <2>2, <2>3, OwnTracked DEF LeavesNothing
<1>5. CASE AcquireCheck(r) \/ AcquireInsert(r) \/ AcquireCollide(r) \/ AcquireFail(r)
  <2>1. /\ key' = key /\ \A q \in Locks \ {r} : acq'[q] = acq[q]
        /\ acq'[r].step \in {"refused", "insert", "done", "died"}
        /\ acq[r].step \in {"lock", "rollback"} => acq'[r].step = "died"
    BY <1>0, <1>5 DEF AcquireCheck, AcquireInsert, AcquireCollide, AcquireFail, AcqRec,
       Refused, NoAcq
  <2> QED
    BY <2>1, OwnTracked DEF KeysFade, LeavesNothing
<1> QED
  BY <1>1, <1>2, <1>3, <1>4, <1>5 DEF AcquireBegin, AcquireStep, AcquireFail

\* Every other step lets keys fade.
LEMMA OthersTracked ==
  ASSUME TypeOK, Tracked,
         \/ \E p \in Reqs : RequestStart(p) \/ RequestStep(p) \/ RequestFail(p)
         \/ \E j \in Jobs : CleanupStep(j) \/ CleanupFail(j)
  PROVE  TrackedStep
<1> SUFFICES KeysFade /\ AcquiresStay
  BY FadeTracked
<1>1. ASSUME NEW p \in Reqs, RequestStart(p) PROVE key' = key /\ acq' = acq
  BY <1>1 DEF RequestStart, ConfirmRead, ReleaseRead, CancelRead, ExtendRead
<1>2. ASSUME NEW p \in Reqs, RequestStep(p) PROVE KeysFade /\ acq' = acq
  <2>1. CASE ConfirmExpire(p) \/ ConfirmWrite(p) \/ CancelWrite(p) \/ ReleaseWrite(p) \/ ExtendWrite(p)
    BY <2>1 DEF ConfirmExpire, ConfirmWrite, CancelWrite, ReleaseWrite, ExtendWrite, KeysFade
  <2>2. CASE ReleaseDel(p)
    BY <2>2 DEF ReleaseDel, DelKey, KeysFade, TypeOK, NoKey
  <2>3. CASE ExtendExpire(p)
    BY <2>3 DEF ExtendExpire, KeysFade, TypeOK, KeyRec
  <2>4. ASSUME NEW s \in Seats, ConfirmDel(p, s) \/ CancelDel(p, s) PROVE KeysFade /\ acq' = acq
    BY <2>4, DelFades DEF ConfirmDel, CancelDel, DelNext
  <2>5. ASSUME NEW s \in Seats, ReleaseGet(p, s) \/ ExtendGet(p, s) PROVE KeysFade /\ acq' = acq
    BY <2>5 DEF ReleaseGet, ExtendGet, KeysFade
  <2> QED
    BY <1>2, <2>1, <2>2, <2>3, <2>4, <2>5 DEF RequestStep
<1>3. ASSUME NEW j \in Jobs, CleanupStep(j) PROVE KeysFade /\ acq' = acq
  <2>1. ASSUME NEW s \in Seats, CleanupDel(j, s) PROVE KeysFade /\ acq' = acq
    BY <2>1, DelFades DEF CleanupDel
  <2>2. CASE CleanupScan(j) \/ CleanupWrite(j) \/ \E r \in Locks : CleanupNext(j, r)
    BY <2>2 DEF CleanupScan, CleanupWrite, CleanupNext, KeysFade
  <2> QED
    BY <1>3, <2>1, <2>2 DEF CleanupStep
<1>4. ASSUME NEW p \in Reqs, RequestFail(p) PROVE key' = key /\ acq' = acq
  BY <1>4 DEF RequestFail
<1>5. ASSUME NEW j \in Jobs, CleanupFail(j) PROVE key' = key /\ acq' = acq
  BY <1>5 DEF CleanupFail
<1>6. (key' = key => KeysFade) /\ (acq' = acq => AcquiresStay)
  BY DEF KeysFade, AcquiresStay
<1> QED
  BY <1>1, <1>2, <1>3, <1>4, <1>5, <1>6

\* A tick lets keys fade and moves no acquire.
LEMMA TickTracked ==
  ASSUME TypeOK, Tracked, Tick
  PROVE  TrackedStep
<1>1. KeysFade
  <2>1. \A k \in KeyRec : Aged(k).by = k.by \/ Aged(k).by = None
    BY DEF Aged, NoKey, KeyRec
  <2> QED
    BY <2>1 DEF Tick, TypeOK, KeysFade
<1>2. AcquiresStay
  BY DEF Tick, TypeOK, AcqRec, AcquiresStay
<1> QED
  BY <1>1, <1>2, FadeTracked

\* An acquire refused because a seat was taken has given back every key it had
\* set, whatever runs out, fails or is taken over meanwhile.
THEOREM RefusedGivesBack == Spec => TakenAcquireHoldsNothing
<1>1. TypeOK /\ Tracked /\ [Next]_vars => TrackedStep
  <2> SUFFICES ASSUME TypeOK, Tracked, [Next]_vars
               PROVE  TrackedStep
    OBVIOUS
  <2>1. CASE UNCHANGED vars
    BY <2>1, FadeTracked DEF vars, KeysFade, AcquiresStay
  <2> QED
    BY <2>1, AcquireTracked, OthersTracked, TickTracked DEF Next
<1>2. Init => Tracked
  BY ConstantsAssumption DEF Init, Tracked, NoKey, NoAcq
<1>3. TypeOK /\ Tracked /\ [Next]_vars => Tracked'
  BY <1>1 DEF TrackedStep
<1>4. TypeOK /\ Tracked /\ [Next]_vars =>
        [\A r \in Locks :
           /\ acq[r].step \in {"lock", "rollback"}
           /\ acq'[r].step = "refused"
           => \A s \in Seats : key'[s].by # r]_vars
  BY <1>1 DEF TrackedStep, LeavesNothing
<1> QED
  BY <1>2, <1>3, <1>4, TypeCorrect, PTL DEF Spec, TakenAcquireHoldsNothing
=============================================================================
