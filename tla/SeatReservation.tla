--------------------------- MODULE SeatReservation ---------------------------
(***************************************************************************)
(* The seat-reservation service: seat locks in Redis, reservations in      *)
(* Postgres, and the HTTP handlers and the cron job that move both.        *)
(*                                                                         *)
(* A handler is a sequence of steps, one per `await`: between two of them  *)
(* any other request, another replica's cron job, or time may run.  What a *)
(* handler read before an await is kept in its own record and used after   *)
(* it, stale or not, as the code does.                                     *)
(*                                                                         *)
(* Time is counted in ticks and kept as the time each lock has LEFT:       *)
(* key[s].ttl for Redis, row[r].lease for the lockExpiry column.  A key    *)
(* goes when it has 0 left; a row is expired (`lockExpiry < now`) below 0. *)
(* The order of a request's seats is chosen step by step, so every order a *)
(* client can send is covered.                                             *)
(***************************************************************************)
EXTENDS Integers, FiniteSets

CONSTANTS
  Seats,       \* the lock keys seat:lock:<journey>:<seat> of one journey
  Users,
  Locks,       \* the acquire requests ever sent; each may create one reservation
  Reqs,        \* concurrent requests about existing locks
  Jobs,        \* one cleanup cron job per replica of the service
  TTL,         \* LOCK_TTL_SECONDS, in ticks
  Extensions,  \* the extensionSeconds clients send, in ticks
  MaxLease,    \* bound: no extension takes a lease beyond it
  Calls,       \* the handlers in use
  Perils,      \* what the environment may do, a subset of AllPerils
  None

AllCalls == {"confirm", "release", "extend", "cancel", "cleanup"}

\* expiry:  time may run out on a lock that is in use
\* overlap: two requests about the same lock may be in flight together
\* failure: an await may reject, or the process die, in the middle of a handler
AllPerils == {"expiry", "overlap", "failure"}

ASSUME ConstantsAssumption ==
  /\ TTL \in Nat \ {0}
  /\ Extensions \subseteq Nat \ {0}
  /\ MaxLease \in Nat
  /\ Calls \subseteq AllCalls
  /\ Perils \subseteq AllPerils
  /\ None \notin Users \cup Locks \cup Seats

VARIABLES
  key,   \* Redis: what each lock key holds (`by` is not stored: the acquire that set it)
  row,   \* Postgres: the reservation an acquire inserted
  acq,   \* locals of each POST /locks/acquire in flight
  req,   \* locals of each other request in flight
  job    \* locals of each cleanup job in progress

vars == <<key, row, acq, req, job>>

-----------------------------------------------------------------------------
Statuses == {"LOCKED", "CONFIRMED", "RELEASED", "EXPIRED", "CANCELLED"}

NoKey  == [user |-> None, by |-> None, ttl |-> 0]
NoRow  == [status |-> "none", user |-> None, seats |-> {}, lease |-> 0]
NoAcq  == [step |-> "new", user |-> None, seats |-> {}, todo |-> {}, lease |-> 0]
Refused == [NoAcq EXCEPT !.step = "refused"]
NoReq  == [call |-> "none", step |-> "idle", lock |-> None, todo |-> {},
           cur |-> None, lease |-> 0, ext |-> 0]
NoJob  == [batch |-> {}, lock |-> None, todo |-> {}]

KeyRec == [user : Users \cup {None}, by : Locks \cup {None}, ttl : Nat]
RowRec == [status : Statuses \cup {"none"}, user : Users \cup {None},
           seats : SUBSET Seats, lease : Int]
AcqRec == [step : {"new", "lock", "rollback", "check", "insert", "refused", "died", "done"},
           user : Users \cup {None}, seats : SUBSET Seats, todo : SUBSET Seats, lease : Int]
ReqRec == [call : Calls \cup {"none"}, step : {"idle", "get", "set", "del", "write", "expire"},
           lock : Locks \cup {None}, todo : SUBSET Seats, cur : Seats \cup {None},
           lease : Int, ext : Nat]
JobRec == [batch : SUBSET Locks, lock : Locks \cup {None}, todo : SUBSET Seats]

TypeOK ==
  /\ key \in [Seats -> KeyRec]
  /\ row \in [Locks -> RowRec]
  /\ acq \in [Locks -> AcqRec]
  /\ req \in [Reqs -> ReqRec]
  /\ job \in [Jobs -> JobRec]

Init ==
  /\ key = [s \in Seats |-> NoKey]
  /\ row = [r \in Locks |-> NoRow]
  /\ acq = [r \in Locks |-> NoAcq]
  /\ req = [p \in Reqs |-> NoReq]
  /\ job = [j \in Jobs |-> NoJob]

Held(s) == key[s].user # None

Acquiring(r) == acq[r].step \in {"lock", "rollback", "check", "insert"}
Requested(r) == \E p \in Reqs : req[p].lock = r
InUse(r)     == Acquiring(r) \/ row[r].status = "LOCKED" \/ Requested(r)

\* reservation.update writes the status whatever the row holds by then.
SetStatus(r, status) == row' = [row EXCEPT ![r].status = status]
DelKey(s) == key' = [key EXCEPT ![s] = NoKey]

-----------------------------------------------------------------------------
(* POST /locks/acquire: LocksService.acquireLock, which calls              *)
(* LuaScriptService.atomicLockSeats.  The journey and the seats exist: a   *)
(* request that fails that validation touches nothing.                     *)

AcquireStart(r, u, S) ==
  /\ acq[r].step = "new"
  /\ S # {}
  /\ acq' = [acq EXCEPT ![r] = [step |-> "lock", user |-> u, seats |-> S,
                                todo |-> S, lease |-> 0]]
  /\ UNCHANGED <<key, row, req, job>>

\* Mutant: SETNX with no EX.
SetWithoutExpiry(r, s) ==
  /\ acq[r].step = "lock"
  /\ s \in acq[r].todo
  /\ ~Held(s)
  /\ key' = [key EXCEPT ![s] = [user |-> acq[r].user, by |-> r, ttl |-> 0]]
  /\ acq' = [acq EXCEPT ![r].todo = @ \ {s},
                        ![r].step = IF acq[r].todo = {s} THEN "check" ELSE "lock"]
  /\ UNCHANGED <<row, req, job>>

\* SET key userId NX EX ttl, answered OK.
AcquireSet(r, s) ==
  /\ acq[r].step = "lock"
  /\ s \in acq[r].todo
  /\ ~Held(s)
  /\ key' = [key EXCEPT ![s] = [user |-> acq[r].user, by |-> r, ttl |-> TTL]]
  /\ acq' = [acq EXCEPT ![r].todo = @ \ {s},
                        ![r].step = IF acq[r].todo = {s} THEN "check" ELSE "lock"]
  /\ UNCHANGED <<row, req, job>>

\* Mutants: the rollback deletes every key asked for; there is no rollback.
RollBackAll(r, s) ==
  /\ acq[r].step = "lock" /\ s \in acq[r].todo /\ Held(s)
  /\ acq' = [acq EXCEPT ![r] = [@ EXCEPT !.todo = acq[r].seats, !.step = "rollback"]]
  /\ UNCHANGED <<key, row, req, job>>

NoRollBack(r, s) ==
  /\ acq[r].step = "lock" /\ s \in acq[r].todo /\ Held(s)
  /\ acq' = [acq EXCEPT ![r] = Refused]
  /\ UNCHANGED <<key, row, req, job>>

\* SET answered nil: another lock holds s.  The seats locked so far are the
\* ones to give back.
AcquireTaken(r, s) ==
  /\ acq[r].step = "lock"
  /\ s \in acq[r].todo
  /\ Held(s)
  /\ LET got == acq[r].seats \ acq[r].todo
     IN  acq' = [acq EXCEPT ![r] = IF got = {} THEN Refused
                                   ELSE [@ EXCEPT !.todo = got, !.step = "rollback"]]
  /\ UNCHANGED <<key, row, req, job>>

\* DEL of a seat locked earlier, whoever holds it by now.
AcquireRollback(r, s) ==
  /\ acq[r].step = "rollback"
  /\ s \in acq[r].todo
  /\ DelKey(s)
  /\ acq' = [acq EXCEPT ![r] = IF acq[r].todo = {s} THEN Refused
                                ELSE [@ EXCEPT !.todo = acq[r].todo \ {s}]]
  /\ UNCHANGED <<row, req, job>>

Booked(S) == \E r \in Locks : row[r].status = "CONFIRMED" /\ row[r].seats \cap S # {}

\* Mutant: no look at the confirmed reservations.
NoCheck(r) ==
  /\ acq[r].step = "check"
  /\ acq' = [acq EXCEPT ![r] = [@ EXCEPT !.step = "insert", !.lease = TTL]]
  /\ UNCHANGED <<key, row, req, job>>

\* findMany CONFIRMED with one of the seats: a 409 leaves the keys in Redis.
\* Otherwise lockId and lockExpiry are computed.
AcquireCheck(r) ==
  /\ acq[r].step = "check"
  /\ acq' = [acq EXCEPT ![r] = IF Booked(acq[r].seats) THEN Refused
                                ELSE [@ EXCEPT !.step = "insert", !.lease = TTL]]
  /\ UNCHANGED <<key, row, req, job>>

\* reservation.create.
AcquireInsert(r) ==
  /\ acq[r].step = "insert"
  /\ row' = [row EXCEPT ![r] = [status |-> "LOCKED", user |-> acq[r].user,
                                seats |-> acq[r].seats, lease |-> acq[r].lease]]
  /\ acq' = [acq EXCEPT ![r] = [NoAcq EXCEPT !.step = "done"]]
  /\ UNCHANGED <<key, req, job>>

\* reservation.create rejects: lockId is `lock_<ms>_<userId[0..8]>` and unique,
\* so a row the same user created in the same millisecond (its lease, unless
\* extended, started at the same time) refuses this one.  The keys stay.
AcquireCollide(r) ==
  /\ acq[r].step = "insert"
  /\ \E o \in Locks \ {r} : /\ row[o].status # "none"
                            /\ row[o].user = acq[r].user
                            /\ row[o].lease = acq[r].lease
  /\ acq' = [acq EXCEPT ![r] = Refused]
  /\ UNCHANGED <<key, row, req, job>>

-----------------------------------------------------------------------------
(* Handlers about an existing lock.  Each begins by reading its row.       *)

\* A request may start on lock r: without the peril "overlap" clients send one
\* request about a lock at a time.
Start(p, call, r) ==
  /\ call \in Calls
  /\ req[p] = NoReq
  /\ row[r].status # "none"
  /\ "overlap" \in Perils \/ ~Requested(r)

Enter(p, call, r, step, todo) ==
  req' = [req EXCEPT ![p] = [NoReq EXCEPT !.call = call, !.lock = r,
                                          !.step = step, !.todo = todo]]

Finish(p) == req' = [req EXCEPT ![p] = NoReq]

\* DEL of one of the seats the handler read, with no look at the holder.
DelNext(p, s, after) ==
  /\ req[p].step = "del"
  /\ s \in req[p].todo
  /\ DelKey(s)
  /\ req' = IF req[p].todo = {s} THEN [req EXCEPT ![p] = after]
                                 ELSE [req EXCEPT ![p].todo = @ \ {s}]

\* Mutant: a reservation of any status is confirmed.
ConfirmAny(p, r) ==
  /\ Start(p, "confirm", r)
  /\ Enter(p, "confirm", r, IF row[r].lease < 0 THEN "expire" ELSE "write", row[r].seats)
  /\ UNCHANGED <<key, row, acq, job>>

(* POST /reservations/confirm: ReservationsService.confirmReservation.     *)
ConfirmRead(p, r) ==
  /\ Start(p, "confirm", r)
  /\ row[r].status = "LOCKED"
  /\ Enter(p, "confirm", r, IF row[r].lease < 0 THEN "expire" ELSE "write", row[r].seats)
  /\ UNCHANGED <<key, row, acq, job>>

ConfirmExpire(p) ==
  /\ req[p].call = "confirm" /\ req[p].step = "expire"
  /\ SetStatus(req[p].lock, "EXPIRED")
  /\ Finish(p)
  /\ UNCHANGED <<key, acq, job>>

ConfirmWrite(p) ==
  /\ req[p].call = "confirm" /\ req[p].step = "write"
  /\ SetStatus(req[p].lock, "CONFIRMED")
  /\ req' = [req EXCEPT ![p].step = "del"]
  /\ UNCHANGED <<key, acq, job>>

ConfirmDel(p, s) ==
  /\ req[p].call = "confirm"
  /\ DelNext(p, s, NoReq)
  /\ UNCHANGED <<row, acq, job>>

(* DELETE /reservations/:id: ReservationsService.cancelReservation.        *)
CancelRead(p, r) ==
  /\ Start(p, "cancel", r)
  /\ row[r].status \notin {"CANCELLED", "EXPIRED"}
  /\ IF row[r].status = "LOCKED" THEN Enter(p, "cancel", r, "del", row[r].seats)
                                 ELSE Enter(p, "cancel", r, "write", {})
  /\ UNCHANGED <<key, row, acq, job>>

CancelDel(p, s) ==
  /\ req[p].call = "cancel"
  /\ DelNext(p, s, [req[p] EXCEPT !.step = "write", !.todo = {}])
  /\ UNCHANGED <<row, acq, job>>

CancelWrite(p) ==
  /\ req[p].call = "cancel" /\ req[p].step = "write"
  /\ SetStatus(req[p].lock, "CANCELLED")
  /\ Finish(p)
  /\ UNCHANGED <<key, acq, job>>

(* DELETE /locks/:lockId: LocksService.releaseLock, which calls            *)
(* LuaScriptService.atomicReleaseSeats.                                    *)
ReleaseRead(p, r) ==
  /\ Start(p, "release", r)
  /\ row[r].status = "LOCKED"
  /\ Enter(p, "release", r, "get", row[r].seats)
  /\ UNCHANGED <<key, row, acq, job>>

\* After the loop has dealt with seat s: on to the next GET, or to the update.
Looped(p, s) ==
  [req[p] EXCEPT !.todo = @ \ {s}, !.cur = None,
                 !.step = IF req[p].todo = {s} THEN "write" ELSE "get"]

\* GET of a key: only a key with the reservation's userId is touched next.
GetNext(p, s, touch) ==
  /\ req[p].step = "get"
  /\ s \in req[p].todo
  /\ req' = [req EXCEPT ![p] = IF key[s].user = row[req[p].lock].user
                               THEN [req[p] EXCEPT !.step = touch, !.cur = s]
                               ELSE Looped(p, s)]

ReleaseGet(p, s) ==
  /\ req[p].call = "release"
  /\ GetNext(p, s, "del")
  /\ UNCHANGED <<key, row, acq, job>>

ReleaseDel(p) ==
  /\ req[p].call = "release" /\ req[p].step = "del"
  /\ DelKey(req[p].cur)
  /\ req' = [req EXCEPT ![p] = Looped(p, req[p].cur)]
  /\ UNCHANGED <<row, acq, job>>

ReleaseWrite(p) ==
  /\ req[p].call = "release" /\ req[p].step = "write"
  /\ SetStatus(req[p].lock, "RELEASED")
  /\ Finish(p)
  /\ UNCHANGED <<key, acq, job>>

(* POST /locks/extend: LocksService.extendLock, which calls                *)
(* LuaScriptService.extendLockTTL.                                         *)
ExtendRead(p, r, ext) ==
  /\ Start(p, "extend", r)
  /\ row[r].status = "LOCKED"
  /\ row[r].lease >= 0
  /\ row[r].lease + ext <= MaxLease
  /\ req' = [req EXCEPT ![p] = [NoReq EXCEPT !.call = "extend", !.lock = r,
                                  !.step = "get", !.todo = row[r].seats,
                                  !.lease = row[r].lease, !.ext = ext]]
  /\ UNCHANGED <<key, row, acq, job>>

ExtendGet(p, s) ==
  /\ req[p].call = "extend"
  /\ GetNext(p, s, "set")
  /\ UNCHANGED <<key, row, acq, job>>

\* EXPIRE key ext: sets the time left, it does not add; nothing on a key that is gone.
ExtendExpire(p) ==
  /\ req[p].call = "extend" /\ req[p].step = "set"
  /\ LET s == req[p].cur
     IN  /\ key' = IF Held(s) THEN [key EXCEPT ![s].ttl = req[p].ext] ELSE key
         /\ req' = [req EXCEPT ![p] = Looped(p, s)]
  /\ UNCHANGED <<row, acq, job>>

\* lockExpiry := the expiry read at the start + ext, however many keys were extended.
ExtendWrite(p) ==
  /\ req[p].call = "extend" /\ req[p].step = "write"
  /\ row' = [row EXCEPT ![req[p].lock].lease = req[p].lease + req[p].ext]
  /\ Finish(p)
  /\ UNCHANGED <<key, acq, job>>

-----------------------------------------------------------------------------
(* The cron job LocksService.cleanupExpiredLocks.                          *)

\* Mutant: `gt: now` for `lt: now`.
NotYetExpired == {r \in Locks : row[r].status = "LOCKED" /\ row[r].lease > 0}

Expired == {r \in Locks : row[r].status = "LOCKED" /\ row[r].lease < 0}

CleanupScan(j) ==
  /\ "cleanup" \in Calls
  /\ job[j] = NoJob
  /\ Expired # {}
  /\ job' = [job EXCEPT ![j].batch = Expired]
  /\ UNCHANGED <<key, row, acq, req>>

\* The for loop moves on to another reservation of the batch.
CleanupNext(j, r) ==
  /\ job[j].lock = None
  /\ r \in job[j].batch
  /\ job' = [job EXCEPT ![j] = [batch |-> @.batch \ {r}, lock |-> r,
                                todo |-> row[r].seats]]
  /\ UNCHANGED <<key, row, acq, req>>

CleanupDel(j, s) ==
  /\ job[j].lock # None
  /\ s \in job[j].todo
  /\ DelKey(s)
  /\ job' = [job EXCEPT ![j].todo = @ \ {s}]
  /\ UNCHANGED <<row, acq, req>>

CleanupWrite(j) ==
  /\ job[j].lock # None
  /\ job[j].todo = {}
  /\ SetStatus(job[j].lock, "EXPIRED")
  /\ job' = [job EXCEPT ![j].lock = None]
  /\ UNCHANGED <<key, acq, req>>

-----------------------------------------------------------------------------
(* The environment.                                                        *)

\* A handler stops at an await: Redis or Postgres rejected, or the pod died.
\* What it had done so far stays done.
AcquireFail(r) ==
  /\ "failure" \in Perils
  /\ Acquiring(r)
  /\ acq' = [acq EXCEPT ![r] = [NoAcq EXCEPT !.step = "died"]]
  /\ UNCHANGED <<key, row, req, job>>

RequestFail(p) ==
  /\ "failure" \in Perils
  /\ req[p] # NoReq
  /\ Finish(p)
  /\ UNCHANGED <<key, row, acq, job>>

CleanupFail(j) ==
  /\ "failure" \in Perils
  /\ job[j] # NoJob
  /\ job' = [job EXCEPT ![j] = NoJob]
  /\ UNCHANGED <<key, row, acq, req>>

\* What a tick must not do unless "expiry" is among the perils: run out a key or
\* a lease somebody is using.
NothingRunsOut ==
  /\ \A s \in Seats : key[s].ttl = 1 => ~InUse(key[s].by)
  /\ \A r \in Locks : row[r].status = "LOCKED" => row[r].lease > 0
  /\ \A r \in Locks : acq[r].step = "insert" => acq[r].lease > 0
  /\ \A p \in Reqs : req[p].call = "extend" => req[p].lease > 0

\* A lease is counted down until no extension can bring it back.
Older(lease) == IF lease < -MaxLease THEN lease ELSE lease - 1

\* Mutant: a key with no time left stays.
AgedBelowZero(k) == [k EXCEPT !.ttl = @ - 1]

\* A key set without EX (ttl 0) would stay for ever.
Aged(k) == IF k.ttl = 1 THEN NoKey
           ELSE IF k.ttl > 1 THEN [k EXCEPT !.ttl = @ - 1] ELSE k

\* One tick: a key with none left vanishes.  Only leases that can still matter
\* are counted down.
Tick ==
  /\ "expiry" \in Perils \/ NothingRunsOut
  /\ key' = [s \in Seats |-> Aged(key[s])]
  /\ row' = [r \in Locks |-> IF row[r].status = "LOCKED"
                             THEN [row[r] EXCEPT !.lease = Older(@)] ELSE row[r]]
  /\ acq' = [r \in Locks |-> IF acq[r].step = "insert"
                             THEN [acq[r] EXCEPT !.lease = Older(@)] ELSE acq[r]]
  /\ req' = [p \in Reqs |-> IF req[p].call = "extend"
                            THEN [req[p] EXCEPT !.lease = Older(@)] ELSE req[p]]
  /\ UNCHANGED job

AcquireBegin(r) == \E u \in Users, S \in SUBSET Seats : AcquireStart(r, u, S)

AcquireStep(r) ==
  \/ \E s \in Seats : AcquireSet(r, s) \/ AcquireTaken(r, s) \/ AcquireRollback(r, s)
  \/ AcquireCheck(r) \/ AcquireInsert(r) \/ AcquireCollide(r)

RequestStart(p) ==
  \E r \in Locks :
    \/ ConfirmRead(p, r) \/ ReleaseRead(p, r) \/ CancelRead(p, r)
    \/ \E ext \in Extensions : ExtendRead(p, r, ext)

RequestStep(p) ==
  \/ ConfirmExpire(p) \/ ConfirmWrite(p) \/ CancelWrite(p)
  \/ ReleaseDel(p) \/ ReleaseWrite(p) \/ ExtendExpire(p) \/ ExtendWrite(p)
  \/ \E s \in Seats : \/ ConfirmDel(p, s) \/ CancelDel(p, s)
                      \/ ReleaseGet(p, s) \/ ExtendGet(p, s)

CleanupStep(j) ==
  \/ CleanupScan(j) \/ CleanupWrite(j)
  \/ \E r \in Locks : CleanupNext(j, r)
  \/ \E s \in Seats : CleanupDel(j, s)

Next ==
  \/ \E r \in Locks : AcquireBegin(r) \/ AcquireStep(r) \/ AcquireFail(r)
  \/ \E p \in Reqs : RequestStart(p) \/ RequestStep(p) \/ RequestFail(p)
  \/ \E j \in Jobs : CleanupStep(j) \/ CleanupFail(j)
  \/ Tick

Spec == Init /\ [][Next]_vars

\* Time passes, and the cron schedule keeps a cleanup job going.  Nothing is
\* assumed of the requests: a handler may stop at any await and never go on.
FairSpec == Spec /\ WF_vars(Tick) /\ \A j \in Jobs : WF_vars(CleanupStep(j))

-----------------------------------------------------------------------------
(* Safety when nothing runs out, see Calm.                                 *)

\* The conditions under which a lock protects its seats: time never runs out on
\* a lock in use, and either the requests about one lock come one by one and
\* complete, or locks are never given up before they expire.
Calm ==
  /\ "expiry" \notin Perils
  /\ \/ Perils = {}
     \/ Calls \cap {"release", "cancel"} = {}

\* A release or a cancellation of r is under way.
GivingUp(r) == \E p \in Reqs : req[p].lock = r /\ req[p].call \in {"release", "cancel"}

\* The seats that r has booked, or will book if it is confirmed now.
Claims(r) ==
  IF acq[r].step = "insert" THEN acq[r].seats
  ELSE IF row[r].status = "CONFIRMED" \/ (row[r].status = "LOCKED" /\ ~GivingUp(r))
       THEN row[r].seats ELSE {}

\* No seat is sold twice: of two confirmed reservations none shares a seat with
\* the other (docs/PROJECT_PHASES_OVERVIEW.md:117, "no double-booking").
NoDoubleBooking ==
  \A r, q \in Locks :
    r # q /\ row[r].status = "CONFIRMED" /\ row[q].status = "CONFIRMED"
      => row[r].seats \cap row[q].seats = {}

\* A lock that can still be confirmed has each of its seats' keys in Redis, set
\* by itself: what confirmReservation relies on, as it never looks at Redis.
LockHoldsItsKeys ==
  \A r \in Locks : row[r].status = "LOCKED" =>
    \A s \in Claims(r) : key[s].by = r

\* The claims as a table of seats.
Table == INSTANCE SeatTable WITH
  holder <- [s \in Seats |-> IF \E r \in Locks : s \in Claims(r)
                             THEN CHOOSE r \in Locks : s \in Claims(r) ELSE None],
  sold   <- {r \in Locks : row[r].status = "CONFIRMED"}

\* Seen through the claims the handlers' many steps are the steps of the atomic
\* table: the seats of a request pass to it all together (when acquireLock has
\* found none of them booked) and leave it all together, and a confirmation sells
\* only what it holds (docs/PERFORMANCE_IMPROVEMENTS.md:256, "all or nothing").
ActsAsTable == Table!Spec

-----------------------------------------------------------------------------
(* What stays true whatever the environment does.                          *)

\* An acquire refused because a seat was taken has given back every key it had
\* set: its rollback (lua-script.service.ts:43-45) skips none, whatever ran out
\* or was taken over meanwhile.
TakenAcquireHoldsNothing ==
  [][\A r \in Locks :
       /\ acq[r].step \in {"lock", "rollback"}
       /\ acq'[r].step = "refused"
       => \A s \in Seats : key'[s].by # r]_vars

\* extendLock never counts: a client may go on extending for ever.
ExtensionsEnd == <>[][\A p \in Reqs : ~ExtendExpire(p) /\ ~ExtendWrite(p)]_vars
CleanupRecovers == <>[][\A j \in Jobs : ~CleanupFail(j)]_vars

\* Any key an acquire set, a leaked one included, is gone in the end, without a
\* handler or a cleanup job doing anything (README.md:87, "auto-release").
KeysGo ==
  ExtensionsEnd => \A r \in Locks, s \in Seats : key[s].by = r ~> key[s].by # r

\* The cleanup job, unless it fails for ever, leaves no reservation LOCKED for
\* ever, even if its client and its handlers vanish.
LocksEnd ==
  ExtensionsEnd /\ CleanupRecovers
    => \A r \in Locks : row[r].status = "LOCKED" ~> row[r].status # "LOCKED"

-----------------------------------------------------------------------------
(* What the documentation says and the code does not do.                   *)

\* locks.controller.ts:87, "Extend the TTL of an existing lock by additional
\* seconds": an extension never brings a key's end nearer.
ExtendExtends ==
  [][\A p \in Reqs, s \in Seats :
       req[p].step = "set" /\ req'[p].step # "set" /\ req[p].cur = s
         => key'[s].ttl >= key[s].ttl]_vars

\* reservations.controller.ts:27, a confirmation "updates status to CONFIRMED": a
\* reservation once CONFIRMED can only be cancelled.
ConfirmedStays ==
  [][\A r \in Locks : row[r].status = "CONFIRMED"
       => row'[r].status \in {"CONFIRMED", "CANCELLED"}]_vars
=============================================================================
