----------------------------- MODULE Idempotency -----------------------------
(***************************************************************************)
(* The idempotency library: requests that carry one Idempotency-Key are    *)
(* handled once at a time, and later ones get the first one's answer.      *)
(*                                                                         *)
(* The library keeps two keys in Redis, the result and a lock; both time   *)
(* out, and every Redis command may fail.  No controller uses it today.    *)
(***************************************************************************)
EXTENDS Integers, FiniteSets

CONSTANTS
  Posts,         \* requests with the key, at a time
  LockTtl,       \* ticks of the lock, 30 s
  ResultTtl,     \* ticks of the result, 24 h
  MaxRuns,       \* bound: times the handler is run
  PostRegimes    \* the sets of perils to consider

\* slow:   a handler may outlast its lock
\* redis:  a command may fail
\* errors: the handler may throw
\* crash:  a process may die
AllPostPerils == {"slow", "redis", "errors", "crash"}

ASSUME IdempotencyAssumption ==
  /\ LockTtl \in Nat \ {0} /\ ResultTtl \in Nat \ {0} /\ MaxRuns \in Nat
  /\ PostRegimes \subseteq SUBSET AllPostPerils

VARIABLES
  result,      \* the ticks left of the stored result, 0 if there is none
  lock,        \* the ticks left of the lock, 0 if there is none
  post,        \* where each request is
  runs,        \* observer: handlers started so far
  postPerils

idempotencyVars == <<result, lock, post, runs, postPerils>>

PostSteps == {"none", "lock", "handler", "store", "release"}

IdempotencyTypeOK ==
  /\ result \in 0..ResultTtl /\ lock \in 0..LockTtl
  /\ post \in [Posts -> PostSteps]
  /\ runs \in 0..MaxRuns
  /\ postPerils \in PostRegimes

IdempotencyInit ==
  /\ result = 0 /\ lock = 0
  /\ post = [p \in Posts |-> "none"]
  /\ runs = 0
  /\ postPerils \in PostRegimes

-----------------------------------------------------------------------------
Move(p, step) == post' = [post EXCEPT ![p] = step]
RedisFails == "redis" \in postPerils

\* checkIdempotency: a result is replayed; an error is taken for no result.
CheckIdempotency(p) ==
  /\ post[p] = "none"
  /\ result = 0 \/ RedisFails
  /\ Move(p, "lock")
  /\ UNCHANGED <<result, lock, runs, postPerils>>

\* Mutant: SET without NX.
AcquireAnyLock(p) ==
  /\ post[p] = "lock" /\ runs < MaxRuns
  /\ lock' = LockTtl /\ Move(p, "handler") /\ runs' = runs + 1
  /\ UNCHANGED <<result, postPerils>>

\* acquireIdempotencyLock: SET NX EX.  Refused or failed it is a 409; failed it may
\* have set the lock all the same.
AcquireIdempotencyLock(p) ==
  /\ post[p] = "lock"
  /\ \/ /\ lock = 0 /\ runs < MaxRuns
        /\ lock' = LockTtl /\ Move(p, "handler") /\ runs' = runs + 1
     \/ lock # 0 /\ Move(p, "none") /\ UNCHANGED <<lock, runs>>
     \/ /\ RedisFails
        /\ lock' \in {lock, IF lock = 0 THEN LockTtl ELSE lock}
        /\ Move(p, "none") /\ UNCHANGED runs
  /\ UNCHANGED <<result, postPerils>>

\* next.handle(): an error passes by the tap, and leaves the lock.
Handle(p) ==
  /\ post[p] = "handler"
  /\ \/ Move(p, "store")
     \/ "errors" \in postPerils /\ Move(p, "none")
  /\ UNCHANGED <<result, lock, runs, postPerils>>

\* storeResult swallows an error.
StoreAnswer(p) ==
  /\ post[p] = "store"
  /\ result' = ResultTtl \/ (RedisFails /\ UNCHANGED result)
  /\ Move(p, "release")
  /\ UNCHANGED <<lock, runs, postPerils>>

\* releaseIdempotencyLock: DEL, whosever lock it is by now.
ReleaseIdempotencyLock(p) ==
  /\ post[p] = "release"
  /\ lock' = 0 \/ (RedisFails /\ UNCHANGED lock)
  /\ Move(p, "none")
  /\ UNCHANGED <<result, runs, postPerils>>

PostDies(p) ==
  /\ "crash" \in postPerils /\ post[p] # "none"
  /\ Move(p, "none")
  /\ UNCHANGED <<result, lock, runs, postPerils>>

\* Unless a handler may be slow, it is over, and the lock released, before the
\* lock's last tick.
PostTick ==
  /\ result + lock > 0
  /\ "slow" \in postPerils \/ lock # 1 \/ \A p \in Posts : post[p] \notin {"handler", "store", "release"}
  /\ result' = IF result = 0 THEN 0 ELSE result - 1
  /\ lock' = IF lock = 0 THEN 0 ELSE lock - 1
  /\ UNCHANGED <<post, runs, postPerils>>

IdempotencyNext ==
  \/ \E p \in Posts :
       \/ CheckIdempotency(p) \/ AcquireIdempotencyLock(p) \/ Handle(p) \/ StoreAnswer(p)
       \/ ReleaseIdempotencyLock(p) \/ PostDies(p)
  \/ PostTick

IdempotencySpec == IdempotencyInit /\ [][IdempotencyNext]_idempotencyVars

-----------------------------------------------------------------------------
\* As long as handlers are quicker than their lock, two of one key never run
\* together, although a lock names no owner and is deleted by whoever ends, and
\* whatever Redis, the handlers and the processes do.
NeverTogether ==
  "slow" \notin postPerils => Cardinality({p \in Posts : post[p] \in {"handler", "store"}}) <= 1
=============================================================================
