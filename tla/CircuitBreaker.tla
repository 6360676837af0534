--------------------------- MODULE CircuitBreaker ---------------------------
(***************************************************************************)
(* One circuit breaker of the API gateway (a Go mutex guards its fields)   *)
(* and the requests that run through it.  canExecute, the proxied call and *)
(* recordFailure or recordSuccess are three critical sections apart: the   *)
(* circuit may open, half-open and close again while a call is under way,  *)
(* and the call's result is then recorded in a state it was not made in.   *)
(*                                                                         *)
(* Time is the ticks since lastStateChange, counted up to Timeout.         *)
(***************************************************************************)
EXTENDS Integers

CONSTANTS
  Calls,        \* concurrent proxied requests
  MaxFailures,
  Timeout       \* in ticks

ASSUME ConstantsAssumption ==
  /\ MaxFailures \in Nat \ {0}
  /\ Timeout \in Nat \ {0}

VARIABLES
  state,
  failures,   \* counted up to MaxFailures: nothing reads more of it
  age,        \* time.Now() - lastStateChange
  busy,       \* the calls under way
  since,      \* observer: the ticks since the circuit opened
  recorded    \* observer: the failures recorded since it was last closed or reset

fields == <<state, failures, age>>
vars   == <<state, failures, age, busy, since, recorded>>

UpTo(n, max) == IF n < max THEN n ELSE max

TypeOK ==
  /\ state \in {"closed", "open", "halfOpen"}
  /\ failures \in 0..MaxFailures
  /\ age \in 0..Timeout
  /\ busy \subseteq Calls
  /\ since \in 0..Timeout
  /\ recorded \in 0..MaxFailures

Init ==
  /\ state = "closed"
  /\ failures = 0
  /\ age = 0
  /\ busy = {}
  /\ since = 0
  /\ recorded = 0

-----------------------------------------------------------------------------
\* lastStateChange = time.Now()
Become(s) == state' = s /\ age' = 0

CoolingDown == state = "open" /\ age < Timeout

\* ErrCircuitOpen.
RefuseCall(c) ==
  /\ c \notin busy
  /\ CoolingDown
  /\ UNCHANGED vars

\* canExecute: the first request after the timeout half-opens the circuit, and in
\* that state every other one is let through too.
Admit(c) ==
  /\ c \notin busy
  /\ ~CoolingDown
  /\ IF state = "open" THEN Become("halfOpen") ELSE UNCHANGED <<state, age>>
  /\ busy' = busy \cup {c}
  /\ UNCHANGED <<failures, since, recorded>>

\* Mutant: a failure that comes back late opens the open circuit again.
FailAndReopen(c) ==
  /\ c \in busy
  /\ busy' = busy \ {c}
  /\ failures' = UpTo(failures + 1, MaxFailures)
  /\ recorded' = UpTo(recorded + 1, MaxFailures)
  /\ IF state = "closed" /\ failures + 1 < MaxFailures
     THEN UNCHANGED <<state, age, since>>
     ELSE /\ Become("open")
          /\ since' = IF state = "open" THEN since ELSE 0

\* recordFailure: an error of client.Do or a 5xx answer.
Fail(c) ==
  /\ c \in busy
  /\ busy' = busy \ {c}
  /\ failures' = UpTo(failures + 1, MaxFailures)
  /\ recorded' = UpTo(recorded + 1, MaxFailures)
  /\ IF state = "halfOpen" \/ (state = "closed" /\ failures + 1 >= MaxFailures)
     THEN Become("open") /\ since' = 0
     ELSE UNCHANGED <<state, age, since>>

\* Mutants: the circuit closes with the old failures still counted; it never
\* closes; a success takes one failure back, be there one or not.
SucceedAndKeep(c) ==
  /\ c \in busy
  /\ busy' = busy \ {c}
  /\ IF state = "halfOpen"
     THEN Become("closed") /\ recorded' = 0 /\ UNCHANGED failures
     ELSE /\ failures' = IF state = "closed" THEN failures \div 2 ELSE failures
          /\ UNCHANGED <<state, age, recorded>>
  /\ UNCHANGED since

SucceedInVain(c) ==
  /\ c \in busy
  /\ busy' = busy \ {c}
  /\ failures' = failures \div 2
  /\ UNCHANGED <<state, age, since, recorded>>

SucceedMinusOne(c) ==
  /\ c \in busy
  /\ busy' = busy \ {c}
  /\ failures' = failures - 1
  /\ UNCHANGED <<state, age, since, recorded>>

\* recordSuccess.
Succeed(c) ==
  /\ c \in busy
  /\ busy' = busy \ {c}
  /\ IF state = "halfOpen"
     THEN Become("closed") /\ failures' = 0 /\ recorded' = 0
     ELSE /\ failures' = IF state = "closed" THEN failures \div 2 ELSE failures
          /\ UNCHANGED <<state, age, recorded>>
  /\ UNCHANGED since

\* Reset, which the gateway itself never calls.
Reset ==
  /\ Become("closed")
  /\ failures' = 0
  /\ recorded' = 0
  /\ UNCHANGED <<busy, since>>

Tick ==
  /\ age' = UpTo(age + 1, Timeout)
  /\ since' = UpTo(since + 1, Timeout)
  /\ UNCHANGED <<state, failures, busy, recorded>>

Next ==
  \/ \E c \in Calls : Admit(c) \/ RefuseCall(c) \/ Fail(c) \/ Succeed(c)
  \/ Reset
  \/ Tick

Spec == Init /\ [][Next]_vars

\* Time passes, a call ends (the HTTP client gives up after 30 s), and clients
\* keep sending requests.
FairSpec ==
  /\ Spec
  /\ WF_vars(Tick)
  /\ \A c \in Calls : WF_vars(Fail(c) \/ Succeed(c)) /\ WF_vars(Admit(c))

-----------------------------------------------------------------------------
\* The circuit refuses requests for Timeout from the moment it opened, neither
\* longer nor shorter: no late result, refused request or half-open period of
\* before makes the cool-down it is in start again or end early.
CoolDownIsTimeout == state = "open" => age = since

\* A closed circuit opens only after MaxFailures failures were recorded since it
\* was last closed: none recorded before it closed, in an earlier outage or its
\* half-open period, counts again.
OpeningIsEarned ==
  [][state = "closed" /\ state' = "open" => recorded' = MaxFailures]_vars

\* Once no call fails any more the circuit closes for good, whatever was in flight
\* and however much was counted when the outage ended.
Recovers == <>[][\A c \in Calls : ~Fail(c)]_vars => <>[](state = "closed")
=============================================================================
