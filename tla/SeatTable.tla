------------------------------ MODULE SeatTable ------------------------------
(***************************************************************************)
(* What seat locking promises, with no Redis, no Postgres and no steps: a  *)
(* table in which each seat has one holder, taken all or none and in one   *)
(* step (locks/scripts/atomic-lock.lua), then sold or given back.          *)
(***************************************************************************)
EXTENDS FiniteSets

CONSTANTS Seats, Locks, None

VARIABLES
  holder,  \* the lock that has each seat, or None
  sold     \* the locks that were confirmed

tvars == <<holder, sold>>

SeatsOf(r) == {s \in Seats : holder[s] = r}

Init ==
  /\ holder = [s \in Seats |-> None]
  /\ sold = {}

\* All the seats, if each of them is free.
Take(r, S) ==
  /\ S # {}
  /\ SeatsOf(r) = {}
  /\ \A s \in S : holder[s] = None
  /\ holder' = [s \in Seats |-> IF s \in S THEN r ELSE holder[s]]
  /\ UNCHANGED sold

Sell(r) ==
  /\ SeatsOf(r) # {}
  /\ sold' = sold \cup {r}
  /\ UNCHANGED holder

\* All of them at once, sold or not.
GiveBack(r) ==
  /\ SeatsOf(r) # {}
  /\ holder' = [s \in Seats |-> IF holder[s] = r THEN None ELSE holder[s]]
  /\ sold' = sold \ {r}

Next ==
  \E r \in Locks : (\E S \in SUBSET Seats : Take(r, S)) \/ Sell(r) \/ GiveBack(r)

Spec == Init /\ [][Next]_tvars
=============================================================================
