\* Everything may happen: what still holds, and what must still end.
SPECIFICATION FairSpec
CONSTANTS
  Seats = {s1, s2}
  Users = {u1}
  Locks = {r1, r2}
  Reqs = {p1}
  Jobs = {j1}
  TTL = 1
  Extensions = {1}
  MaxLease = 1
  Calls = {"confirm", "release", "extend", "cleanup"}
  Perils = {"expiry", "overlap", "failure"}
  None = None
PROPERTIES TakenAcquireHoldsNothing KeysGo LocksEnd
