\* Requests about one lock come one by one and complete; no lock runs out.
SPECIFICATION Spec
CONSTANTS
  Seats = {s1, s2}
  Users = {u1, u2}
  Locks = {r1, r2, r3}
  Reqs = {p1, p2}
  Jobs = {j1}
  TTL = 1
  Extensions = {1}
  MaxLease = 2
  Calls = {"confirm", "release", "extend", "cancel", "cleanup"}
  Perils = {}
  None = None
SYMMETRY Symmetry
INVARIANTS TypeOK NoDoubleBooking LockHoldsItsKeys
PROPERTIES ActsAsTable
