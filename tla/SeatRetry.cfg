\* Overlapping and failing requests, but no lock is given up and none runs out.
SPECIFICATION Spec
CONSTANTS
  Seats = {s1, s2}
  Users = {u1, u2}
  Locks = {r1, r2, r3}
  Reqs = {p1, p2}
  Jobs = {j1}
  TTL = 2
  Extensions = {2}
  MaxLease = 3
  Calls = {"confirm", "extend", "cleanup"}
  Perils = {"overlap", "failure"}
  None = None
SYMMETRY Symmetry
INVARIANTS NoDoubleBooking
