\* An extension shorter than the time left.
SPECIFICATION Spec
CONSTANTS
  Seats = {s1, s2}
  Users = {u1, u2}
  Locks = {r1, r2, r3}
  Reqs = {p1, p2}
  Jobs = {j1}
  TTL = 2
  Extensions = {1, 2}
  MaxLease = 3
  Calls = {"extend"}
  Perils = {}
  None = None
SYMMETRY Symmetry
PROPERTIES ExtendExtends
