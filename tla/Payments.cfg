\* One reservation (payments of two share nothing), attempted up to three times.
SPECIFICATION Spec
CONSTANTS
  Reservations = {r1}
  Txns = {t1, t2, t3}
  Reqs = {p1, p2, p3}
  Amount = 2
  MaxGiven = 4
  Regimes <- Each
  None = None
SYMMETRY Symmetry
CHECK_DEADLOCK FALSE
INVARIANTS TypeOK RefundsMatch RecordedRefundsWereMade LivePaymentIsTheOnlyCharge EventsTellStatus
