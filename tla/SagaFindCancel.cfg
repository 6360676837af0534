SPECIFICATION SagaSpec
CONSTANTS
  Bookings = {b1}
  Handlers = {h1}
  MaxRetries = 1
  MaxFailed = 1
  MaxRefunds = 2
  SagaRegimes = {{}}
  Nobody = Nobody
INVARIANTS
  RefundedIsCancelled
CHECK_DEADLOCK FALSE
