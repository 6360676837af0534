\* As many requests at a time as failures open the circuit (5 in proxy.go).
SPECIFICATION FairSpec
CONSTANTS
  Calls = {c1, c2, c3, c4, c5}
  MaxFailures = 5
  Timeout = 3
INVARIANTS TypeOK CoolDownIsTimeout
PROPERTIES OpeningIsEarned Recovers
