SPECIFICATION FairSpec
CONSTANTS
  Request = {r1, r2, r3}
  Key = {k1}
  Body = {b1, b2}
  Nobody = Nobody
  HandlerChecks = TRUE
  MaxExpiries = 2
INVARIANTS OneHandlerPerKey NoDuplicate
PROPERTY RequestEnds
CHECK_DEADLOCK FALSE
