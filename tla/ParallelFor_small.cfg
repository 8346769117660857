CONSTANTS
  Modulus = 16
  Requests <- SmallRequests
SPECIFICATION LoopSpec
INVARIANTS ExactlyOnce EpilogueLast
CHECK_DEADLOCK FALSE
