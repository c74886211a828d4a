CONSTANTS
  Lies = {0, 1, 21}
  Modulus = 16
  Step = 2
  Cycle = 1
  Watchdog = 2
  Gaps = {1, 3}
  FirstFrame = 6
  Jumps = {0, 1, 2, 4}
  MaxEvents = 5
  Devices = {d1, d2}
  Names = {n1, n2}
  Me = me
  Other = other
  Nothing = nothing
  MaxXid = 2
SPECIFICATION MCSpec
INVARIANTS InBounds AllDecoded WorkBounded LossAccounted JitterIsSteady AnswerIsOurs DiscoveryExact
CHECK_DEADLOCK FALSE
