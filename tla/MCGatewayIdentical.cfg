SPECIFICATION Spec
CONSTANTS
  p1 = p1
  p2 = p2
  Caller = {p1, p2}
  Setups <- AllSetups
  MaxAttempts = 3
  MaxEntries = 128
  TTL = 1
  MaxTime = 3
INVARIANT HitIsIdentical
