SPECIFICATION EachSpec
CONSTANTS
  p1 = p1
  p2 = p2
  Caller = {p1, p2}
  Setups <- AllSetups
  MaxAttempts = 3
  MaxEntries = 128
  TTL = 1
  MaxTime = 3
  Exchanges <- AllExchanges
  Sessions <- AllSessions
  Callers = {"mic", "app"}
  maxVideoFrames = 2
  Cap = 2
  Plans <- AllPlans
INVARIANTS
  PrefixesApart
  Sound
  ReplyTold
  Asked
  Session
  VideoOnce
  Remembered
PROPERTIES
  LeastRecent
  ImplementsShelves
