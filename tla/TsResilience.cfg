SPECIFICATION FairSpec
CONSTANTS
  Callers = {c1, c2}
  Signals = {"logs", "traces"}
  Policies <- Mixed
  Outside = Outside
  Threshold = 2
  Cooldown = 1
INVARIANTS StrikesShowInHealth
PROPERTIES OneStrikePerAttempt ImplementsBreaker EveryTimedCallSettles
