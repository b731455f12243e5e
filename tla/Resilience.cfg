\* One signal, calls that retry and calls without a timeout, a backend that
\* hangs and recovers.
SPECIFICATION RecoverySpec
CONSTANTS
  Callers = {c1, c2}
  Signals = {"logs"}
  Pools = {p1, p2}
  NoPool = NoPool
  Outside = Outside
  Backends = {"up", "down"}
  Policies <- RetriedOrInline
  Threshold = 2
  Cooldown = 1
  MaxWorkers = 1
INVARIANT TrippedShowsInHealth ExecutorDiscipline
PROPERTY ImplementsBreaker EveryTimedCallReturns BreakerRecovers
