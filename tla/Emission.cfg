\* Events, traced functions and direct users of the ticket API, on two signals.
SPECIFICATION FairSpec
CONSTANTS
  Signals = {"logs", "traces"}
  Calls = {c1, c2}
  Kinds = {"log", "trace", "direct"}
  QueuePolicies <- UpToTwo
  Rates = {"fraction"}
  MaxAttempts = 2
  NoTicket = NoTicket
INVARIANT QueuesAsReported SlotsAreOwned
PROPERTY OnlyOwnerFrees SlotsReturn
