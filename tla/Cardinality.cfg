SPECIFICATION Spec
CONSTANTS
  Threads = {t1, t2}
  Keys = {k1}
  Values = {v1, v2, v3}
  Requests <- Moving
  PruneInterval = 2
  Delay = 1
  MaxTime = 5
  Overflow = Overflow
  NoLimit = NoLimit
  Never = Never
INVARIANTS RecentSurvives WindowBound
PROPERTIES OverflowJustified
SYMMETRY Symmetric
