SPECIFICATION MeterSpec
CONSTANTS
  Callers = {t1, t2}
  MaxSetups = 2
  MaxUses = 3
  MaxInst = 2
  Levels = {2}
  Proxy = Proxy
  External = External
  Nil = Nil
  Uncaptured = Uncaptured
SYMMETRY Symmetry
INVARIANTS MeterTypeOK NothingFromProxy ReportsAddUp BoundAfterSetup
CHECK_DEADLOCK FALSE
