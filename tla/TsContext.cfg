\* Three tasks and two fields, with and without AsyncLocalStorage.
SPECIFICATION Spec
CONSTANTS
  Tasks = {t0, t1, t2}
  Root = t0
  Fields = {f, g}
  MaxCalls = 5
  Absent = Absent
SYMMETRY Symmetry
INVARIANTS TasksIsolated NothingLeftActive
PROPERTIES RunRestores
CHECK_DEADLOCK FALSE
