SPECIFICATION Spec
CONSTANTS
  Remotes = {r1, r2}
  Loose = {r2}
  SpanIds = {s1}
  Fields = {f1}
  MaxOpen = 3
  MaxStack = 2
  MaxCalls = 4
  NoIds = NoIds
  ZeroIds = ZeroIds
  Absent = Absent
INVARIANTS InStep
PROPERTIES RequestRestoresFields BracketRestoresTrace
