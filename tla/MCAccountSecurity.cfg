SPECIFICATION Spec
CONSTANTS
  Workers = {w1, w2}
  Browsers = {b1, b2}
  Passwords = {p0, p1, p2}
  Initial = p0
  None = None
  HistoryMax = 1
  MaxWrites = 2
  Faults = TRUE
SYMMETRY Symmetric
INVARIANT OldSessionsEnd
PROPERTY NoRecentPasswordReturns
