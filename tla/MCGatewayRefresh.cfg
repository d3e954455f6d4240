CONSTANTS
  None = None
  Sessions = {s1, s2}
  Tokens = {t1, t2, t3, t4}
  Workers = {w1, w2}
  Tries = 2
  Faults = TRUE
SPECIFICATION Spec
SYMMETRY Symmetry
INVARIANTS NoStaleCall LiveTokenIsHeld
