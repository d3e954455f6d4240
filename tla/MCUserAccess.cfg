CONSTANTS
  Workers = {w1, w2}
  MaxPerms = 2
SPECIFICATION Spec
SYMMETRY Symmetry
INVARIANT StaleOnlyAfterOverlap
