CONSTANTS
  None = None
  c1 = c1  c2 = c2
  u1 = u1
  portal = portal  rp = rp
  Tokens = {t1, t2, t3}
  Codes = {c1, c2}
  Users = {u1}
  Clients = {portal, rp}
  Workers = {w1, w2}
  CodeUser <- TwoClientsUser
  CodeClient <- TwoClientsClient
SPECIFICATION Spec
SYMMETRY Symmetry
INVARIANTS TypeOK OneLivePerGrant LiveRowsAccountedFor
PROPERTIES ReplayStaysInFamily SweepRevokesSnapshot ImplementsGrantLifecycle
CHECK_DEADLOCK FALSE
