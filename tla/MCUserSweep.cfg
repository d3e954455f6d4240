CONSTANTS
  None = None
  c1 = c1  c2 = c2
  u1 = u1
  portal = portal  rp = rp
  Tokens = {t1, t2, t3}
  Codes = {c1}
  Users = {u1}
  Clients = {portal}
  Workers = {w1, w2}
  CodeUser <- OneCodeUser
  CodeClient <- OneCodeClient
SPECIFICATION Spec
PROPERTIES UserSweepIsTotal
CHECK_DEADLOCK FALSE
