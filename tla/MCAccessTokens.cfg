CONSTANTS
  Workers = {w1, w2}
  Jtis = {j1, j2}
  c1 = c1
  c2 = c2
  Clients = {c1, c2}
  Ttl <- MixedTtl
  Leeway = 1
  MaxTime = 3
  Faults = TRUE
  Readers = {rd}
  Users = {adm, clerk}
  Roles = {super, staff}
  SuperAdmin = super
  None = nil
  Depts = {root, leaf}
  Below <- MCBelow
  Grants <- MCGrants
  Portals <- MCPortals
  MaxEntries = 1
  MaxWrites = 1
  adm = adm
  clerk = clerk
  staff = staff
  root = root
  leaf = leaf
SYMMETRY Symmetry
SPECIFICATION MCSpec
INVARIANTS RevokedUntilExpiry IndexCoversTokensInUse ShownWithinReach OwnRowNeedsALiveReader
