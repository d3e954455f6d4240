CONSTANTS
  Workers = {w1, w2}
  MaxPerms = 1
SPECIFICATION Spec
PROPERTIES RefusedUserGetsNoToken
