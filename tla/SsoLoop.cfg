\* One browser with two tabs at the login page.
SPECIFICATION FairFlowSpec
PROPERTY ResumptionEnds
CHECK_DEADLOCK FALSE
CONSTANTS
  Tabs = {t1, t2}
  FirstTab = t1
  Users = {u}
  Nobody = nobody
  Refused = {}
  MaxFlows = 2
  MaxRequests = 2
  MaxCodes = 4
  MaxMishaps = 0
