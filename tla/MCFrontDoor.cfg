SPECIFICATION Spec
INVARIANTS SessionIsOfTheBrowser ErrorsHaveCause AttemptsBounded LockoutsEnd TokensVerifiable
  UnknownOnlyBriefly CertificateStays UpstreamSeesVerified SecretsAreKnown ShutOutStaysOut
PROPERTY NoSettledReplay
CHECK_DEADLOCK FALSE
CONSTANTS
  Tabs = {t1, t2}
  FirstTab = t1
  Users = {u, v}
  Nobody = nobody
  Refused = {v}
  MaxFlows = 2
  MaxRequests = 2
  MaxCodes = 2
  MaxMishaps = 2
  Logins = {l1, l2}
  AccountMax = 2
  IpMax = 3
  MaxTries = 4
  MaxTrouble = 2
  Life = 4
  RenewAhead = 2
  PublishGrace = 2
  TokenTtl = 2
  Handlers = {h1, h2}
  Processes = {p1, p2}
  MaxTime = 8
  MaxKeys = 3
  Interval = 4
  MinInterval = 2
  KeyGrace = 3
  InitRetry = 1
  MaxAttempts = 2
  Backoff <- MCBackoff
  MaxClock = 9
  MaxSetbacks = 2
  LifeDays = 22
  CheckInterval = 2
  MaxRetryDelay = 2
  LastDay = 42
  MaxFaults = 2
  AuthMax = 1
  TokenMax = 1
  MaxRefused = 1
  Apps = {c1, c2}
  FirstApp = c1
  Admins = {a1, a2}
  Callers = {q1}
  MaxAppCalls = 2
  MaxSecrets = 3
