SPECIFICATION OperationsSpec
CONSTANTS
  Owners = {1, 2}
  Hooks = 2
  CleanupTicks = {t1, t2}
  MaxOwned = 2
  BatchLimit = 1
  AttemptLimit = 2
  MaxMishaps = 2
  UploadIds = {up}
  Images = {up}
  Contents = {"raw", "big"}
  Completers = {c1, c2}
  Collectors = {k1}
  MaxUpsets = 1
  Users = {u1}
  Fqdns = {mine, theirs}
  Controlled = {mine}
  Handlers = {}
  Workers = {w1, w2}
  MaxAttempts = 2
  MaxTransfers = 0
  MaxTokens = 3
  Instances = {i1, i2}
  Requests = {r1, r2}
  MaxValue = 1
  MaxVersion = 1
  MaxKey = 2
CHECK_DEADLOCK FALSE
INVARIANTS
  CleanupHolds
  UploadsHold
  VerificationHolds
  SettingsHold
PROPERTY OperationsSettle
