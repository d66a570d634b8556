SPECIFICATION BackOfficeSpec
CONSTANTS
  Syncer = {y1}
  Stream = {m1}
  TxHash = {x1, x2}
  MaxPayments = 2
  PageLimit = 1
  MaxFaults = 1
  Endpoint = {e1, e2}
  Deliverer = {w1, w2}
  NoEndpoint = NoEndpoint
  MaxAttempts = 2
  MaxRetry = 1
  MaxWebhookFaults = 1
  Asset = {XLM}
  Native = XLM
  Sweeper = {s1, s2}
  Custodial = {c1}
  NoSweep = NoSweep
  NetworkFee = 1
  TopBalance = 4
  Policies <- MCPolicies
  ManualAmounts = {1, 3}
  MaxSweepFaults = 1
  CacheWriter = {v1, v2}
  CacheSigner = {"env", "kms"}
  TopValue = 1
  Grant = 1
  BalanceThreshold = 0
  MaxMoves = 1
  MaxGrants = 2
  MaxCacheFaults = 1
  Party = {z1, z2}
  Refresher = {r1, r2}
  MaxEditions = 1
  MaxListFaults = 1
  AuditPass = {p1, p2}
  HorizonLags = FALSE
  MaxAuditFaults = 1
SYMMETRY BackOfficeSymmetry
INVARIANTS IndexSafe HookSafe TreasurySafe CacheSafe ListSafe AuditSafe
CHECK_DEADLOCK FALSE
