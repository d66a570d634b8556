SPECIFICATION PayoutSpec
CONSTANTS
  ScheduleId = {s1}
  Runner = {r1, r2}
  Client = {c1}
  NoSchedule = NoSchedule
  Never = Never
  Interval <- TwoFrequencies
  EnumKnowsRunning = TRUE
  EndDate <- Ends
  LastDay = 2
  Order = {o1}
  Hook = {h1, h2}
  NoOrder = NoOrder
  FiatAmount = {4, 10, 15}
  Home = {d1, d2}
  AssetCode = {USD}
  Registrar = {g1, g2}
  Transfer = {x1}
  Poller = {q1, q2}
  NoAnchor = NoAnchor
  NoRecord = NoRecord
  MaxRestarts = 1
  XTransfer = {t1, t2}
  XWorker = {w1, w2}
  NoTx = NoTx
  WithFee = {t1}
  Batch = {b1, b2}
  BatchSize = 2
  MonthlyLimit = 2
  MaxBatchFaults = 1
  Requester = {v1, v2}
  MaxTransfers = 1
  StructuringMinCount = 2
  StructuringUnit = 4
  TolerancePercent = 25
  Amount = {3}
  MaxRows = 3
SYMMETRY PayoutSymmetry
INVARIANTS ScheduleSafe FiatSafe AnchorSafe  BatchSafe VelocitySafe
CHECK_DEADLOCK FALSE
