SPECIFICATION BusySpec
CONSTANTS
    Tx = {t1}
    Worker = {w1}
    Reconciler = {r1}
    Account = {a1}
    Source <- OneSource
    Payout = {}
    NoHash = NoHash
    NoTx = NoTx
    NoRow = NoRow
    MaxBuilds = 1
    SubmitAttempts = 1
    MaxRequeues = 0
    HashWriteCanFail = FALSE
    RejectionsDefinite = TRUE
    NullHashScans = FALSE
    SweepSerialised = TRUE
CHECK_DEADLOCK FALSE
PROPERTY PendingIsPickedUp
