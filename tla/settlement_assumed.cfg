SPECIFICATION Spec
CONSTANTS
    Tx = {t1, p1}
    Worker = {w1, w2}
    Reconciler = {r1}
    Account = {a1}
    Source <- OneSource
    Payout = {p1}
    NoHash = NoHash
    NoTx = NoTx
    NoRow = NoRow
    MaxBuilds = 2
    SubmitAttempts = 2
    MaxRequeues = 1
    HashWriteCanFail = FALSE
    RejectionsDefinite = TRUE
    NullHashScans = TRUE
    SweepSerialised = TRUE
CHECK_DEADLOCK FALSE
SYMMETRY Symmetric
INVARIANTS AtMostOnePayment FindableOnChain FailedIsUnpaid
PROPERTIES ConfirmedIsFinal KeepsContract
