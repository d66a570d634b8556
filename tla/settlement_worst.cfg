SPECIFICATION Spec
CONSTANTS
    Tx = {t1}
    Worker = {w1, w2}
    Reconciler = {r1}
    Account = {a1}
    Source <- OneSource
    Payout = {}
    NoHash = NoHash
    NoTx = NoTx
    NoRow = NoRow
    MaxBuilds = 2
    SubmitAttempts = 2
    MaxRequeues = 1
    HashWriteCanFail = TRUE
    RejectionsDefinite = FALSE
    NullHashScans = TRUE
    SweepSerialised = FALSE
CHECK_DEADLOCK FALSE
SYMMETRY Symmetric
INVARIANTS TypeOK HoldGate ConfirmedIsPaid BooksAreTrue
