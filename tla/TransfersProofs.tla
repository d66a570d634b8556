-------------------------- MODULE TransfersProofs --------------------------
(***************************************************************************)
(* Theorems about Transfers for every set of transfers, workers,           *)
(* reconcilers and accounts and every value of the bounds.  Four inductive *)
(* invariants are proved one on top of the other:                          *)
(*                                                                         *)
(*   Base      types, and what the program counters say of the registers;  *)
(*   HoldInv   a held transfer that is not approved is touched by nobody;  *)
(*   BookInv   what the books say is backed by the ledger;                 *)
(*   PayInv    the row owns the only envelope there is (needs the three    *)
(*             assumptions below).                                         *)
(***************************************************************************)
EXTENDS Transfers, TLAPS

HasEnvelope(w) ==
    wpc[w] \in {"submitting", "waiting", "ambiguous", "confirmed", "rejected"}

WorkerShape ==
    \A w \in Worker :
        /\ wpc[w] = "idle" <=> wtx[w] = NoTx
        /\ HasEnvelope(w) => wenv[w] \in Envelope /\ wenv[w].tx = wtx[w]
        /\ wpc[w] \in {"idle", "claimed", "loaded"} => wtries[w] = 0
        /\ wpc[w] = "submitting" => wtries[w] < SubmitAttempts

ReconcilerShape ==
    \A r \in Reconciler :
        /\ rpc[r] = "idle" <=> rtx[r] = NoRow
        /\ rpc[r] = "check" => rhash[r] \in Envelope /\ rhash[r].tx = rtx[r]

HashShape == \A t \in Tx : txHash[t] # NoHash => txHash[t].tx = t

Base == TypeOK /\ WorkerShape /\ ReconcilerShape /\ HashShape

(* No worker, no reconciler and no envelope has anything to do with t. *)
Untouched(t) ==
    /\ \A w \in Worker : wtx[w] # t
    /\ \A r \in Reconciler : rtx[r] # t
    /\ \A e \in inflight \cup applied \cup chainFailed : e.tx # t

HoldInv ==
    \A t \in Tx :
        /\ status[t] = "none" => t \notin held /\ review[t] = "none" /\ Untouched(t)
        /\ gate[t] \in {"releasing", "enqueueing"} => review[t] = "approved"
        /\ t \in held /\ review[t] # "approved" =>
            Untouched(t) /\ status[t] \in {"compliance_hold", "failed"}

BookInv ==
    /\ ConfirmedIsPaid
    /\ BooksAreTrue
    /\ \A w \in Worker : wpc[w] = "confirmed" => wenv[w] \in applied

(* An envelope is in one place at a time. *)
Disjoint ==
    /\ inflight \cap (applied \cup chainFailed) = {}
    /\ applied \cap chainFailed = {}

(* Which statuses mean that no worker has taken the transfer up. *)
OwnerInv ==
    \A t \in Tx :
        /\ status[t] \in {"none", "pending", "compliance_hold"} =>
            txHash[t] = NoHash /\ \A w \in Worker : wtx[w] # t
        /\ status[t] \in {"none", "compliance_hold"} =>
            \A r \in Reconciler : rtx[r] # t
        /\ status[t] = "none" => review[t] = "none" /\ gate[t] = "idle"
        /\ review[t] = "pending" \/ gate[t] \in {"releasing", "refusing"} =>
            status[t] = "compliance_hold"
        /\ review[t] = "pending" => gate[t] = "idle"

(* What the single worker that owns a transfer knows of its row. *)
WorkInv ==
    /\ \A v, w \in Worker : wtx[v] = wtx[w] /\ wtx[w] # NoTx => v = w
    /\ \A w \in Worker :
        /\ wpc[w] \in {"claimed", "loaded"} =>
            status[wtx[w]] = "submitted" /\ txHash[wtx[w]] = NoHash
        /\ HasEnvelope(w) => txHash[wtx[w]] = wenv[w]
        /\ wpc[w] = "rejected" => wenv[w] \notin inflight \cup applied
        /\ HasEnvelope(w) /\ status[wtx[w]] = "failed" => wenv[w] \in chainFailed

FindInv == \A e \in inflight \cup applied \cup chainFailed : txHash[e.tx] = e

PayInv == Disjoint /\ OwnerInv /\ WorkInv /\ FindInv /\ FailedIsUnpaid

(* Every hash write succeeds, only envelopes that never apply are reported *)
(* as rejected, and the recovery sweep does not overlap a worker.          *)
Assumed == ~HashWriteCanFail /\ RejectionsDefinite /\ SweepSerialised

(* A step that neither creates, decides nor pays a transfer. *)
Silent ==
    /\ UNCHANGED <<held, review, applied>>
    /\ \A t \in Tx : status[t] = "none" <=> status'[t] = "none"

-----------------------------------------------------------------------------
(* The initial state. *)
LEMMA BaseInit == Init => Base
<1> SUFFICES ASSUME Init PROVE Base
  OBVIOUS
<1> USE RequeueAssumption, EngineAssumption
    DEF Init, RowInit, QueueInit, ChainInit, EngineInit, GateInit, ReconcilerInit
<1>1. TypeOK
  BY DEF TypeOK, RowTypeOK, EngineTypeOK, GateTypeOK, ReconcilerTypeOK, Status,
         Age, Fresh, WorkerPC, ReviewStatus, GatePC, ReconcilerPC
<1>2. WorkerShape /\ ReconcilerShape /\ HashShape
  BY DEF WorkerShape, ReconcilerShape, HashShape, HasEnvelope
<1> QED BY <1>1, <1>2 DEF Base

(* Nobody has touched a transfer that does not exist yet. *)
LEMMA HoldInit == Init => HoldInv
<1> SUFFICES ASSUME Init, NEW t \in Tx
             PROVE  /\ t \notin held /\ review[t] = "none" /\ gate[t] = "idle"
                    /\ Untouched(t)
  BY DEF HoldInv
<1> QED
  BY EngineAssumption, ReconcilerAssumption
  DEF Init, RowInit, QueueInit, ChainInit, EngineInit, GateInit, ReconcilerInit,
      Untouched

(* No row is confirmed, no fee is booked. *)
LEMMA BookInit == Init => BookInv
BY DEF Init, RowInit, QueueInit, ChainInit, EngineInit, GateInit, ReconcilerInit,
       BookInv, ConfirmedIsPaid, BooksAreTrue

(* No worker owns a transfer and nothing is on chain. *)
LEMMA PayInit == Init => PayInv
BY EngineAssumption, ReconcilerAssumption
DEF Init, RowInit, QueueInit, ChainInit, EngineInit, GateInit, ReconcilerInit,
    PayInv, Disjoint, OwnerInv, WorkInv, FindInv, FailedIsUnpaid, HasEnvelope

(* Every transfer is absent and unpaid in the contract. *)
LEMMA ContractInit == Init => Contract!CInit
BY DEF Init, RowInit, QueueInit, ChainInit, EngineInit, GateInit, ReconcilerInit,
       Contract!CInit, ContractPhase, PaymentsOf

-----------------------------------------------------------------------------
(* Every step keeps the types and the shapes. *)
LEMMA BaseStep ==
    ASSUME Base, [Next]_vars
    PROVE  Base'
<1> USE RequeueAssumption, EngineAssumption, NoHashAssumption, ReconcilerAssumption
    DEF Base, TypeOK, RowTypeOK, EngineTypeOK, GateTypeOK, ReconcilerTypeOK,
        WorkerShape, ReconcilerShape, HashShape, HasEnvelope, Status, Age,
        WorkerPC, ReviewStatus, GatePC, ReconcilerPC,
        Goto, Return, UpdateStatus, Redeliver, EnqueueTransfer, NextRow,
        Advance, PickRow, IsCorrectable, rowVars, chainVars, workerVars,
        engineVars, gateVars, reconcilerVars
<1>1. ASSUME NEW w \in Worker, WorkerStep(w)
      PROVE  Base'
  <2> DEFINE Rest == UNCHANGED <<gateVars, reconcilerVars>>
  <2>1. ASSUME NEW t \in Tx, Claim(w, t), Rest
        PROVE  Base'
    BY <2>1 DEF Claim, Deliver, ClaimForSubmission
  <2>2. CASE RefusePayout(w) /\ Rest
    BY <2>2 DEF RefusePayout
  <2>3. CASE LoadAccount(w) /\ Rest
    BY <2>3 DEF LoadAccount
  <2>4. CASE RecordHash(w) /\ Rest
    BY <2>4, SMTT(60) DEF RecordHash, Envelope
  <2>5. CASE Submit(w) /\ Rest
    BY <2>5 DEF Submit, Accept
  <2>6. CASE AnswerSuccess(w) /\ Rest
    BY <2>6 DEF AnswerSuccess
  <2>7. CASE AnswerError(w) /\ Rest
    BY <2>7 DEF AnswerError
  <2>8. CASE AnswerRetryable(w) /\ Rest
    BY <2>8, SMTT(60) DEF AnswerRetryable
  <2>9. CASE ResolveAmbiguous(w) /\ Rest
    BY <2>9 DEF ResolveAmbiguous
  <2>10. CASE FinalizeConfirmed(w) /\ Rest
    BY <2>10, SMTT(60) DEF FinalizeConfirmed
  <2>11. CASE MarkRejected(w) /\ Rest
    <3>1. TypeOK'
      BY <2>11 DEF MarkRejected
    <3>2. (WorkerShape /\ ReconcilerShape /\ HashShape)'
      BY <2>11 DEF MarkRejected
    <3> QED BY <3>1, <3>2
  <2>12. CASE Abandon(w) /\ Rest
    BY <2>12 DEF Abandon
  <2> QED
    BY <1>1, <2>1, <2>2, <2>3, <2>4, <2>5, <2>6, <2>7,
       <2>8, <2>9, <2>10, <2>11, <2>12
    DEF WorkerStep, WorkerProgress
<1>2. ASSUME NEW t \in Tx, DropTask(t) \/ ClockStep(t)
      PROVE  Base'
  BY <1>2
  DEF DropTask, LoseClaim, ClockStep,
      GrowOlder, Fresh, PendingCheckThreshold, StuckThreshold
<1>3. ASSUME NEW t \in Tx, GateStep(t)
      PROVE  Base'
  <2> DEFINE Rest == UNCHANGED <<chainVars, engineVars, reconcilerVars>>
  <2>1. CASE Release(t) /\ Rest
    BY <2>1, SMTT(60) DEF Release
  <2>2. CASE EnqueueReleased(t) /\ Rest
    BY <2>2 DEF EnqueueReleased
  <2>3. CASE RefuseTransfer(t) /\ Rest
    BY <2>3 DEF RefuseTransfer
  <2>4. CASE InitiateCleared(t) /\ Rest
    BY <2>4 DEF InitiateCleared, Create
  <2>5. CASE InitiateHeld(t) /\ Rest
    BY <2>5 DEF InitiateHeld, Create
  <2>6. CASE Approve(t) /\ Rest
    BY <2>6 DEF Approve
  <2>7. CASE Reject(t) /\ Rest
    BY <2>7 DEF Reject
  <2>8. CASE AbandonDecision(t) /\ Rest
    BY <2>8 DEF AbandonDecision
  <2> QED
    BY <1>3, <2>1, <2>2, <2>3, <2>4, <2>5, <2>6, <2>7, <2>8
    DEF GateStep, CarryOut
<1>4. ASSUME NEW r \in Reconciler, ReconcilerStep(r)
      PROVE  Base'
  <2> DEFINE Rest == UNCHANGED <<engineVars, gateVars>>
  <2>1. ASSUME NEW t \in Tx, ListPending(r, t) \/ ListStuck(r, t), Rest
        PROVE  Base'
    BY <2>1, SMTT(60) DEF ListPending, ListStuck, IsPendingWithHash, IsStuckPending
  <2>2. CASE CorrectToConfirmed(r) /\ Rest
    BY <2>2, SMTT(60) DEF CorrectToConfirmed, UpdateTxConfirmed
  <2>3. CASE CorrectToFailed(r) /\ Rest
    BY <2>3, SMTT(60) DEF CorrectToFailed, UpdateTxFailed
  <2>4. CASE LeaveUnknown(r) /\ Rest
    BY <2>4 DEF LeaveUnknown
  <2>5. CASE ResetStuck(r) /\ SweepUndisturbed(r, "submitted") /\ Rest
    BY <2>5 DEF ResetStuck, ResetStuckSubmittedToPending, IsResettable
  <2>6. CASE SkipProgressed(r) /\ Rest
    BY <2>6 DEF SkipProgressed
  <2>7. CASE CountRequeue(r) /\ Rest
    BY <2>7 DEF CountRequeue, IncrementRequeueCount, NextRequeueCount
  <2>8. CASE Requeue(r) /\ Rest
    BY <2>8 DEF Requeue
  <2>9. CASE GiveUp(r) /\ SweepUndisturbed(r, "pending") /\ Rest
    BY <2>9 DEF GiveUp, UpdateReconciliationStatus
  <2>10. CASE AbandonRow(r) /\ Rest
    BY <2>10 DEF AbandonRow
  <2> QED
    BY <1>4, <2>1, <2>2, <2>3, <2>4, <2>5, <2>6, <2>7, <2>8, <2>9, <2>10
    DEF ReconcilerStep
<1>5. CASE NetworkStep
  BY <1>5
  DEF NetworkStep, LedgerApply, LedgerFail, LedgerExpire, Consume, Envelope
<1>6. CASE UNCHANGED vars
  BY <1>6 DEF vars
<1> QED
  BY <1>1, <1>2, <1>3, <1>4, <1>5, <1>6 DEF Next

(* Every step keeps HoldInv: a worker or a reconciler picks up pending and *)
(* submitted rows only, and a held row gets there only through Release.    *)
LEMMA HoldStep ==
    ASSUME Base, Base', HoldInv, [Next]_vars
    PROVE  HoldInv'
<1> USE EngineAssumption, ReconcilerAssumption
    DEF Base, TypeOK, RowTypeOK, EngineTypeOK, GateTypeOK, ReconcilerTypeOK,
        WorkerShape, ReconcilerShape, HoldInv, Untouched, HasEnvelope, Status,
        Goto, Return, UpdateStatus, Redeliver, EnqueueTransfer, NextRow,
        Advance, PickRow, IsCorrectable, rowVars, chainVars, workerVars,
        engineVars, gateVars, reconcilerVars
<1>1. ASSUME NEW w \in Worker, WorkerStep(w)
      PROVE  HoldInv'
  <2> DEFINE Rest == UNCHANGED <<gateVars, reconcilerVars>>
  <2>1. ASSUME NEW t \in Tx, Claim(w, t), Rest
        PROVE  HoldInv'
    BY <2>1 DEF Claim, Deliver, ClaimForSubmission
  <2>2. CASE RefusePayout(w) /\ Rest
    BY <2>2 DEF RefusePayout
  <2>3. CASE LoadAccount(w) /\ Rest
    BY <2>3 DEF LoadAccount
  <2>4. CASE RecordHash(w) /\ Rest
    BY <2>4 DEF RecordHash, Envelope
  <2>5. CASE Submit(w) /\ Rest
    BY <2>5 DEF Submit, Accept
  <2>6. CASE AnswerSuccess(w) /\ Rest
    BY <2>6 DEF AnswerSuccess
  <2>7. CASE AnswerError(w) /\ Rest
    BY <2>7 DEF AnswerError
  <2>8. CASE AnswerRetryable(w) /\ Rest
    BY <2>8 DEF AnswerRetryable
  <2>9. CASE ResolveAmbiguous(w) /\ Rest
    BY <2>9 DEF ResolveAmbiguous
  <2>10. CASE FinalizeConfirmed(w) /\ Rest
    BY <2>10 DEF FinalizeConfirmed
  <2>11. CASE MarkRejected(w) /\ Rest
    BY <2>11 DEF MarkRejected
  <2>12. CASE Abandon(w) /\ Rest
    BY <2>12 DEF Abandon
  <2> QED
    BY <1>1, <2>1, <2>2, <2>3, <2>4, <2>5, <2>6, <2>7,
       <2>8, <2>9, <2>10, <2>11, <2>12
    DEF WorkerStep, WorkerProgress
<1>2. ASSUME NEW t \in Tx, DropTask(t) \/ ClockStep(t)
      PROVE  HoldInv'
  BY <1>2 DEF DropTask, LoseClaim, ClockStep, GrowOlder
<1>3. ASSUME NEW t \in Tx, GateStep(t)
      PROVE  HoldInv'
  <2> DEFINE Rest == UNCHANGED <<chainVars, engineVars, reconcilerVars>>
  <2>1. CASE Release(t) /\ Rest
    BY <2>1 DEF Release
  <2>2. CASE EnqueueReleased(t) /\ Rest
    BY <2>2 DEF EnqueueReleased
  <2>3. CASE RefuseTransfer(t) /\ Rest
    BY <2>3 DEF RefuseTransfer
  <2>4. CASE InitiateCleared(t) /\ Rest
    BY <2>4 DEF InitiateCleared, Create
  <2>5. CASE InitiateHeld(t) /\ Rest
    BY <2>5 DEF InitiateHeld, Create
  <2>6. CASE Approve(t) /\ Rest
    BY <2>6 DEF Approve
  <2>7. CASE Reject(t) /\ Rest
    BY <2>7 DEF Reject
  <2>8. CASE AbandonDecision(t) /\ Rest
    BY <2>8 DEF AbandonDecision
  <2> QED
    BY <1>3, <2>1, <2>2, <2>3, <2>4, <2>5, <2>6, <2>7, <2>8
    DEF GateStep, CarryOut
<1>4. ASSUME NEW r \in Reconciler, ReconcilerStep(r)
      PROVE  HoldInv'
  <2> DEFINE Rest == UNCHANGED <<engineVars, gateVars>>
  <2>1. ASSUME NEW t \in Tx, ListPending(r, t) \/ ListStuck(r, t), Rest
        PROVE  HoldInv'
    BY <2>1 DEF ListPending, ListStuck, IsPendingWithHash, IsStuckPending
  <2>2. CASE CorrectToConfirmed(r) /\ Rest
    BY <2>2 DEF CorrectToConfirmed, UpdateTxConfirmed
  <2>3. CASE CorrectToFailed(r) /\ Rest
    BY <2>3 DEF CorrectToFailed, UpdateTxFailed
  <2>4. CASE LeaveUnknown(r) /\ Rest
    BY <2>4 DEF LeaveUnknown
  <2>5. CASE ResetStuck(r) /\ SweepUndisturbed(r, "submitted") /\ Rest
    BY <2>5 DEF ResetStuck, ResetStuckSubmittedToPending, IsResettable
  <2>6. CASE SkipProgressed(r) /\ Rest
    BY <2>6 DEF SkipProgressed
  <2>7. CASE CountRequeue(r) /\ Rest
    BY <2>7 DEF CountRequeue, IncrementRequeueCount, NextRequeueCount
  <2>8. CASE Requeue(r) /\ Rest
    BY <2>8 DEF Requeue
  <2>9. CASE GiveUp(r) /\ SweepUndisturbed(r, "pending") /\ Rest
    BY <2>9 DEF GiveUp, UpdateReconciliationStatus
  <2>10. CASE AbandonRow(r) /\ Rest
    BY <2>10 DEF AbandonRow
  <2> QED
    BY <1>4, <2>1, <2>2, <2>3, <2>4, <2>5, <2>6, <2>7, <2>8, <2>9, <2>10
    DEF ReconcilerStep
<1>5. CASE NetworkStep
  BY <1>5 DEF NetworkStep, LedgerApply, LedgerFail, LedgerExpire, Consume
<1>6. CASE UNCHANGED vars
  BY <1>6 DEF vars
<1> QED
  BY <1>1, <1>2, <1>3, <1>4, <1>5, <1>6 DEF Next

(* Every step keeps BookInv: whoever writes confirmed has seen the envelope *)
(* in the ledger, and a confirmed row keeps its hash.                       *)
LEMMA BookStep ==
    ASSUME Base, Base', BookInv, [Next]_vars
    PROVE  BookInv'
<1> USE EngineAssumption, ReconcilerAssumption
    DEF Base, TypeOK, RowTypeOK, EngineTypeOK, GateTypeOK, ReconcilerTypeOK,
        WorkerShape, ReconcilerShape, HashShape, BookInv, ConfirmedIsPaid,
        BooksAreTrue, PaymentsOf, HasEnvelope,
        Goto, Return, UpdateStatus, Redeliver, EnqueueTransfer, NextRow,
        Advance, PickRow, IsCorrectable, rowVars, chainVars, workerVars,
        engineVars, gateVars, reconcilerVars
<1>1. ASSUME NEW w \in Worker, WorkerStep(w)
      PROVE  BookInv'
  <2> DEFINE Rest == UNCHANGED <<gateVars, reconcilerVars>>
  <2>1. ASSUME NEW t \in Tx, Claim(w, t), Rest
        PROVE  BookInv'
    BY <2>1 DEF Claim, Deliver, ClaimForSubmission
  <2>2. CASE RefusePayout(w) /\ Rest
    BY <2>2 DEF RefusePayout
  <2>3. CASE LoadAccount(w) /\ Rest
    BY <2>3 DEF LoadAccount
  <2>4. CASE RecordHash(w) /\ Rest
    BY <2>4 DEF RecordHash, Envelope
  <2>5. CASE Submit(w) /\ Rest
    BY <2>5 DEF Submit, Accept
  <2>6. CASE AnswerSuccess(w) /\ Rest
    BY <2>6 DEF AnswerSuccess
  <2>7. CASE AnswerError(w) /\ Rest
    BY <2>7 DEF AnswerError
  <2>8. CASE AnswerRetryable(w) /\ Rest
    BY <2>8 DEF AnswerRetryable
  <2>9. CASE ResolveAmbiguous(w) /\ Rest
    BY <2>9 DEF ResolveAmbiguous
  <2>10. CASE FinalizeConfirmed(w) /\ Rest
    BY <2>10 DEF FinalizeConfirmed
  <2>11. CASE MarkRejected(w) /\ Rest
    BY <2>11 DEF MarkRejected
  <2>12. CASE Abandon(w) /\ Rest
    BY <2>12 DEF Abandon
  <2> QED
    BY <1>1, <2>1, <2>2, <2>3, <2>4, <2>5, <2>6, <2>7,
       <2>8, <2>9, <2>10, <2>11, <2>12
    DEF WorkerStep, WorkerProgress
<1>2. ASSUME NEW t \in Tx, DropTask(t) \/ ClockStep(t)
      PROVE  BookInv'
  BY <1>2 DEF DropTask, LoseClaim, ClockStep, GrowOlder
<1>3. ASSUME NEW t \in Tx, GateStep(t)
      PROVE  BookInv'
  <2> DEFINE Rest == UNCHANGED <<chainVars, engineVars, reconcilerVars>>
  <2>1. CASE Release(t) /\ Rest
    BY <2>1 DEF Release
  <2>2. CASE EnqueueReleased(t) /\ Rest
    BY <2>2 DEF EnqueueReleased
  <2>3. CASE RefuseTransfer(t) /\ Rest
    BY <2>3 DEF RefuseTransfer
  <2>4. CASE InitiateCleared(t) /\ Rest
    BY <2>4 DEF InitiateCleared, Create
  <2>5. CASE InitiateHeld(t) /\ Rest
    BY <2>5 DEF InitiateHeld, Create
  <2>6. CASE Approve(t) /\ Rest
    BY <2>6 DEF Approve
  <2>7. CASE Reject(t) /\ Rest
    BY <2>7 DEF Reject
  <2>8. CASE AbandonDecision(t) /\ Rest
    BY <2>8 DEF AbandonDecision
  <2> QED
    BY <1>3, <2>1, <2>2, <2>3, <2>4, <2>5, <2>6, <2>7, <2>8
    DEF GateStep, CarryOut
<1>4. ASSUME NEW r \in Reconciler, ReconcilerStep(r)
      PROVE  BookInv'
  <2> DEFINE Rest == UNCHANGED <<engineVars, gateVars>>
  <2>1. ASSUME NEW t \in Tx, ListPending(r, t) \/ ListStuck(r, t), Rest
        PROVE  BookInv'
    BY <2>1 DEF ListPending, ListStuck, IsPendingWithHash, IsStuckPending
  <2>2. CASE CorrectToConfirmed(r) /\ Rest
    BY <2>2 DEF CorrectToConfirmed, UpdateTxConfirmed
  <2>3. CASE CorrectToFailed(r) /\ Rest
    BY <2>3 DEF CorrectToFailed, UpdateTxFailed
  <2>4. CASE LeaveUnknown(r) /\ Rest
    BY <2>4 DEF LeaveUnknown
  <2>5. CASE ResetStuck(r) /\ SweepUndisturbed(r, "submitted") /\ Rest
    BY <2>5 DEF ResetStuck, ResetStuckSubmittedToPending, IsResettable
  <2>6. CASE SkipProgressed(r) /\ Rest
    BY <2>6 DEF SkipProgressed
  <2>7. CASE CountRequeue(r) /\ Rest
    BY <2>7 DEF CountRequeue, IncrementRequeueCount, NextRequeueCount
  <2>8. CASE Requeue(r) /\ Rest
    BY <2>8 DEF Requeue
  <2>9. CASE GiveUp(r) /\ SweepUndisturbed(r, "pending") /\ Rest
    BY <2>9 DEF GiveUp, UpdateReconciliationStatus
  <2>10. CASE AbandonRow(r) /\ Rest
    BY <2>10 DEF AbandonRow
  <2> QED
    BY <1>4, <2>1, <2>2, <2>3, <2>4, <2>5, <2>6, <2>7, <2>8, <2>9, <2>10
    DEF ReconcilerStep
<1>5. CASE NetworkStep
  BY <1>5 DEF NetworkStep, LedgerApply, LedgerFail, LedgerExpire, Consume
<1>6. CASE UNCHANGED vars
  BY <1>6 DEF vars
<1> QED
  BY <1>1, <1>2, <1>3, <1>4, <1>5, <1>6 DEF Next

(* Under the assumptions every step keeps PayInv: a claim needs a pending  *)
(* row, which nobody owns and which has no hash, and a recorded hash is    *)
(* never erased or replaced.                                               *)
LEMMA PayStep ==
    ASSUME Assumed, Base, Base', PayInv, [Next]_vars
    PROVE  PayInv'
<1> USE EngineAssumption, NoHashAssumption, ReconcilerAssumption
    DEF Assumed, Base, TypeOK, RowTypeOK, EngineTypeOK, GateTypeOK, ReconcilerTypeOK,
        WorkerShape, ReconcilerShape, HashShape, PayInv, Disjoint, OwnerInv, WorkInv,
        FindInv, FailedIsUnpaid, HasEnvelope,
        Goto, Return, UpdateStatus, Redeliver, EnqueueTransfer, NextRow,
        Advance, PickRow, IsCorrectable, rowVars, chainVars, workerVars,
        engineVars, gateVars, reconcilerVars
<1>1. ASSUME NEW w \in Worker, WorkerStep(w)
      PROVE  PayInv'
  <2> DEFINE Rest == UNCHANGED <<gateVars, reconcilerVars>>
  <2>1. ASSUME NEW t \in Tx, Claim(w, t), Rest
        PROVE  PayInv'
    BY <2>1 DEF Claim, Deliver, ClaimForSubmission
  <2>2. CASE RefusePayout(w) /\ Rest
    BY <2>2 DEF RefusePayout
  <2>3. CASE LoadAccount(w) /\ Rest
    BY <2>3 DEF LoadAccount
  <2>4. CASE RecordHash(w) /\ Rest
    BY <2>4 DEF RecordHash, Envelope
  <2>5. CASE Submit(w) /\ Rest
    BY <2>5 DEF Submit, Accept
  <2>6. CASE AnswerSuccess(w) /\ Rest
    BY <2>6 DEF AnswerSuccess
  <2>7. CASE AnswerError(w) /\ Rest
    BY <2>7 DEF AnswerError
  <2>8. CASE AnswerRetryable(w) /\ Rest
    BY <2>8 DEF AnswerRetryable
  <2>9. CASE ResolveAmbiguous(w) /\ Rest
    BY <2>9 DEF ResolveAmbiguous
  <2>10. CASE FinalizeConfirmed(w) /\ Rest
    BY <2>10 DEF FinalizeConfirmed
  <2>11. CASE MarkRejected(w) /\ Rest
    BY <2>11 DEF MarkRejected
  <2>12. CASE Abandon(w) /\ Rest
    BY <2>12 DEF Abandon
  <2> QED
    BY <1>1, <2>1, <2>2, <2>3, <2>4, <2>5, <2>6, <2>7,
       <2>8, <2>9, <2>10, <2>11, <2>12
    DEF WorkerStep, WorkerProgress
<1>2. ASSUME NEW t \in Tx, DropTask(t) \/ ClockStep(t)
      PROVE  PayInv'
  BY <1>2 DEF DropTask, LoseClaim, ClockStep, GrowOlder
<1>3. ASSUME NEW t \in Tx, GateStep(t)
      PROVE  PayInv'
  <2> DEFINE Rest == UNCHANGED <<chainVars, engineVars, reconcilerVars>>
  <2>1. CASE Release(t) /\ Rest
    BY <2>1 DEF Release
  <2>2. CASE EnqueueReleased(t) /\ Rest
    BY <2>2 DEF EnqueueReleased
  <2>3. CASE RefuseTransfer(t) /\ Rest
    BY <2>3 DEF RefuseTransfer
  <2>4. CASE InitiateCleared(t) /\ Rest
    BY <2>4 DEF InitiateCleared, Create
  <2>5. CASE InitiateHeld(t) /\ Rest
    BY <2>5 DEF InitiateHeld, Create
  <2>6. CASE Approve(t) /\ Rest
    BY <2>6 DEF Approve
  <2>7. CASE Reject(t) /\ Rest
    BY <2>7 DEF Reject
  <2>8. CASE AbandonDecision(t) /\ Rest
    BY <2>8 DEF AbandonDecision
  <2> QED
    BY <1>3, <2>1, <2>2, <2>3, <2>4, <2>5, <2>6, <2>7, <2>8
    DEF GateStep, CarryOut
<1>4. ASSUME NEW r \in Reconciler, ReconcilerStep(r)
      PROVE  PayInv'
  <2> DEFINE Rest == UNCHANGED <<engineVars, gateVars>>
  <2>1. ASSUME NEW t \in Tx, ListPending(r, t) \/ ListStuck(r, t), Rest
        PROVE  PayInv'
    BY <2>1 DEF ListPending, ListStuck, IsPendingWithHash, IsStuckPending
  <2>2. CASE CorrectToConfirmed(r) /\ Rest
    BY <2>2, SMTT(60) DEF CorrectToConfirmed, UpdateTxConfirmed
  <2>3. CASE CorrectToFailed(r) /\ Rest
    BY <2>3 DEF CorrectToFailed, UpdateTxFailed
  <2>4. CASE LeaveUnknown(r) /\ Rest
    BY <2>4 DEF LeaveUnknown
  <2>5. CASE ResetStuck(r) /\ SweepUndisturbed(r, "submitted") /\ Rest
    BY <2>5
    DEF ResetStuck, ResetStuckSubmittedToPending, IsResettable,
        SweepUndisturbed, WorksOn
  <2>6. CASE SkipProgressed(r) /\ Rest
    BY <2>6 DEF SkipProgressed
  <2>7. CASE CountRequeue(r) /\ Rest
    BY <2>7 DEF CountRequeue, IncrementRequeueCount, NextRequeueCount
  <2>8. CASE Requeue(r) /\ Rest
    BY <2>8 DEF Requeue
  <2>9. CASE GiveUp(r) /\ SweepUndisturbed(r, "pending") /\ Rest
    BY <2>9 DEF GiveUp, UpdateReconciliationStatus, SweepUndisturbed, WorksOn
  <2>10. CASE AbandonRow(r) /\ Rest
    BY <2>10 DEF AbandonRow
  <2> QED
    BY <1>4, <2>1, <2>2, <2>3, <2>4, <2>5, <2>6, <2>7, <2>8, <2>9, <2>10
    DEF ReconcilerStep
<1>5. CASE NetworkStep
  BY <1>5 DEF NetworkStep, LedgerApply, LedgerFail, LedgerExpire, Consume
<1>6. CASE UNCHANGED vars
  BY <1>6 DEF vars
<1> QED
  BY <1>1, <1>2, <1>3, <1>4, <1>5, <1>6 DEF Next

(* If the sweep does not overlap a worker, no step moves a confirmed row. *)
LEMMA FinalStep ==
    ASSUME SweepSerialised, TypeOK, NEW u \in Tx, status[u] = "confirmed", [Next]_vars
    PROVE  status'[u] = "confirmed"
<1> USE EngineAssumption
    DEF TypeOK, RowTypeOK, EngineTypeOK, ReconcilerTypeOK,
        Goto, Return, UpdateStatus, Redeliver, EnqueueTransfer, NextRow,
        Advance, PickRow, IsCorrectable, rowVars, chainVars, workerVars,
        engineVars, gateVars, reconcilerVars
<1>1. ASSUME NEW w \in Worker, WorkerStep(w)
      PROVE  status'[u] = "confirmed"
  <2> DEFINE Rest == UNCHANGED <<gateVars, reconcilerVars>>
  <2>1. ASSUME NEW t \in Tx, Claim(w, t), Rest
        PROVE  status'[u] = "confirmed"
    BY <2>1 DEF Claim, Deliver, ClaimForSubmission
  <2>2. CASE RefusePayout(w) /\ Rest
    BY <2>2 DEF RefusePayout
  <2>3. CASE LoadAccount(w) /\ Rest
    BY <2>3 DEF LoadAccount
  <2>4. CASE RecordHash(w) /\ Rest
    BY <2>4 DEF RecordHash, Envelope
  <2>5. CASE Submit(w) /\ Rest
    BY <2>5 DEF Submit, Accept
  <2>6. CASE AnswerSuccess(w) /\ Rest
    BY <2>6 DEF AnswerSuccess
  <2>7. CASE AnswerError(w) /\ Rest
    BY <2>7 DEF AnswerError
  <2>8. CASE AnswerRetryable(w) /\ Rest
    BY <2>8 DEF AnswerRetryable
  <2>9. CASE ResolveAmbiguous(w) /\ Rest
    BY <2>9 DEF ResolveAmbiguous
  <2>10. CASE FinalizeConfirmed(w) /\ Rest
    BY <2>10 DEF FinalizeConfirmed
  <2>11. CASE MarkRejected(w) /\ Rest
    BY <2>11 DEF MarkRejected
  <2>12. CASE Abandon(w) /\ Rest
    BY <2>12 DEF Abandon
  <2> QED
    BY <1>1, <2>1, <2>2, <2>3, <2>4, <2>5, <2>6, <2>7,
       <2>8, <2>9, <2>10, <2>11, <2>12
    DEF WorkerStep, WorkerProgress
<1>2. ASSUME NEW t \in Tx, DropTask(t) \/ ClockStep(t)
      PROVE  status'[u] = "confirmed"
  BY <1>2 DEF DropTask, LoseClaim, ClockStep, GrowOlder
<1>3. ASSUME NEW t \in Tx, GateStep(t)
      PROVE  status'[u] = "confirmed"
  <2> DEFINE Rest == UNCHANGED <<chainVars, engineVars, reconcilerVars>>
  <2>1. CASE Release(t) /\ Rest
    BY <2>1 DEF Release
  <2>2. CASE EnqueueReleased(t) /\ Rest
    BY <2>2 DEF EnqueueReleased
  <2>3. CASE RefuseTransfer(t) /\ Rest
    BY <2>3 DEF RefuseTransfer
  <2>4. CASE InitiateCleared(t) /\ Rest
    BY <2>4 DEF InitiateCleared, Create
  <2>5. CASE InitiateHeld(t) /\ Rest
    BY <2>5 DEF InitiateHeld, Create
  <2>6. CASE Approve(t) /\ Rest
    BY <2>6 DEF Approve
  <2>7. CASE Reject(t) /\ Rest
    BY <2>7 DEF Reject
  <2>8. CASE AbandonDecision(t) /\ Rest
    BY <2>8 DEF AbandonDecision
  <2> QED
    BY <1>3, <2>1, <2>2, <2>3, <2>4, <2>5, <2>6, <2>7, <2>8
    DEF GateStep, CarryOut
<1>4. ASSUME NEW r \in Reconciler, ReconcilerStep(r)
      PROVE  status'[u] = "confirmed"
  <2> DEFINE Rest == UNCHANGED <<engineVars, gateVars>>
  <2>1. ASSUME NEW t \in Tx, ListPending(r, t) \/ ListStuck(r, t), Rest
        PROVE  status'[u] = "confirmed"
    BY <2>1 DEF ListPending, ListStuck, IsPendingWithHash, IsStuckPending
  <2>2. CASE CorrectToConfirmed(r) /\ Rest
    BY <2>2 DEF CorrectToConfirmed, UpdateTxConfirmed
  <2>3. CASE CorrectToFailed(r) /\ Rest
    BY <2>3 DEF CorrectToFailed, UpdateTxFailed
  <2>4. CASE LeaveUnknown(r) /\ Rest
    BY <2>4 DEF LeaveUnknown
  <2>5. CASE ResetStuck(r) /\ SweepUndisturbed(r, "submitted") /\ Rest
    BY <2>5
    DEF ResetStuck, ResetStuckSubmittedToPending, IsResettable,
        SweepUndisturbed
  <2>6. CASE SkipProgressed(r) /\ Rest
    BY <2>6 DEF SkipProgressed
  <2>7. CASE CountRequeue(r) /\ Rest
    BY <2>7 DEF CountRequeue, IncrementRequeueCount, NextRequeueCount
  <2>8. CASE Requeue(r) /\ Rest
    BY <2>8 DEF Requeue
  <2>9. CASE GiveUp(r) /\ SweepUndisturbed(r, "pending") /\ Rest
    BY <2>9 DEF GiveUp, UpdateReconciliationStatus, SweepUndisturbed
  <2>10. CASE AbandonRow(r) /\ Rest
    BY <2>10 DEF AbandonRow
  <2> QED
    BY <1>4, <2>1, <2>2, <2>3, <2>4, <2>5, <2>6, <2>7, <2>8, <2>9, <2>10
    DEF ReconcilerStep
<1>5. CASE NetworkStep
  BY <1>5 DEF NetworkStep, LedgerApply, LedgerFail, LedgerExpire, Consume
<1>6. CASE UNCHANGED vars
  BY <1>6 DEF vars
<1> QED
  BY <1>1, <1>2, <1>3, <1>4, <1>5, <1>6 DEF Next

(* A step that gives t its row is a request of the contract. *)
LEMMA ContractRequest ==
    ASSUME NEW t \in Tx, NEW p \in {"held", "open"},
           ContractPhase[t] = "absent",
           ContractPhase' = [ContractPhase EXCEPT ![t] = p],
           \A u \in Tx : PaymentsOf(u)' = PaymentsOf(u)
    PROVE  Contract!CNext
BY DEF Contract!CNext, Contract!Request

(* A step that adds the first payment of an open transfer is a payment. *)
LEMMA ContractPay ==
    ASSUME NEW e, e.tx \in Tx,
           ContractPhase' = ContractPhase, ContractPhase[e.tx] = "open",
           PaymentsOf(e.tx) = {}, PaymentsOf(e.tx)' = {e},
           \A u \in Tx \ {e.tx} : PaymentsOf(u)' = PaymentsOf(u)
    PROVE  Contract!CNext
BY DEF Contract!CNext, Contract!Pay

(* A step of a worker or of a reconciler, and the loss of a task, change    *)
(* nothing the parties of a transfer can see.                               *)
LEMMA SilentStep ==
    ASSUME Base, HoldInv,
           \/ \E w \in Worker : WorkerStep(w)
           \/ \E t \in Tx : DropTask(t) \/ ClockStep(t)
           \/ \E r \in Reconciler : ReconcilerStep(r)
    PROVE  Silent
<1> USE EngineAssumption, ReconcilerAssumption
    DEF Base, TypeOK, RowTypeOK, EngineTypeOK, ReconcilerTypeOK, WorkerShape,
        ReconcilerShape, HoldInv, Untouched, Silent,
        Goto, Return, UpdateStatus, Redeliver, EnqueueTransfer, NextRow,
        Advance, PickRow, IsCorrectable, rowVars, chainVars, workerVars,
        engineVars, gateVars, reconcilerVars
<1>1. ASSUME NEW w \in Worker, WorkerStep(w)
      PROVE  Silent
  <2> DEFINE Rest == UNCHANGED <<gateVars, reconcilerVars>>
  <2>1. ASSUME NEW t \in Tx, Claim(w, t), Rest
        PROVE  Silent
    BY <2>1 DEF Claim, Deliver, ClaimForSubmission
  <2>2. CASE RefusePayout(w) /\ Rest
    BY <2>2 DEF RefusePayout
  <2>3. CASE LoadAccount(w) /\ Rest
    BY <2>3 DEF LoadAccount
  <2>4. CASE RecordHash(w) /\ Rest
    BY <2>4 DEF RecordHash, Envelope
  <2>5. CASE Submit(w) /\ Rest
    BY <2>5 DEF Submit, Accept
  <2>6. CASE AnswerSuccess(w) /\ Rest
    BY <2>6 DEF AnswerSuccess
  <2>7. CASE AnswerError(w) /\ Rest
    BY <2>7 DEF AnswerError
  <2>8. CASE AnswerRetryable(w) /\ Rest
    BY <2>8 DEF AnswerRetryable
  <2>9. CASE ResolveAmbiguous(w) /\ Rest
    BY <2>9 DEF ResolveAmbiguous
  <2>10. CASE FinalizeConfirmed(w) /\ Rest
    BY <2>10 DEF FinalizeConfirmed
  <2>11. CASE MarkRejected(w) /\ Rest
    BY <2>11 DEF MarkRejected
  <2>12. CASE Abandon(w) /\ Rest
    BY <2>12 DEF Abandon
  <2> QED
    BY <1>1, <2>1, <2>2, <2>3, <2>4, <2>5, <2>6, <2>7,
       <2>8, <2>9, <2>10, <2>11, <2>12
    DEF WorkerStep, WorkerProgress
<1>2. ASSUME NEW t \in Tx, DropTask(t) \/ ClockStep(t)
      PROVE  Silent
  BY <1>2 DEF DropTask, LoseClaim, ClockStep, GrowOlder
<1>3. ASSUME NEW r \in Reconciler, ReconcilerStep(r)
      PROVE  Silent
  <2> DEFINE Rest == UNCHANGED <<engineVars, gateVars>>
  <2>1. ASSUME NEW t \in Tx, ListPending(r, t) \/ ListStuck(r, t), Rest
        PROVE  Silent
    BY <2>1 DEF ListPending, ListStuck, IsPendingWithHash, IsStuckPending
  <2>2. CASE CorrectToConfirmed(r) /\ Rest
    BY <2>2 DEF CorrectToConfirmed, UpdateTxConfirmed
  <2>3. CASE CorrectToFailed(r) /\ Rest
    BY <2>3 DEF CorrectToFailed, UpdateTxFailed
  <2>4. CASE LeaveUnknown(r) /\ Rest
    BY <2>4 DEF LeaveUnknown
  <2>5. CASE ResetStuck(r) /\ SweepUndisturbed(r, "submitted") /\ Rest
    BY <2>5 DEF ResetStuck, ResetStuckSubmittedToPending, IsResettable
  <2>6. CASE SkipProgressed(r) /\ Rest
    BY <2>6 DEF SkipProgressed
  <2>7. CASE CountRequeue(r) /\ Rest
    BY <2>7 DEF CountRequeue, IncrementRequeueCount, NextRequeueCount
  <2>8. CASE Requeue(r) /\ Rest
    BY <2>8 DEF Requeue
  <2>9. CASE GiveUp(r) /\ SweepUndisturbed(r, "pending") /\ Rest
    BY <2>9 DEF GiveUp, UpdateReconciliationStatus
  <2>10. CASE AbandonRow(r) /\ Rest
    BY <2>10 DEF AbandonRow
  <2> QED
    BY <1>3, <2>1, <2>2, <2>3, <2>4, <2>5, <2>6, <2>7, <2>8, <2>9, <2>10
    DEF ReconcilerStep
<1> QED
  BY <1>1, <1>2, <1>3

(* ... so it is no step of the contract at all. *)
LEMMA SilentIsStutter == ASSUME Silent PROVE UNCHANGED Contract!cvars
<1>1. ContractPhase' = ContractPhase
  BY SMTT(60) DEF Silent, ContractPhase
<1>2. \A t \in Tx : PaymentsOf(t)' = PaymentsOf(t)
  BY SMTT(60) DEF Silent, PaymentsOf
<1> QED BY <1>1, <1>2 DEF Contract!cvars

(* Under the assumptions every step is a step of the contract. *)
LEMMA ContractStep ==
    ASSUME Base, Base', HoldInv, HoldInv', PayInv, [Next]_vars
    PROVE  [Contract!CNext]_(Contract!cvars)
<1> USE EngineAssumption, ReconcilerAssumption
    DEF Base, TypeOK, RowTypeOK, EngineTypeOK, GateTypeOK, ReconcilerTypeOK,
        WorkerShape, ReconcilerShape, HoldInv, Untouched, PayInv, OwnerInv,
        ContractPhase, PaymentsOf, Contract!cvars, Contract!CNext, Contract!Request,
        Contract!Officer, Contract!Pay,
        Goto, Return, UpdateStatus, Redeliver, EnqueueTransfer, NextRow,
        Advance, PickRow, IsCorrectable, rowVars, chainVars, workerVars,
        engineVars, gateVars, reconcilerVars
<1>1. CASE \/ \E w \in Worker : WorkerStep(w)
           \/ \E t \in Tx : DropTask(t) \/ ClockStep(t)
           \/ \E r \in Reconciler : ReconcilerStep(r)
  BY ONLY <1>1, SilentStep, SilentIsStutter, Base, HoldInv, SMTT(60)
<1>2. ASSUME NEW t \in Tx, GateStep(t)
      PROVE  [Contract!CNext]_(Contract!cvars)
  <2> DEFINE Rest == UNCHANGED <<chainVars, engineVars, reconcilerVars>>
  <2>1. CASE Release(t) /\ Rest
    BY <2>1 DEF Release
  <2>2. CASE EnqueueReleased(t) /\ Rest
    BY <2>2 DEF EnqueueReleased
  <2>3. CASE RefuseTransfer(t) /\ Rest
    BY <2>3, SMTT(60) DEF RefuseTransfer
  <2>4. CASE InitiateCleared(t) /\ Rest
    <3>1. ContractPhase' = [ContractPhase EXCEPT ![t] = "open"]
      BY <2>4 DEF InitiateCleared, Create
    <3>2. ContractPhase[t] = "absent" /\ \A u \in Tx : PaymentsOf(u)' = PaymentsOf(u)
      BY <2>4 DEF InitiateCleared, Create
    <3> QED BY <3>1, <3>2, ContractRequest
  <2>5. CASE InitiateHeld(t) /\ Rest
    <3>1. ContractPhase[t] = "absent" /\ \A u \in Tx : PaymentsOf(u)' = PaymentsOf(u)
      BY <2>5 DEF InitiateHeld, Create
    <3>2. ContractPhase'[t] = "held"
      BY <2>5 DEF InitiateHeld, Create
    <3>3. \A u \in Tx \ {t} : ContractPhase'[u] = ContractPhase[u]
      BY <2>5 DEF InitiateHeld, Create
    <3>4. /\ ContractPhase = [u \in Tx |-> ContractPhase[u]]
          /\ ContractPhase' = [u \in Tx |-> ContractPhase'[u]]
      BY DEF ContractPhase
    <3> HIDE DEF ContractPhase
    <3>5. ContractPhase' = [ContractPhase EXCEPT ![t] = "held"]
      BY <3>2, <3>3, <3>4
    <3> QED BY <3>1, <3>5, ContractRequest
  <2>6. CASE Approve(t) /\ Rest
    BY <2>6 DEF Approve
  <2>7. CASE Reject(t) /\ Rest
    BY <2>7 DEF Reject
  <2>8. CASE AbandonDecision(t) /\ Rest
    BY <2>8 DEF AbandonDecision
  <2> QED
    BY <1>2, <2>1, <2>2, <2>3, <2>4, <2>5, <2>6, <2>7, <2>8
    DEF GateStep, CarryOut
<1>3. CASE NetworkStep
  <2>1. PICK e \in inflight : LedgerApply(e) \/ LedgerFail(e) \/ LedgerExpire(e)
    BY <1>3 DEF NetworkStep
  <2>2. ContractPhase' = ContractPhase
    BY <1>3 DEF NetworkStep
  <2>3. CASE LedgerFail(e) \/ LedgerExpire(e)
    BY <2>2, <2>3 DEF LedgerFail, LedgerExpire, Consume
  <2>4. CASE LedgerApply(e)
    <3>1. e.tx \in Tx /\ applied' = applied \cup {e}
      BY <2>1, <2>4 DEF LedgerApply, Consume, Envelope
    <3>2. ContractPhase[e.tx] = "open"
      BY <2>1, <3>1
    <3>3. PaymentsOf(e.tx) = {} /\ PaymentsOf(e.tx)' = {e}
      BY <2>1, <3>1 DEF Disjoint, FindInv
    <3>4. \A u \in Tx \ {e.tx} : PaymentsOf(u)' = PaymentsOf(u)
      BY <3>1
    <3> HIDE DEF PaymentsOf, ContractPhase, Contract!CNext
    <3> QED BY <2>2, <3>1, <3>2, <3>3, <3>4, ContractPay
  <2> QED BY <2>1, <2>3, <2>4
<1>4. CASE UNCHANGED vars
  BY <1>4 DEF vars
<1> QED
  BY <1>1, <1>2, <1>3, <1>4, ZenonT(60) DEF Next

-----------------------------------------------------------------------------
(* The three invariants of every instance hold together. *)
LEMMA Inductive == Spec => [](Base /\ HoldInv /\ BookInv)
<1>1. Init => Base /\ HoldInv /\ BookInv
  BY BaseInit, HoldInit, BookInit
<1>2. Base /\ HoldInv /\ BookInv /\ [Next]_vars => (Base /\ HoldInv /\ BookInv)'
  BY BaseStep, HoldStep, BookStep
<1> QED BY <1>1, <1>2, PTL DEF Spec

(* Under the assumptions, PayInv holds with them. *)
LEMMA InductivePay ==
    ASSUME Assumed
    PROVE  Spec => [](Base /\ HoldInv /\ PayInv)
<1>1. Init => Base /\ HoldInv /\ PayInv
  BY BaseInit, HoldInit, PayInit
<1>2. Base /\ HoldInv /\ PayInv /\ [Next]_vars => (Base /\ HoldInv /\ PayInv)'
  BY Assumed, BaseStep, HoldStep, PayStep
<1> QED BY <1>1, <1>2, PTL DEF Spec

(* Every variable keeps its type, whatever the interleaving. *)
THEOREM TypeCorrect == Spec => []TypeOK
<1>1. Base => TypeOK
  BY DEF Base
<1> QED BY <1>1, Inductive, PTL

(* The compliance gate cannot be bypassed by any number of workers,        *)
(* redeliveries, sweeps and crashes: no envelope of a held transfer enters *)
(* the network before its review is approved.                              *)
THEOREM HoldIsHonoured == Spec => []HoldGate
<1>1. Base /\ HoldInv => HoldGate
  BY DEF Base, TypeOK, GateTypeOK, HoldInv, HoldGate, Untouched
<1> QED BY <1>1, Inductive, PTL

(* A row in confirmed carries the hash of a successful envelope of the     *)
(* same transfer, however workers and reconcilers race for the row.        *)
THEOREM ConfirmedMeansPaid == Spec => []ConfirmedIsPaid
<1>1. BookInv => ConfirmedIsPaid
  BY DEF BookInv
<1> QED BY <1>1, Inductive, PTL

(* Fees are booked and transfer.settled is sent only for paid transfers.   *)
THEOREM BooksMeanPaid == Spec => []BooksAreTrue
<1>1. BookInv => BooksAreTrue
  BY DEF BookInv
<1> QED BY <1>1, Inductive, PTL

(* Under the assumptions every envelope in the network or the ledger is    *)
(* the one its row records, so no transfer is paid twice and no failed     *)
(* transfer is paid.                                                       *)
THEOREM PaidOnceAndFindable ==
    ASSUME Assumed
    PROVE  Spec => [](FindableOnChain /\ AtMostOnePayment /\ FailedIsUnpaid)
<1>1. Base /\ PayInv => FindableOnChain /\ AtMostOnePayment /\ FailedIsUnpaid
  BY DEF Base, TypeOK, PayInv, FindInv, FindableOnChain, AtMostOnePayment
<1> QED BY <1>1, InductivePay, PTL

(* If the recovery sweep does not overlap a worker, no step takes a        *)
(* confirmed row to another status.                                        *)
THEOREM ConfirmedStays ==
    ASSUME SweepSerialised
    PROVE  Spec => ConfirmedIsFinal
<1> DEFINE Final ==
        \A t \in Tx : status[t] = "confirmed" => status'[t] = "confirmed"
<1>1. TypeOK /\ [Next]_vars => [Final]_vars
  BY FinalStep
<1> QED BY <1>1, TypeCorrect, PTL DEF Spec, ConfirmedIsFinal

(* Under the assumptions the system keeps the payment contract: every step *)
(* is a request, an officer's decision, the one payment of an open         *)
(* transfer, or invisible to the parties.                                  *)
THEOREM ContractKept ==
    ASSUME Assumed
    PROVE  Spec => KeepsContract
<1>1. Init => Contract!CInit
  BY ContractInit
<1>2. Base /\ HoldInv /\ PayInv /\ [Next]_vars => [Contract!CNext]_(Contract!cvars)
  BY BaseStep, HoldStep, ContractStep
<1> QED BY <1>1, <1>2, InductivePay, PTL DEF Spec, KeepsContract, Contract!CSpec
=============================================================================
