----------------------------- MODULE Transfers -----------------------------
(***************************************************************************)
(* The life of a transfer on the Stellar backend: the API that creates it, *)
(* the compliance gate, the workers of the settlement engine, the          *)
(* reconciler and the network, interleaved in every order.                 *)
(***************************************************************************)
EXTENDS SettlementEngine, ComplianceGate, Reconciler

CONSTANT
    SweepSerialised \* does the recovery sweep write a row only while it is
                    \* still as listed and no worker is working on it?

ASSUME SweepAssumption == SweepSerialised \in BOOLEAN

vars == <<rowVars, queue, chainVars, engineVars, gateVars, reconcilerVars>>

Init ==
    /\ RowInit
    /\ QueueInit
    /\ ChainInit
    /\ EngineInit
    /\ GateInit
    /\ ReconcilerInit

-----------------------------------------------------------------------------
WorkerProgress(w) ==
    /\ \/ \E t \in Tx : Claim(w, t)
       \/ RefusePayout(w)
       \/ LoadAccount(w)
       \/ RecordHash(w)
       \/ Submit(w)
       \/ AnswerSuccess(w)
       \/ AnswerError(w)
       \/ AnswerRetryable(w)
       \/ ResolveAmbiguous(w)
       \/ FinalizeConfirmed(w)
       \/ MarkRejected(w)
    /\ UNCHANGED <<gateVars, reconcilerVars>>

WorkerStep(w) ==
    \/ WorkerProgress(w)
    \/ Abandon(w) /\ UNCHANGED <<gateVars, reconcilerVars>>

DropTask(t) == LoseClaim(t) /\ UNCHANGED <<gateVars, reconcilerVars>>

(* What a request that has decided a review still has to do. *)
CarryOut(t) ==
    /\ Release(t) \/ EnqueueReleased(t) \/ RefuseTransfer(t)
    /\ UNCHANGED <<chainVars, engineVars, reconcilerVars>>

GateStep(t) ==
    \/ CarryOut(t)
    \/ /\ \/ InitiateCleared(t)
          \/ InitiateHeld(t)
          \/ Approve(t)
          \/ Reject(t)
          \/ AbandonDecision(t)
       /\ UNCHANGED <<chainVars, engineVars, reconcilerVars>>

(* What the timing assumption, when it is made, says of a write of r that  *)
(* expects its row in status s.                                            *)
SweepUndisturbed(r, s) ==
    SweepSerialised => /\ status[rtx[r]] = s
                       /\ \A w \in Worker : ~WorksOn(w, rtx[r])

ReconcilerStep(r) ==
    /\ \/ \E t \in Tx : ListPending(r, t) \/ ListStuck(r, t)
       \/ CorrectToConfirmed(r)
       \/ CorrectToFailed(r)
       \/ LeaveUnknown(r)
       \/ ResetStuck(r) /\ SweepUndisturbed(r, "submitted")
       \/ SkipProgressed(r)
       \/ CountRequeue(r)
       \/ Requeue(r)
       \/ GiveUp(r) /\ SweepUndisturbed(r, "pending")
       \/ AbandonRow(r)
    /\ UNCHANGED <<engineVars, gateVars>>

NetworkStep ==
    /\ \E e \in inflight : LedgerApply(e) \/ LedgerFail(e) \/ LedgerExpire(e)
    /\ UNCHANGED <<rowVars, queue, engineVars, gateVars, reconcilerVars>>

ClockStep(t) ==
    /\ GrowOlder(t)
    /\ UNCHANGED <<queue, chainVars, engineVars, gateVars, reconcilerVars>>

Next ==
    \/ \E w \in Worker : WorkerStep(w)
    \/ \E t \in Tx : DropTask(t) \/ GateStep(t) \/ ClockStep(t)
    \/ \E r \in Reconciler : ReconcilerStep(r)
    \/ NetworkStep

Spec == Init /\ [][Next]_vars

(***************************************************************************)
(* Fairness.  Time passes; the network settles or drops what it accepted;  *)
(* RunAll is a periodic task that works through every row it lists, so a   *)
(* row that keeps being listed is eventually handled to the end by a run   *)
(* that does not die half-way (strong fairness: runs may fail, but not     *)
(* all of them).  Requests that decide a review are not retried, and       *)
(* workers may die at any point, as often as they like: nothing is         *)
(* assumed of them.                                                        *)
(***************************************************************************)
Sweep(r, A(_)) == A(r) /\ UNCHANGED <<engineVars, gateVars>>

Fairness ==
    /\ \A t \in Tx : WF_vars(ClockStep(t))
    /\ WF_vars(NetworkStep)
    /\ \A t \in Tx :
        /\ SF_vars(\E r \in Reconciler :
                    ListPending(r, t) /\ UNCHANGED <<engineVars, gateVars>>)
        /\ SF_vars(\E r \in Reconciler :
                    ListStuck(r, t) /\ UNCHANGED <<engineVars, gateVars>>)
    /\ \A r \in Reconciler :
        /\ SF_vars(Sweep(r, CorrectToConfirmed))
        /\ SF_vars(Sweep(r, CorrectToFailed))
        /\ WF_vars(Sweep(r, LeaveUnknown))
        /\ SF_vars(Sweep(r, ResetStuck))
        /\ WF_vars(Sweep(r, SkipProgressed))
        /\ SF_vars(Sweep(r, CountRequeue))
        /\ WF_vars(Sweep(r, Requeue))
        /\ SF_vars(Sweep(r, GiveUp))

FairSpec == Spec /\ Fairness

(* Workers and deciding requests that are not killed go on as well.        *)
BusySpec ==
    /\ FairSpec
    /\ \A w \in Worker : WF_vars(WorkerProgress(w))
    /\ \A t \in Tx : WF_vars(CarryOut(t))

-----------------------------------------------------------------------------
(* Type correctness of every variable. *)
TypeOK ==
    /\ RowTypeOK
    /\ queue \subseteq Tx
    /\ acctSeq \in [Account -> Nat]
    /\ inflight \subseteq Envelope
    /\ applied \subseteq Envelope
    /\ chainFailed \subseteq Envelope
    /\ EngineTypeOK
    /\ GateTypeOK
    /\ ReconcilerTypeOK

PaymentsOf(t) == {e \in applied : e.tx = t}

(* A transfer that screening put on hold has an envelope in the network or *)
(* in the ledger only after its review was approved, whatever workers,     *)
(* redeliveries, sweeps and crashes do (compliance_hold is "never enqueued *)
(* for settlement; an approval must reset it").                            *)
HoldGate ==
    \A t \in held :
        (\E e \in inflight \cup applied : e.tx = t) => review[t] = "approved"

(* A row that says confirmed carries the hash of an envelope of that same  *)
(* transfer that succeeded on chain, although two workers and several      *)
(* reconcilers write status and tx_hash concurrently.                      *)
ConfirmedIsPaid ==
    \A t \in Tx : status[t] = "confirmed" => txHash[t] \in PaymentsOf(t)

(* A fee is booked, and transfer.settled is sent, only for a transfer that *)
(* was really paid on chain.                                               *)
BooksAreTrue ==
    \A t \in feeBooked \cup settledEvent : PaymentsOf(t) # {}

(* At most one envelope of a transfer ever succeeds on chain: claims,      *)
(* resets, redeliveries and resubmissions never pay twice.                 *)
AtMostOnePayment ==
    \A e, f \in applied : e.tx = f.tx => e = f

(* Whatever is in the network or in the ledger for a transfer is the very  *)
(* envelope whose hash its row records, so that a lookup can resolve it.   *)
FindableOnChain ==
    \A e \in inflight \cup applied : txHash[e.tx] = e

(* A row that says failed has nothing in the network or in the ledger.     *)
FailedIsUnpaid ==
    \A t \in Tx : status[t] = "failed" =>
        ~ \E e \in inflight \cup applied : e.tx = t

(* Nothing in this module takes a confirmed row to another status.         *)
ConfirmedIsFinal ==
    [][\A t \in Tx : status[t] = "confirmed" => status'[t] = "confirmed"]_vars

(* Once the envelope a submitted row records is in a ledger, the pending   *)
(* pass takes the row out of submitted, even if the worker that sent it    *)
(* died before it could write the outcome.                                 *)
LandedIsRecorded ==
    \A t \in Tx :
        (status[t] = "submitted" /\ txHash[t] \in applied \cup chainFailed)
            ~> status[t] # "submitted"

(* No transfer stays for ever between the queue and the network: from some *)
(* point on it is not pending and not submitted without a hash, however    *)
(* often tasks are lost and workers die, because the sweep re-enqueues it  *)
(* and gives up after MaxRequeues.                                         *)
NeverLimbo ==
    \A t \in Tx : <>[](status[t] # "pending"
                        /\ ~(status[t] = "submitted" /\ txHash[t] = NoHash))

(* The alert of checkPendingTransaction: a hash Horizon does not know is   *)
(* re-enqueued by RecoverPending.                                          *)
NotFoundIsRequeued ==
    \A t \in Tx :
        (/\ status[t] = "submitted"
         /\ txHash[t] # NoHash
         /\ txHash[t] \notin inflight \cup applied \cup chainFailed
         /\ \A w \in Worker : ~WorksOn(w, t))
            ~> status[t] # "submitted"

(* The quickstart: transfer.settled is sent when a transfer is confirmed.  *)
ConfirmedIsAnnounced ==
    \A t \in Tx : status[t] = "confirmed" ~> t \in settledEvent

(* releaseTransfer: a pending row can be picked up by the reconciler.      *)
PendingIsPickedUp ==
    \A t \in Tx : status[t] = "pending" ~> status[t] # "pending"

(* An approved transfer leaves the hold.                                   *)
ApprovedIsReleased ==
    \A t \in Tx : review[t] = "approved" ~> status[t] # "compliance_hold"

-----------------------------------------------------------------------------
(* The refinement of PaymentContract: a request is open as soon as its row *)
(* exists, unless it is held; what counts as paying is the ledger, not     *)
(* what the database says about it.                                        *)
ContractPhase ==
    [t \in Tx |->
        CASE status[t] = "none" -> "absent"
          [] status[t] # "none" /\ t \notin held -> "open"
          [] t \in held /\ review[t] = "approved" -> "open"
          [] t \in held /\ review[t] = "rejected" -> "refused"
          [] OTHER -> "held"]

Contract == INSTANCE PaymentContract WITH
    phase <- ContractPhase,
    paidBy <- [t \in Tx |-> PaymentsOf(t)]

(* The system keeps the contract. *)
KeepsContract == Contract!CSpec
=============================================================================
