---------------------------- MODULE Reconciler ----------------------------
(***************************************************************************)
(* internal/reconcile/reconcile.go: the pending pass and the recovery      *)
(* sweep that Service.RunAll runs every five minutes.  Each pass reads a   *)
(* list of rows and then works through it without holding any lock (the    *)
(* FOR UPDATE SKIP LOCKED of the pending pass ends with the transaction    *)
(* that read the list), so a reconciler acts on a snapshot.  Rows are      *)
(* independent of each other: a reconciler is modelled by the one row it   *)
(* is working on and what it saw of it when the list was read.             *)
(*                                                                         *)
(* The audit of confirmed rows and the balance check are not in this       *)
(* module.                                                                 *)
(***************************************************************************)
EXTENDS TransactionRepo, Horizon, TaskQueue

CONSTANTS
    Reconciler,     \* reconciliation runs that may overlap
    NoRow,          \* a reconciler between two rows
    NullHashScans   \* can rows.Scan read a NULL tx_hash into a string?

ASSUME ReconcilerAssumption ==
    /\ NoRow \notin Tx
    /\ NullHashScans \in BOOLEAN

VARIABLES
    rpc,            \* rpc[r]: where reconciler r stands
    rtx,            \* rtx[r]: the row it works on
    rhash,          \* rhash[r]: the tx_hash it read
    settledEvent,   \* transfers with a dispatched transfer.settled event
    failedEvent     \* transfers with a dispatched transfer.failed event

reconcilerVars == <<rpc, rtx, rhash, settledEvent, failedEvent>>

ReconcilerPC == {"idle", "check", "reset", "count", "enqueue", "giveup"}

ReconcilerInit ==
    /\ rpc = [r \in Reconciler |-> "idle"]
    /\ rtx = [r \in Reconciler |-> NoRow]
    /\ rhash = [r \in Reconciler |-> NoHash]
    /\ settledEvent = {}
    /\ failedEvent = {}

ReconcilerTypeOK ==
    /\ rpc \in [Reconciler -> ReconcilerPC]
    /\ rtx \in [Reconciler -> Tx \cup {NoRow}]
    /\ rhash \in [Reconciler -> Envelope \cup {NoHash}]
    /\ settledEvent \subseteq Tx
    /\ failedEvent \subseteq Tx

(* r turns to row t at step pc, having read hash h. *)
PickRow(r, pc, t, h) ==
    /\ rpc[r] = "idle"
    /\ rpc' = [rpc EXCEPT ![r] = pc]
    /\ rtx' = [rtx EXCEPT ![r] = t]
    /\ rhash' = [rhash EXCEPT ![r] = h]

Advance(r, pc) ==
    /\ rpc' = [rpc EXCEPT ![r] = pc]
    /\ UNCHANGED <<rtx, rhash>>

NextRow(r) ==
    /\ rpc' = [rpc EXCEPT ![r] = "idle"]
    /\ rtx' = [rtx EXCEPT ![r] = NoRow]
    /\ rhash' = [rhash EXCEPT ![r] = NoHash]

-----------------------------------------------------------------------------
(* GetPendingTxesForReconciliation lists t. *)
ListPending(r, t) ==
    /\ IsPendingWithHash(t)
    /\ PickRow(r, "check", t, txHash[t])
    /\ UNCHANGED <<rowVars, queue, settledEvent, failedEvent, chainVars>>

(* Seeded fault: horizonTx.Successful is not looked at. *)
CorrectUnchecked(r) ==
    /\ rpc[r] = "check"
    /\ rhash[r] \in applied \cup chainFailed
    /\ \/ /\ UpdateTxConfirmed(rtx[r], rhash[r])
          /\ settledEvent' \in {settledEvent, settledEvent \cup {rtx[r]}}
       \/ /\ ~IsCorrectable(rtx[r])
          /\ UNCHANGED <<rowVars, settledEvent>>
    /\ NextRow(r)
    /\ UNCHANGED <<queue, failedEvent, chainVars>>

(* checkPendingTransaction finds the hash on Horizon.  The guarded UPDATE   *)
(* tells it whether the correction is its own; only then is the event       *)
(* dispatched (an error of the dispatch is logged).                         *)
CorrectToConfirmed(r) ==
    /\ rpc[r] = "check"
    /\ rhash[r] \in applied
    /\ \/ /\ UpdateTxConfirmed(rtx[r], rhash[r])
          /\ settledEvent' \in {settledEvent, settledEvent \cup {rtx[r]}}
       \/ /\ ~IsCorrectable(rtx[r])
          /\ UNCHANGED <<rowVars, settledEvent>>
    /\ NextRow(r)
    /\ UNCHANGED <<queue, failedEvent, chainVars>>

CorrectToFailed(r) ==
    /\ rpc[r] = "check"
    /\ rhash[r] \in chainFailed
    /\ \/ /\ UpdateTxFailed(rtx[r])
          /\ failedEvent' \in {failedEvent, failedEvent \cup {rtx[r]}}
       \/ /\ ~IsCorrectable(rtx[r])
          /\ UNCHANGED <<rowVars, failedEvent>>
    /\ NextRow(r)
    /\ UNCHANGED <<queue, settledEvent, chainVars>>

(* Horizon answers 404: an alert at most, the row is left alone. *)
LeaveUnknown(r) ==
    /\ rpc[r] = "check"
    /\ rhash[r] \notin applied \cup chainFailed
    /\ NextRow(r)
    /\ UNCHANGED <<rowVars, queue, settledEvent, failedEvent, chainVars>>

(* GetStuckPendingTxes lists t.  It scans tx_hash, NULL in every row it     *)
(* selects, into a Go string; when the driver refuses, RecoverPending       *)
(* returns the error and no row is ever listed.                             *)
ListStuck(r, t) ==
    /\ NullHashScans
    /\ IsStuckPending(t)
    /\ PickRow(r, IF status[t] = "submitted" THEN "reset" ELSE "count", t, NoHash)
    /\ UNCHANGED <<rowVars, queue, settledEvent, failedEvent, chainVars>>

ResetStuck(r) ==
    /\ rpc[r] = "reset"
    /\ ResetStuckSubmittedToPending(rtx[r])
    /\ Advance(r, "count")
    /\ UNCHANGED <<queue, settledEvent, failedEvent, chainVars>>

SkipProgressed(r) ==
    /\ rpc[r] = "reset"
    /\ ~IsResettable(rtx[r])
    /\ NextRow(r)
    /\ UNCHANGED <<rowVars, queue, settledEvent, failedEvent, chainVars>>

CountRequeue(r) ==
    /\ rpc[r] = "count"
    /\ IncrementRequeueCount(rtx[r])
    /\ Advance(r, IF NextRequeueCount(rtx[r]) > MaxRequeues THEN "giveup" ELSE "enqueue")
    /\ UNCHANGED <<queue, settledEvent, failedEvent, chainVars>>

Requeue(r) ==
    /\ rpc[r] = "enqueue"
    /\ EnqueueTransfer(rtx[r])
    /\ NextRow(r)
    /\ UNCHANGED <<rowVars, settledEvent, failedEvent, chainVars>>

GiveUp(r) ==
    /\ rpc[r] = "giveup"
    /\ UpdateReconciliationStatus(rtx[r], "failed")
    /\ NextRow(r)
    /\ UNCHANGED <<queue, settledEvent, failedEvent, chainVars>>

(* The process dies, or a statement fails: the row waits for the next run. *)
AbandonRow(r) ==
    /\ rpc[r] # "idle"
    /\ NextRow(r)
    /\ UNCHANGED <<rowVars, queue, settledEvent, failedEvent, chainVars>>
=============================================================================
