-------------------------- MODULE TransactionRepo --------------------------
(***************************************************************************)
(* The transactions table of Postgres as internal/postgres/                *)
(* transaction_repo.go reads and writes it.  Every operator below is one   *)
(* SQL statement: its WHERE clause is the guard (or the IF, when a         *)
(* statement that matches no row is not an error), its SET clause the      *)
(* primed variables.                                                       *)
(*                                                                         *)
(* A transfer is identified by a member of Tx; its row is spread over the  *)
(* functions status, txHash, requeueCount and age.  Status "none" means    *)
(* that no row exists yet.  A hash stands for the envelope it is the hash  *)
(* of.  Amounts, assets, wallets and tenants never change after the insert *)
(* and are left out.                                                       *)
(***************************************************************************)
EXTENDS Naturals

CONSTANTS
    Tx,             \* transfers
    NoHash,         \* tx_hash IS NULL
    MaxRequeues     \* reconcile.maxRequeues

VARIABLES
    status,         \* status[t]: column status
    txHash,         \* txHash[t]: column tx_hash
    requeueCount,   \* requeueCount[t]: column requeue_count, saturating
    age             \* age[t]: how old created_at is, see Age

rowVars == <<status, txHash, requeueCount, age>>

ASSUME RequeueAssumption == MaxRequeues \in Nat

(***************************************************************************)
(* An envelope is one signed Stellar transaction: the transfer it pays,    *)
(* the sequence number it consumes and the number of the build (two builds *)
(* differ in their time bounds, so they have different hashes).            *)
(***************************************************************************)
Envelope == [tx : Tx, seq : Nat, try : Nat]

ASSUME NoHashAssumption == NoHash \notin Envelope

Status == {"none", "pending", "submitted", "confirmed", "failed",
           "compliance_hold"}

(***************************************************************************)
(* created_at is only ever compared with two thresholds: 2 minutes         *)
(* (pendingCheckThreshold) and 10 minutes (stuckThreshold).                *)
(***************************************************************************)
Fresh == 0
PendingCheckThreshold == 1
StuckThreshold == 2
Age == {Fresh, PendingCheckThreshold, StuckThreshold}

RowInit ==
    /\ status = [t \in Tx |-> "none"]
    /\ txHash = [t \in Tx |-> NoHash]
    /\ requeueCount = [t \in Tx |-> 0]
    /\ age = [t \in Tx |-> Fresh]

RowTypeOK ==
    /\ status \in [Tx -> Status]
    /\ txHash \in [Tx -> Envelope \cup {NoHash}]
    /\ requeueCount \in [Tx -> 0 .. MaxRequeues + 1]
    /\ age \in [Tx -> Age]

-----------------------------------------------------------------------------
(* INSERT INTO transactions: a fresh row with no hash. *)
Create(t, s) ==
    /\ status[t] = "none"
    /\ status' = [status EXCEPT ![t] = s]
    /\ UNCHANGED <<txHash, requeueCount, age>>

(* Seeded fault: the claim also takes rows that are already submitted. *)
ClaimSubmittedToo(t) ==
    /\ status[t] \in {"pending", "submitted"}
    /\ status' = [status EXCEPT ![t] = "submitted"]
    /\ UNCHANGED <<txHash, requeueCount, age>>

(* Seeded fault: the claim has no condition on the status. *)
ClaimAnything(t) ==
    /\ status[t] # "none"
    /\ status' = [status EXCEPT ![t] = "submitted"]
    /\ UNCHANGED <<txHash, requeueCount, age>>

(* ... SET status = 'submitted' WHERE status = 'pending'; no row: error. *)
ClaimForSubmission(t) ==
    /\ status[t] = "pending"
    /\ status' = [status EXCEPT ![t] = "submitted"]
    /\ UNCHANGED <<txHash, requeueCount, age>>

(* ... SET status, tx_hash WHERE status != 'confirmed'; no row: no error. *)
UpdateStatus(t, s, h) ==
    /\ IF status[t] # "confirmed"
       THEN /\ status' = [status EXCEPT ![t] = s]
            /\ txHash' = [txHash EXCEPT ![t] = h]
       ELSE UNCHANGED <<status, txHash>>
    /\ UNCHANGED <<requeueCount, age>>

(* Seeded fault: claimed rows without a hash are not selected. *)
StuckPendingOnly(t) == status[t] = "pending" /\ age[t] >= StuckThreshold

(* The rows GetStuckPendingTxes selects. *)
IsStuckPending(t) ==
    /\ \/ status[t] = "pending"
       \/ status[t] = "submitted" /\ txHash[t] = NoHash
    /\ age[t] >= StuckThreshold

(* Seeded fault: AND tx_hash IS NULL is missing. *)
ResettableWithHash(t) == status[t] = "submitted" /\ age[t] >= StuckThreshold

(* The rows ResetStuckSubmittedToPending updates. *)
IsResettable(t) ==
    /\ status[t] = "submitted"
    /\ txHash[t] = NoHash
    /\ age[t] >= StuckThreshold

ResetStuckSubmittedToPending(t) ==
    /\ IsResettable(t)
    /\ status' = [status EXCEPT ![t] = "pending"]
    /\ UNCHANGED <<txHash, requeueCount, age>>

(* ... SET status WHERE id = $1: no guard on the status it overwrites. *)
UpdateReconciliationStatus(t, s) ==
    /\ status' = [status EXCEPT ![t] = s]
    /\ UNCHANGED <<txHash, requeueCount, age>>

(* The value is only compared with MaxRequeues, so it may saturate above. *)
NextRequeueCount(t) ==
    IF requeueCount[t] > MaxRequeues THEN requeueCount[t] ELSE requeueCount[t] + 1

IncrementRequeueCount(t) ==
    /\ requeueCount' = [requeueCount EXCEPT ![t] = NextRequeueCount(t)]
    /\ UNCHANGED <<status, txHash, age>>

(* Seeded fault: only rows in pending are reconciled. *)
PendingStatusOnly(t) ==
    /\ status[t] = "pending"
    /\ txHash[t] # NoHash
    /\ age[t] >= PendingCheckThreshold

(* The rows GetPendingTxesForReconciliation selects. *)
IsPendingWithHash(t) ==
    /\ status[t] \in {"pending", "submitted"}
    /\ txHash[t] # NoHash
    /\ age[t] >= PendingCheckThreshold

(* The rows UpdateTxConfirmed and UpdateTxFailed update. *)
IsCorrectable(t) == status[t] \in {"pending", "submitted"}

UpdateTxConfirmed(t, h) ==
    /\ IsCorrectable(t)
    /\ status' = [status EXCEPT ![t] = "confirmed"]
    /\ txHash' = [txHash EXCEPT ![t] = h]
    /\ UNCHANGED <<requeueCount, age>>

UpdateTxFailed(t) ==
    /\ IsCorrectable(t)
    /\ status' = [status EXCEPT ![t] = "failed"]
    /\ UNCHANGED <<txHash, requeueCount, age>>

(* NOW() moves past the next threshold of the row. *)
GrowOlder(t) ==
    /\ status[t] # "none"
    /\ age[t] < StuckThreshold
    /\ age' = [age EXCEPT ![t] = @ + 1]
    /\ UNCHANGED <<status, txHash, requeueCount>>
=============================================================================
