-------------------------- MODULE ComplianceGate --------------------------
(***************************************************************************)
(* How a transfer gets its row (internal/transfer/service.go) and how a    *)
(* held one is decided (internal/compliance/service.go, compliance_repo).  *)
(* A blocked request writes no transaction row and is not a step here; a   *)
(* screening that could not be completed is a hold.                        *)
(***************************************************************************)
EXTENDS TransactionRepo, TaskQueue

VARIABLES
    held,       \* transfers whose screening decided "hold"
    review,     \* review[t]: status of the compliance_reviews row of t
    gate        \* gate[t]: where the request that decided t's review stands

gateVars == <<held, review, gate>>

ReviewStatus == {"none", "pending", "approved", "rejected"}
GatePC == {"idle", "releasing", "enqueueing", "refusing"}

GateInit ==
    /\ held = {}
    /\ review = [t \in Tx |-> "none"]
    /\ gate = [t \in Tx |-> "idle"]

GateTypeOK ==
    /\ held \subseteq Tx
    /\ review \in [Tx -> ReviewStatus]
    /\ gate \in [Tx -> GatePC]

(* initiate with a cleared screening: insert, then enqueue.  Nothing else   *)
(* can touch the row between the two: it is not in the queue and the        *)
(* recovery sweep only looks at old rows.                                   *)
InitiateCleared(t) ==
    /\ Create(t, "pending")
    /\ EnqueueTransfer(t)
    /\ UNCHANGED gateVars

(* Seeded fault: the row keeps the status pending, it is just not enqueued. *)
HoldAsPending(t) ==
    /\ Create(t, "pending")
    /\ held' = held \cup {t}
    /\ \E s \in {"none", "pending"} : review' = [review EXCEPT ![t] = s]
    /\ UNCHANGED <<gate, queue>>

(* initiate with a hold: insert, then RecordHold, which may fail and leave  *)
(* the row without a review.  Nothing is enqueued.                          *)
InitiateHeld(t) ==
    /\ Create(t, "compliance_hold")
    /\ held' = held \cup {t}
    /\ \E s \in {"none", "pending"} : review' = [review EXCEPT ![t] = s]
    /\ UNCHANGED <<gate, queue>>

(* DecideReview: the conditional UPDATE that lets one request win.          *)
Approve(t) ==
    /\ review[t] = "pending"
    /\ review' = [review EXCEPT ![t] = "approved"]
    /\ gate' = [gate EXCEPT ![t] = "releasing"]
    /\ UNCHANGED <<rowVars, queue, held>>

(* Seeded fault: the UPDATE has no AND status = 'pending'. *)
RejectDecided(t) ==
    /\ review[t] # "none"
    /\ review' = [review EXCEPT ![t] = "rejected"]
    /\ gate' = [gate EXCEPT ![t] = "refusing"]
    /\ UNCHANGED <<rowVars, queue, held>>

Reject(t) ==
    /\ review[t] = "pending"
    /\ review' = [review EXCEPT ![t] = "rejected"]
    /\ gate' = [gate EXCEPT ![t] = "refusing"]
    /\ UNCHANGED <<rowVars, queue, held>>

(* releaseTransfer: the status first, the task second. *)
Release(t) ==
    /\ gate[t] = "releasing"
    /\ UpdateStatus(t, "pending", NoHash)
    /\ gate' = [gate EXCEPT ![t] = "enqueueing"]
    /\ UNCHANGED <<queue, held, review>>

EnqueueReleased(t) ==
    /\ gate[t] = "enqueueing"
    /\ EnqueueTransfer(t)
    /\ gate' = [gate EXCEPT ![t] = "idle"]
    /\ UNCHANGED <<rowVars, held, review>>

RefuseTransfer(t) ==
    /\ gate[t] = "refusing"
    /\ UpdateStatus(t, "failed", NoHash)
    /\ gate' = [gate EXCEPT ![t] = "idle"]
    /\ UNCHANGED <<queue, held, review>>

(* The request's process dies or a statement fails: decide returns, and    *)
(* a second decide finds the review no longer pending.                     *)
AbandonDecision(t) ==
    /\ gate[t] # "idle"
    /\ gate' = [gate EXCEPT ![t] = "idle"]
    /\ UNCHANGED <<rowVars, queue, held, review>>
=============================================================================
