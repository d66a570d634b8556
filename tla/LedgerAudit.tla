----------------------------- MODULE LedgerAudit -----------------------------
(***************************************************************************)
(* The audit of confirmed transactions against the ledger: Reconcile,      *)
(* checkTransaction and verifyOps of internal/reconcile/reconcile.go and   *)
(* the statements of postgres/transaction_repo.go they use.  One confirmed *)
(* row, any number of passes at once; what the row says and what the       *)
(* ledger holds under its hash are chosen at the start and stay.           *)
(***************************************************************************)
EXTENDS Naturals, FiniteSets

CONSTANTS
  AuditPass,                    \* audit passes under way
  HorizonLags,                  \* whether Horizon may answer 404 for what the ledger holds
  MaxAuditFaults                \* bound on failed calls

ASSUME AuditBounds == HorizonLags \in BOOLEAN /\ MaxAuditFaults \in Nat

AuditAsset == {"usdc", "lookalike", "native"}
Operation ==
  [kind : {"payment"}, from : {"source", "stranger"}, to : {"payee", "fees"}, asset : AuditAsset, amount : {1, 2}]
  \cup [kind : {"other"}, from : {"source"}, to : {"payee"}, asset : {"usdc"}, amount : {1}]
OneOrTwo == {{a, b} : a, b \in Operation}

(* Nothing, an unsuccessful transaction, or one with an operation or two. *)
Ledger == [found : {FALSE}, successful : {FALSE}, ops : {{}}] \cup [found : {TRUE}, successful : {FALSE}, ops : {{}}]
          \cup [found : {TRUE}, successful : {TRUE}, ops : OneOrTwo]

(* What the row asks for.  A deposit the indexer found has no source wallet *)
(* and no fee; an asset may have left the registry since.                   *)
Expected == {e \in [from : {"source", ""}, to : {"payee", "fees"}, asset : {"usdc", "native"},
                    net : {1, 2}, fee : {0, 1}, listed : BOOLEAN] :
               (e.from = "" => e.fee = 0) /\ (e.asset = "native" => e.listed)}

VARIABLES
  expected, onLedger,
  auditStatus,                  \* transactions.status of the row
  reconciled,                   \* reconciled_at is less than an hour old
  auditLog,                     \* outcomes in ledger_audit_log
  apc, outcome,                 \* a pass: position; what it found
  auditFaults

auditVars == <<expected, onLedger, auditStatus, reconciled, auditLog, apc, outcome, auditFaults>>
given == <<expected, onLedger>>

AuditTypeOK ==
  /\ expected \in Expected /\ onLedger.found \in BOOLEAN
  /\ auditStatus \in {"confirmed", "reconciliation_failed"} /\ reconciled \in BOOLEAN
  /\ auditLog \subseteq {"ok", "mismatch", "not_found"}
  /\ apc \in [AuditPass -> {"idle", "detail", "operations", "flag", "log", "stamp"}]
  /\ outcome \in [AuditPass -> {"none", "ok", "mismatch", "not_found"}]
  /\ auditFaults \in 0..MaxAuditFaults

AuditInit ==
  /\ expected \in Expected
  /\ onLedger \in Ledger
  /\ auditStatus = "confirmed" /\ reconciled = FALSE /\ auditLog = {}
  /\ apc = [p \in AuditPass |-> "idle"] /\ outcome = [p \in AuditPass |-> "none"] /\ auditFaults = 0

AuditFault == auditFaults < MaxAuditFaults /\ auditFaults' = auditFaults + 1
AuditAt(p, pc, out) == apc' = [apc EXCEPT ![p] = pc] /\ outcome' = [outcome EXCEPT ![p] = out]
-----------------------------------------------------------------------------
(* Seeded fault: the issuer is not compared. *)
SameCode(op) == (op.asset = "native") <=> (expected.asset = "native")

(* assetIdentityMatches: native by type, a credit asset by code and issuer. *)
AssetIdentityMatches(op) == op.asset = expected.asset

MatchesMainLeg(op) ==
  /\ expected.from \in {"", op.from} /\ op.to = expected.to
  /\ AssetIdentityMatches(op) /\ op.amount = expected.net

MatchesFeeLeg(op) == op.to = "fees" /\ AssetIdentityMatches(op) /\ op.amount = expected.fee

(* extractCandidatePayment: payments and path payments. *)
Candidates(ops) == {op \in ops : op.kind = "payment"}

(* Seeded fault: amount and asset may match on different operations. *)
VerifyApart(ops) ==
  /\ \E op \in ops : op.amount = expected.net /\ op.to = expected.to
  /\ \E op \in ops : AssetIdentityMatches(op)
  /\ expected.fee > 0 => \E op \in ops : MatchesFeeLeg(op)

(* verifyOps: one operation is the whole main leg; with a fee, an operation *)
(* is the whole fee leg.                                                    *)
VerifyOps(ops) ==
  /\ \E op \in Candidates(ops) : MatchesMainLeg(op)
  /\ expected.fee > 0 => \E op \in Candidates(ops) : MatchesFeeLeg(op)

(* buildExpectedPayment: the wallets are resolved and the asset looked up   *)
(* in the registry; native is always known.                                 *)
BuildsExpectedPayment == expected.asset = "native" \/ expected.listed

(* GetConfirmedTxesForReconciliation. *)
StartAudit(p) ==
  /\ apc[p] = "idle" /\ auditStatus = "confirmed" /\ ~reconciled /\ AuditAt(p, "detail", "none")
  /\ UNCHANGED <<given, auditStatus, reconciled, auditLog, auditFaults>>

(* TransactionDetail: a 404 or an unsuccessful transaction flags the row,   *)
(* any other error leaves it for the next pass.                             *)
FetchDetail(p) ==
  /\ apc[p] = "detail"
  /\ \/ onLedger.found /\ onLedger.successful /\ AuditAt(p, "operations", "none") /\ UNCHANGED auditFaults
     \/ (~onLedger.found \/ ~onLedger.successful \/ HorizonLags) /\ AuditAt(p, "flag", "not_found") /\ UNCHANGED auditFaults
     \/ AuditFault /\ AuditAt(p, "idle", "none")
  /\ UNCHANGED <<given, auditStatus, reconciled, auditLog>>

(* OperationsForTransaction, buildExpectedPayment and verifyOps.  An asset  *)
(* that is not in the registry ends the check without a verdict.            *)
CheckOperations(p) ==
  /\ apc[p] = "operations"
  /\ \/ /\ BuildsExpectedPayment /\ UNCHANGED auditFaults
        /\ IF VerifyOps(onLedger.ops) THEN AuditAt(p, "log", "ok") ELSE AuditAt(p, "flag", "mismatch")
     \/ ~BuildsExpectedPayment /\ AuditAt(p, "idle", "none") /\ UNCHANGED auditFaults
     \/ AuditFault /\ AuditAt(p, "idle", "none")
  /\ UNCHANGED <<given, auditStatus, reconciled, auditLog>>

(* UpdateReconciliationStatus has no guard on the status it replaces. *)
UpdateReconciliationStatus(p) ==
  /\ apc[p] = "flag"
  /\ \/ auditStatus' = "reconciliation_failed" /\ AuditAt(p, "log", outcome[p]) /\ UNCHANGED auditFaults
     \/ AuditFault /\ AuditAt(p, "idle", "none") /\ UNCHANGED auditStatus
  /\ UNCHANGED <<given, reconciled, auditLog>>

(* writeAudit: a row that cannot be written is only logged. *)
WriteAudit(p) ==
  /\ apc[p] = "log"
  /\ \/ auditLog' = auditLog \cup {outcome[p]} /\ UNCHANGED auditFaults
     \/ AuditFault /\ UNCHANGED auditLog
  /\ IF outcome[p] = "ok" THEN AuditAt(p, "stamp", "ok") ELSE AuditAt(p, "idle", "none")
  /\ UNCHANGED <<given, auditStatus, reconciled>>

UpdateReconciledAt(p) ==
  /\ apc[p] = "stamp" /\ AuditAt(p, "idle", "none")
  /\ \/ reconciled' = TRUE /\ UNCHANGED auditFaults
     \/ AuditFault /\ UNCHANGED reconciled
  /\ UNCHANGED <<given, auditStatus, auditLog>>

(* An hour later the row is due again. *)
HourPasses ==
  /\ reconciled /\ reconciled' = FALSE
  /\ UNCHANGED <<given, auditStatus, auditLog, apc, outcome, auditFaults>>

(* A scheduled pass that finds no row due. *)
NothingDue ==
  /\ auditStatus # "confirmed" \/ reconciled
  /\ UNCHANGED auditVars

AuditStep(p) ==
  StartAudit(p) \/ FetchDetail(p) \/ CheckOperations(p) \/ UpdateReconciliationStatus(p) \/ WriteAudit(p) \/ UpdateReconciledAt(p)

AuditNext == HourPasses \/ NothingDue \/ \E p \in AuditPass : AuditStep(p)

AuditSpec == AuditInit /\ [][AuditNext]_auditVars
-----------------------------------------------------------------------------
MainOp(op) == /\ op.kind = "payment" /\ op.to = expected.to /\ op.asset = expected.asset /\ op.amount = expected.net
              /\ expected.from = "" \/ op.from = expected.from
FeeOp(op) == op.kind = "payment" /\ op.to = "fees" /\ op.asset = expected.asset /\ op.amount = expected.fee

(* What the row says happened: the main payment, and beside it the fee. *)
PaidOnLedger ==
  /\ onLedger.found /\ onLedger.successful
  /\ \E op \in onLedger.ops : MainOp(op) /\ (expected.fee > 0 => \E fee \in onLedger.ops \ {op} : FeeOp(fee))

(* A payment to the fee wallet of as much as the fee could be either leg. *)
OneOpIsBoth == expected.to = "fees" /\ expected.net = expected.fee

(* A row is passed by the audit only when the ledger holds, under its hash, *)
(* the payment the row stands for and its fee, and is flagged only when it  *)
(* does not, whatever calls fail and however passes overlap.  (Horizon      *)
(* answering truthfully.)                                                   *)
AuditIsRight ==
  /\ "ok" \in auditLog \/ reconciled => PaidOnLedger \/ OneOpIsBoth
  /\ ~HorizonLags /\ auditStatus = "reconciliation_failed" => ~PaidOnLedger

(* A confirmed row whose payment is not on the ledger is flagged in the end *)
(* (an asset outside the registry, and the ambiguous leg, apart).           *)
WrongIsFlagged ==
  (~PaidOnLedger /\ ~OneOpIsBoth /\ (expected.listed \/ ~onLedger.successful)) ~> auditStatus = "reconciliation_failed"

(* verifyOps says of itself that the fee must be a distinct operation. *)
FeeLegIsDistinct == "ok" \in auditLog => PaidOnLedger

(* A row is passed only when the ledger holds its payment, and flagged only *)
(* when it does not (checkTransaction, verifyOps).                           *)
AuditSafe ==
  /\ AuditTypeOK
  /\ AuditIsRight
=============================================================================
