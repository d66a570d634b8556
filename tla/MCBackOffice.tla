----------------------------- MODULE MCBackOffice -----------------------------
(***************************************************************************)
(* The components that work in the background, for TLC: the ledger         *)
(* indexer, webhook deliveries, treasury sweeps, the balance cache with    *)
(* its reconciliation, the refresh of the sanctions list and the audit of  *)
(* confirmed transfers.  As in MCPayouts a behaviour exercises one of      *)
(* them, its focus.                                                        *)
(***************************************************************************)
EXTENDS LedgerIndexer, Webhooks, Treasury, BalanceCache, SanctionsList, LedgerAudit, TLC

VARIABLE focus

Policy(t, b, c) == [threshold |-> t, buffer |-> b, auto |-> TRUE, cold |-> c]
MCPolicies == {Policy(0, 1, TRUE), Policy(1, 0, TRUE), Policy(0, 0, FALSE)}

(* A transfer paid as it should be, for the behaviours of the others. *)
Paid == [kind |-> "payment", from |-> "source", to |-> "payee", asset |-> "usdc", amount |-> 1]

BackOfficeInit ==
  /\ focus \in {"indexer", "webhooks", "treasury", "cache", "sanctions", "audit"}
  /\ IndexInit /\ HookInit /\ TreasuryInit
  /\ CacheInit /\ (focus = "cache" \/ cacheSigner = CHOOSE s \in CacheSigner : TRUE)
  /\ ListInit /\ (focus = "sanctions" \/ published = Party)
  /\ IF focus = "audit" THEN AuditInit
     ELSE /\ expected = [from |-> "source", to |-> "payee", asset |-> "usdc", net |-> 1, fee |-> 0, listed |-> TRUE]
          /\ onLedger = [found |-> TRUE, successful |-> TRUE, ops |-> {Paid}]
          /\ auditStatus = "confirmed" /\ reconciled = FALSE /\ auditLog = {} /\ auditFaults = 0
          /\ apc = [p \in AuditPass |-> "idle"] /\ outcome = [p \in AuditPass |-> "none"]

BackOfficeNext ==
  /\ UNCHANGED focus
  /\ \/ focus = "indexer" /\ IndexNext /\ UNCHANGED <<hookVars, treasuryVars, cacheVars, listVars, auditVars>>
     \/ focus = "webhooks" /\ HookNext /\ UNCHANGED <<indexVars, treasuryVars, cacheVars, listVars, auditVars>>
     \/ focus = "treasury" /\ TreasuryNext /\ UNCHANGED <<indexVars, hookVars, cacheVars, listVars, auditVars>>
     \/ focus = "cache" /\ CacheNext /\ UNCHANGED <<indexVars, hookVars, treasuryVars, listVars, auditVars>>
     \/ focus = "sanctions" /\ ListNext /\ UNCHANGED <<indexVars, hookVars, treasuryVars, cacheVars, auditVars>>
     \/ focus = "audit" /\ AuditNext /\ UNCHANGED <<indexVars, hookVars, treasuryVars, cacheVars, listVars>>

backOfficeVars == <<focus, indexVars, hookVars, treasuryVars, cacheVars, listVars, auditVars>>

BackOfficeSpec == BackOfficeInit /\ [][BackOfficeNext]_backOfficeVars

(* The sync task comes round every 30 seconds and runs to its end. *)
IndexFairness == \A r \in Syncer : WF_indexVars(focus = "indexer" /\ SyncStep(r))

(* Dispatch runs to its end and workers take what is queued. *)
HookFairness ==
  /\ WF_hookVars(focus = "webhooks" /\ \E e \in Endpoint : CreateDelivery(e))
  /\ \A w \in Deliverer : WF_hookVars(focus = "webhooks" /\ DelivererStep(w))

(* The scheduler enqueues the task every day and a worker takes it in the   *)
(* end, also when manual sweeps keep coming; calls return.  Manual sweeps,  *)
(* changes of the configuration and faults need not happen.                 *)
TreasuryFairness ==
  \A s \in Sweeper :
    /\ WF_treasuryVars(focus = "treasury" /\ SweepStep(s)) /\ SF_treasuryVars(focus = "treasury" /\ HandleSweep(s))
    /\ WF_treasuryVars(focus = "treasury" /\ \E e \in flying : e.owner = s /\ ApplySweep(e))

(* The indexer's sync task comes back every 30 seconds for each wallet,     *)
(* also when requests keep coming, and calls return.                        *)
CacheFairness ==
  /\ WF_cacheVars(focus = "cache" /\ (LoadForComparison \/ CheckWalletBalance))
  /\ \A w \in CacheWriter :
       SF_cacheVars(focus = "cache" /\ LoadBalances(w)) /\ WF_cacheVars(focus = "cache" /\ Refreshes(w)) /\ WF_cacheVars(focus = "cache" /\ Finishes(w))

(* The task runs every day and is carried through, the tickers tick, the    *)
(* replica follows; nothing makes the publisher or a fault happen.          *)
ListFairness ==
  /\ WF_listVars(focus = "sanctions" /\ Replicate)
  /\ \A r \in Refresher : WF_listVars(focus = "sanctions" /\ (Download(r) \/ Stamp(r) \/ ReplaceSanctionsEntities(r) \/ ApplyOwn(r) \/ RecordSanctionsUpdate(r)))
  /\ \A p \in Process : WF_listVars(focus = "sanctions" /\ (ListSanctionsEntities(p) \/ ApplyLoaded(p)))

(* The task is scheduled every five minutes and each pass is carried        *)
(* through.                                                                 *)
AuditFairness == \A p \in AuditPass : WF_auditVars(focus = "audit" /\ AuditStep(p))

FairBackOffice ==
  /\ BackOfficeSpec
  /\ IndexFairness /\ HookFairness /\ TreasuryFairness /\ CacheFairness /\ ListFairness /\ AuditFairness

(* What happens outside is noticed in the end, if no task fails for ever     *)
(* (SyncAll, persistBalances, HandleRefreshSanctions, Deliver): a payment is  *)
(* recorded, the cache catches up, an edition of the list reaches every      *)
(* process, an attempted delivery ends.                                      *)
NewsArrives ==
  /\ PaymentsAreRecorded
  /\ focus = "cache" => CacheCatchesUp
  /\ focus = "sanctions" => EditionArrives
  /\ DeliveriesEnd

(* What is wrong does not stay unnoticed (ExecuteSweep, checkWalletBalance,  *)
(* Reconcile): an excess is swept, a phantom balance reported, a confirmed   *)
(* row without its payment flagged.                                          *)
ChecksConclude ==
  /\ focus = "treasury" => ExcessIsSwept
  /\ PhantomIsReported
  /\ WrongIsFlagged

(* Refreshes of the list and the parties on it are interchangeable. *)
BackOfficeSymmetry == Permutations(Refresher) \cup Permutations(Party)
=============================================================================
