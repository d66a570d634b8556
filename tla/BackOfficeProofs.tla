--------------------------- MODULE BackOfficeProofs ---------------------------
(***************************************************************************)
(* What the background components guarantee for any number of passes,      *)
(* refreshes, readers and workers: the audit of confirmed rows, the        *)
(* sanctions list, webhook deliveries, cached balances, the indexer and    *)
(* the sweeps of the treasury.  Each part has its inductive invariant, a   *)
(* lemma for every action that disturbs it, and the theorem.               *)
(***************************************************************************)
EXTENDS LedgerAudit, SanctionsList, Webhooks, BalanceCache, LedgerIndexer, Treasury,
        Counting, FiniteSetTheorems, SequenceTheorems, TLAPS

-----------------------------------------------------------------------------
(* The audit.  A pass carries what it read; the ledger's side never changes, *)
(* so what was true when it was read is true when it is written.             *)

Right == PaidOnLedger \/ OneOpIsBoth

(* What a pass knows at each of its positions.                               *)
PassOK(p) ==
  /\ apc[p] = "operations" => onLedger.found /\ onLedger.successful
  /\ apc[p] = "flag" => outcome[p] \in {"mismatch", "not_found"}
  /\ apc[p] = "log" => outcome[p] \in {"ok", "mismatch", "not_found"}
  /\ apc[p] = "stamp" => outcome[p] = "ok"
  /\ outcome[p] = "ok" => Right
  /\ outcome[p] \in {"mismatch", "not_found"} /\ ~HorizonLags => ~PaidOnLedger

AuditInv == AuditSafe /\ \A p \in AuditPass : PassOK(p)

(* What verifyOps accepts is the payment and its fee, but for a payment that *)
(* could be either; what it refuses is not.                                  *)
LEMMA AcceptedIsPaid ==
  ASSUME onLedger.found, onLedger.successful, VerifyOps(onLedger.ops)
  PROVE  Right
<1>1. PICK main \in onLedger.ops : main.kind = "payment" /\ MatchesMainLeg(main)
  BY DEF VerifyOps, Candidates
<1>2. MainOp(main)
  BY <1>1 DEF MainOp, MatchesMainLeg, AssetIdentityMatches
<1>3. CASE ~(expected.fee > 0)
  BY <1>2, <1>3 DEF Right, PaidOnLedger
<1>4. CASE expected.fee > 0
  <2>1. PICK fee \in onLedger.ops : fee.kind = "payment" /\ MatchesFeeLeg(fee)
    BY <1>4 DEF VerifyOps, Candidates
  <2>2. FeeOp(fee)
    BY <2>1 DEF FeeOp, MatchesFeeLeg, AssetIdentityMatches
  <2>3. CASE fee = main
    BY <1>2, <2>2, <2>3 DEF Right, OneOpIsBoth, MainOp, FeeOp
  <2>4. CASE fee # main
    BY <1>2, <2>2, <2>4 DEF Right, PaidOnLedger
  <2> QED BY <2>3, <2>4
<1> QED BY <1>3, <1>4

(* What verifyOps refuses was not paid as the row says.                      *)
LEMMA RefusedIsUnpaid ==
  ASSUME ~VerifyOps(onLedger.ops)
  PROVE  ~PaidOnLedger
BY DEF PaidOnLedger, MainOp, FeeOp, VerifyOps, Candidates, MatchesMainLeg, MatchesFeeLeg, AssetIdentityMatches

(* A step of one pass that leaves the row's side alone: only what that pass  *)
(* knows has to be looked at.                                                *)
LEMMA PassStep ==
  ASSUME AuditInv, NEW p \in AuditPass, NEW pc, NEW out, AuditAt(p, pc, out), UNCHANGED given,
         pc \in {"idle", "detail", "operations", "flag", "log", "stamp"},
         out \in {"none", "ok", "mismatch", "not_found"},
         pc = "operations" => onLedger.found /\ onLedger.successful,
         pc = "flag" => out \in {"mismatch", "not_found"},
         pc = "log" => out # "none", pc = "stamp" => out = "ok",
         out = "ok" => Right,
         out \in {"mismatch", "not_found"} /\ ~HorizonLags => ~PaidOnLedger
  PROVE  /\ apc' \in [AuditPass -> {"idle", "detail", "operations", "flag", "log", "stamp"}]
         /\ outcome' \in [AuditPass -> {"none", "ok", "mismatch", "not_found"}]
         /\ (\A q \in AuditPass : PassOK(q))'
         /\ Right' = Right /\ PaidOnLedger' = PaidOnLedger /\ OneOpIsBoth' = OneOpIsBoth
<1>1. /\ apc' \in [AuditPass -> {"idle", "detail", "operations", "flag", "log", "stamp"}]
      /\ outcome' \in [AuditPass -> {"none", "ok", "mismatch", "not_found"}]
  BY DEF AuditInv, AuditSafe, AuditTypeOK, AuditAt
<1>2. Right' = Right /\ PaidOnLedger' = PaidOnLedger /\ OneOpIsBoth' = OneOpIsBoth
  BY ZenonT(60) DEF given, Right, PaidOnLedger, OneOpIsBoth, MainOp, FeeOp
<1>3. ASSUME NEW q \in AuditPass PROVE PassOK(q)'
  <2>1. apc'[q] = (IF q = p THEN pc ELSE apc[q]) /\ outcome'[q] = (IF q = p THEN out ELSE outcome[q])
    BY DEF AuditInv, AuditSafe, AuditTypeOK, AuditAt
  <2>2. PassOK(q)
    BY DEF AuditInv
  <2>3. onLedger' = onLedger
    BY DEF given
  <2> QED BY <1>2, <2>1, <2>2, <2>3 DEF PassOK
<1> QED BY <1>1, <1>2, <1>3

(* No pass moves.                                                            *)
LEMMA RestOK ==
  ASSUME AuditInv, UNCHANGED <<given, apc, outcome>>
  PROVE  /\ (\A q \in AuditPass : PassOK(q))'
         /\ Right' = Right /\ PaidOnLedger' = PaidOnLedger /\ OneOpIsBoth' = OneOpIsBoth
<1>1. Right' = Right /\ PaidOnLedger' = PaidOnLedger /\ OneOpIsBoth' = OneOpIsBoth
  BY DEF given, Right, PaidOnLedger, OneOpIsBoth, MainOp, FeeOp
<1>2. ASSUME NEW q \in AuditPass PROVE PassOK(q)'
  BY <1>1 DEF AuditInv, PassOK, given
<1> QED BY <1>1, <1>2

(* Every step of a pass keeps the invariant.                                 *)
LEMMA AuditStepOK ==
  ASSUME AuditInv, NEW p \in AuditPass, AuditStep(p)
  PROVE  AuditInv'
<1> USE AuditBounds
<1>t. AuditTypeOK /\ AuditIsRight /\ PassOK(p)
  BY DEF AuditInv, AuditSafe
<1>f. AuditFault => auditFaults' \in 0..MaxAuditFaults
  BY <1>t DEF AuditFault, AuditTypeOK
<1>1. CASE StartAudit(p)
  <2>1. AuditAt(p, "detail", "none") /\ UNCHANGED <<given, auditStatus, reconciled, auditLog, auditFaults>>
    BY <1>1 DEF StartAudit
  <2> QED BY <1>t, <2>1, PassStep DEF AuditInv, AuditSafe, AuditTypeOK, AuditIsRight, given, Right
<1>2. CASE FetchDetail(p)
  <2>1. UNCHANGED <<given, auditStatus, reconciled, auditLog>>
    BY <1>2 DEF FetchDetail
  <2>2. ~onLedger.found \/ ~onLedger.successful => ~PaidOnLedger
    BY DEF PaidOnLedger
  <2>3. auditFaults' \in 0..MaxAuditFaults
    BY <1>t, <1>f, <1>2 DEF FetchDetail, AuditTypeOK
  <2>4. \/ onLedger.found /\ onLedger.successful /\ AuditAt(p, "operations", "none")
        \/ (~onLedger.found \/ ~onLedger.successful \/ HorizonLags) /\ AuditAt(p, "flag", "not_found")
        \/ AuditAt(p, "idle", "none")
    BY <1>2 DEF FetchDetail
  <2> QED BY <1>t, <2>1, <2>2, <2>3, <2>4, PassStep DEF AuditInv, AuditSafe, AuditTypeOK, AuditIsRight, given, Right
<1>3. CASE CheckOperations(p)
  <2>1. UNCHANGED <<given, auditStatus, reconciled, auditLog>>
    BY <1>3 DEF CheckOperations
  <2>2. onLedger.found /\ onLedger.successful
    BY <1>t, <1>3 DEF CheckOperations, PassOK
  <2>3. auditFaults' \in 0..MaxAuditFaults
    BY <1>t, <1>f, <1>3 DEF CheckOperations, AuditTypeOK
  <2>4. \/ VerifyOps(onLedger.ops) /\ AuditAt(p, "log", "ok")
        \/ ~VerifyOps(onLedger.ops) /\ AuditAt(p, "flag", "mismatch")
        \/ AuditAt(p, "idle", "none")
    BY <1>3 DEF CheckOperations
  <2>5. /\ VerifyOps(onLedger.ops) => Right
        /\ ~VerifyOps(onLedger.ops) => ~PaidOnLedger
    BY <2>2, AcceptedIsPaid, RefusedIsUnpaid
  <2> QED BY <1>t, <2>1, <2>3, <2>4, <2>5, PassStep DEF AuditInv, AuditSafe, AuditTypeOK, AuditIsRight, given, Right
<1>4. CASE UpdateReconciliationStatus(p)
  <2>1. UNCHANGED <<given, reconciled, auditLog>>
    BY <1>4 DEF UpdateReconciliationStatus
  <2>2. outcome[p] \in {"mismatch", "not_found"} /\ (~HorizonLags => ~PaidOnLedger)
    BY <1>t, <1>4 DEF UpdateReconciliationStatus, PassOK
  <2>3. auditFaults' \in 0..MaxAuditFaults
    BY <1>t, <1>f, <1>4 DEF UpdateReconciliationStatus, AuditTypeOK
  <2>4. \/ auditStatus' = "reconciliation_failed" /\ AuditAt(p, "log", outcome[p])
        \/ auditStatus' = auditStatus /\ AuditAt(p, "idle", "none")
    BY <1>4 DEF UpdateReconciliationStatus
  <2> QED BY <1>t, <2>1, <2>2, <2>3, <2>4, PassStep DEF AuditInv, AuditSafe, AuditTypeOK, AuditIsRight, given, Right
<1>5. CASE WriteAudit(p)
  <2>1. UNCHANGED <<given, auditStatus, reconciled>>
    BY <1>5 DEF WriteAudit
  <2>2. outcome[p] \in {"ok", "mismatch", "not_found"} /\ (outcome[p] = "ok" => Right)
    BY <1>t, <1>5 DEF WriteAudit, PassOK
  <2>3. auditFaults' \in 0..MaxAuditFaults
    BY <1>t, <1>f, <1>5 DEF WriteAudit, AuditTypeOK
  <2>4. auditLog' = auditLog \/ auditLog' = auditLog \cup {outcome[p]}
    BY <1>5 DEF WriteAudit
  <2>5. \/ outcome[p] = "ok" /\ AuditAt(p, "stamp", "ok")
        \/ AuditAt(p, "idle", "none")
    BY <1>5 DEF WriteAudit
  <2>6. auditLog' \subseteq {"ok", "mismatch", "not_found"} /\ ("ok" \in auditLog' => Right)
    BY <1>t, <2>2, <2>4 DEF AuditTypeOK, AuditIsRight, Right
  <2> QED BY <1>t, <2>1, <2>2, <2>3, <2>5, <2>6, PassStep DEF AuditInv, AuditSafe, AuditTypeOK, AuditIsRight, given, Right
<1>6. CASE UpdateReconciledAt(p)
  <2>1. AuditAt(p, "idle", "none") /\ UNCHANGED <<given, auditStatus, auditLog>>
    BY <1>6 DEF UpdateReconciledAt
  <2>2. Right
    BY <1>t, <1>6 DEF UpdateReconciledAt, PassOK
  <2>3. auditFaults' \in 0..MaxAuditFaults /\ reconciled' \in BOOLEAN
    BY <1>t, <1>f, <1>6 DEF UpdateReconciledAt, AuditTypeOK
  <2> QED BY <1>t, <2>1, <2>2, <2>3, PassStep DEF AuditInv, AuditSafe, AuditTypeOK, AuditIsRight, given, Right
<1> QED BY <1>1, <1>2, <1>3, <1>4, <1>5, <1>6 DEF AuditStep

(* AuditSafe for any number of overlapping passes, failed calls and a        *)
(* Horizon that may lag (Reconcile, checkTransaction, verifyOps): a row is   *)
(* passed only when the ledger holds its payment, and, when Horizon does not *)
(* lag, flagged only when it does not.                                       *)
THEOREM AuditsAreSafe == AuditSpec => []AuditSafe
<1> USE AuditBounds
<1>1. AuditInit => AuditInv
  <2> SUFFICES ASSUME AuditInit PROVE AuditInv
    OBVIOUS
  <2>1. onLedger.found \in BOOLEAN
    BY DEF AuditInit, Ledger
  <2>2. apc = [p \in AuditPass |-> "idle"] /\ outcome = [p \in AuditPass |-> "none"]
    BY DEF AuditInit
  <2>3. \A p \in AuditPass : apc[p] = "idle" /\ outcome[p] = "none"
    BY <2>2
  <2>4. AuditTypeOK
    <3>1. /\ apc \in [AuditPass -> {"idle", "detail", "operations", "flag", "log", "stamp"}]
          /\ outcome \in [AuditPass -> {"none", "ok", "mismatch", "not_found"}]
      BY <2>2
    <3>2. auditFaults \in 0..MaxAuditFaults
      BY DEF AuditInit
    <3>3. reconciled \in BOOLEAN /\ auditLog \subseteq {"ok", "mismatch", "not_found"} /\ expected \in Expected
          /\ auditStatus \in {"confirmed", "reconciliation_failed"}
      BY DEF AuditInit
    <3> QED BY <2>1, <3>1, <3>2, <3>3 DEF AuditTypeOK
  <2>5. AuditIsRight
    BY DEF AuditInit, AuditIsRight
  <2>6. \A p \in AuditPass : PassOK(p)
    BY <2>3 DEF PassOK
  <2> QED BY <2>4, <2>5, <2>6 DEF AuditInv, AuditSafe
<1>2. AuditInv /\ [AuditNext]_auditVars => AuditInv'
  <2> SUFFICES ASSUME AuditInv, [AuditNext]_auditVars PROVE AuditInv'
    OBVIOUS
  <2>1. CASE UNCHANGED auditVars
    <3>1. UNCHANGED <<given, auditStatus, reconciled, auditLog, apc, outcome, auditFaults>>
      BY <2>1 DEF auditVars, given
    <3>2. AuditTypeOK' /\ AuditIsRight'
      BY <3>1, RestOK DEF AuditInv, AuditSafe, AuditIsRight, AuditTypeOK, Right, given
    <3> QED BY <3>1, <3>2, RestOK DEF AuditInv, AuditSafe
  <2>2. CASE HourPasses
    <3>1. reconciled' = FALSE /\ UNCHANGED <<given, auditStatus, auditLog, apc, outcome, auditFaults>>
      BY <2>2 DEF HourPasses
    <3>2. reconciled' \in BOOLEAN /\ ~reconciled'
      BY <3>1
    <3>3. AuditTypeOK'
      BY <3>1, <3>2 DEF AuditInv, AuditSafe, AuditTypeOK, given
    <3>4. AuditIsRight'
      BY <3>1, <3>2, RestOK DEF AuditInv, AuditSafe, AuditIsRight, Right
    <3> QED BY <3>1, <3>3, <3>4, RestOK DEF AuditInv, AuditSafe
  <2>3. CASE NothingDue
    BY <2>1, <2>3 DEF NothingDue
  <2>4. ASSUME NEW p \in AuditPass, AuditStep(p) PROVE AuditInv'
    BY <2>4, AuditStepOK
  <2> QED BY <2>1, <2>2, <2>3, <2>4 DEF AuditNext
<1>3. AuditInv => AuditSafe
  BY DEF AuditInv
<1> QED BY <1>1, <1>2, <1>3, PTL DEF AuditSpec
-----------------------------------------------------------------------------
(* The sanctions list.  Nothing between the publisher and the memory of a    *)
(* process ever holds a list that lacks a party of every edition so far,     *)
(* unless it holds none at all, and an empty list is never applied.          *)

(* No list, or one with the parties of every edition.                        *)
Whole(list) == list = {} \/ constant \subseteq list

TaskOK(r) == fpc[r] # "idle" => constant \subseteq parsed[r] /\ parsed[r] # {}

ListInv ==
  /\ ListTypeOK
  /\ \A p \in Process : loaded[p] => constant \subseteq memory[p]
  /\ \A r \in Refresher : TaskOK(r)
  /\ Whole(entities) /\ Whole(replica)
  /\ \A p \in Process : \A rows \in snapshot[p] : Whole(rows)
  /\ \A r \in Refresher : fpc[r] \in {"apply", "record"} => entities # {}
  /\ StatusIsTrue

(* What the invariant says of the screener's verdict.                        *)
LEMMA ListInvIsSafe ==
  ASSUME ListInv
  PROVE  ListSafe
BY DEF ListInv, ListSafe, FailsClosed, SanctionsVerdict

(* A task that ends, whatever it records.                                    *)
LEMMA EndRefreshTypes ==
  ASSUME ListTypeOK, NEW r \in Refresher, NEW status \in {"failed", "success"}, EndRefresh(r, status)
  PROVE  /\ fpc' \in [Refresher -> {"idle", "parsed", "stamped", "apply", "record"}]
         /\ parsed' \in [Refresher -> SUBSET Party]
         /\ older' \in [Refresher -> [rows : SUBSET Party, tasks : SUBSET Refresher]]
         /\ audit' \in {"none", "success", "failed"} /\ (audit' = status \/ audit' = audit)
         /\ \A q \in Refresher : IF q = r THEN fpc'[q] = "idle" ELSE fpc'[q] = fpc[q] /\ parsed'[q] = parsed[q]
<1>1. older' \in [Refresher -> [rows : SUBSET Party, tasks : SUBSET Refresher]]
  <2>1. NoneOlder \in [rows : SUBSET Party, tasks : SUBSET Refresher]
    BY DEF NoneOlder
  <2>2. \A q \in Refresher : older[q] \in [rows : SUBSET Party, tasks : SUBSET Refresher]
    BY DEF ListTypeOK
  <2>3. \A q \in Refresher : [older[q] EXCEPT !.tasks = @ \ {r}] \in [rows : SUBSET Party, tasks : SUBSET Refresher]
    BY <2>2
  <2> QED BY <2>1, <2>3 DEF EndRefresh
<1> QED BY <1>1 DEF ListTypeOK, EndRefresh

(* A party on every edition after the next one was on every edition before.  *)
LEMMA PublishOK ==
  ASSUME ListInv, Publish
  PROVE  ListInv'
<1> USE ListBounds
<1>1. constant' \subseteq constant /\ UNCHANGED <<entities, replica, fpc, parsed, older, audit, loaded, memory, snapshot, listFaults>>
  BY DEF Publish, tables, tasks, sets
<1>2. ListTypeOK'
  BY <1>1 DEF ListInv, ListTypeOK, Publish
<1>3. \A list : Whole(list) => Whole(list)'
  BY <1>1 DEF Whole
<1>4. \A r \in Refresher : TaskOK(r)'
  BY <1>1 DEF ListInv, TaskOK
<1> QED BY <1>1, <1>2, <1>3, <1>4 DEF ListInv, StatusIsTrue, Whole

(* SanctionsSet.Replace with a whole list leaves a whole list.               *)
LEMMA ReplaceOK ==
  ASSUME ListInv, NEW p \in Process, NEW list \in SUBSET Party, Whole(list), Replace(p, list), constant' = constant
  PROVE  /\ loaded' \in [Process -> BOOLEAN] /\ memory' \in [Process -> SUBSET Party]
         /\ \A q \in Process : loaded'[q] => constant' \subseteq memory'[q]
<1>1. loaded \in [Process -> BOOLEAN] /\ memory \in [Process -> SUBSET Party]
  BY DEF ListInv, ListTypeOK
<1>2. \A q \in Process : loaded[q] => constant \subseteq memory[q]
  BY DEF ListInv
<1>3. CASE list = {}
  BY <1>1, <1>2, <1>3 DEF Replace
<1>4. CASE list # {}
  <2>1. memory' = [memory EXCEPT ![p] = list] /\ loaded' = [loaded EXCEPT ![p] = TRUE]
    BY <1>4 DEF Replace
  <2>2. constant \subseteq list
    BY <1>4 DEF Whole
  <2>3. loaded' \in [Process -> BOOLEAN] /\ memory' \in [Process -> SUBSET Party]
    BY <1>1, <2>1
  <2>4. ASSUME NEW q \in Process, loaded'[q] PROVE constant' \subseteq memory'[q]
    <3>1. CASE q = p
      BY <1>1, <2>1, <2>2, <3>1
    <3>2. CASE q # p
      BY <1>1, <1>2, <2>1, <2>4, <3>2
    <3> QED BY <3>1, <3>2
  <2> QED BY <2>3, <2>4
<1> QED BY <1>3, <1>4

(* A step of a refresh task before it touches the table, or after.           *)
LEMMA TaskStep ==
  ASSUME ListInv, UNCHANGED <<theList, tables, sets>>, listFaults' \in 0..MaxListFaults,
         fpc' \in [Refresher -> {"idle", "parsed", "stamped", "apply", "record"}],
         parsed' \in [Refresher -> SUBSET Party],
         older' \in [Refresher -> [rows : SUBSET Party, tasks : SUBSET Refresher]],
         audit' \in {"none", "success", "failed"},
         (\A r \in Refresher : TaskOK(r))',
         \A r \in Refresher : fpc'[r] \in {"apply", "record"} => fpc[r] \in {"apply", "record"},
         audit' = "success" => entities # {}
  PROVE  ListInv'
<1>1. ListTypeOK'
  BY DEF ListInv, ListTypeOK, theList, tables, sets
<1> QED BY <1>1 DEF ListInv, theList, tables, sets, Whole, StatusIsTrue

(* A download that fails, does not parse or is empty ends the refresh; any   *)
(* other holds the parties of every edition so far.                          *)
LEMMA DownloadOK ==
  ASSUME ListInv, NEW r \in Refresher, Download(r)
  PROVE  ListInv'
<1> USE ListBounds
<1>t. ListTypeOK /\ (\A q \in Refresher : TaskOK(q)) /\ StatusIsTrue
  BY DEF ListInv
<1>u. UNCHANGED <<theList, tables, sets>> /\ constant' = constant
  BY DEF Download, theList
<1>1. CASE /\ fpc' = [fpc EXCEPT ![r] = "parsed"] /\ parsed' = [parsed EXCEPT ![r] = published]
           /\ UNCHANGED <<older, audit, listFaults>>
  <2>1. /\ fpc' \in [Refresher -> {"idle", "parsed", "stamped", "apply", "record"}]
        /\ parsed' \in [Refresher -> SUBSET Party]
        /\ published # {} /\ constant \subseteq published
    <3>1. published \in SUBSET Party /\ published # {} /\ constant \subseteq published
      BY <1>t DEF ListTypeOK, Edition
    <3> QED BY <1>t, <1>1, <3>1 DEF ListTypeOK
  <2>2. ASSUME NEW q \in Refresher PROVE TaskOK(q)'
    BY <1>t, <1>u, <1>1, <2>1 DEF TaskOK, ListTypeOK
  <2>3. \A q \in Refresher : fpc'[q] \in {"apply", "record"} => fpc[q] \in {"apply", "record"}
    BY <1>t, <1>1 DEF ListTypeOK
  <2> QED BY <1>t, <1>u, <1>1, <2>1, <2>2, <2>3, TaskStep DEF StatusIsTrue, ListTypeOK
<1>2. CASE ListFault /\ EndRefresh(r, "failed")
  <2>1. listFaults' \in 0..MaxListFaults
    BY <1>t, <1>2 DEF ListFault, ListTypeOK
  <2>2. ASSUME NEW q \in Refresher PROVE TaskOK(q)'
    BY <1>t, <1>u, <1>2, EndRefreshTypes DEF TaskOK
  <2>3. \A q \in Refresher : fpc'[q] \in {"apply", "record"} => fpc[q] \in {"apply", "record"}
    BY <1>t, <1>2, EndRefreshTypes
  <2> QED BY <1>t, <1>u, <1>2, <2>1, <2>2, <2>3, EndRefreshTypes, TaskStep DEF StatusIsTrue
<1> QED BY <1>1, <1>2 DEF Download

(* The stamp is later than the rows of the table, so the task that takes it  *)
(* has a list that replaces them all.                                        *)
LEMMA StampOK ==
  ASSUME ListInv, NEW r \in Refresher, Stamp(r)
  PROVE  ListInv'
<1>t. ListTypeOK /\ (\A q \in Refresher : TaskOK(q)) /\ StatusIsTrue
  BY DEF ListInv
<1>u. UNCHANGED <<theList, tables, sets>> /\ constant' = constant /\ UNCHANGED <<parsed, audit, listFaults>>
  BY DEF Stamp, theList
<1>1. fpc[r] = "parsed" /\ fpc' = [fpc EXCEPT ![r] = "stamped"]
  BY DEF Stamp
<1>2. older' \in [Refresher -> [rows : SUBSET Party, tasks : SUBSET Refresher]]
  <2>1. [rows |-> entities, tasks |-> {q \in Refresher : fpc[q] = "stamped"}] \in [rows : SUBSET Party, tasks : SUBSET Refresher]
    BY <1>t DEF ListTypeOK
  <2> QED BY <1>t, <2>1 DEF Stamp, ListTypeOK
<1>3. /\ fpc' \in [Refresher -> {"idle", "parsed", "stamped", "apply", "record"}]
      /\ \A q \in Refresher : fpc'[q] \in {"apply", "record"} => fpc[q] \in {"apply", "record"}
  BY <1>t, <1>1 DEF ListTypeOK
<1>4. ASSUME NEW q \in Refresher PROVE TaskOK(q)'
  BY <1>t, <1>u, <1>1 DEF TaskOK, ListTypeOK
<1> QED BY <1>t, <1>u, <1>2, <1>3, <1>4, TaskStep DEF StatusIsTrue, ListTypeOK

(* A success is recorded after the list is in the table, where a list stays. *)
LEMMA RecordOK ==
  ASSUME ListInv, NEW r \in Refresher, RecordSanctionsUpdate(r)
  PROVE  ListInv'
<1>t. ListTypeOK /\ (\A q \in Refresher : TaskOK(q)) /\ StatusIsTrue
  BY DEF ListInv
<1>u. UNCHANGED <<theList, tables, sets>> /\ constant' = constant /\ UNCHANGED listFaults
  BY DEF RecordSanctionsUpdate, theList
<1>1. fpc[r] = "record" /\ EndRefresh(r, "success")
  BY DEF RecordSanctionsUpdate
<1>2. entities # {}
  BY <1>1 DEF ListInv
<1>3. ASSUME NEW q \in Refresher PROVE TaskOK(q)'
  BY <1>t, <1>u, <1>1, EndRefreshTypes DEF TaskOK
<1>4. \A q \in Refresher : fpc'[q] \in {"apply", "record"} => fpc[q] \in {"apply", "record"}
  BY <1>t, <1>1, EndRefreshTypes
<1> QED BY <1>t, <1>u, <1>1, <1>2, <1>3, <1>4, EndRefreshTypes, TaskStep DEF ListTypeOK

(* The transaction that replaces the rows: the table holds the whole list of *)
(* the task, whatever else it keeps.                                         *)
LEMMA ReplaceEntitiesOK ==
  ASSUME ListInv, NEW r \in Refresher, ReplaceSanctionsEntities(r)
  PROVE  ListInv'
<1> USE ListBounds
<1>t. ListTypeOK /\ (\A q \in Refresher : TaskOK(q)) /\ StatusIsTrue
  BY DEF ListInv
<1>u. UNCHANGED <<theList, replica, sets>> /\ constant' = constant /\ fpc[r] = "stamped"
  BY DEF ReplaceSanctionsEntities, theList
<1>1. CASE ListFault /\ EndRefresh(r, "failed") /\ UNCHANGED entities
  <2>1. listFaults' \in 0..MaxListFaults /\ UNCHANGED tables
    BY <1>t, <1>u, <1>1 DEF ListFault, ListTypeOK, tables
  <2>2. ASSUME NEW q \in Refresher PROVE TaskOK(q)'
    BY <1>t, <1>u, <1>1, EndRefreshTypes DEF TaskOK
  <2>3. \A q \in Refresher : fpc'[q] \in {"apply", "record"} => fpc[q] \in {"apply", "record"}
    BY <1>t, <1>1, EndRefreshTypes
  <2> QED BY <1>t, <1>u, <1>1, <2>1, <2>2, <2>3, EndRefreshTypes, TaskStep DEF StatusIsTrue
<1>2. CASE /\ fpc' = [fpc EXCEPT ![r] = "apply"] /\ entities' = ReplacedRows(r)
           /\ older' = [q \in Refresher |-> [older[q] EXCEPT
                          !.rows = IF r \in older[q].tasks THEN @ \cup parsed[r] ELSE @ \ parsed[r]]]
           /\ UNCHANGED <<parsed, audit, listFaults>>
  <2>1. constant \subseteq parsed[r] /\ parsed[r] # {} /\ parsed[r] \subseteq Party
    BY <1>t, <1>u DEF TaskOK, ListTypeOK
  <2>2. entities' \subseteq Party /\ entities' # {} /\ constant \subseteq entities'
    BY <1>t, <1>2, <2>1 DEF ReplacedRows, ListTypeOK
  <2>3. older' \in [Refresher -> [rows : SUBSET Party, tasks : SUBSET Refresher]]
    <3>1. ASSUME NEW q \in Refresher
          PROVE  [older[q] EXCEPT !.rows = IF r \in older[q].tasks THEN @ \cup parsed[r] ELSE @ \ parsed[r]]
                   \in [rows : SUBSET Party, tasks : SUBSET Refresher]
      <4>1. older[q] \in [rows : SUBSET Party, tasks : SUBSET Refresher]
        BY <1>t DEF ListTypeOK
      <4> QED BY <2>1, <4>1
    <3> QED BY <1>2, <3>1
  <2>4. fpc' \in [Refresher -> {"idle", "parsed", "stamped", "apply", "record"}]
    BY <1>t, <1>2 DEF ListTypeOK
  <2>5. ListTypeOK'
    BY <1>t, <1>u, <1>2, <2>2, <2>3, <2>4 DEF ListTypeOK, theList, sets
  <2>6. ASSUME NEW q \in Refresher PROVE TaskOK(q)'
    BY <1>t, <1>u, <1>2, <2>1 DEF TaskOK, ListTypeOK
  <2>7. Whole(entities)' /\ Whole(replica)' /\ StatusIsTrue'
    BY <1>u, <2>2 DEF Whole, StatusIsTrue, ListInv
  <2>8. /\ \A p \in Process : loaded'[p] => constant' \subseteq memory'[p]
        /\ (\A p \in Process : \A rows \in snapshot[p] : Whole(rows))'
    BY <1>u DEF ListInv, sets, Whole
  <2> QED BY <2>2, <2>5, <2>6, <2>7, <2>8 DEF ListInv
<1> QED BY <1>1, <1>2 DEF ReplaceSanctionsEntities

(* The worker's own set becomes the parsed list.                             *)
LEMMA ApplyOwnOK ==
  ASSUME ListInv, NEW r \in Refresher, ApplyOwn(r)
  PROVE  ListInv'
<1>t. ListTypeOK /\ (\A q \in Refresher : TaskOK(q)) /\ StatusIsTrue
  BY DEF ListInv
<1>u. /\ UNCHANGED <<published, editions, constant, entities, replica, parsed, older, audit, snapshot, listFaults>>
      /\ fpc[r] = "apply" /\ fpc' = [fpc EXCEPT ![r] = "record"] /\ Replace("worker", parsed[r])
  BY DEF ApplyOwn, theList, tables
<1>1. parsed[r] \in SUBSET Party /\ Whole(parsed[r]) /\ "worker" \in Process
  BY <1>t, <1>u DEF TaskOK, Whole, ListTypeOK, Process
<1>2. /\ loaded' \in [Process -> BOOLEAN] /\ memory' \in [Process -> SUBSET Party]
      /\ \A q \in Process : loaded'[q] => constant' \subseteq memory'[q]
  BY <1>u, <1>1, ReplaceOK
<1>3. /\ fpc' \in [Refresher -> {"idle", "parsed", "stamped", "apply", "record"}]
      /\ \A q \in Refresher : fpc'[q] \in {"apply", "record"} => fpc[q] \in {"apply", "record"}
  BY <1>t, <1>u DEF ListTypeOK
<1>4. ASSUME NEW q \in Refresher PROVE TaskOK(q)'
  BY <1>t, <1>u DEF TaskOK, ListTypeOK
<1>5. ListTypeOK'
  BY <1>t, <1>u, <1>2, <1>3 DEF ListTypeOK
<1> QED BY <1>u, <1>2, <1>3, <1>4, <1>5 DEF ListInv, Whole, StatusIsTrue

(* The replica and the ticker's read carry a whole list on.                  *)
LEMMA CarriedOn ==
  ASSUME ListInv, Replicate \/ \E p \in Process : ListSanctionsEntities(p)
  PROVE  ListInv'
<1>t. ListTypeOK /\ (\A q \in Refresher : TaskOK(q))
  BY DEF ListInv
<1>1. CASE Replicate
  <2>1. /\ replica' = entities
        /\ UNCHANGED <<published, editions, constant, entities, fpc, parsed, older, audit, loaded, memory, snapshot, listFaults>>
    BY <1>1 DEF Replicate, theList, tasks, sets
  <2>2. ListTypeOK'
    BY <1>t, <2>1 DEF ListTypeOK
  <2> QED BY <2>1, <2>2 DEF ListInv, TaskOK, Whole, StatusIsTrue
<1>2. ASSUME NEW p \in Process, ListSanctionsEntities(p) PROVE ListInv'
  <2>1. /\ snapshot' = [snapshot EXCEPT ![p] = {replica}]
        /\ UNCHANGED <<published, editions, constant, entities, replica, fpc, parsed, older, audit, loaded, memory, listFaults>>
    BY <1>2 DEF ListSanctionsEntities, theList, tables, tasks
  <2>2. snapshot' \in [Process -> SUBSET SUBSET Party]
    BY <1>t, <2>1 DEF ListTypeOK
  <2>3. ASSUME NEW q \in Process
        PROVE  Cardinality(snapshot'[q]) <= 1 /\ \A rows \in snapshot'[q] : Whole(rows)
    <3>1. CASE q = p
      <4>1. snapshot'[q] = {replica}
        BY <1>t, <2>1, <3>1 DEF ListTypeOK
      <4>2. Cardinality({replica}) = 1
        BY FS_Singleton
      <4> QED BY <4>1, <4>2 DEF ListInv
    <3>2. CASE q # p
      BY <1>t, <2>1, <3>2 DEF ListTypeOK, ListInv
    <3> QED BY <3>1, <3>2
  <2>4. ListTypeOK'
    BY <1>t, <2>1, <2>2, <2>3 DEF ListTypeOK
  <2>5. (\A q \in Process : \A rows \in snapshot[q] : Whole(rows))'
    BY <2>1, <2>3 DEF Whole
  <2> QED BY <2>1, <2>4, <2>5 DEF ListInv, TaskOK, Whole, StatusIsTrue
<1> QED BY <1>1, <1>2

(* A process applies what it read, or starts again with nothing loaded.      *)
LEMMA EmptySnapshot ==
  ASSUME ListInv, NEW p \in Process, snapshot' = [snapshot EXCEPT ![p] = Unread], constant' = constant
  PROVE  /\ snapshot' \in [Process -> SUBSET SUBSET Party]
         /\ \A q \in Process : Cardinality(snapshot'[q]) <= 1
         /\ (\A q \in Process : \A rows \in snapshot[q] : Whole(rows))'
<1>t. snapshot \in [Process -> SUBSET SUBSET Party] /\ \A q \in Process : Cardinality(snapshot[q]) <= 1
  BY DEF ListInv, ListTypeOK
<1>1. snapshot' \in [Process -> SUBSET SUBSET Party]
  BY <1>t DEF Unread
<1>2. Cardinality({}) = 0
  BY FS_EmptySet
<1>3. ASSUME NEW q \in Process
      PROVE  Cardinality(snapshot'[q]) <= 1 /\ \A rows \in snapshot'[q] : Whole(rows)
  <2>1. CASE q = p
    BY <1>t, <1>2, <2>1 DEF Unread
  <2>2. CASE q # p
    BY <1>t, <2>2 DEF ListInv
  <2> QED BY <2>1, <2>2
<1>4. (\A q \in Process : \A rows \in snapshot[q] : Whole(rows))'
  BY <1>3 DEF Whole
<1> QED BY <1>1, <1>3, <1>4

(* A process applies the rows it listed from the replica, unless there were  *)
(* none.                                                                     *)
LEMMA ApplyLoadedOK ==
  ASSUME ListInv, NEW p \in Process, ApplyLoaded(p)
  PROVE  ListInv'
<1>t. ListTypeOK /\ (\A q \in Refresher : TaskOK(q))
  BY DEF ListInv
<1>u. /\ snapshot' = [snapshot EXCEPT ![p] = Unread]
      /\ UNCHANGED <<published, editions, constant, entities, replica, fpc, parsed, older, audit, listFaults>>
  BY DEF ApplyLoaded, theList, tables, tasks
<1>1. PICK rows \in snapshot[p] : Replace(p, rows)
  BY DEF ApplyLoaded
<1>2. rows \in SUBSET Party /\ Whole(rows)
  BY <1>t DEF ListTypeOK, ListInv
<1>3. /\ loaded' \in [Process -> BOOLEAN] /\ memory' \in [Process -> SUBSET Party]
      /\ \A q \in Process : loaded'[q] => constant' \subseteq memory'[q]
  BY <1>u, <1>1, <1>2, ReplaceOK
<1>4. ListTypeOK'
  BY <1>t, <1>u, <1>3, EmptySnapshot DEF ListTypeOK
<1> QED BY <1>u, <1>3, <1>4, EmptySnapshot DEF ListInv, TaskOK, Whole, StatusIsTrue

(* A process that starts again has no set and refuses to clear.              *)
LEMMA RestartOK ==
  ASSUME ListInv, NEW p \in Process, RestartProcess(p)
  PROVE  ListInv'
<1> USE ListBounds
<1>t. ListTypeOK /\ (\A q \in Refresher : TaskOK(q))
  BY DEF ListInv
<1>u. /\ snapshot' = [snapshot EXCEPT ![p] = Unread]
      /\ loaded' = [loaded EXCEPT ![p] = FALSE] /\ memory' = [memory EXCEPT ![p] = {}]
      /\ UNCHANGED <<published, editions, constant, entities, replica, audit>>
  BY DEF RestartProcess, theList, tables
<1>1. listFaults' \in 0..MaxListFaults
  BY <1>t DEF RestartProcess, ListFault, ListTypeOK
<1>2. /\ loaded' \in [Process -> BOOLEAN] /\ memory' \in [Process -> SUBSET Party]
      /\ \A q \in Process : loaded'[q] => q # p /\ loaded[q] /\ memory'[q] = memory[q]
  BY <1>t, <1>u DEF ListTypeOK
<1>3. \A q \in Process : loaded'[q] => constant' \subseteq memory'[q]
  BY <1>u, <1>2 DEF ListInv
<1>4. /\ fpc' \in [Refresher -> {"idle", "parsed", "stamped", "apply", "record"}]
      /\ parsed' \in [Refresher -> SUBSET Party]
      /\ older' \in [Refresher -> [rows : SUBSET Party, tasks : SUBSET Refresher]]
      /\ \A q \in Refresher : fpc'[q] = "idle" \/ (fpc'[q] = fpc[q] /\ parsed'[q] = parsed[q])
  <2>1. CASE p = "worker"
    <3>1. NoneOlder \in [rows : SUBSET Party, tasks : SUBSET Refresher]
      BY DEF NoneOlder
    <3> QED BY <2>1, <3>1 DEF RestartProcess
  <2>2. CASE p # "worker"
    BY <1>t, <2>2 DEF RestartProcess, tasks, ListTypeOK
  <2> QED BY <2>1, <2>2
<1>5. ASSUME NEW q \in Refresher PROVE TaskOK(q)'
  BY <1>t, <1>u, <1>4 DEF TaskOK
<1>6. ListTypeOK'
  BY <1>t, <1>u, <1>1, <1>2, <1>4, EmptySnapshot DEF ListTypeOK
<1>7. (\A q \in Refresher : fpc[q] \in {"apply", "record"} => entities # {})'
  BY <1>u, <1>4 DEF ListInv
<1> QED BY <1>u, <1>3, <1>5, <1>6, <1>7, EmptySnapshot DEF ListInv, Whole, StatusIsTrue

(* ListSafe for any number of parties, overlapping refreshes, editions,      *)
(* restarts and failed downloads (Replace, ReplaceSanctionsEntities, Screen): *)
(* no process clears a party that was on every edition, and a recorded       *)
(* success is true.                                                          *)
THEOREM SanctionsListIsSafe == ListSpec => []ListSafe
<1> USE ListBounds
<1>1. ListInit => ListInv
  <2> SUFFICES ASSUME ListInit PROVE ListInv
    OBVIOUS
  <2>1. published \in Edition /\ constant \subseteq published /\ editions \in 0..MaxEditions /\ listFaults \in 0..MaxListFaults
    BY DEF ListInit
  <2>2. NoneOlder \in [rows : SUBSET Party, tasks : SUBSET Refresher] /\ Cardinality({}) = 0
    BY FS_EmptySet DEF NoneOlder
  <2>3. ListTypeOK
    BY <2>1, <2>2 DEF ListInit, ListTypeOK, Unread
  <2>4. \A p \in Process : ~loaded[p] /\ snapshot[p] = {}
    BY DEF ListInit, Unread
  <2>5. \A r \in Refresher : fpc[r] = "idle"
    BY DEF ListInit
  <2> QED BY <2>3, <2>4, <2>5 DEF ListInit, ListInv, TaskOK, Whole, StatusIsTrue
<1>2. ListInv /\ [ListNext]_listVars => ListInv'
  <2> SUFFICES ASSUME ListInv, [ListNext]_listVars PROVE ListInv'
    OBVIOUS
  <2>1. CASE UNCHANGED listVars
    BY <2>1 DEF listVars, ListInv, ListTypeOK, TaskOK, Whole, StatusIsTrue
  <2>2. CASE Publish
    BY <2>2, PublishOK
  <2>3. CASE Replicate
    BY <2>3, CarriedOn
  <2>4. ASSUME NEW r \in Refresher,
               Download(r) \/ Stamp(r) \/ ReplaceSanctionsEntities(r) \/ ApplyOwn(r) \/ RecordSanctionsUpdate(r)
        PROVE  ListInv'
    BY <2>4, DownloadOK, StampOK, ReplaceEntitiesOK, ApplyOwnOK, RecordOK
  <2>5. ASSUME NEW p \in Process, ListSanctionsEntities(p) \/ ApplyLoaded(p) \/ RestartProcess(p)
        PROVE  ListInv'
    BY <2>5, CarriedOn, ApplyLoadedOK, RestartOK
  <2> QED BY <2>1, <2>2, <2>3, <2>4, <2>5 DEF ListNext
<1>3. ListInv => ListSafe
  BY ListInvIsSafe
<1> QED BY <1>1, <1>2, <1>3, PTL DEF ListSpec
-----------------------------------------------------------------------------
(* Webhook deliveries.  A task that is taken has one worker, whose requests  *)
(* are counted in dtry; whenever the task goes back to the queue an          *)
(* execution was lost or refused, which pays for the requests already sent.  *)

EndpointOK(e) ==
  /\ task[e].state \in {"none", "lost"} => posts[e] = 0 /\ accepted[e] = 0 /\ repeats[e] = 0
  /\ task[e].state = "queued" => posts[e] <= MaxAttempts * repeats[e] /\ accepted[e] <= repeats[e]
  /\ task[e].state \in {"queued", "taken"} /\ delivery[e].status = "failed" => repeats[e] > 0
  /\ delivery[e].status = "success" => accepted[e] > 0
  /\ delivery[e].status = "failed" /\ accepted[e] > 0 => repeats[e] > 0
  /\ posts[e] <= MaxAttempts * (1 + repeats[e]) /\ accepted[e] <= 1 + repeats[e]

(* Worker w is busy with the delivery to e.                                  *)
Holds(w, e) == dpc[w] # "idle" /\ dep[w] = e

HolderOK(w, e) ==
  /\ task[e].state = "taken"
  /\ posts[e] <= MaxAttempts * repeats[e] + dtry[w]
  /\ dpc[w] = "attempt" => dtry[w] < MaxAttempts /\ accepted[e] <= repeats[e]
  /\ dpc[w] = "update" => /\ dcopy[w].status \in {"success", "failed"}
                          /\ dcopy[w].status = "failed" => accepted[e] <= repeats[e]
                          /\ dcopy[w].status = "success" => accepted[e] > 0

DispatchOK ==
  /\ \A e \in todo : task[e].state = "none"
  /\ dispatched = "no" => \A e \in Endpoint : task[e].state = "none"

HookInv ==
  /\ HookTypeOK /\ DispatchOK
  /\ \A e \in Endpoint : EndpointOK(e)
  /\ \A w \in Deliverer : dpc[w] # "idle" => dep[w] \in Endpoint
  /\ \A w \in Deliverer, e \in Endpoint : Holds(w, e) => HolderOK(w, e)
  /\ \A v, w \in Deliverer, e \in Endpoint : Holds(v, e) /\ Holds(w, e) => v = w

(* The invariant of the deliveries implies what is promised of them.         *)
LEMMA HookInvIsSafe ==
  ASSUME HookInv
  PROVE  HookSafe
BY DEF HookInv, HookSafe, LogIsTrue, RequestsBounded, EndpointOK

(* One more lost execution allows for one more Deliver.                      *)
LEMMA OneMoreRepeat ==
  ASSUME NEW n \in Nat
  PROVE  MaxAttempts * n \in Nat /\ MaxAttempts * (1 + n) = MaxAttempts * n + MaxAttempts
         /\ MaxAttempts * (n + 1) = MaxAttempts * n + MaxAttempts
BY AttemptsMade

(* A task that returned an error: queued again with a retry less, or put away. *)
LEMMA RetriedTask ==
  ASSUME HookTypeOK, NEW e \in Endpoint, Retried(e)
  PROVE  /\ task' \in [Endpoint -> [state : {"none", "lost", "queued", "taken", "done", "archived"}, left : 0..MaxRetry]]
         /\ task'[e].state \in {"queued", "archived"}
         /\ \A d \in Endpoint \ {e} : task'[d] = task[d]
<1>1. task \in [Endpoint -> [state : {"none", "lost", "queued", "taken", "done", "archived"}, left : 0..MaxRetry]]
  BY DEF HookTypeOK
<1>2. task[e].left \in 0..MaxRetry /\ task[e] \in [state : {"none", "lost", "queued", "taken", "done", "archived"}, left : 0..MaxRetry]
  BY <1>1
<1>3. task' = [task EXCEPT ![e] = IF task[e].left = 0 THEN [task[e] EXCEPT !.state = "archived"]
                                  ELSE [state |-> "queued", left |-> task[e].left - 1]]
  BY <1>1 DEF Retried
<1>4. CASE task[e].left = 0
  BY <1>1, <1>2, <1>3, <1>4
<1>5. CASE task[e].left # 0
  <2>1. task[e].left - 1 \in 0..MaxRetry
    BY <1>2, <1>5, AttemptsMade
  <2> QED BY <1>1, <1>3, <1>5, <2>1
<1> QED BY <1>4, <1>5

(* A step that touches the delivery to one endpoint and lets nobody take it. *)
LEMMA OneEndpoint ==
  ASSUME HookInv, NEW e \in Endpoint, HookTypeOK', DispatchOK', EndpointOK(e)',
         \A d \in Endpoint \ {e} : /\ task'[d] = task[d] /\ delivery'[d] = delivery[d] /\ posts'[d] = posts[d]
                                   /\ accepted'[d] = accepted[d] /\ repeats'[d] = repeats[d],
         \A w \in Deliverer : Holds(w, e)' => Holds(w, e) /\ HolderOK(w, e)',
         \A w \in Deliverer : ~Holds(w, e) /\ ~Holds(w, e)' =>
            dpc'[w] = dpc[w] /\ dep'[w] = dep[w] /\ dtry'[w] = dtry[w] /\ dcopy'[w] = dcopy[w],
         \A w \in Deliverer : Holds(w, e) => dep'[w] = e
  PROVE  HookInv'
<1>1. ASSUME NEW d \in Endpoint PROVE EndpointOK(d)'
  <2>1. CASE d = e
    BY <2>1
  <2>2. CASE d # e
    BY <2>2 DEF HookInv, EndpointOK
  <2> QED BY <2>1, <2>2
<1>2. ASSUME NEW w \in Deliverer, dpc'[w] # "idle" PROVE dep'[w] \in Endpoint
  BY <1>2 DEF HookInv, Holds
<1>3. ASSUME NEW w \in Deliverer, NEW d \in Endpoint, Holds(w, d)' PROVE Holds(w, d) /\ HolderOK(w, d)'
  <2>1. CASE d = e
    BY <1>3, <2>1
  <2>2. CASE d # e
    <3>1. ~Holds(w, e) /\ ~Holds(w, e)'
      BY <1>3, <2>2 DEF Holds
    <3> QED BY <1>3, <2>2, <3>1 DEF HookInv, Holds, HolderOK
  <2> QED BY <2>1, <2>2
<1>4. ASSUME NEW v \in Deliverer, NEW w \in Deliverer, NEW d \in Endpoint, Holds(v, d)', Holds(w, d)' PROVE v = w
  BY <1>3, <1>4 DEF HookInv
<1> QED BY <1>1, <1>2, <1>3, <1>4 DEF HookInv

(* Registrations and deletions: a row that goes says nothing.                *)
LEMMA EndpointsOK ==
  ASSUME HookInv, NEW e \in Endpoint, RegisterEndpoint(e) \/ DeleteEndpoint(e)
  PROVE  HookInv'
<1>t. HookTypeOK /\ DispatchOK /\ EndpointOK(e)
  BY DEF HookInv
<1>u. UNCHANGED <<todo, dispatched, task, dpc, dep, dtry, dcopy, posts, accepted, repeats, hookFaults>>
  BY DEF RegisterEndpoint, DeleteEndpoint, dispatchVars, delivererVars, tallyVars
<1>1. endpoints' \subseteq Endpoint
  BY <1>t DEF RegisterEndpoint, DeleteEndpoint, HookTypeOK
<1>2. NoDelivery \in DeliveryRow /\ NoDelivery.status = "none"
  BY DEF NoDelivery, DeliveryRow
<1>3. /\ delivery' \in [Endpoint -> DeliveryRow]
      /\ \A d \in Endpoint \ {e} : delivery'[d] = delivery[d]
      /\ delivery'[e] = delivery[e] \/ delivery'[e].status = "none"
  BY <1>t, <1>2 DEF RegisterEndpoint, DeleteEndpoint, HookTypeOK
<1>4. HookTypeOK' /\ DispatchOK'
  BY <1>t, <1>u, <1>1, <1>3 DEF HookTypeOK, DispatchOK
<1>5. EndpointOK(e)'
  BY <1>t, <1>u, <1>3 DEF EndpointOK
<1>6. \A w \in Deliverer : (Holds(w, e)' = Holds(w, e)) /\ (HolderOK(w, e)' = HolderOK(w, e))
  BY <1>u DEF Holds, HolderOK
<1>7. \A w \in Deliverer : Holds(w, e) => HolderOK(w, e) /\ dep'[w] = e
  BY <1>u DEF HookInv, Holds
<1> QED BY <1>u, <1>3, <1>4, <1>5, <1>6, <1>7, OneEndpoint

(* An event is handed to the endpoints that are active now.                  *)
LEMMA ListActiveOK ==
  ASSUME HookInv, ListActiveByEvent
  PROVE  HookInv'
<1>1. /\ dispatched = "no" /\ dispatched' = "listed" /\ todo' = endpoints
      /\ UNCHANGED <<endpoints, delivery, task, dpc, dep, dtry, dcopy, posts, accepted, repeats, hookFaults>>
  BY DEF ListActiveByEvent, delivererVars, tallyVars
<1>2. HookTypeOK' /\ DispatchOK'
  BY <1>1 DEF HookInv, HookTypeOK, DispatchOK
<1> QED BY <1>1, <1>2 DEF HookInv, EndpointOK, Holds, HolderOK

(* Dispatch to one endpoint: the first task of a delivery, or none.          *)
LEMMA CreateDeliveryOK ==
  ASSUME HookInv, NEW e \in Endpoint, CreateDelivery(e)
  PROVE  HookInv'
<1> USE AttemptsMade
<1>t. HookTypeOK /\ DispatchOK /\ EndpointOK(e)
  BY DEF HookInv
<1>u. UNCHANGED <<endpoints, dpc, dep, dtry, dcopy, posts, accepted, repeats>> /\ e \in todo /\ dispatched = "listed"
  BY DEF CreateDelivery, delivererVars, tallyVars
<1>n. task[e].state = "none" /\ task[e].left \in 0..MaxRetry /\ posts[e] = 0 /\ accepted[e] = 0 /\ repeats[e] = 0
  BY <1>t, <1>u DEF DispatchOK, EndpointOK, HookTypeOK
<1>h. \A w \in Deliverer : ~Holds(w, e)
  BY <1>n DEF HookInv, HolderOK
<1>1. CASE dispatched' = "aborted" /\ UNCHANGED <<delivery, task, todo, hookFaults>>
  <2>1. HookTypeOK' /\ DispatchOK'
    BY <1>t, <1>u, <1>1 DEF HookTypeOK, DispatchOK
  <2> QED BY <1>u, <1>1, <2>1 DEF HookInv, EndpointOK, Holds, HolderOK
<1>2. CASE /\ InsertDelivery(e) /\ todo' = todo \ {e} /\ UNCHANGED dispatched
           /\ \/ EnqueueWebhookDelivery(e) /\ UNCHANGED hookFaults
              \/ HookFault /\ task' = [task EXCEPT ![e].state = "lost"]
  <2>1. /\ delivery' \in [Endpoint -> DeliveryRow] /\ delivery'[e].status = "pending"
        /\ \A d \in Endpoint \ {e} : delivery'[d] = delivery[d]
    <3>1. [status |-> "pending", attempts |-> 0] \in DeliveryRow
      BY DEF DeliveryRow
    <3> QED BY <1>t, <1>2, <3>1 DEF InsertDelivery, HookTypeOK
  <2>2. /\ task' \in [Endpoint -> [state : {"none", "lost", "queued", "taken", "done", "archived"}, left : 0..MaxRetry]]
        /\ task'[e].state \in {"queued", "lost"}
        /\ \A d \in Endpoint \ {e} : task'[d] = task[d]
    <3>1. MaxRetry \in 0..MaxRetry
      OBVIOUS
    <3>2. task \in [Endpoint -> [state : {"none", "lost", "queued", "taken", "done", "archived"}, left : 0..MaxRetry]]
      BY <1>t DEF HookTypeOK
    <3>3. CASE EnqueueWebhookDelivery(e)
      BY <3>1, <3>2, <3>3 DEF EnqueueWebhookDelivery
    <3>4. CASE task' = [task EXCEPT ![e].state = "lost"]
      BY <3>2, <3>4
    <3> QED BY <1>2, <3>3, <3>4
  <2>3. hookFaults' \in 0..MaxWebhookFaults
    BY <1>t, <1>2 DEF HookFault, HookTypeOK
  <2>4. HookTypeOK'
    BY <1>t, <1>u, <1>2, <2>1, <2>2, <2>3 DEF HookTypeOK
  <2>5. DispatchOK'
    BY <1>t, <1>u, <1>2, <2>2 DEF DispatchOK, HookTypeOK
  <2>6. EndpointOK(e)'
    BY <1>u, <1>n, <2>1, <2>2 DEF EndpointOK
  <2>7. \A w \in Deliverer : ~Holds(w, e)'
    BY <1>u, <1>h DEF Holds
  <2> QED BY <1>u, <1>h, <2>1, <2>2, <2>4, <2>5, <2>6, <2>7, OneEndpoint
<1> QED BY <1>1, <1>2 DEF CreateDelivery

(* The worker of a delivery lets go of it after a lost or refused execution, *)
(* or the queue repeats a finished one.                                      *)
LEMMA GivenBack ==
  ASSUME HookInv, NEW e \in Endpoint, Retried(e), repeats' = [repeats EXCEPT ![e] = @ + 1],
         task[e].state \in {"taken", "done"}, delivery' \in [Endpoint -> DeliveryRow],
         \A d \in Endpoint \ {e} : delivery'[d] = delivery[d],
         delivery'[e].status = "success" => delivery[e].status = "success",
         hookFaults' \in 0..MaxWebhookFaults,
         dpc' \in [Deliverer -> {"idle", "attempt", "update"}],
         \A w \in Deliverer : IF Holds(w, e) THEN dpc'[w] = "idle" ELSE dpc'[w] = dpc[w],
         UNCHANGED <<endpoints, todo, dispatched, dep, dtry, dcopy, posts, accepted>>
  PROVE  HookInv'
<1> USE AttemptsMade
<1>t. HookTypeOK /\ DispatchOK /\ EndpointOK(e)
  BY DEF HookInv
<1>1. /\ task' \in [Endpoint -> [state : {"none", "lost", "queued", "taken", "done", "archived"}, left : 0..MaxRetry]]
      /\ task'[e].state \in {"queued", "archived"}
      /\ \A d \in Endpoint \ {e} : task'[d] = task[d]
  BY <1>t, RetriedTask
<1>2. /\ repeats' \in [Endpoint -> Nat] /\ repeats[e] \in Nat /\ repeats'[e] = repeats[e] + 1
      /\ \A d \in Endpoint \ {e} : repeats'[d] = repeats[d]
      /\ posts[e] \in Nat /\ accepted[e] \in Nat
  BY <1>t DEF HookTypeOK
<1>3. HookTypeOK'
  BY <1>t, <1>1, <1>2 DEF HookTypeOK
<1>4. DispatchOK'
  <2>1. e \notin todo /\ dispatched # "no"
    BY <1>t DEF DispatchOK
  <2> QED BY <1>t, <1>1, <2>1 DEF DispatchOK, HookTypeOK
<1>5. EndpointOK(e)'
  <2>1. /\ posts[e] <= MaxAttempts * repeats'[e] /\ accepted[e] <= repeats'[e]
        /\ posts[e] <= MaxAttempts * (1 + repeats'[e]) /\ accepted[e] <= 1 + repeats'[e] /\ repeats'[e] > 0
    <3>1. /\ MaxAttempts * (1 + repeats[e]) = MaxAttempts * repeats'[e]
          /\ MaxAttempts * (1 + repeats'[e]) = MaxAttempts * repeats'[e] + MaxAttempts
          /\ MaxAttempts * repeats'[e] \in Nat
      BY <1>2, OneMoreRepeat
    <3>2. posts[e] <= MaxAttempts * (1 + repeats[e]) /\ accepted[e] <= 1 + repeats[e]
      BY <1>t DEF EndpointOK
    <3> QED BY <1>2, <3>1, <3>2
  <2> QED BY <1>t, <1>1, <2>1 DEF EndpointOK
<1>6. \A w \in Deliverer : ~Holds(w, e)'
  BY DEF Holds
<1>7. \A w \in Deliverer : Holds(w, e) => dep'[w] = e
  BY DEF Holds
<1> QED BY <1>1, <1>2, <1>3, <1>4, <1>5, <1>6, <1>7, OneEndpoint

(* What is known of the delivery a worker is busy with.                      *)
LEMMA Holder ==
  ASSUME HookInv, NEW w \in Deliverer, dpc[w] # "idle"
  PROVE  /\ dep[w] \in Endpoint /\ Holds(w, dep[w]) /\ HolderOK(w, dep[w])
         /\ \A v \in Deliverer : Holds(v, dep[w]) => v = w
BY DEF HookInv, Holds

(* Only the worker of e is sent to idle.                                     *)
LEMMA OnlyHolderIdles ==
  ASSUME HookInv, NEW w \in Deliverer, NEW e, e = dep[w], dpc[w] # "idle", dpc' = [dpc EXCEPT ![w] = "idle"]
  PROVE  /\ dpc' \in [Deliverer -> {"idle", "attempt", "update"}]
         /\ \A v \in Deliverer : IF Holds(v, e) THEN dpc'[v] = "idle" ELSE dpc'[v] = dpc[v]
<1>1. dpc \in [Deliverer -> {"idle", "attempt", "update"}]
  BY DEF HookInv, HookTypeOK
<1> QED BY <1>1, Holder

(* A row that UpdateDelivery writes.                                         *)
LEMMA Written ==
  ASSUME HookTypeOK, NEW e \in Endpoint, NEW copy \in DeliveryRow, UpdateDelivery(e, copy)
  PROVE  /\ delivery' \in [Endpoint -> DeliveryRow]
         /\ delivery'[e] = delivery[e] \/ delivery'[e] = copy
         /\ \A d \in Endpoint \ {e} : delivery'[d] = delivery[d]
BY DEF UpdateDelivery, HookTypeOK

(* A destination that is refused counts as a failed attempt and no request   *)
(* is sent.                                                                  *)
LEMMA RefuseOK ==
  ASSUME HookInv, NEW w \in Deliverer, NEW e, e = dep[w], RefuseDestination(w)
  PROVE  HookInv'
<1>1. /\ dpc[w] = "attempt" /\ UpdateDelivery(e, Attempted(w, "failed")) /\ Retried(e)
      /\ repeats' = [repeats EXCEPT ![e] = @ + 1] /\ dpc' = [dpc EXCEPT ![w] = "idle"]
      /\ UNCHANGED <<endpoints, todo, dispatched, dep, dtry, dcopy, posts, accepted, hookFaults>>
  BY DEF RefuseDestination, dispatchVars
<1>2. e \in Endpoint /\ task[e].state = "taken"
  BY <1>1, Holder DEF HolderOK
<1>3. HookTypeOK /\ hookFaults' \in 0..MaxWebhookFaults
  BY <1>1 DEF HookInv, HookTypeOK
<1>4. Attempted(w, "failed") \in DeliveryRow /\ Attempted(w, "failed").status = "failed"
  <2>1. dcopy[w] \in DeliveryRow
    BY <1>3 DEF HookTypeOK
  <2> QED BY <2>1 DEF Attempted, DeliveryRow
<1>5. /\ delivery' \in [Endpoint -> DeliveryRow]
      /\ delivery'[e] = delivery[e] \/ delivery'[e] = Attempted(w, "failed")
      /\ \A d \in Endpoint \ {e} : delivery'[d] = delivery[d]
  BY <1>1, <1>2, <1>3, <1>4, Written
<1>6. /\ dpc' \in [Deliverer -> {"idle", "attempt", "update"}]
      /\ \A v \in Deliverer : IF Holds(v, e) THEN dpc'[v] = "idle" ELSE dpc'[v] = dpc[v]
  BY <1>1, OnlyHolderIdles
<1> QED BY <1>1, <1>2, <1>3, <1>4, <1>5, <1>6, GivenBack

(* A worker that dies leaves its task to the queue, which repeats it.        *)
LEMMA LoseDelivererOK ==
  ASSUME HookInv, NEW w \in Deliverer, NEW e, e = dep[w], LoseDeliverer(w)
  PROVE  HookInv'
<1> USE AttemptsMade
<1>1. /\ dpc[w] # "idle" /\ Retried(e) /\ HookFault
      /\ repeats' = [repeats EXCEPT ![e] = @ + 1] /\ dpc' = [dpc EXCEPT ![w] = "idle"]
      /\ UNCHANGED <<endpoints, todo, dispatched, dep, dtry, dcopy, posts, accepted, delivery>>
  BY DEF LoseDeliverer, dispatchVars
<1>2. e \in Endpoint /\ task[e].state = "taken"
  BY <1>1, Holder DEF HolderOK
<1>3. delivery' \in [Endpoint -> DeliveryRow] /\ hookFaults' \in 0..MaxWebhookFaults
  BY <1>1 DEF HookInv, HookTypeOK, HookFault
<1>4. /\ dpc' \in [Deliverer -> {"idle", "attempt", "update"}]
      /\ \A v \in Deliverer : IF Holds(v, e) THEN dpc'[v] = "idle" ELSE dpc'[v] = dpc[v]
  BY <1>1, OnlyHolderIdles
<1> QED BY <1>1, <1>2, <1>3, <1>4, GivenBack

(* A finished task is run again by the queue: one more repetition, one more  *)
(* fault.                                                                    *)
LEMMA RedeliverOK ==
  ASSUME HookInv, NEW e \in Endpoint, RedeliverFinished(e)
  PROVE  HookInv'
<1> USE AttemptsMade
<1>1. /\ task[e].state = "done" /\ Retried(e) /\ HookFault
      /\ repeats' = [repeats EXCEPT ![e] = @ + 1]
      /\ UNCHANGED <<endpoints, todo, dispatched, dpc, dep, dtry, dcopy, posts, accepted, delivery>>
  BY DEF RedeliverFinished, dispatchVars, delivererVars
<1>2. /\ delivery' \in [Endpoint -> DeliveryRow] /\ hookFaults' \in 0..MaxWebhookFaults
      /\ dpc' \in [Deliverer -> {"idle", "attempt", "update"}]
  BY <1>1 DEF HookInv, HookTypeOK, HookFault
<1>3. \A v \in Deliverer : ~Holds(v, e)
  BY <1>1 DEF HookInv, HolderOK
<1> QED BY <1>1, <1>2, <1>3, GivenBack

(* The end of Deliver: the worker's copy is what the endpoint answered.      *)
LEMMA FinishOK ==
  ASSUME HookInv, NEW w \in Deliverer, NEW e, e = dep[w], FinishDelivery(w)
  PROVE  HookInv'
<1> USE AttemptsMade
<1>t. HookTypeOK /\ DispatchOK
  BY DEF HookInv
<1>1. /\ dpc[w] = "update" /\ dpc' = [dpc EXCEPT ![w] = "idle"]
      /\ UNCHANGED <<endpoints, todo, dispatched, dep, dtry, dcopy, posts, accepted>>
  BY DEF FinishDelivery, dispatchVars
<1>2. e \in Endpoint /\ HolderOK(w, e) /\ EndpointOK(e)
  BY <1>1, Holder DEF HookInv
<1>3. /\ dpc' \in [Deliverer -> {"idle", "attempt", "update"}]
      /\ \A v \in Deliverer : IF Holds(v, e) THEN dpc'[v] = "idle" ELSE dpc'[v] = dpc[v]
  BY <1>1, OnlyHolderIdles
<1>4. CASE HookFault /\ Retried(e) /\ repeats' = [repeats EXCEPT ![e] = @ + 1] /\ UNCHANGED delivery
  <2>1. delivery' \in [Endpoint -> DeliveryRow] /\ hookFaults' \in 0..MaxWebhookFaults
    BY <1>t, <1>4 DEF HookTypeOK, HookFault
  <2> QED BY <1>1, <1>2, <1>3, <1>4, <2>1, GivenBack DEF HolderOK
<1>5. CASE UpdateDelivery(e, dcopy[w]) /\ TaskDone(e) /\ UNCHANGED <<repeats, hookFaults>>
  <2>1. /\ delivery' \in [Endpoint -> DeliveryRow]
        /\ delivery'[e] = delivery[e] \/ delivery'[e] = dcopy[w]
        /\ \A d \in Endpoint \ {e} : delivery'[d] = delivery[d]
    <3>1. dcopy[w] \in DeliveryRow
      BY <1>t DEF HookTypeOK
    <3> QED BY <1>t, <1>2, <1>5, <3>1, Written
  <2>2. /\ task' \in [Endpoint -> [state : {"none", "lost", "queued", "taken", "done", "archived"}, left : 0..MaxRetry]]
        /\ task'[e].state = "done" /\ \A d \in Endpoint \ {e} : task'[d] = task[d]
    BY <1>t, <1>2, <1>5 DEF HookTypeOK, TaskDone
  <2>3. HookTypeOK'
    BY <1>t, <1>1, <1>3, <1>5, <2>1, <2>2 DEF HookTypeOK
  <2>4. DispatchOK'
    <3>1. e \notin todo /\ dispatched # "no"
      BY <1>t, <1>2 DEF DispatchOK, HolderOK
    <3> QED BY <1>t, <1>1, <2>2, <3>1 DEF DispatchOK, HookTypeOK
  <2>5. EndpointOK(e)'
    <3>1. accepted[e] \in Nat /\ repeats[e] \in Nat
      BY <1>t, <1>2 DEF HookTypeOK
    <3> QED BY <1>1, <1>2, <1>5, <2>1, <2>2, <3>1 DEF EndpointOK, HolderOK
  <2>6. \A v \in Deliverer : ~Holds(v, e)' /\ (Holds(v, e) => dep'[v] = e)
    BY <1>1, <1>3 DEF Holds
  <2> QED BY <1>1, <1>2, <1>3, <1>5, <2>1, <2>2, <2>3, <2>4, <2>5, <2>6, OneEndpoint
<1> QED BY <1>4, <1>5 DEF FinishDelivery

(* One request and its answer.                                               *)
LEMMA AttemptOK ==
  ASSUME HookInv, NEW w \in Deliverer, NEW e, e = dep[w],
         NEW answer \in {"2xx", "3xx", "4xx", "5xx", "none"}, Attempt(w, answer)
  PROVE  HookInv'
<1> USE AttemptsMade
<1>t. HookTypeOK /\ DispatchOK
  BY DEF HookInv
<1>1. /\ dpc[w] = "attempt" /\ posts' = [posts EXCEPT ![e] = @ + 1]
      /\ accepted' = IF answer = "2xx" THEN [accepted EXCEPT ![e] = @ + 1] ELSE accepted
      /\ dcopy' = [dcopy EXCEPT ![w] = Attempted(w, IF IsSuccess(answer) THEN "success" ELSE "failed")]
      /\ dtry' = [dtry EXCEPT ![w] = @ + 1]
      /\ dpc' = IF IsRetryable(answer) /\ dtry[w] + 1 < MaxAttempts THEN dpc ELSE [dpc EXCEPT ![w] = "update"]
      /\ UNCHANGED <<endpoints, todo, dispatched, delivery, task, dep, repeats, hookFaults>>
  BY DEF Attempt, dispatchVars
<1>2. /\ e \in Endpoint /\ HolderOK(w, e) /\ EndpointOK(e) /\ Holds(w, e)
      /\ \A v \in Deliverer : Holds(v, e) => v = w
  BY <1>1, Holder DEF HookInv
<1>3. /\ posts[e] \in Nat /\ accepted[e] \in Nat /\ repeats[e] \in Nat /\ dtry[w] \in 0..MaxAttempts
      /\ dcopy[w] \in DeliveryRow
  BY <1>t, <1>2 DEF HookTypeOK
<1>4. dtry[w] < MaxAttempts /\ dtry[w] + 1 \in 0..MaxAttempts
  BY <1>1, <1>2, <1>3 DEF HolderOK
<1>5. /\ dcopy' \in [Deliverer -> DeliveryRow] /\ \A v \in Deliverer \ {w} : dcopy'[v] = dcopy[v]
      /\ dcopy'[w].status = IF answer = "2xx" THEN "success" ELSE "failed"
  <2>1. \A s \in {"success", "failed"} : Attempted(w, s) \in DeliveryRow /\ Attempted(w, s).status = s
    BY <1>3 DEF Attempted, DeliveryRow
  <2>2. dcopy \in [Deliverer -> DeliveryRow]
    BY <1>t DEF HookTypeOK
  <2> QED BY <1>1, <2>1, <2>2 DEF IsSuccess
<1>6. /\ posts' \in [Endpoint -> Nat] /\ posts'[e] = posts[e] + 1 /\ \A d \in Endpoint \ {e} : posts'[d] = posts[d]
      /\ accepted' \in [Endpoint -> Nat] /\ accepted'[e] = (IF answer = "2xx" THEN accepted[e] + 1 ELSE accepted[e])
      /\ \A d \in Endpoint \ {e} : accepted'[d] = accepted[d]
      /\ dtry' \in [Deliverer -> 0..MaxAttempts] /\ dtry'[w] = dtry[w] + 1
      /\ \A v \in Deliverer \ {w} : dtry'[v] = dtry[v]
  BY <1>t, <1>1, <1>2, <1>3, <1>4 DEF HookTypeOK
<1>7. /\ dpc' \in [Deliverer -> {"idle", "attempt", "update"}] /\ \A v \in Deliverer \ {w} : dpc'[v] = dpc[v]
      /\ dpc'[w] \in {"attempt", "update"}
      /\ dpc'[w] = "attempt" => answer # "2xx" /\ dtry[w] + 1 < MaxAttempts
  BY <1>t, <1>1 DEF HookTypeOK, IsRetryable
<1>8. HookTypeOK'
  BY <1>t, <1>1, <1>5, <1>6, <1>7 DEF HookTypeOK
<1>9. DispatchOK'
  BY <1>t, <1>1 DEF DispatchOK
<1>10. MaxAttempts * repeats[e] \in Nat /\ MaxAttempts * (1 + repeats[e]) = MaxAttempts * repeats[e] + MaxAttempts
  BY <1>3, OneMoreRepeat
<1>11. EndpointOK(e)'
  <2>1. task'[e].state = "taken" /\ delivery'[e] = delivery[e] /\ repeats'[e] = repeats[e]
    BY <1>1, <1>2 DEF HolderOK
  <2>2. accepted[e] <= repeats[e] /\ posts[e] <= MaxAttempts * repeats[e] + dtry[w]
    BY <1>1, <1>2 DEF HolderOK
  <2>3. posts'[e] <= MaxAttempts * (1 + repeats'[e]) /\ accepted'[e] <= 1 + repeats'[e]
    BY <1>3, <1>4, <1>6, <1>10, <2>1, <2>2
  <2>4. delivery[e].status = "failed" => repeats[e] > 0
    BY <1>2 DEF EndpointOK, HolderOK
  <2>5. delivery[e].status = "success" => accepted'[e] > 0
    BY <1>2, <1>3, <1>6 DEF EndpointOK
  <2> QED BY <2>1, <2>3, <2>4, <2>5 DEF EndpointOK
<1>12. HolderOK(w, e)'
  <2>1. task'[e].state = "taken" /\ repeats'[e] = repeats[e]
    BY <1>1, <1>2 DEF HolderOK
  <2>2. accepted[e] <= repeats[e] /\ posts[e] <= MaxAttempts * repeats[e] + dtry[w]
    BY <1>1, <1>2 DEF HolderOK
  <2>3. posts'[e] <= MaxAttempts * repeats'[e] + dtry'[w]
    BY <1>3, <1>6, <1>10, <2>1, <2>2
  <2> QED BY <1>3, <1>5, <1>6, <1>7, <2>1, <2>2, <2>3 DEF HolderOK
<1>13. \A v \in Deliverer : Holds(v, e)' => v = w
  BY <1>1, <1>2, <1>7 DEF Holds
<1>14. \A v \in Deliverer : Holds(v, e) => dep'[v] = e
  BY <1>1 DEF Holds
<1> HIDE DEF HookInv, HookTypeOK, DispatchOK, EndpointOK, HolderOK, Holds
<1>15. \A v \in Deliverer : Holds(v, e)' => Holds(v, e) /\ HolderOK(v, e)'
  BY <1>2, <1>12, <1>13
<1>16. \A v \in Deliverer : ~Holds(v, e) => dpc'[v] = dpc[v] /\ dep'[v] = dep[v] /\ dtry'[v] = dtry[v] /\ dcopy'[v] = dcopy[v]
  BY <1>1, <1>2, <1>5, <1>6, <1>7
<1> QED BY <1>1, <1>2, <1>6, <1>8, <1>9, <1>11, <1>14, <1>15, <1>16, OneEndpoint

(* A worker takes a queued task: nobody else has it.                         *)
LEMMA LoadOK ==
  ASSUME HookInv, NEW w \in Deliverer, NEW e \in Endpoint, LoadDelivery(w, e)
  PROVE  HookInv'
<1> USE AttemptsMade
<1>t. HookTypeOK /\ DispatchOK /\ EndpointOK(e)
  BY DEF HookInv
<1>1. /\ dpc[w] = "idle" /\ task[e].state = "queued"
      /\ UNCHANGED <<endpoints, todo, dispatched, delivery, posts, accepted, repeats, hookFaults>>
  BY DEF LoadDelivery, dispatchVars, tallyVars
<1>2. \A v \in Deliverer : ~Holds(v, e)
  BY <1>1 DEF HookInv, HolderOK
<1>3. e \notin todo /\ dispatched # "no"
  BY <1>t, <1>1 DEF DispatchOK
<1>4. /\ posts[e] \in Nat /\ accepted[e] \in Nat /\ repeats[e] \in Nat
      /\ posts[e] <= MaxAttempts * repeats[e] /\ accepted[e] <= repeats[e]
  BY <1>t, <1>1 DEF HookTypeOK, EndpointOK
<1>5. CASE Retried(e) /\ UNCHANGED <<dpc, dep, dtry, dcopy>>
  <2>1. /\ task' \in [Endpoint -> [state : {"none", "lost", "queued", "taken", "done", "archived"}, left : 0..MaxRetry]]
        /\ task'[e].state \in {"queued", "archived"} /\ \A d \in Endpoint \ {e} : task'[d] = task[d]
    BY <1>t, <1>5, RetriedTask
  <2>2. HookTypeOK'
    BY <1>t, <1>1, <1>5, <2>1 DEF HookTypeOK
  <2>3. DispatchOK'
    BY <1>t, <1>1, <1>3, <2>1 DEF DispatchOK, HookTypeOK
  <2>4. EndpointOK(e)'
    BY <1>t, <1>1, <2>1 DEF EndpointOK
  <2>5. \A v \in Deliverer : ~Holds(v, e)'
    BY <1>2, <1>5 DEF Holds
  <2> QED BY <1>1, <1>2, <1>5, <2>1, <2>2, <2>3, <2>4, <2>5, OneEndpoint
<1>6. CASE /\ task' = [task EXCEPT ![e].state = "taken"]
           /\ dpc' = [dpc EXCEPT ![w] = "attempt"] /\ dep' = [dep EXCEPT ![w] = e]
           /\ dtry' = [dtry EXCEPT ![w] = 0] /\ dcopy' = [dcopy EXCEPT ![w] = delivery[e]]
  <2>1. /\ task' \in [Endpoint -> [state : {"none", "lost", "queued", "taken", "done", "archived"}, left : 0..MaxRetry]]
        /\ task'[e].state = "taken" /\ \A d \in Endpoint \ {e} : task'[d] = task[d]
    BY <1>t, <1>6 DEF HookTypeOK
  <2>2. /\ dpc' \in [Deliverer -> {"idle", "attempt", "update"}] /\ dpc'[w] = "attempt"
        /\ dep' \in [Deliverer -> Endpoint \cup {NoEndpoint}] /\ dep'[w] = e
        /\ dtry' \in [Deliverer -> 0..MaxAttempts] /\ dtry'[w] = 0
        /\ dcopy' \in [Deliverer -> DeliveryRow]
        /\ \A v \in Deliverer \ {w} : dpc'[v] = dpc[v] /\ dep'[v] = dep[v] /\ dtry'[v] = dtry[v] /\ dcopy'[v] = dcopy[v]
    BY <1>t, <1>6 DEF HookTypeOK
  <2>3. HookTypeOK'
    BY <1>t, <1>1, <2>1, <2>2 DEF HookTypeOK
  <2>4. DispatchOK'
    BY <1>t, <1>1, <1>3, <2>1 DEF DispatchOK, HookTypeOK
  <2>5. ASSUME NEW d \in Endpoint PROVE EndpointOK(d)'
    <3>1. CASE d = e
      BY <1>t, <1>1, <2>1, <3>1 DEF EndpointOK
    <3>2. CASE d # e
      BY <1>1, <2>1, <3>2 DEF HookInv, EndpointOK
    <3> QED BY <3>1, <3>2
  <2>6. ASSUME NEW v \in Deliverer, dpc'[v] # "idle" PROVE dep'[v] \in Endpoint
    BY <2>2, <2>6 DEF HookInv
  <2>7. ASSUME NEW v \in Deliverer, NEW d \in Endpoint, Holds(v, d)'
        PROVE  IF v = w THEN d = e ELSE d # e /\ Holds(v, d)
    BY <1>2, <2>2, <2>7 DEF Holds
  <2>8. ASSUME NEW v \in Deliverer, NEW d \in Endpoint, Holds(v, d)' PROVE HolderOK(v, d)'
    <3>1. CASE v = w
      <4>1. d = e
        BY <2>7, <2>8, <3>1
      <4>2. MaxAttempts * repeats[e] + 0 = MaxAttempts * repeats[e]
        <5>1. repeats[e] \in Nat
          BY <1>4
        <5>2. MaxAttempts * repeats[e] \in Nat
          BY <5>1, OneMoreRepeat, Zenon
        <5>3. \A x \in Nat : x + 0 = x
          OBVIOUS
        <5> QED BY <5>2, <5>3, Zenon
      <4> QED BY <1>1, <1>4, <2>1, <2>2, <3>1, <4>1, <4>2 DEF HolderOK
    <3>2. CASE v # w
      <4>1. d # e /\ Holds(v, d)
        BY <2>7, <2>8, <3>2
      <4>2. HolderOK(v, d)
        BY <4>1 DEF HookInv
      <4> QED BY <1>1, <2>1, <2>2, <3>2, <4>1, <4>2 DEF HolderOK
    <3> QED BY <3>1, <3>2
  <2>9. ASSUME NEW v \in Deliverer, NEW u \in Deliverer, NEW d \in Endpoint, Holds(v, d)', Holds(u, d)' PROVE v = u
    BY <2>7, <2>9 DEF HookInv
  <2> QED BY <2>3, <2>4, <2>5, <2>6, <2>8, <2>9 DEF HookInv
<1> QED BY <1>5, <1>6 DEF LoadDelivery, delivererVars

(* HookSafe for any number of endpoints and workers, attempts, retries and   *)
(* lost executions (Dispatch, HandleDeliver, Deliver): the log agrees with   *)
(* the endpoint's answers, and the queue's retries do not multiply the       *)
(* attempts of a Deliver that finished.                                      *)
THEOREM DeliveriesAreSafe == HookSpec => []HookSafe
<1> USE AttemptsMade
<1>1. HookInit => HookInv
  <2> SUFFICES ASSUME HookInit PROVE HookInv
    OBVIOUS
  <2>1. NoDelivery \in DeliveryRow /\ NoDelivery.status = "none"
    BY DEF NoDelivery, DeliveryRow
  <2>2. [state |-> "none", left |-> MaxRetry] \in [state : {"none", "lost", "queued", "taken", "done", "archived"}, left : 0..MaxRetry]
    OBVIOUS
  <2>3. HookTypeOK
    BY <2>1, <2>2 DEF HookInit, HookTypeOK
  <2>4. \A e \in Endpoint : task[e].state = "none" /\ delivery[e].status = "none" /\ posts[e] = 0 /\ accepted[e] = 0 /\ repeats[e] = 0
    BY <2>1 DEF HookInit
  <2>5. \A w \in Deliverer : dpc[w] = "idle"
    BY DEF HookInit
  <2>6. DispatchOK
    BY <2>4 DEF HookInit, DispatchOK
  <2>7. \A e \in Endpoint : EndpointOK(e)
    BY <2>4, OneMoreRepeat DEF EndpointOK
  <2> QED BY <2>3, <2>5, <2>6, <2>7 DEF HookInv, Holds
<1>2. HookInv /\ [HookNext]_hookVars => HookInv'
  <2> SUFFICES ASSUME HookInv, [HookNext]_hookVars PROVE HookInv'
    OBVIOUS
  <2>1. CASE UNCHANGED hookVars
    BY <2>1 DEF hookVars, HookInv, HookTypeOK, DispatchOK, EndpointOK, Holds, HolderOK
  <2>2. ASSUME NEW e \in Endpoint,
               RegisterEndpoint(e) \/ DeleteEndpoint(e) \/ CreateDelivery(e) \/ RedeliverFinished(e)
        PROVE  HookInv'
    BY <2>2, EndpointsOK, CreateDeliveryOK, RedeliverOK
  <2>3. CASE ListActiveByEvent
    BY <2>3, ListActiveOK
  <2>4. ASSUME NEW w \in Deliverer, DelivererStep(w) \/ LoseDeliverer(w) PROVE HookInv'
    <3>1. CASE \E e \in Endpoint : LoadDelivery(w, e)
      BY <3>1, LoadOK
    <3>2. CASE \E a \in {"2xx", "3xx", "4xx", "5xx", "none"} : Attempt(w, a)
      BY <3>2, AttemptOK
    <3>3. CASE RefuseDestination(w) \/ FinishDelivery(w) \/ LoseDeliverer(w)
      BY <3>3, RefuseOK, FinishOK, LoseDelivererOK
    <3> QED BY <2>4, <3>1, <3>2, <3>3 DEF DelivererStep
  <2> QED BY <2>1, <2>2, <2>3, <2>4 DEF HookNext
<1>3. HookInv => HookSafe
  BY HookInvIsSafe
<1> QED BY <1>1, <1>2, <1>3, PTL DEF HookSpec

-----------------------------------------------------------------------------
(* Cached balances.  What a writer carries was on the ledger when it was     *)
(* loaded, or is a grant on top of a row; the ledger's past only grows, so   *)
(* it does not matter how late and in which order the rows are written.      *)

Places == {"idle", "write", "trust", "zero", "grant"}

Ceiling == TopValue + grants * Grant

(* A faucet balance of v tokens is covered by what the ledger showed.        *)
Covered(v) == \E p \in past["USDC/issuer"] : v <= p + grants * Grant

WriterOK(w) ==
  LET f == fetched[w] IN
  /\ DOMAIN f \subseteq BalanceRow /\ f \in [DOMAIN f -> Nat] /\ \A r \in DOMAIN f : f[r] <= Ceiling
  /\ bpc[w] \notin {"write", "grant"} => f = Nothing
  /\ bpc[w] = "write" => DOMAIN f \subseteq OnLedger /\ \A r \in DOMAIN f : f[r] \in past[r]
  /\ bpc[w] = "grant" => /\ DOMAIN f \subseteq {"USDC/", "XLM/"}
                         /\ "XLM/" \in DOMAIN f => tainted
                         /\ "USDC/" \in DOMAIN f => Covered(f["USDC/"])

LedgerOK ==
  /\ held \in [OnLedger -> 0..TopValue] /\ trusts \in BOOLEAN /\ past \in [OnLedger -> SUBSET (0..TopValue)]
  /\ \A r \in OnLedger : 0 \in past[r] /\ held[r] \in past[r]

RowsOK ==
  /\ cache \in [BalanceRow -> Nat] /\ \A r \in BalanceRow : cache[r] = NoBalance \/ cache[r] <= Ceiling
  /\ cache["USDC/"] = NoBalance \/ Covered(cache["USDC/"])
  /\ CacheIsPast

DailyOK ==
  /\ reported \subseteq BalanceRow
  /\ seen = {} \/ \E a : seen = {a} /\ DOMAIN a \subseteq BalanceRow

CacheInv ==
  /\ LedgerOK /\ RowsOK /\ DailyOK /\ grants \in 0..MaxGrants /\ tainted \in BOOLEAN
  /\ bpc \in [CacheWriter -> Places] /\ DOMAIN fetched = CacheWriter /\ fetched = [w \in CacheWriter |-> fetched[w]]
  /\ \A w \in CacheWriter : WriterOK(w)

(* The products that the bound on grants needs.                              *)
LEMMA GrantNumbers ==
  /\ TopValue \in Nat /\ Grant \in Nat /\ MaxGrants \in Nat /\ NoBalance \in Nat
  /\ \A g \in 0..MaxGrants : g * Grant \in Nat /\ TopValue + g * Grant < NoBalance
  /\ \A g \in Nat : g * Grant \in Nat /\ (g + 1) * Grant = g * Grant + Grant
  /\ \A g, h \in Nat : g <= h => g * Grant <= h * Grant
<1>1. TopValue \in Nat /\ Grant \in Nat /\ MaxGrants \in Nat
  BY CacheBounds
<1>2. ASSUME NEW g \in Nat PROVE g * Grant \in Nat /\ (g + 1) * Grant = g * Grant + Grant
  BY <1>1
<1>3. ASSUME NEW g \in Nat, NEW h \in Nat, g <= h PROVE g * Grant <= h * Grant
  BY <1>1, <1>3
<1>4. NoBalance \in Nat /\ NoBalance = TopValue + MaxGrants * Grant + 1 /\ MaxGrants * Grant \in Nat
  BY <1>1, <1>2 DEF NoBalance
<1> QED BY <1>1, <1>2, <1>3, <1>4

(* The rows by name.                                                         *)
LEMMA RowNames ==
  /\ OnLedger \subseteq BalanceRow /\ "USDC/issuer" \in OnLedger /\ "XLM/" \in OnLedger /\ "USDC/" \notin OnLedger
  /\ "USDC/" \in BalanceRow /\ BalanceRow \ OnLedger = {"USDC/"}
BY DEF OnLedger, BalanceRow

(* The invariant says all that CacheSafe does.                               *)
LEMMA CacheInvIsSafe ==
  ASSUME CacheInv
  PROVE  CacheSafe
<1>1. LedgerOK /\ RowsOK /\ DailyOK /\ grants \in 0..MaxGrants /\ \A w \in CacheWriter : WriterOK(w)
  BY DEF CacheInv
<1>2. cache \in [BalanceRow -> 0..NoBalance]
  <2>1. ASSUME NEW r \in BalanceRow PROVE cache[r] \in 0..NoBalance
    BY <1>1, GrantNumbers DEF RowsOK, Ceiling
  <2> QED BY <1>1, <2>1 DEF RowsOK
<1>3. Cardinality(seen) <= 1
  <2>1. Cardinality({}) = 0 /\ \A a : Cardinality({a}) = 1
    BY FS_EmptySet, FS_Singleton
  <2>2. CASE seen = {}
    BY <2>1, <2>2
  <2>3. ASSUME NEW a, seen = {a} PROVE Cardinality(seen) <= 1
    BY <2>1, <2>3, SMTT(60)
  <2> QED BY <1>1, <2>2, <2>3 DEF DailyOK
<1>4. CacheTypeOK
  <2>1. held \in [OnLedger -> 0..TopValue] /\ trusts \in BOOLEAN /\ reported \subseteq BalanceRow
    BY <1>1 DEF LedgerOK, DailyOK
  <2>2. ASSUME NEW w \in CacheWriter
        PROVE  /\ bpc[w] \in {"idle", "write", "trust", "zero", "grant"}
               /\ bpc[w] \notin {"write", "grant"} => fetched[w] = Nothing
    BY <1>1 DEF WriterOK, CacheInv, Places
  <2> QED BY <1>2, <1>3, <2>1, <2>2 DEF CacheTypeOK
<1>5. FaucetIsBounded /\ CacheIsPast
  BY <1>1 DEF RowsOK, FaucetIsBounded, Covered
<1> QED BY <1>4, <1>5 DEF CacheSafe

(* Time only adds: the ledger's past, the grants, the taint.                 *)
CacheGrows ==
  /\ grants' \in 0..MaxGrants /\ grants <= grants' /\ tainted' \in BOOLEAN /\ (tainted => tainted')
  /\ \A r \in OnLedger : past[r] \subseteq past'[r]

(* As the ledger grows, what was a possible balance stays one.               *)
LEMMA CoverGrows ==
  ASSUME CacheInv, LedgerOK', CacheGrows
  PROVE  Ceiling \in Nat /\ Ceiling' \in Nat /\ Ceiling <= Ceiling' /\ \A v \in Nat : Covered(v) => Covered(v)'
<1>1. grants \in Nat /\ grants' \in Nat /\ grants <= grants'
  BY GrantNumbers DEF CacheInv, CacheGrows
<1>2. grants * Grant \in Nat /\ grants' * Grant \in Nat /\ grants * Grant <= grants' * Grant
  BY <1>1, GrantNumbers
<1>3. past["USDC/issuer"] \subseteq past'["USDC/issuer"] /\ past["USDC/issuer"] \subseteq Nat
  <2>1. past["USDC/issuer"] \in SUBSET (0..TopValue)
    BY RowNames DEF CacheInv, LedgerOK
  <2>2. past["USDC/issuer"] \subseteq Nat
    BY <2>1, GrantNumbers
  <2> QED BY <2>2, RowNames DEF CacheGrows
<1>4. ASSUME NEW v \in Nat, Covered(v) PROVE Covered(v)'
  <2>1. PICK p \in past["USDC/issuer"] : v <= p + grants * Grant
    BY <1>4 DEF Covered
  <2>2. p \in past'["USDC/issuer"] /\ v <= p + grants' * Grant
    BY <1>2, <1>3, <2>1
  <2> QED BY <2>2 DEF Covered
<1>5. Ceiling \in Nat /\ Ceiling' \in Nat /\ Ceiling <= Ceiling'
  BY <1>2, GrantNumbers DEF Ceiling
<1> QED BY <1>4, <1>5

(* A writer that does not move, and rows that are not written.               *)
LEMMA WriterRests ==
  ASSUME CacheInv, LedgerOK', CacheGrows, NEW w \in CacheWriter, bpc'[w] = bpc[w], fetched'[w] = fetched[w]
  PROVE  WriterOK(w)'
<1>1. WriterOK(w)
  BY DEF CacheInv
<1>2. Ceiling \in Nat /\ Ceiling' \in Nat /\ Ceiling <= Ceiling' /\ \A v \in Nat : Covered(v) => Covered(v)'
  BY CoverGrows
<1>3. DOMAIN fetched[w] \subseteq BalanceRow /\ fetched[w] \in [DOMAIN fetched[w] -> Nat]
      /\ \A r \in DOMAIN fetched[w] : fetched[w][r] <= Ceiling'
  <2>1. \A r \in DOMAIN fetched[w] : fetched[w][r] \in Nat /\ fetched[w][r] <= Ceiling
    BY <1>1 DEF WriterOK
  <2> QED BY <1>1, <1>2, <2>1 DEF WriterOK
<1>4. bpc[w] = "write" => DOMAIN fetched[w] \subseteq OnLedger /\ \A r \in DOMAIN fetched[w] : fetched[w][r] \in past'[r]
  BY <1>1 DEF WriterOK, CacheGrows
<1>5. bpc[w] = "grant" => /\ DOMAIN fetched[w] \subseteq {"USDC/", "XLM/"}
                          /\ "XLM/" \in DOMAIN fetched[w] => tainted'
                          /\ "USDC/" \in DOMAIN fetched[w] => Covered(fetched[w]["USDC/"])'
  BY <1>1, <1>2, <1>3 DEF WriterOK, CacheGrows
<1> QED BY <1>1, <1>3, <1>4, <1>5 DEF WriterOK

(* A step that does not write the cache keeps its rows explained.            *)
LEMMA RowsRest ==
  ASSUME CacheInv, LedgerOK', CacheGrows, UNCHANGED cache
  PROVE  RowsOK'
<1>1. RowsOK
  BY DEF CacheInv
<1>2. Ceiling \in Nat /\ Ceiling' \in Nat /\ Ceiling <= Ceiling' /\ \A v \in Nat : Covered(v) => Covered(v)'
  BY CoverGrows
<1>3. cache \in [BalanceRow -> Nat] /\ \A r \in BalanceRow : cache[r] = NoBalance \/ cache[r] <= Ceiling'
  BY <1>1, <1>2 DEF RowsOK
<1>4. cache["USDC/"] = NoBalance \/ Covered(cache["USDC/"])'
  BY <1>1, <1>2, <1>3, RowNames DEF RowsOK
<1>5. CacheIsPast'
  BY <1>1 DEF RowsOK, CacheIsPast, CacheGrows
<1>6. (cache["USDC/"] = NoBalance \/ Covered(cache["USDC/"]))'
  BY <1>4
<1> QED BY <1>3, <1>5, <1>6 DEF RowsOK

(* One row is written, with what the ledger had, or with a grant.            *)
LEMMA RowWritten ==
  ASSUME CacheInv, UNCHANGED <<past, grants, tainted>>, NEW r \in BalanceRow, NEW v \in Nat, UpsertBalance(r, v), v <= Ceiling,
         r = "USDC/" => Covered(v),
         r \in OnLedger => v \in past[r] \/ (tainted /\ r = "XLM/")
  PROVE  RowsOK'
<1>1. RowsOK
  BY DEF CacheInv
<1>2. cache' = [cache EXCEPT ![r] = v] /\ Ceiling' = Ceiling /\ \A x : Covered(x)' <=> Covered(x)
  BY DEF UpsertBalance, Ceiling, Covered
<1>3. cache' \in [BalanceRow -> Nat] /\ cache'[r] = v /\ \A q \in BalanceRow \ {r} : cache'[q] = cache[q]
  BY <1>1, <1>2 DEF RowsOK
<1>4. \A q \in BalanceRow : cache'[q] = NoBalance \/ cache'[q] <= Ceiling
  BY <1>1, <1>3 DEF RowsOK
<1>5. cache'["USDC/"] = NoBalance \/ Covered(cache'["USDC/"])
  BY <1>1, <1>3, RowNames DEF RowsOK
<1>6. CacheIsPast'
  BY <1>1, <1>3, RowNames DEF RowsOK, CacheIsPast
<1>7. (cache["USDC/"] = NoBalance \/ Covered(cache["USDC/"]))'
  BY <1>2, <1>5
<1> QED BY <1>2, <1>3, <1>4, <1>6, <1>7 DEF RowsOK

(* Nobody but w moves.                                                       *)
OnlyMoves(w) ==
  /\ bpc' \in [CacheWriter -> Places] /\ DOMAIN fetched' = CacheWriter /\ fetched' = [x \in CacheWriter |-> fetched'[x]]
  /\ \A x \in CacheWriter \ {w} : bpc'[x] = bpc[x] /\ fetched'[x] = fetched[x]

(* A step of one writer of the cache leaves what the others have read        *)
(* explained.                                                                *)
LEMMA WriterStep ==
  ASSUME CacheInv, NEW w \in CacheWriter, LedgerOK', RowsOK', DailyOK', CacheGrows, WriterOK(w)', OnlyMoves(w)
  PROVE  CacheInv'
<1>1. ASSUME NEW x \in CacheWriter PROVE WriterOK(x)'
  <2>1. CASE x = w
    BY <2>1
  <2>2. CASE x # w
    BY <2>2, WriterRests DEF OnlyMoves
  <2> QED BY <2>1, <2>2
<1> QED BY <1>1 DEF CacheInv, CacheGrows, OnlyMoves

(* What w has after its step.                                                *)
LEMMA WriterHas ==
  ASSUME CacheInv, NEW w \in CacheWriter,
         NEW b \in Places, NEW f, bpc' = [bpc EXCEPT ![w] = b], fetched' = [fetched EXCEPT ![w] = f]
  PROVE  OnlyMoves(w) /\ bpc'[w] = b /\ fetched'[w] = f
<1>1. bpc \in [CacheWriter -> Places] /\ fetched = [x \in CacheWriter |-> fetched[x]]
  BY DEF CacheInv
<1>2. bpc' \in [CacheWriter -> Places] /\ bpc'[w] = b /\ \A x \in CacheWriter \ {w} : bpc'[x] = bpc[x]
  BY <1>1
<1>3. /\ DOMAIN fetched' = CacheWriter /\ fetched' = [x \in CacheWriter |-> fetched'[x]] /\ fetched'[w] = f
      /\ \A x \in CacheWriter \ {w} : fetched'[x] = fetched[x]
  BY <1>1
<1> QED BY <1>2, <1>3 DEF OnlyMoves

(* A writer whose position, or load, stays as it is.                         *)
LEMMA SameIsSet ==
  ASSUME CacheInv, NEW w \in CacheWriter
  PROVE  bpc = [bpc EXCEPT ![w] = bpc[w]] /\ fetched = [fetched EXCEPT ![w] = fetched[w]] /\ bpc[w] \in Places /\ WriterOK(w)
<1>1. bpc \in [CacheWriter -> Places] /\ fetched = [x \in CacheWriter |-> fetched[x]] /\ WriterOK(w)
  BY DEF CacheInv
<1> QED BY <1>1

(* The places by name.                                                       *)
LEMMA PlacesHave ==
  {"idle", "write", "trust", "zero", "grant"} \subseteq Places
BY DEF Places

(* Nothing is carried.                                                       *)
LEMMA NothingIsCarried ==
  DOMAIN Nothing = {} /\ Nothing \in [{} -> Nat]
BY DEF Nothing

(* The ledger moves; the balance it had stays in its past.                   *)
LEMMA BalanceMovesOK ==
  ASSUME CacheInv, BalanceMoves
  PROVE  CacheInv'
<1>l. LedgerOK /\ DailyOK /\ grants \in 0..MaxGrants /\ tainted \in BOOLEAN
  BY DEF CacheInv
<1>u. UNCHANGED <<seen, reported, trusts, cache, bpc, fetched, grants, tainted>>
  BY DEF BalanceMoves, dailyVars
<1>1. PICK r \in OnLedger, v \in 0..TopValue :
        held' = [held EXCEPT ![r] = v] /\ past' = [past EXCEPT ![r] = @ \cup {v}]
  BY DEF BalanceMoves
<1>2. held' \in [OnLedger -> 0..TopValue] /\ past' \in [OnLedger -> SUBSET (0..TopValue)]
  BY <1>l, <1>1 DEF LedgerOK
<1>3. ASSUME NEW q \in OnLedger PROVE past[q] \subseteq past'[q] /\ 0 \in past'[q] /\ held'[q] \in past'[q]
  BY <1>l, <1>1 DEF LedgerOK
<1>4. LedgerOK'
  BY <1>l, <1>u, <1>2, <1>3 DEF LedgerOK
<1>5. CacheGrows
  <2>1. grants' \in 0..MaxGrants /\ grants <= grants'
    BY <1>l, <1>u
  <2> QED BY <1>l, <1>u, <1>3, <2>1 DEF CacheGrows
<1>6. \A w \in CacheWriter : WriterOK(w)'
  BY <1>u, <1>4, <1>5, WriterRests
<1>7. RowsOK' /\ DailyOK'
  BY <1>l, <1>u, <1>4, <1>5, RowsRest DEF DailyOK
<1> QED BY <1>u, <1>4, <1>5, <1>6, <1>7 DEF CacheInv, CacheGrows

(* A step that leaves the ledger, the grants and the comparison alone.       *)
LEMMA LedgerRests ==
  ASSUME CacheInv, UNCHANGED <<held, trusts, past, grants, tainted, seen, reported>>
  PROVE  LedgerOK' /\ CacheGrows /\ DailyOK' /\ (UNCHANGED cache => RowsOK')
<1>1. LedgerOK /\ DailyOK /\ grants \in 0..MaxGrants /\ tainted \in BOOLEAN
  BY DEF CacheInv
<1>2. LedgerOK' /\ DailyOK'
  BY <1>1 DEF LedgerOK, DailyOK
<1>3. grants' \in 0..MaxGrants /\ grants <= grants'
  BY <1>1
<1>4. CacheGrows
  BY <1>1, <1>3 DEF CacheGrows
<1> QED BY <1>2, <1>4, RowsRest

(* The account is loaded.                                                    *)
LEMMA LoadBalancesOK ==
  ASSUME CacheInv, NEW w \in CacheWriter, LoadBalances(w)
  PROVE  CacheInv'
<1> DEFINE f == [r \in Shown |-> held[r]]
<1>u. /\ UNCHANGED <<held, trusts, past, cache, grants, tainted, seen, reported>>
      /\ bpc' = [bpc EXCEPT ![w] = "write"] /\ fetched' = [fetched EXCEPT ![w] = f]
  BY DEF LoadBalances, dailyVars, ledgerRows
<1>1. Shown \subseteq OnLedger /\ Shown \subseteq BalanceRow
  BY RowNames DEF Shown
<1>2. LedgerOK /\ grants \in Nat
  BY GrantNumbers DEF CacheInv
<1>3. Ceiling' \in Nat /\ TopValue <= Ceiling'
  BY <1>u, <1>2, GrantNumbers DEF Ceiling
<1>4. ASSUME NEW r \in Shown PROVE held[r] \in Nat /\ held[r] <= Ceiling' /\ held[r] \in past'[r]
  BY <1>u, <1>1, <1>2, <1>3, GrantNumbers DEF LedgerOK
<1>5. DOMAIN f = Shown /\ f \in [Shown -> Nat] /\ \A r \in Shown : f[r] = held[r]
  BY <1>4
<1> HIDE DEF f
<1>6. OnlyMoves(w) /\ bpc'[w] = "write" /\ fetched'[w] = f
  BY <1>u, PlacesHave, WriterHas
<1>7. WriterOK(w)'
  BY <1>1, <1>4, <1>5, <1>6 DEF WriterOK
<1>8. LedgerOK' /\ CacheGrows /\ DailyOK' /\ RowsOK'
  BY <1>u, LedgerRests
<1> QED BY <1>6, <1>7, <1>8, WriterStep

(* One row of what was loaded is written, or its statement fails.            *)
LEMMA WriteBalanceOK ==
  ASSUME CacheInv, NEW w \in CacheWriter, WriteBalance(w)
  PROVE  CacheInv'
<1>u. UNCHANGED <<held, trusts, past, bpc, grants, tainted, seen, reported>> /\ bpc[w] = "write"
  BY DEF WriteBalance, dailyVars, ledgerRows
<1>o. WriterOK(w) /\ LedgerOK' /\ CacheGrows /\ DailyOK' /\ (UNCHANGED cache => RowsOK')
  BY <1>u, LedgerRests, SameIsSet
<1>p. PICK r \in DOMAIN fetched[w] : \E f :
        /\ fetched' = [fetched EXCEPT ![w] = f]
        /\ f = Nothing \/ f = [q \in DOMAIN fetched[w] \ {r} |-> fetched[w][q]]
        /\ UpsertBalance(r, fetched[w][r]) \/ UNCHANGED cache
  BY DEF WriteBalance
<1>1. PICK f :
        /\ fetched' = [fetched EXCEPT ![w] = f]
        /\ f = Nothing \/ f = [q \in DOMAIN fetched[w] \ {r} |-> fetched[w][q]]
        /\ UpsertBalance(r, fetched[w][r]) \/ UNCHANGED cache
  BY <1>p
<1>2. RowsOK'
  <2>1. CASE UNCHANGED cache
    BY <1>o, <2>1
  <2>2. CASE UpsertBalance(r, fetched[w][r])
    <3>1. r \in OnLedger /\ r \in BalanceRow /\ r # "USDC/" /\ fetched[w][r] \in Nat /\ fetched[w][r] <= Ceiling /\ fetched[w][r] \in past[r]
      BY <1>u, <1>o, RowNames DEF WriterOK
    <3> QED BY <1>u, <2>2, <3>1, RowWritten
  <2> QED BY <1>1, <2>1, <2>2
<1>3. OnlyMoves(w) /\ bpc'[w] = "write" /\ fetched'[w] = f
  <2>1. bpc' = [bpc EXCEPT ![w] = "write"]
    BY <1>u, SameIsSet
  <2> QED BY <1>1, <2>1, PlacesHave, WriterHas
<1>4. WriterOK(w)'
  <2>1. CASE f = Nothing
    BY <1>3, <2>1, NothingIsCarried DEF WriterOK
  <2>2. CASE f = [q \in DOMAIN fetched[w] \ {r} |-> fetched[w][q]]
    <3>1. DOMAIN f \subseteq DOMAIN fetched[w] /\ \A q \in DOMAIN f : f[q] = fetched[w][q]
      BY <2>2
    <3>2. DOMAIN f \subseteq OnLedger /\ DOMAIN f \subseteq BalanceRow /\ \A q \in DOMAIN f : f[q] \in Nat /\ f[q] <= Ceiling /\ f[q] \in past[q]
      BY <1>u, <1>o, <3>1 DEF WriterOK
    <3>3. f \in [DOMAIN f -> Nat]
      BY <2>2, <3>2
    <3>4. Ceiling' = Ceiling
      BY <1>u DEF Ceiling
    <3> QED BY <1>u, <1>3, <3>2, <3>3, <3>4 DEF WriterOK
  <2> QED BY <1>1, <2>1, <2>2
<1> QED BY <1>o, <1>2, <1>3, <1>4, WriterStep

(* All rows are written.                                                     *)
LEMMA BalancesWrittenOK ==
  ASSUME CacheInv, NEW w \in CacheWriter, BalancesWritten(w)
  PROVE  CacheInv'
<1>u. UNCHANGED <<held, trusts, past, cache, fetched, grants, tainted, seen, reported>> /\ bpc' = [bpc EXCEPT ![w] = "idle"]
  BY DEF BalancesWritten, dailyVars, ledgerRows
<1>1. fetched[w] = Nothing
  <2>1. DOMAIN fetched[w] = {} /\ fetched[w] \in [DOMAIN fetched[w] -> Nat]
    BY SameIsSet DEF BalancesWritten, WriterOK
  <2> QED BY <2>1 DEF Nothing
<1>2. OnlyMoves(w) /\ bpc'[w] = "idle" /\ fetched'[w] = Nothing
  <2>1. fetched' = [fetched EXCEPT ![w] = fetched[w]]
    BY <1>u, SameIsSet
  <2> QED BY <1>u, <1>1, <2>1, PlacesHave, WriterHas
<1>3. WriterOK(w)'
  BY <1>2, NothingIsCarried DEF WriterOK
<1>4. LedgerOK' /\ CacheGrows /\ DailyOK' /\ RowsOK'
  BY <1>u, LedgerRests
<1> QED BY <1>2, <1>3, <1>4, WriterStep

(* A writer that comes to place b with empty hands.                          *)
LEMMA EmptyHandsOK ==
  ASSUME CacheInv, NEW w \in CacheWriter, NEW b \in Places, bpc' = [bpc EXCEPT ![w] = b],
         \/ fetched' = fetched /\ bpc[w] \notin {"write", "grant"}
         \/ fetched' = [fetched EXCEPT ![w] = Nothing],
         LedgerOK', CacheGrows, DailyOK', RowsOK'
  PROVE  CacheInv'
<1>1. fetched' = [fetched EXCEPT ![w] = Nothing]
  <2>1. fetched = [fetched EXCEPT ![w] = fetched[w]] /\ WriterOK(w)
    BY SameIsSet
  <2> QED BY <2>1 DEF WriterOK
<1>2. OnlyMoves(w) /\ fetched'[w] = Nothing
  BY <1>1, WriterHas
<1>3. WriterOK(w)'
  BY <1>2, NothingIsCarried DEF WriterOK
<1> QED BY <1>2, <1>3, WriterStep

(* A trustline: signed, submitted, its row set to zero.                      *)
LEMMA TrustlineOK ==
  ASSUME CacheInv, NEW w \in CacheWriter, SignTrustline(w) \/ SubmitTrustline(w) \/ ZeroTrustline(w)
  PROVE  CacheInv'
<1>1. CASE SignTrustline(w)
  <2>u. UNCHANGED <<held, trusts, past, cache, fetched, grants, tainted, seen, reported>> /\ bpc[w] = "idle"
        /\ (bpc' = [bpc EXCEPT ![w] = "trust"] \/ bpc' = bpc)
    BY <1>1 DEF SignTrustline, dailyVars, ledgerRows
  <2>1. bpc' = [bpc EXCEPT ![w] = "trust"] \/ bpc' = [bpc EXCEPT ![w] = "idle"]
    BY <2>u, SameIsSet
  <2>2. LedgerOK' /\ CacheGrows /\ DailyOK' /\ RowsOK'
    BY <2>u, LedgerRests
  <2> QED BY <2>u, <2>1, <2>2, PlacesHave, EmptyHandsOK
<1>2. CASE SubmitTrustline(w)
  <2>u. UNCHANGED <<held, past, cache, fetched, grants, tainted, seen, reported>> /\ bpc[w] = "trust"
        /\ (bpc' = [bpc EXCEPT ![w] = "zero"] \/ bpc' = [bpc EXCEPT ![w] = "idle"])
    BY <1>2 DEF SubmitTrustline, dailyVars
  <2>1. trusts' = trusts \/ trusts' = TRUE
    BY <1>2 DEF SubmitTrustline
  <2>2. LedgerOK /\ DailyOK /\ grants \in 0..MaxGrants /\ tainted \in BOOLEAN
    BY DEF CacheInv
  <2>3. trusts' \in BOOLEAN
    BY <2>1, <2>2 DEF LedgerOK
  <2>4. LedgerOK' /\ DailyOK'
    BY <2>u, <2>2, <2>3 DEF LedgerOK, DailyOK
  <2>5. grants' \in 0..MaxGrants /\ grants <= grants'
    BY <2>u, <2>2
  <2>6. CacheGrows
    BY <2>u, <2>2, <2>5 DEF CacheGrows
  <2>7. RowsOK'
    BY <2>u, <2>4, <2>6, RowsRest
  <2> QED BY <2>u, <2>4, <2>6, <2>7, PlacesHave, EmptyHandsOK
<1>3. CASE ZeroTrustline(w)
  <2>u. UNCHANGED <<held, trusts, past, fetched, grants, tainted, seen, reported>> /\ bpc[w] = "zero"
        /\ bpc' = [bpc EXCEPT ![w] = "idle"]
        /\ (UpsertBalance("USDC/issuer", 0) \/ UNCHANGED cache)
    BY <1>3 DEF ZeroTrustline, dailyVars, ledgerRows
  <2>1. LedgerOK' /\ CacheGrows /\ DailyOK' /\ (UNCHANGED cache => RowsOK')
    BY <2>u, LedgerRests
  <2>2. 0 \in past["USDC/issuer"] /\ Ceiling \in Nat
    BY <2>1, RowNames, CoverGrows DEF CacheInv, LedgerOK
  <2>3. UpsertBalance("USDC/issuer", 0) => RowsOK'
    BY <2>u, <2>2, RowNames, RowWritten
  <2>4. RowsOK'
    BY <2>u, <2>1, <2>3
  <2> QED BY <2>u, <2>1, <2>4, PlacesHave, EmptyHandsOK
<1> QED BY <1>1, <1>2, <1>3

(* The faucet reads a row and carries it, plus a grant.                      *)
LEMMA ReadForFaucetOK ==
  ASSUME CacheInv, NEW w \in CacheWriter, ReadForFaucet(w)
  PROVE  CacheInv'
<1>u. /\ UNCHANGED <<held, trusts, past, cache, seen, reported>> /\ grants < MaxGrants /\ grants' = grants + 1
      /\ bpc' = [bpc EXCEPT ![w] = "grant"]
  BY DEF ReadForFaucet, dailyVars, ledgerRows
<1>l. LedgerOK /\ DailyOK /\ RowsOK /\ grants \in 0..MaxGrants /\ tainted \in BOOLEAN
  BY DEF CacheInv
<1>1. PICK code \in {"USDC", "XLM"} :
        \E v \in {0} \cup {cache[r] : r \in {q \in BalanceRow : Code(q) = code /\ cache[q] # NoBalance}} :
          /\ fetched' = [fetched EXCEPT ![w] = [r \in {FaucetRow(code)} |-> v + Grant]]
          /\ tainted' = (tainted \/ code = "XLM")
  BY DEF ReadForFaucet
<1>2. PICK v \in {0} \cup {cache[r] : r \in {q \in BalanceRow : Code(q) = code /\ cache[q] # NoBalance}} :
        /\ fetched' = [fetched EXCEPT ![w] = [r \in {FaucetRow(code)} |-> v + Grant]]
        /\ tainted' = (tainted \/ code = "XLM")
  BY <1>1
<1> DEFINE f == [r \in {FaucetRow(code)} |-> v + Grant]
<1>g. /\ grants \in Nat /\ grants' \in 0..MaxGrants /\ grants <= grants'
      /\ grants * Grant \in Nat /\ grants' * Grant = grants * Grant + Grant /\ TopValue \in Nat /\ Grant \in Nat
  BY <1>u, <1>l, GrantNumbers
<1>3. LedgerOK' /\ DailyOK'
  BY <1>u, <1>l DEF LedgerOK, DailyOK
<1>4. CacheGrows
  <2>1. tainted' \in BOOLEAN /\ (tainted => tainted')
    BY <1>l, <1>2
  <2> QED BY <1>u, <1>g, <2>1 DEF CacheGrows
<1>5. RowsOK'
  BY <1>u, <1>3, <1>4, RowsRest
<1>6. v \in Nat /\ v <= TopValue + grants * Grant
  <2>1. CASE v = 0
    BY <1>g, <2>1
  <2>2. ASSUME NEW r \in BalanceRow, v = cache[r], cache[r] # NoBalance PROVE v \in Nat /\ v <= TopValue + grants * Grant
    BY <1>l, <2>2 DEF RowsOK, Ceiling
  <2> QED BY <1>2, <2>1, <2>2
<1>7. v + Grant \in Nat /\ v + Grant <= Ceiling'
  BY <1>u, <1>g, <1>6 DEF Ceiling
<1>8. code = "USDC" => Covered(v + Grant)'
  <2> SUFFICES ASSUME code = "USDC" PROVE Covered(v + Grant)'
    OBVIOUS
  <2>1. PICK p \in past["USDC/issuer"] : v <= p + grants * Grant /\ p \in Nat
    <3>p. 0 \in past["USDC/issuer"] /\ past["USDC/issuer"] \in SUBSET (0..TopValue)
      BY <1>l, RowNames DEF LedgerOK
    <3>n. past["USDC/issuer"] \subseteq Nat
      BY <1>g, <3>p
    <3>1. CASE v = 0
      BY <1>g, <3>p, <3>1
    <3>2. CASE v \in past["USDC/issuer"]
      BY <1>g, <3>n, <3>2
    <3>3. CASE Covered(v)
      BY <3>n, <3>3 DEF Covered
    <3>4. ASSUME NEW r \in BalanceRow, Code(r) = "USDC", cache[r] # NoBalance, v = cache[r]
          PROVE  v \in past["USDC/issuer"] \/ Covered(v)
      <4>1. r = "USDC/issuer" \/ r = "USDC/"
        BY <3>4 DEF BalanceRow, Code
      <4>2. CASE r = "USDC/issuer"
        BY <1>l, <3>4, <4>2, RowNames DEF RowsOK, CacheIsPast
      <4>3. CASE r = "USDC/"
        BY <1>l, <3>4, <4>3 DEF RowsOK
      <4> QED BY <4>1, <4>2, <4>3
    <3>5. v = 0 \/ v \in past["USDC/issuer"] \/ Covered(v)
      BY <1>2, <3>4
    <3> QED BY <3>1, <3>2, <3>3, <3>5
  <2>2. v + Grant <= p + grants' * Grant /\ p \in past'["USDC/issuer"]
    BY <1>u, <1>g, <1>6, <2>1
  <2> QED BY <2>2 DEF Covered
<1>9. /\ DOMAIN f = {FaucetRow(code)} /\ f \in [DOMAIN f -> Nat] /\ \A r \in DOMAIN f : f[r] = v + Grant
      /\ FaucetRow(code) \in {"USDC/", "XLM/"} /\ FaucetRow(code) \in BalanceRow
      /\ (FaucetRow(code) = "XLM/" => code = "XLM") /\ (FaucetRow(code) = "USDC/" => code = "USDC")
  BY <1>1, <1>7 DEF FaucetRow, BalanceRow
<1>x. fetched' = [fetched EXCEPT ![w] = f]
  BY <1>2
<1> HIDE DEF f
<1>10. OnlyMoves(w) /\ bpc'[w] = "grant" /\ fetched'[w] = f
  BY <1>u, <1>x, PlacesHave, WriterHas
<1>11. "XLM/" \in DOMAIN f => tainted'
  BY <1>2, <1>9
<1>12. "USDC/" \in DOMAIN f => Covered(f["USDC/"])'
  <2>1. "USDC/" \in DOMAIN f => code = "USDC" /\ f["USDC/"] = v + Grant
    BY <1>9
  <2> QED BY <1>8, <2>1 DEF Covered
<1>13. (/\ DOMAIN fetched[w] \subseteq BalanceRow /\ fetched[w] \in [DOMAIN fetched[w] -> Nat]
        /\ \A r \in DOMAIN fetched[w] : fetched[w][r] <= Ceiling)'
  BY <1>7, <1>9, <1>10
<1>14. WriterOK(w)'
  BY <1>9, <1>10, <1>11, <1>12, <1>13 DEF WriterOK, Covered
<1> QED BY <1>3, <1>4, <1>5, <1>10, <1>14, WriterStep

(* The grant is written over the row, or its statement fails.                *)
LEMMA WriteGrantOK ==
  ASSUME CacheInv, NEW w \in CacheWriter, WriteGrant(w)
  PROVE  CacheInv'
<1>u. UNCHANGED <<held, trusts, past, grants, tainted, seen, reported>> /\ bpc[w] = "grant"
      /\ bpc' = [bpc EXCEPT ![w] = "idle"] /\ fetched' = [fetched EXCEPT ![w] = Nothing]
  BY DEF WriteGrant, dailyVars, ledgerRows
<1>o. WriterOK(w) /\ LedgerOK' /\ CacheGrows /\ DailyOK' /\ (UNCHANGED cache => RowsOK')
  BY <1>u, LedgerRests, SameIsSet
<1>1. PICK r \in DOMAIN fetched[w] : UpsertBalance(r, fetched[w][r]) \/ UNCHANGED cache
  BY DEF WriteGrant
<1>2. /\ r \in {"USDC/", "XLM/"} /\ r \in BalanceRow /\ fetched[w][r] \in Nat /\ fetched[w][r] <= Ceiling
      /\ (r = "USDC/" => Covered(fetched[w][r])) /\ (r = "XLM/" => tainted)
  BY <1>u, <1>o DEF WriterOK
<1>3. UpsertBalance(r, fetched[w][r]) => RowsOK'
  BY <1>u, <1>2, RowNames, RowWritten
<1>4. RowsOK'
  BY <1>o, <1>1, <1>3
<1> QED BY <1>u, <1>o, <1>4, PlacesHave, EmptyHandsOK

(* A writer is lost.                                                         *)
LEMMA LoseWriterOK ==
  ASSUME CacheInv, NEW w \in CacheWriter, LoseWriter(w)
  PROVE  CacheInv'
<1>u. UNCHANGED <<held, trusts, past, cache, grants, tainted, seen, reported>>
      /\ bpc' = [bpc EXCEPT ![w] = "idle"] /\ fetched' = [fetched EXCEPT ![w] = Nothing]
  BY DEF LoseWriter, dailyVars, ledgerRows
<1>1. LedgerOK' /\ CacheGrows /\ DailyOK' /\ RowsOK'
  BY <1>u, LedgerRests
<1> QED BY <1>u, <1>1, PlacesHave, EmptyHandsOK

(* The daily comparison reads both sides and reports rows.                   *)
LEMMA ComparisonOK ==
  ASSUME CacheInv, LoadForComparison \/ CheckWalletBalance
  PROVE  CacheInv'
<1>u. UNCHANGED <<held, trusts, past, cache, bpc, fetched, grants, tainted>>
  BY DEF LoadForComparison, CheckWalletBalance, ledgerRows
<1>1. DailyOK'
  <2>1. CASE LoadForComparison
    <3> DEFINE a == [r \in Shown |-> held[r]]
    <3>1. DOMAIN a \subseteq BalanceRow /\ seen' = {a} /\ reported' = reported
      BY <2>1, RowNames DEF LoadForComparison, Shown
    <3> HIDE DEF a
    <3> QED BY <3>1 DEF CacheInv, DailyOK
  <2>2. CASE CheckWalletBalance
    <3>1. PICK a \in seen : reported' \subseteq reported \cup Compared(a)
      BY <2>2 DEF CheckWalletBalance
    <3>2. DOMAIN a \subseteq BalanceRow /\ reported \subseteq BalanceRow
      BY DEF CacheInv, DailyOK
    <3>3. reported' \subseteq BalanceRow /\ seen' = {}
      BY <2>2, <3>1, <3>2 DEF Compared, CheckWalletBalance
    <3> QED BY <3>3 DEF DailyOK
  <2> QED BY <2>1, <2>2
<1>2. LedgerOK' /\ RowsOK' /\ \A w \in CacheWriter : WriterOK(w)'
  BY <1>u DEF CacheInv, LedgerOK, RowsOK, CacheIsPast, Covered, Ceiling, WriterOK
<1>3. /\ grants' \in 0..MaxGrants /\ tainted' \in BOOLEAN
      /\ bpc' \in [CacheWriter -> Places] /\ DOMAIN fetched' = CacheWriter /\ fetched' = [w \in CacheWriter |-> fetched'[w]]
  BY <1>u DEF CacheInv
<1> QED BY <1>1, <1>2, <1>3 DEF CacheInv

(* For any number of writers and any ledger: a cached balance is one the     *)
(* account had at some time, and overlapping faucet requests give no more    *)
(* than they were asked for (UpsertBalance and its callers, Faucet).         *)
THEOREM CachedBalancesAreSafe == CacheSpec => []CacheSafe
<1>1. CacheInit => CacheInv
  <2> SUFFICES ASSUME CacheInit PROVE CacheInv
    OBVIOUS
  <2>i. /\ held = [r \in OnLedger |-> 0] /\ trusts = FALSE /\ past = [r \in OnLedger |-> {0}]
        /\ cache = [r \in BalanceRow |-> NoBalance] /\ seen = {} /\ reported = {} /\ grants = 0 /\ tainted = FALSE
        /\ bpc = [w \in CacheWriter |-> "idle"] /\ fetched = [w \in CacheWriter |-> Nothing]
    BY DEF CacheInit
  <2>1. LedgerOK
    <3>1. 0 \in 0..TopValue /\ {0} \in SUBSET (0..TopValue)
      BY GrantNumbers
    <3>2. held \in [OnLedger -> 0..TopValue] /\ past \in [OnLedger -> SUBSET (0..TopValue)]
      BY <2>i, <3>1
    <3>3. trusts \in BOOLEAN
      BY <2>i
    <3>4. \A r \in OnLedger : 0 \in past[r] /\ held[r] \in past[r]
      BY <2>i
    <3> QED BY <3>2, <3>3, <3>4 DEF LedgerOK
  <2>2. RowsOK
    BY <2>i, GrantNumbers, RowNames DEF RowsOK, CacheIsPast
  <2>3. DailyOK /\ grants \in 0..MaxGrants /\ tainted \in BOOLEAN
    <3>1. grants \in 0..MaxGrants
      BY <2>i, GrantNumbers
    <3> QED BY <2>i, <3>1 DEF DailyOK
  <2>4. bpc \in [CacheWriter -> Places] /\ DOMAIN fetched = CacheWriter /\ fetched = [w \in CacheWriter |-> fetched[w]]
    BY <2>i, PlacesHave
  <2>5. ASSUME NEW w \in CacheWriter PROVE WriterOK(w)
    BY <2>i, NothingIsCarried DEF WriterOK
  <2> QED BY <2>1, <2>2, <2>3, <2>4, <2>5 DEF CacheInv
<1>2. CacheInv /\ [CacheNext]_cacheVars => CacheInv'
  <2> SUFFICES ASSUME CacheInv, [CacheNext]_cacheVars PROVE CacheInv'
    OBVIOUS
  <2>1. CASE UNCHANGED cacheVars
    <3>u. UNCHANGED <<held, trusts, past, cache, seen, reported, bpc, fetched, grants, tainted>>
      BY <2>1 DEF cacheVars, dailyVars
    <3> QED BY <3>u DEF CacheInv, LedgerOK, RowsOK, DailyOK, CacheIsPast, Covered, Ceiling, WriterOK
  <2>2. ASSUME NEW w \in CacheWriter,
               Refreshes(w) \/ Finishes(w) \/ SignTrustline(w) \/ ReadForFaucet(w) \/ LoseWriter(w)
        PROVE  CacheInv'
    BY <2>2, LoadBalancesOK, WriteBalanceOK, BalancesWrittenOK, TrustlineOK, WriteGrantOK, ReadForFaucetOK, LoseWriterOK
       DEF Refreshes, Finishes
  <2> QED BY <2>1, <2>2, BalanceMovesOK, ComparisonOK DEF CacheNext
<1>3. CacheInv => CacheSafe
  BY CacheInvIsSafe
<1> QED BY <1>1, <1>2, <1>3, PTL DEF CacheSpec

-----------------------------------------------------------------------------
(* The indexer.  An operation is handled when it needs no row, was excused,  *)
(* or its transaction has one; nothing undoes that.  A reader's cursor never *)
(* gets past an operation that is not handled, so neither does the stored    *)
(* cursor, which any reader may overwrite with its own.                      *)

Handled(i) == IsInbound(i) /\ i \notin failed \cup jumped => ExistsByTxHash(history[i].hash)
PassedTo(n) == \A i \in 1..n : Handled(i)

ReaderOK(r) ==
  LET page == rpage[r] IN
  /\ rpc[r] # "idle" => PassedTo(rpos[r])
  /\ rpc[r] \in {"check", "insert"} => /\ page # <<>> /\ PassedTo(page[1] - 1)
                                       /\ \A j \in DOMAIN page : page[j] = page[1] + (j - 1)
  /\ rpc[r] = "insert" => IsInbound(page[1])
  /\ r \in Stream => /\ rpc[r] = "live" => PassedTo(rfeed[r])
                     /\ rpc[r] \in {"check", "insert"} => Len(page) = 1 /\ page[1] = rfeed[r]
                     /\ rpc[r] = "save" => rpos[r] = rfeed[r]

IndexInv == IndexSafe /\ \A r \in Reader : ReaderOK(r)

(* History, rows and excuses only grow.                                      *)
IndexGrows ==
  /\ history' \in Seq(PaymentOp) /\ Len(history) <= Len(history') /\ \A i \in 1..Len(history) : history'[i] = history[i]
  /\ inbound \subseteq inbound' /\ failed \subseteq failed' /\ jumped \subseteq jumped'

(* What the indexer has passed it stays past.                                *)
LEMMA PassedStays ==
  ASSUME IndexInv, IndexGrows, NEW n \in 0..Len(history), PassedTo(n)
  PROVE  PassedTo(n)'
<1>1. history \in Seq(PaymentOp) /\ Len(history) \in Nat
  BY DEF IndexInv, IndexSafe, IndexTypeOK
<1>2. ASSUME NEW i \in 1..n PROVE Handled(i)'
  <2>1. Handled(i) /\ i \in 1..Len(history)
    BY <1>1 DEF PassedTo
  <2>2. history'[i] = history[i]
    BY <2>1 DEF IndexGrows
  <2>3. IsInbound(i)' = IsInbound(i)
    BY <2>2 DEF IsInbound
  <2>4. ExistsByTxHash(history[i].hash) => ExistsByTxHash(history[i].hash)'
    BY <2>2 DEF ExistsByTxHash, IndexGrows
  <2>5. i \notin (failed \cup jumped)' => i \notin failed \cup jumped
    BY DEF IndexGrows
  <2> QED BY <2>1, <2>3, <2>4, <2>5 DEF Handled
<1> QED BY <1>2 DEF PassedTo

(* A reader that does not move.                                              *)
LEMMA ReaderRests ==
  ASSUME IndexInv, IndexGrows, NEW r \in Reader,
         rpc'[r] = rpc[r], rpos'[r] = rpos[r], rfeed'[r] = rfeed[r], rpage'[r] = rpage[r]
  PROVE  ReaderOK(r)'
<1>1. ReaderOK(r) /\ IndexTypeOK
  BY DEF IndexInv, IndexSafe
<1>2. /\ rpos[r] \in 0..Len(history) /\ rfeed[r] \in 0..Len(history) /\ rpage[r] \in Seq(DOMAIN history)
      /\ history \in Seq(PaymentOp) /\ Len(history) \in Nat /\ DOMAIN history = 1..Len(history)
  BY <1>1 DEF IndexTypeOK
<1>3. rpage[r] # <<>> => rpage[r][1] \in 1..Len(history)
  BY <1>2
<1>4. rpc[r] # "idle" => PassedTo(rpos[r])'
  BY <1>1, <1>2, PassedStays DEF ReaderOK
<1>5. rpc[r] \in {"check", "insert"} => PassedTo(rpage[r][1] - 1)'
  <2> SUFFICES ASSUME rpc[r] \in {"check", "insert"} PROVE PassedTo(rpage[r][1] - 1)'
    OBVIOUS
  <2>1. PICK n \in 0..Len(history) : n = rpage[r][1] - 1
    BY <1>1, <1>2, <1>3 DEF ReaderOK
  <2>2. PassedTo(n)
    BY <1>1, <2>1 DEF ReaderOK
  <2>3. PassedTo(n)'
    BY <2>2, PassedStays
  <2> QED BY <2>1, <2>3
<1>6. r \in Stream /\ rpc[r] = "live" => PassedTo(rfeed[r])'
  BY <1>1, <1>2, PassedStays DEF ReaderOK
<1>7. rpc[r] = "insert" => IsInbound(rpage[r][1])'
  BY <1>1, <1>3 DEF ReaderOK, IsInbound, IndexGrows
<1> QED BY <1>1, <1>4, <1>5, <1>6, <1>7 DEF ReaderOK

(* A step of reader r.                                                       *)
LEMMA ReaderStep ==
  ASSUME IndexInv, NEW r \in Reader, IndexGrows, IndexTypeOK', RecordedOnce', PassedTo(cursor)', ReaderOK(r)',
         \A s \in Reader \ {r} : rpc'[s] = rpc[s] /\ rpos'[s] = rpos[s] /\ rfeed'[s] = rfeed[s] /\ rpage'[s] = rpage[s]
  PROVE  IndexInv'
<1>1. ASSUME NEW s \in Reader PROVE ReaderOK(s)'
  BY <1>1, ReaderRests
<1>2. NothingPassedOver'
  BY DEF PassedTo, Handled, NothingPassedOver
<1> QED BY <1>1, <1>2 DEF IndexInv, IndexSafe

(* The types, read off the invariant.                                        *)
LEMMA IndexTells ==
  ASSUME IndexInv
  PROVE  /\ IndexTypeOK /\ RecordedOnce /\ PassedTo(cursor) /\ \A r \in Reader : ReaderOK(r)
         /\ history \in Seq(PaymentOp) /\ Len(history) \in Nat /\ DOMAIN history = 1..Len(history)
         /\ cursor \in 0..Len(history)
<1>1. IndexTypeOK /\ RecordedOnce /\ NothingPassedOver /\ \A r \in Reader : ReaderOK(r)
  BY DEF IndexInv, IndexSafe
<1>2. PassedTo(cursor)
  BY <1>1 DEF PassedTo, Handled, NothingPassedOver
<1>3. history \in Seq(PaymentOp) /\ Len(history) \in Nat /\ DOMAIN history = 1..Len(history) /\ cursor \in 0..Len(history)
  BY <1>1 DEF IndexTypeOK
<1> QED BY <1>1, <1>2, <1>3

(* A step that adds nothing: what was passed stays passed.                   *)
LEMMA NothingAdded ==
  ASSUME IndexInv, UNCHANGED <<history, inbound, failed, jumped>>
  PROVE  IndexGrows /\ RecordedOnce' /\ (\A n \in 0..Len(history) : PassedTo(n)' <=> PassedTo(n))
<1>1. IndexGrows /\ RecordedOnce'
  BY IndexTells DEF IndexGrows, RecordedOnce, IsInbound
<1>2. ASSUME NEW i \in Nat PROVE Handled(i)' <=> Handled(i)
  BY DEF Handled, IsInbound, ExistsByTxHash
<1>3. ASSUME NEW n \in 0..Len(history) PROVE PassedTo(n)' <=> PassedTo(n)
  <2>1. \A i \in 1..n : i \in Nat
    BY IndexTells
  <2> QED BY <1>2, <2>1 DEF PassedTo
<1> QED BY <1>1, <1>3

(* A sequence over a set is one over a larger set.                           *)
LEMMA SeqGrows ==
  ASSUME NEW S, NEW T, S \subseteq T, NEW s \in Seq(S)
  PROVE  s \in Seq(T)
OBVIOUS

(* An operation enters a ledger.                                             *)
LEMMA PaymentArrivesOK ==
  ASSUME IndexInv, NEW op \in PaymentOp, PaymentArrives(op)
  PROVE  IndexInv'
<1>t. /\ IndexTypeOK /\ RecordedOnce /\ PassedTo(cursor) /\ \A r \in Reader : ReaderOK(r)
      /\ history \in Seq(PaymentOp) /\ Len(history) \in Nat /\ DOMAIN history = 1..Len(history) /\ cursor \in 0..Len(history)
  BY IndexTells
<1>u. UNCHANGED <<cursor, inbound, rpc, rpos, rfeed, rpage, rfull, failed, jumped, faults>> /\ history' = Append(history, op)
  BY DEF PaymentArrives, readerVars
<1>1. /\ history' \in Seq(PaymentOp) /\ Len(history') = Len(history) + 1 /\ DOMAIN history' = 1..Len(history')
      /\ \A i \in 1..Len(history) : history'[i] = history[i]
  BY <1>t, <1>u
<1>2. IndexGrows
  BY <1>t, <1>u, <1>1 DEF IndexGrows
<1>3. IndexTypeOK'
  <2>1. DOMAIN history \subseteq DOMAIN history' /\ 0..Len(history) \subseteq 0..Len(history')
    BY <1>t, <1>1
  <2>2. cursor \in 0..Len(history') /\ failed \subseteq DOMAIN history' /\ jumped \subseteq DOMAIN history'
    BY <1>t, <2>1 DEF IndexTypeOK
  <2>3. inbound \subseteq [hash : TxHash, op : DOMAIN history', by : Reader]
    BY <1>t, <2>1 DEF IndexTypeOK
  <2>4. rpos \in [Reader -> 0..Len(history')] /\ rfeed \in [Reader -> 0..Len(history')]
    BY <1>t, <2>1 DEF IndexTypeOK
  <2>5. rpage \in [Reader -> Seq(DOMAIN history')]
    BY <1>t, <2>1, SeqGrows DEF IndexTypeOK
  <2> QED BY <1>t, <1>u, <1>1, <2>2, <2>3, <2>4, <2>5 DEF IndexTypeOK
<1>4. RecordedOnce'
  <2>1. ASSUME NEW p \in inbound, IsInbound(p.op) PROVE IsInbound(p.op)'
    <3>1. p.op \in 1..Len(history)
      BY <1>t DEF IndexTypeOK
    <3>2. history'[p.op] = history[p.op]
      BY <1>1, <3>1
    <3> QED BY <1>u, <2>1, <3>2 DEF IsInbound
  <2> QED BY <1>t, <1>u, <2>1 DEF RecordedOnce
<1>5. NothingPassedOver'
  <2>1. PassedTo(cursor)'
    BY <1>t, <1>u, <1>2, PassedStays
  <2> QED BY <2>1 DEF PassedTo, Handled, NothingPassedOver
<1>6. \A r \in Reader : ReaderOK(r)'
  BY <1>u, <1>2, ReaderRests
<1> QED BY <1>3, <1>4, <1>5, <1>6 DEF IndexInv, IndexSafe

ReadState == {"idle", "page", "connect", "live", "check", "insert", "save"}

(* A reader moves, the others stay.                                          *)
LEMMA StepMoves ==
  ASSUME IndexTypeOK, NEW r \in Reader, NEW pc \in ReadState, Step(r, pc)
  PROVE  rpc' \in [Reader -> ReadState] /\ rpc'[r] = pc /\ \A s \in Reader \ {r} : rpc'[s] = rpc[s]
<1>1. rpc \in [Reader -> ReadState]
  BY DEF IndexTypeOK, ReadState
<1> QED BY <1>1 DEF Step

(* A reader takes the stored cursor.                                         *)
LEMMA TakeCursorOK ==
  ASSUME IndexInv, NEW r \in Reader, SyncWallet(r) \/ StartStream(r)
  PROVE  IndexInv'
<1>t. /\ IndexTypeOK /\ PassedTo(cursor) /\ Len(history) \in Nat /\ cursor \in 0..Len(history)
  BY IndexTells
<1>u. /\ UNCHANGED <<history, cursor, inbound, rfeed, rpage, rfull, failed, jumped, faults>>
      /\ rpos' = [rpos EXCEPT ![r] = cursor] /\ (Step(r, "page") \/ Step(r, "connect"))
  BY DEF SyncWallet, StartStream
<1>1. IndexGrows /\ RecordedOnce' /\ (\A n \in 0..Len(history) : PassedTo(n)' <=> PassedTo(n))
  BY <1>u, NothingAdded
<1>2. rpc' \in [Reader -> ReadState] /\ rpc'[r] \in {"page", "connect"} /\ \A s \in Reader \ {r} : rpc'[s] = rpc[s]
  <2>1. {"page", "connect"} \subseteq ReadState
    BY DEF ReadState
  <2> QED BY <1>t, <1>u, <2>1, StepMoves
<1>3. rpos' \in [Reader -> 0..Len(history)] /\ rpos'[r] = cursor /\ \A s \in Reader \ {r} : rpos'[s] = rpos[s]
  BY <1>t, <1>u DEF IndexTypeOK
<1>4. IndexTypeOK'
  BY <1>t, <1>u, <1>2, <1>3 DEF IndexTypeOK, ReadState
<1>5. PassedTo(cursor)' /\ PassedTo(rpos[r])'
  BY <1>t, <1>u, <1>1, <1>3
<1>6. ReaderOK(r)'
  BY <1>2, <1>5 DEF ReaderOK
<1> QED BY <1>u, <1>1, <1>2, <1>3, <1>4, <1>5, <1>6, ReaderStep

(* A sync fetches the page after its cursor.                                 *)
LEMMA FetchPageOK ==
  ASSUME IndexInv, NEW r \in Reader, FetchPage(r)
  PROVE  IndexInv'
<1> DEFINE k == IF Len(history) - rpos[r] < PageLimit THEN Len(history) - rpos[r] ELSE PageLimit
           page == [i \in 1..k |-> rpos[r] + i]
           next == IF page = <<>> THEN "idle" ELSE "check"
<1>t. /\ IndexTypeOK /\ PassedTo(cursor) /\ ReaderOK(r) /\ Len(history) \in Nat /\ DOMAIN history = 1..Len(history) /\ cursor \in 0..Len(history)
  BY IndexTells
<1>u. /\ UNCHANGED <<history, cursor, inbound, rpos, rfeed, failed, jumped, faults>> /\ r \in Syncer /\ rpc[r] = "page"
      /\ rpage' = [rpage EXCEPT ![r] = page] /\ rfull' = [rfull EXCEPT ![r] = Len(page) = PageLimit] /\ Step(r, next)
  BY DEF FetchPage, PageAfter
<1>k. rpos[r] \in 0..Len(history) /\ k \in Nat /\ rpos[r] + k <= Len(history)
  BY <1>t, PagesAreFinite DEF IndexTypeOK
<1>p. /\ page \in Seq(DOMAIN history) /\ Len(page) = k /\ DOMAIN page = 1..k /\ \A j \in 1..k : page[j] = rpos[r] + j
  <2>1. \A i \in 1..k : rpos[r] + i \in 1..Len(history)
    BY <1>t, <1>k
  <2>2. page \in [1..k -> 1..Len(history)]
    BY <2>1
  <2> HIDE DEF k
  <2>3. page \in Seq(1..Len(history)) /\ Len(page) = k
    BY <1>k, <2>2
  <2> QED BY <1>t, <2>3
<1>n. next \in ReadState /\ next \in {"idle", "check"} /\ (next = "check" => page # <<>>)
  BY DEF ReadState
<1> HIDE DEF page, next, k
<1>1. IndexGrows /\ RecordedOnce' /\ (\A n \in 0..Len(history) : PassedTo(n)' <=> PassedTo(n))
  BY <1>u, NothingAdded
<1>2. rpc' \in [Reader -> ReadState] /\ rpc'[r] = next /\ \A s \in Reader \ {r} : rpc'[s] = rpc[s]
  BY <1>t, <1>u, <1>n, StepMoves
<1>3. rpage' \in [Reader -> Seq(DOMAIN history)] /\ rpage'[r] = page /\ \A s \in Reader \ {r} : rpage'[s] = rpage[s]
  BY <1>t, <1>u, <1>p DEF IndexTypeOK
<1>f. rfull' \in [Reader -> BOOLEAN]
  <2>1. (Len(page) = PageLimit) \in BOOLEAN
    OBVIOUS
  <2> QED BY <1>t, <1>u, <2>1 DEF IndexTypeOK
<1>4. IndexTypeOK'
  BY <1>t, <1>u, <1>2, <1>3, <1>f DEF IndexTypeOK, ReadState
<1>5. PassedTo(cursor)' /\ PassedTo(rpos[r])'
  <2>1. PassedTo(rpos[r])
    BY <1>t, <1>u DEF ReaderOK
  <2> QED BY <1>t, <1>u, <1>k, <1>1, <2>1
<1>6. page # <<>> => page[1] - 1 = rpos[r] /\ \A j \in DOMAIN page : page[j] = page[1] + (j - 1)
  <2>1. page # <<>> => k >= 1
    BY <1>k, <1>p
  <2> QED BY <1>k, <1>p, <2>1, SMTT(60)
<1>7. r \notin Stream
  BY <1>u, ReadersAreOfOneKind
<1>8. ReaderOK(r)'
  BY <1>u, <1>n, <1>2, <1>3, <1>5, <1>6, <1>7 DEF ReaderOK
<1> QED BY <1>u, <1>1, <1>2, <1>3, <1>4, <1>5, <1>8, ReaderStep

(* A stream connects: after its cursor, or at now, which excuses what was    *)
(* there.                                                                    *)
LEMMA StreamWalletOK ==
  ASSUME IndexInv, NEW r \in Reader, StreamWallet(r)
  PROVE  IndexInv'
<1>t. /\ IndexTypeOK /\ RecordedOnce /\ PassedTo(cursor) /\ ReaderOK(r)
      /\ history \in Seq(PaymentOp) /\ Len(history) \in Nat /\ DOMAIN history = 1..Len(history) /\ cursor \in 0..Len(history)
  BY IndexTells
<1>u. /\ UNCHANGED <<history, cursor, inbound, rpos, rpage, rfull, failed, faults>> /\ rpc[r] = "connect" /\ Step(r, "live")
      /\ IF rpos[r] = 0
         THEN rfeed' = [rfeed EXCEPT ![r] = Len(history)] /\ jumped' = jumped \cup DOMAIN history
         ELSE rfeed' = [rfeed EXCEPT ![r] = rpos[r]] /\ UNCHANGED jumped
  BY DEF StreamWallet
<1>1. IndexGrows /\ jumped' \subseteq DOMAIN history
  BY <1>t, <1>u DEF IndexGrows, IndexTypeOK
<1>2. rpc' \in [Reader -> ReadState] /\ rpc'[r] = "live" /\ \A s \in Reader \ {r} : rpc'[s] = rpc[s]
  <2>1. "live" \in ReadState
    BY DEF ReadState
  <2> QED BY <1>t, <1>u, <2>1, StepMoves
<1>3. rfeed' \in [Reader -> 0..Len(history)] /\ \A s \in Reader \ {r} : rfeed'[s] = rfeed[s]
  <2>1. rpos[r] \in 0..Len(history) /\ Len(history) \in 0..Len(history) /\ rfeed \in [Reader -> 0..Len(history)]
    BY <1>t DEF IndexTypeOK
  <2>2. CASE rfeed' = [rfeed EXCEPT ![r] = Len(history)]
    BY <2>1, <2>2
  <2>3. CASE rfeed' = [rfeed EXCEPT ![r] = rpos[r]]
    BY <2>1, <2>3
  <2> QED BY <1>u, <2>2, <2>3
<1>4. IndexTypeOK'
  BY <1>t, <1>u, <1>1, <1>2, <1>3 DEF IndexTypeOK, ReadState
<1>5. RecordedOnce'
  BY <1>t, <1>u DEF RecordedOnce, IsInbound
<1>6. PassedTo(cursor)' /\ PassedTo(rpos[r])'
  <2>1. PassedTo(rpos[r]) /\ rpos[r] \in 0..Len(history)
    BY <1>t, <1>u DEF ReaderOK, IndexTypeOK
  <2> QED BY <1>t, <1>u, <1>1, <2>1, PassedStays
<1>7. PassedTo(rfeed[r])'
  <2>1. CASE rpos[r] = 0
    <3>1. rfeed'[r] = Len(history) /\ 1..Len(history) \subseteq jumped'
      BY <1>t, <1>u, <2>1 DEF IndexTypeOK
    <3> QED BY <3>1 DEF PassedTo, Handled
  <2>2. CASE rpos[r] # 0
    <3>1. rfeed'[r] = rpos[r] /\ rpos'[r] = rpos[r]
      BY <1>t, <1>u, <2>2 DEF IndexTypeOK
    <3> QED BY <1>6, <3>1
  <2> QED BY <2>1, <2>2
<1>8. ReaderOK(r)'
  BY <1>2, <1>6, <1>7 DEF ReaderOK
<1> QED BY <1>u, <1>1, <1>2, <1>3, <1>4, <1>5, <1>6, <1>8, ReaderStep

(* A stream is handed the next operation.                                    *)
LEMMA StreamEventOK ==
  ASSUME IndexInv, NEW r \in Reader, StreamEvent(r)
  PROVE  IndexInv'
<1>t. /\ IndexTypeOK /\ PassedTo(cursor) /\ ReaderOK(r) /\ Len(history) \in Nat /\ DOMAIN history = 1..Len(history) /\ cursor \in 0..Len(history)
  BY IndexTells
<1>u. /\ UNCHANGED <<history, cursor, inbound, rpos, rfull, failed, jumped, faults>>
      /\ r \in Stream /\ rpc[r] = "live" /\ rfeed[r] < Len(history)
      /\ rfeed' = [rfeed EXCEPT ![r] = @ + 1] /\ rpage' = [rpage EXCEPT ![r] = <<rfeed[r] + 1>>] /\ Step(r, "check")
  BY DEF StreamEvent
<1>1. IndexGrows /\ RecordedOnce' /\ (\A n \in 0..Len(history) : PassedTo(n)' <=> PassedTo(n))
  BY <1>u, NothingAdded
<1>2. rpc' \in [Reader -> ReadState] /\ rpc'[r] = "check" /\ \A s \in Reader \ {r} : rpc'[s] = rpc[s]
  <2>1. "check" \in ReadState
    BY DEF ReadState
  <2> QED BY <1>t, <1>u, <2>1, StepMoves
<1>3. /\ rfeed[r] \in 0..Len(history) /\ rfeed[r] + 1 \in 1..Len(history) /\ <<rfeed[r] + 1>> \in Seq(DOMAIN history)
      /\ rpos[r] \in 0..Len(history)
  BY <1>t, <1>u DEF IndexTypeOK
<1>4. /\ rfeed' \in [Reader -> 0..Len(history)] /\ rfeed'[r] = rfeed[r] + 1 /\ \A s \in Reader \ {r} : rfeed'[s] = rfeed[s]
  BY <1>t, <1>u, <1>3 DEF IndexTypeOK
<1>5. /\ rpage' \in [Reader -> Seq(DOMAIN history)] /\ rpage'[r] = <<rfeed[r] + 1>> /\ \A s \in Reader \ {r} : rpage'[s] = rpage[s]
  BY <1>t, <1>u, <1>3 DEF IndexTypeOK
<1>6. IndexTypeOK'
  BY <1>t, <1>u, <1>2, <1>4, <1>5 DEF IndexTypeOK, ReadState
<1>7. PassedTo(cursor)' /\ PassedTo(rpos[r])'
  BY <1>t, <1>u, <1>1, <1>3 DEF ReaderOK
<1>8. PassedTo(rpage[r][1] - 1)'
  <2>1. rpage'[r][1] - 1 = rfeed[r] /\ PassedTo(rfeed[r])
    BY <1>t, <1>u, <1>3, <1>5 DEF ReaderOK
  <2> QED BY <1>1, <1>3, <2>1
<1>9. /\ rpage'[r] # <<>> /\ Len(rpage'[r]) = 1 /\ rpage'[r][1] = rfeed'[r]
      /\ \A j \in DOMAIN rpage'[r] : rpage'[r][j] = rpage'[r][1] + (j - 1)
  BY <1>3, <1>4, <1>5
<1>10. ReaderOK(r)'
  BY <1>2, <1>7, <1>8, <1>9 DEF ReaderOK
<1> QED BY <1>u, <1>1, <1>2, <1>4, <1>5, <1>6, <1>7, <1>10, ReaderStep

(* A stream loses its connection, or the reader's process stops.             *)
LEMMA ReaderLeavesOK ==
  ASSUME IndexInv, NEW r \in Reader, Disconnect(r) \/ ReaderStops(r)
  PROVE  IndexInv'
<1>t. /\ IndexTypeOK /\ PassedTo(cursor) /\ ReaderOK(r) /\ Len(history) \in Nat /\ cursor \in 0..Len(history)
  BY IndexTells
<1>u. /\ UNCHANGED <<history, cursor, inbound, rpos, rfeed, rfull, failed, jumped>> /\ faults' \in 0..MaxFaults
      /\ rpage' = rpage \/ rpage' = [rpage EXCEPT ![r] = <<>>]
      /\ (Step(r, "connect") /\ rpc[r] # "idle") \/ Step(r, "idle")
  BY <1>t, PagesAreFinite DEF Disconnect, ReaderStops, Fault, IndexTypeOK
<1>1. IndexGrows /\ RecordedOnce' /\ (\A n \in 0..Len(history) : PassedTo(n)' <=> PassedTo(n))
  BY <1>u, NothingAdded
<1>2. /\ rpc' \in [Reader -> ReadState] /\ \A s \in Reader \ {r} : rpc'[s] = rpc[s]
      /\ (rpc'[r] = "connect" /\ rpc[r] # "idle") \/ rpc'[r] = "idle"
  <2>1. "connect" \in ReadState /\ "idle" \in ReadState
    BY DEF ReadState
  <2> QED BY <1>t, <1>u, <2>1, StepMoves
<1>3. rpage' \in [Reader -> Seq(DOMAIN history)] /\ \A s \in Reader \ {r} : rpage'[s] = rpage[s]
  <2>1. <<>> \in Seq(DOMAIN history)
    OBVIOUS
  <2> QED BY <1>t, <1>u, <2>1 DEF IndexTypeOK
<1>4. IndexTypeOK'
  BY <1>t, <1>u, <1>2, <1>3 DEF IndexTypeOK, ReadState
<1>5. PassedTo(cursor)' /\ (rpc[r] # "idle" => PassedTo(rpos[r])')
  <2>1. rpos[r] \in 0..Len(history)
    BY <1>t DEF IndexTypeOK
  <2> QED BY <1>t, <1>u, <1>1, <2>1 DEF ReaderOK
<1>6. ReaderOK(r)'
  BY <1>2, <1>5 DEF ReaderOK
<1> QED BY <1>u, <1>1, <1>2, <1>3, <1>4, <1>5, <1>6, ReaderStep

(* The rest of a page.                                                       *)
LEMMA RestOfPage ==
  ASSUME NEW S, NEW s \in Seq(S), s # <<>>
  PROVE  /\ Tail(s) \in Seq(S) /\ Len(Tail(s)) = Len(s) - 1 /\ Len(s) \in Nat /\ Len(s) >= 1
         /\ DOMAIN s = 1..Len(s) /\ DOMAIN Tail(s) = 1..(Len(s) - 1)
         /\ \A j \in 1..(Len(s) - 1) : Tail(s)[j] = s[j + 1]
<1>1. Len(s) \in Nat /\ Len(s) >= 1 /\ DOMAIN s = 1..Len(s)
  OBVIOUS
<1>2. Tail(s) \in Seq(S) /\ Len(Tail(s)) = Len(s) - 1 /\ \A j \in 1..Len(Tail(s)) : Tail(s)[j] = s[j + 1]
  BY HeadTailProperties
<1>3. DOMAIN Tail(s) = 1..Len(Tail(s))
  BY <1>2
<1> QED BY <1>1, <1>2, <1>3

(* The reader goes on to its next operation, once the one at hand, i, is     *)
(* handled.                                                                  *)
LEMMA NextOperationOK ==
  ASSUME IndexInv, IndexGrows, UNCHANGED <<history, cursor, rfeed, rfull, jumped>>, NEW r \in Reader, rpc[r] \in {"check", "insert"},
         NextOperation(r), NEW i, i = Head(rpage[r]), Handled(i)', RecordedOnce',
         inbound' \subseteq [hash : TxHash, op : DOMAIN history, by : Reader], failed' \subseteq DOMAIN history, faults' \in 0..MaxFaults
  PROVE  IndexInv'
<1> DEFINE next == IF Tail(rpage[r]) = <<>> THEN "save" ELSE "check"
<1>t. /\ IndexTypeOK /\ PassedTo(cursor) /\ ReaderOK(r) /\ Len(history) \in Nat /\ DOMAIN history = 1..Len(history) /\ cursor \in 0..Len(history)
  BY IndexTells
<1>u. rpos' = [rpos EXCEPT ![r] = i] /\ rpage' = [rpage EXCEPT ![r] = Tail(@)] /\ Step(r, next)
  BY DEF NextOperation
<1>n. next \in ReadState /\ next \in {"save", "check"} /\ (next = "check" <=> Tail(rpage[r]) # <<>>)
  BY DEF ReadState
<1> HIDE DEF next
<1>p. /\ rpage[r] \in Seq(DOMAIN history) /\ rpage[r] # <<>> /\ i = rpage[r][1] /\ i \in 1..Len(history)
      /\ \A j \in DOMAIN rpage[r] : rpage[r][j] = i + (j - 1)
  BY <1>t, SMTT(60) DEF IndexTypeOK, ReaderOK
<1>q. /\ Tail(rpage[r]) \in Seq(DOMAIN history) /\ Len(Tail(rpage[r])) = Len(rpage[r]) - 1
      /\ \A j \in DOMAIN Tail(rpage[r]) : j \in Nat /\ j + 1 \in DOMAIN rpage[r] /\ Tail(rpage[r])[j] = rpage[r][j + 1]
  <2>1. /\ Tail(rpage[r]) \in Seq(DOMAIN history) /\ Len(Tail(rpage[r])) = Len(rpage[r]) - 1 /\ Len(rpage[r]) \in Nat
        /\ DOMAIN rpage[r] = 1..Len(rpage[r]) /\ DOMAIN Tail(rpage[r]) = 1..(Len(rpage[r]) - 1)
        /\ \A j \in 1..(Len(rpage[r]) - 1) : Tail(rpage[r])[j] = rpage[r][j + 1]
    BY <1>p, RestOfPage
  <2> QED BY <2>1
<1>2. rpc' \in [Reader -> ReadState] /\ rpc'[r] = next /\ \A s \in Reader \ {r} : rpc'[s] = rpc[s]
  BY <1>t, <1>u, <1>n, StepMoves
<1>3. rpos' \in [Reader -> 0..Len(history)] /\ rpos'[r] = i /\ \A s \in Reader \ {r} : rpos'[s] = rpos[s]
  BY <1>t, <1>u, <1>p, SMTT(60) DEF IndexTypeOK
<1>4. rpage' \in [Reader -> Seq(DOMAIN history)] /\ rpage'[r] = Tail(rpage[r]) /\ \A s \in Reader \ {r} : rpage'[s] = rpage[s]
  BY <1>t, <1>u, <1>q DEF IndexTypeOK
<1>5. IndexTypeOK'
  BY <1>t, <1>2, <1>3, <1>4 DEF IndexTypeOK, ReadState
<1>6. PassedTo(cursor)'
  BY <1>t, PassedStays
<1>7. PassedTo(i)'
  <2>1. PICK n \in 0..Len(history) : n = i - 1
    BY <1>t, <1>p
  <2>2. PassedTo(n)
    BY <1>t, <1>p, <2>1 DEF ReaderOK
  <2>3. PassedTo(n)'
    BY <2>2, PassedStays
  <2>4. \A j \in 1..i : j \in 1..n \/ j = i
    BY <1>p, <2>1, SMTT(60)
  <2> QED BY <2>3, <2>4 DEF PassedTo
<1>8. PassedTo(rpos[r])'
  BY <1>3, <1>7
<1>9. next = "check" => /\ rpage'[r] # <<>> /\ PassedTo(rpage[r][1] - 1)'
                        /\ \A j \in DOMAIN rpage'[r] : rpage'[r][j] = rpage'[r][1] + (j - 1)
  <2> SUFFICES ASSUME next = "check"
               PROVE  /\ rpage'[r] # <<>> /\ PassedTo(rpage[r][1] - 1)'
                      /\ \A j \in DOMAIN rpage'[r] : rpage'[r][j] = rpage'[r][1] + (j - 1)
    OBVIOUS
  <2>1. rpage'[r] # <<>> /\ rpage'[r] \in Seq(DOMAIN history) /\ 1 \in DOMAIN rpage'[r]
    BY <1>n, <1>q, <1>4
  <2>2. ASSUME NEW j \in DOMAIN rpage'[r] PROVE j \in Nat /\ rpage'[r][j] = i + j
    <3>1. j \in Nat /\ j + 1 \in DOMAIN rpage[r] /\ rpage'[r][j] = rpage[r][j + 1]
      BY <1>q, <1>4
    <3>2. rpage[r][j + 1] = i + ((j + 1) - 1)
      BY <1>p, <3>1
    <3> QED BY <1>p, <3>1, <3>2
  <2>3. rpage'[r][1] = i + 1
    BY <2>1, <2>2
  <2>4. rpage'[r][1] - 1 = i
    BY <1>p, <2>3
  <2>5. PassedTo(rpage[r][1] - 1)'
    BY <1>7, <2>4
  <2>6. ASSUME NEW j \in DOMAIN rpage'[r] PROVE rpage'[r][j] = rpage'[r][1] + (j - 1)
    <3>1. j \in Nat /\ rpage'[r][j] = i + j /\ i \in Nat
      BY <1>p, <2>2
    <3>2. i + j = (i + 1) + (j - 1)
      BY <3>1
    <3> QED BY <2>3, <3>1, <3>2
  <2> QED BY <2>1, <2>5, <2>6
<1>10. r \in Stream => next = "save" /\ rpos'[r] = rfeed'[r]
  BY <1>t, <1>n, <1>p, <1>q, <1>3, SMTT(60) DEF ReaderOK
<1>11. ReaderOK(r)'
  BY <1>n, <1>2, <1>8, <1>9, <1>10 DEF ReaderOK
<1> QED BY <1>2, <1>3, <1>4, <1>5, <1>6, <1>11, ReaderStep

(* processPayment, first half: an operation without a row is passed only     *)
(* when it needs none, has one, or failed.                                   *)
LEMMA CheckPaymentOK ==
  ASSUME IndexInv, NEW r \in Reader, NEW i, i = Head(rpage[r]), CheckPayment(r)
  PROVE  IndexInv'
<1>t. /\ IndexTypeOK /\ RecordedOnce /\ PassedTo(cursor) /\ ReaderOK(r)
      /\ history \in Seq(PaymentOp) /\ Len(history) \in Nat /\ DOMAIN history = 1..Len(history) /\ cursor \in 0..Len(history)
  BY IndexTells
<1>u. rpc[r] = "check" /\ UNCHANGED <<history, cursor, inbound, rfeed, rfull, jumped>>
  BY DEF CheckPayment
<1>i. i = rpage[r][1] /\ i \in DOMAIN history /\ rpos[r] \in 0..Len(history) /\ faults \in 0..MaxFaults
  BY <1>t, <1>u, SMTT(60) DEF IndexTypeOK, ReaderOK
<1>1. CASE Step(r, "insert") /\ IsInbound(i) /\ UNCHANGED <<rpos, rpage, failed, faults>>
  <2>1. IndexGrows /\ RecordedOnce' /\ (\A n \in 0..Len(history) : PassedTo(n)' <=> PassedTo(n))
    BY <1>u, <1>1, NothingAdded
  <2>2. rpc' \in [Reader -> ReadState] /\ rpc'[r] = "insert" /\ \A s \in Reader \ {r} : rpc'[s] = rpc[s]
    <3>1. "insert" \in ReadState
      BY DEF ReadState
    <3> QED BY <1>t, <1>1, <3>1, StepMoves
  <2>3. IndexTypeOK'
    BY <1>t, <1>u, <1>1, <2>2 DEF IndexTypeOK, ReadState
  <2>4. PassedTo(cursor)' /\ PassedTo(rpos[r])' /\ IsInbound(rpage[r][1])'
    BY <1>t, <1>u, <1>i, <1>1, <2>1 DEF ReaderOK, IsInbound
  <2>5. PassedTo(rpage[r][1] - 1)'
    <3>1. rpage[r][1] - 1 \in 0..Len(history) /\ rpage'[r][1] - 1 = rpage[r][1] - 1
      BY <1>t, <1>i, <1>1
    <3> QED BY <1>t, <1>u, <2>1, <3>1 DEF ReaderOK
  <2>6. ReaderOK(r)'
    BY <1>t, <1>u, <1>1, <2>2, <2>4, <2>5 DEF ReaderOK
  <2> QED BY <1>u, <1>1, <2>1, <2>2, <2>3, <2>4, <2>6, ReaderStep
<1>2. CASE Fault /\ failed' = failed \cup {i} /\ NextOperation(r)
  <2>1. IndexGrows /\ RecordedOnce'
    BY <1>t, <1>u, <1>2 DEF IndexGrows, RecordedOnce, IsInbound
  <2>2. Handled(i)' /\ failed' \subseteq DOMAIN history
    BY <1>t, <1>i, <1>2 DEF Handled, IndexTypeOK
  <2>3. faults' \in 0..MaxFaults
    BY <1>i, <1>2, PagesAreFinite DEF Fault
  <2>4. inbound' \subseteq [hash : TxHash, op : DOMAIN history, by : Reader]
    BY <1>t, <1>u DEF IndexTypeOK
  <2> QED BY <1>u, <1>2, <2>1, <2>2, <2>3, <2>4, NextOperationOK
<1>3. CASE ~(IsInbound(i) /\ ~ExistsByTxHash(history[i].hash)) /\ NextOperation(r) /\ UNCHANGED <<failed, faults>>
  <2>1. IndexGrows /\ RecordedOnce'
    BY <1>u, <1>3, NothingAdded
  <2>2. Handled(i)'
    BY <1>u, <1>3 DEF Handled, IsInbound, ExistsByTxHash
  <2>3. inbound' \subseteq [hash : TxHash, op : DOMAIN history, by : Reader] /\ failed' \subseteq DOMAIN history /\ faults' \in 0..MaxFaults
    BY <1>t, <1>u, <1>3 DEF IndexTypeOK
  <2> QED BY <1>u, <1>3, <2>1, <2>2, <2>3, NextOperationOK
<1>4. \/ Step(r, "insert") /\ IsInbound(i) /\ UNCHANGED <<rpos, rpage, failed, faults>>
      \/ Fault /\ failed' = failed \cup {i} /\ NextOperation(r)
      \/ ~(IsInbound(i) /\ ~ExistsByTxHash(history[i].hash)) /\ NextOperation(r) /\ UNCHANGED <<failed, faults>>
  BY DEF CheckPayment
<1> QED BY <1>1, <1>2, <1>3, <1>4

(* Second half: the unique hash keeps a transaction to one row.              *)
LEMMA InsertPaymentOK ==
  ASSUME IndexInv, NEW r \in Reader, NEW i, i = Head(rpage[r]), InsertPayment(r)
  PROVE  IndexInv'
<1> DEFINE h == history[i].hash
           new == [hash |-> h, op |-> i, by |-> r]
<1>t. /\ IndexTypeOK /\ RecordedOnce /\ ReaderOK(r)
      /\ history \in Seq(PaymentOp) /\ Len(history) \in Nat /\ DOMAIN history = 1..Len(history)
  BY IndexTells
<1>u. rpc[r] = "insert" /\ UNCHANGED <<history, cursor, rfeed, rfull, jumped>> /\ NextOperation(r)
  BY DEF InsertPayment
<1>i. i = rpage[r][1] /\ i \in DOMAIN history /\ IsInbound(i) /\ faults \in 0..MaxFaults
  BY <1>t, <1>u, SMTT(60) DEF IndexTypeOK, ReaderOK
<1>o. inbound \subseteq [hash : TxHash, op : DOMAIN history, by : Reader] /\ failed \subseteq DOMAIN history
  BY <1>t DEF IndexTypeOK
<1>1. CASE HashUnused(h) /\ inbound' = inbound \cup {new} /\ UNCHANGED <<failed, faults>>
  <2>1. new \in [hash : TxHash, op : DOMAIN history, by : Reader] /\ new.hash = h /\ new.op = i
    <3>1. history[i] \in PaymentOp
      BY <1>t, <1>i
    <3>2. h \in TxHash
      BY <3>1 DEF PaymentOp
    <3> QED BY <1>i, <3>2
  <2> HIDE DEF new
  <2>2. inbound' \subseteq [hash : TxHash, op : DOMAIN history, by : Reader] /\ failed' \subseteq DOMAIN history /\ faults' \in 0..MaxFaults
    BY <1>i, <1>o, <1>1, <2>1
  <2>3. \A p \in inbound : p.hash # h
    BY <1>1 DEF HashUnused, ExistsByTxHash
  <2>4. \A n : IsInbound(n)' = IsInbound(n)
    BY <1>u DEF IsInbound
  <2>5. RecordedOnce'
    <3>1. ASSUME NEW p \in inbound', NEW q \in inbound', p.hash = q.hash PROVE p = q /\ IsInbound(p.op)
      BY <1>t, <1>i, <1>1, <2>1, <2>3, <3>1 DEF RecordedOnce
    <3> QED BY <2>4, <3>1 DEF RecordedOnce
  <2>6. IndexGrows
    BY <1>t, <1>u, <1>1 DEF IndexGrows
  <2>7. Handled(i)'
    BY <1>u, <1>1, <2>1 DEF Handled, ExistsByTxHash
  <2> QED BY <1>u, <2>2, <2>5, <2>6, <2>7, NextOperationOK
<1>2. CASE ~HashUnused(h) /\ UNCHANGED <<inbound, failed, faults>>
  <2>1. IndexGrows /\ RecordedOnce'
    BY <1>u, <1>2, NothingAdded
  <2>2. Handled(i)'
    BY <1>u, <1>2 DEF Handled, HashUnused, ExistsByTxHash
  <2> QED BY <1>u, <1>i, <1>o, <1>2, <2>1, <2>2, NextOperationOK
<1>3. CASE Fault /\ failed' = failed \cup {i} /\ UNCHANGED inbound
  <2>1. IndexGrows /\ RecordedOnce'
    BY <1>t, <1>u, <1>3 DEF IndexGrows, RecordedOnce, IsInbound
  <2>2. Handled(i)' /\ failed' \subseteq DOMAIN history
    BY <1>i, <1>o, <1>3 DEF Handled
  <2>3. faults' \in 0..MaxFaults
    BY <1>i, <1>3, PagesAreFinite DEF Fault
  <2> QED BY <1>u, <1>o, <1>3, <2>1, <2>2, <2>3, NextOperationOK
<1> QED BY <1>1, <1>2, <1>3 DEF InsertPayment

(* The reader's cursor becomes the stored one, or the statement fails.       *)
LEMMA UpdateSyncCursorOK ==
  ASSUME IndexInv, NEW r \in Reader, UpdateSyncCursor(r)
  PROVE  IndexInv'
<1>t. /\ IndexTypeOK /\ PassedTo(cursor) /\ ReaderOK(r) /\ Len(history) \in Nat /\ cursor \in 0..Len(history)
  BY IndexTells
<1>u. UNCHANGED <<history, inbound, rpos, rfeed, rpage, rfull, failed, jumped>> /\ rpc[r] = "save"
  BY DEF UpdateSyncCursor
<1>o. rpos[r] \in 0..Len(history) /\ faults \in 0..MaxFaults
  BY <1>t DEF IndexTypeOK
<1>c. cursor' \in {cursor, rpos[r]} /\ faults' \in 0..MaxFaults
  BY <1>o, PagesAreFinite DEF UpdateSyncCursor, Fault
<1>s. PICK pc \in {"live", "page", "idle"} : Step(r, pc) /\ (r \in Stream => pc = "live")
  BY DEF UpdateSyncCursor, AfterSave
<1>1. IndexGrows /\ RecordedOnce' /\ (\A n \in 0..Len(history) : PassedTo(n)' <=> PassedTo(n))
  BY <1>u, NothingAdded
<1>2. rpc' \in [Reader -> ReadState] /\ rpc'[r] = pc /\ \A s \in Reader \ {r} : rpc'[s] = rpc[s]
  <2>1. pc \in ReadState
    BY DEF ReadState
  <2> QED BY <1>t, <1>s, <2>1, StepMoves
<1>3. IndexTypeOK'
  <2>1. cursor' \in 0..Len(history)
    BY <1>t, <1>o, <1>c
  <2> QED BY <1>t, <1>u, <1>c, <1>2, <2>1 DEF IndexTypeOK, ReadState
<1>4. PassedTo(rpos[r]) /\ (r \in Stream => rpos[r] = rfeed[r])
  BY <1>t, <1>u DEF ReaderOK
<1>5. PassedTo(cursor)'
  <2>1. CASE cursor' = cursor
    BY <1>t, <1>1, <2>1
  <2>2. CASE cursor' = rpos[r]
    BY <1>o, <1>1, <1>4, <2>2
  <2> QED BY <1>c, <2>1, <2>2
<1>6. PassedTo(rpos[r])' /\ (r \in Stream => PassedTo(rfeed[r])')
  BY <1>u, <1>o, <1>1, <1>4
<1>7. ReaderOK(r)'
  BY <1>s, <1>2, <1>6 DEF ReaderOK
<1> QED BY <1>u, <1>1, <1>2, <1>3, <1>5, <1>7, ReaderStep

(* Nothing is read and nothing recorded at first.                            *)
LEMMA IndexInvInit == IndexInit => IndexInv
<1> SUFFICES ASSUME IndexInit PROVE IndexInv
  OBVIOUS
<1>i. /\ history = <<>> /\ cursor = 0 /\ inbound = {} /\ failed = {} /\ jumped = {} /\ faults = 0
      /\ rpc = [r \in Reader |-> "idle"] /\ rpos = [r \in Reader |-> 0] /\ rfeed = [r \in Reader |-> 0]
      /\ rpage = [r \in Reader |-> <<>>] /\ rfull = [r \in Reader |-> FALSE]
  BY DEF IndexInit
<1>1. history \in Seq(PaymentOp) /\ Len(history) = 0 /\ 0 \in 0..MaxFaults /\ <<>> \in Seq(DOMAIN history)
  BY <1>i, PagesAreFinite
<1>2. IndexTypeOK
  BY <1>i, <1>1 DEF IndexTypeOK
<1>3. RecordedOnce /\ NothingPassedOver
  BY <1>i DEF RecordedOnce, NothingPassedOver
<1>4. \A r \in Reader : ReaderOK(r)
  BY <1>i DEF ReaderOK
<1> QED BY <1>2, <1>3, <1>4 DEF IndexInv, IndexSafe

(* Every step keeps the invariant.                                           *)
LEMMA IndexInvStep == IndexInv /\ [IndexNext]_indexVars => IndexInv'
<1> SUFFICES ASSUME IndexInv, [IndexNext]_indexVars PROVE IndexInv'
  OBVIOUS
<1>1. CASE UNCHANGED indexVars
  <2>u. UNCHANGED <<history, cursor, inbound, rpc, rpos, rfeed, rpage, rfull, failed, jumped, faults>>
    BY <1>1 DEF indexVars
  <2>1. IndexGrows /\ RecordedOnce'
    BY <2>u, NothingAdded
  <2>2. IndexTypeOK' /\ NothingPassedOver'
    BY <2>u, IndexTells DEF IndexTypeOK, PassedTo, Handled, NothingPassedOver, IsInbound, ExistsByTxHash
  <2>3. \A r \in Reader : ReaderOK(r)'
    BY <2>u, <2>1, ReaderRests
  <2> QED BY <2>1, <2>2, <2>3 DEF IndexInv, IndexSafe
<1>2. ASSUME NEW op \in PaymentOp, PaymentArrives(op) PROVE IndexInv'
  BY <1>2, PaymentArrivesOK
<1>3. ASSUME NEW r \in Reader, SyncStep(r) \/ StreamStep(r) \/ ReaderStops(r) PROVE IndexInv'
  BY <1>3, TakeCursorOK, FetchPageOK, StreamWalletOK, StreamEventOK, ReaderLeavesOK, CheckPaymentOK, InsertPaymentOK, UpdateSyncCursorOK
     DEF SyncStep, StreamStep
<1> QED BY <1>1, <1>2, <1>3 DEF IndexNext

(* For any history, any number of syncs and streams and any page size: a     *)
(* transaction is recorded once and only when it paid the wallet, and the    *)
(* stored cursor passes no payment that is not recorded, but for the         *)
(* operations that failed and those a stream began after (processPayment,    *)
(* SyncWallet, StreamWallet, UpdateSyncCursor).                              *)
THEOREM IndexedPaymentsAreSafe == IndexSpec => []IndexSafe
  BY IndexInvInit, IndexInvStep, PTL DEF IndexSpec, IndexInv

(* A step that adds no operation and no row leaves the promise alone.        *)
LEMMA PromiseRests ==
  ASSUME UNCHANGED <<history, inbound>>
  PROVE  RowsDue' = RowsDue /\ RowCount' = RowCount
  BY DEF RowsDue, RowCount, RowsOf, IsInbound

(* A new operation makes the row of its transaction due, if anything.        *)
LEMMA DueByArrival ==
  ASSUME IndexInv, NEW op \in PaymentOp, PaymentArrives(op)
  PROVE  /\ RowCount' = RowCount
         /\ RowsDue' = RowsDue \/ (op.hash \in TxHash /\ op.hash \notin RowsDue /\ RowsDue' = RowsDue \cup {op.hash})
<1>t. history \in Seq(PaymentOp) /\ Len(history) \in Nat /\ DOMAIN history = 1..Len(history) BY IndexTells
<1>u. UNCHANGED inbound /\ history' = Append(history, op) BY DEF PaymentArrives
<1>1. /\ DOMAIN history' = 1..(Len(history) + 1) /\ history'[Len(history) + 1] = op
      /\ \A i \in 1..Len(history) : history'[i] = history[i]
  BY <1>t, <1>u
<1>h. op.hash \in TxHash BY DEF PaymentOp
<1>2. RowCount' = RowCount BY <1>u DEF RowCount, RowsOf
<1>3. RowsDue \subseteq TxHash /\ RowsDue' \subseteq TxHash BY DEF RowsDue
<1>4. ASSUME NEW h \in RowsDue PROVE h \in RowsDue'
  <2>1. PICK i \in DOMAIN history : history[i].hash = h /\ IsInbound(i) BY <1>4 DEF RowsDue
  <2>2. i \in DOMAIN history' /\ history'[i] = history[i] BY <1>t, <1>1, <2>1
  <2>3. h \in TxHash /\ IsInbound(i)' BY <1>3, <1>4, <2>1, <2>2 DEF IsInbound
  <2> QED BY <2>1, <2>2, <2>3 DEF RowsDue
<1>5. ASSUME NEW h \in RowsDue', h # op.hash PROVE h \in RowsDue
  <2>1. PICK i \in DOMAIN history' : history'[i].hash = h /\ IsInbound(i)' BY <1>5 DEF RowsDue
  <2>2. i \in DOMAIN history /\ history'[i] = history[i] BY <1>t, <1>1, <1>5, <2>1
  <2>3. h \in TxHash /\ IsInbound(i) BY <1>3, <1>5, <2>1, <2>2 DEF IsInbound
  <2> QED BY <2>1, <2>2, <2>3 DEF RowsDue
<1> QED BY <1>h, <1>2, <1>3, <1>4, <1>5

(* A row is inserted where there was none, for a transaction that paid.      *)
LEMMA RowIsGiven ==
  ASSUME IndexInv, NEW r \in Reader, InsertPayment(r)
  PROVE  /\ RowsDue' = RowsDue
         /\ \/ RowCount' = RowCount
            \/ \E h \in TxHash : h \in RowsDue /\ RowCount[h] = 0 /\ RowCount' = [RowCount EXCEPT ![h] = 1]
<1>t. /\ IndexTypeOK /\ ReaderOK(r)
      /\ history \in Seq(PaymentOp) /\ Len(history) \in Nat /\ DOMAIN history = 1..Len(history)
  BY IndexTells
<1>u. rpc[r] = "insert" /\ UNCHANGED history BY DEF InsertPayment
<1>1. RowsDue' = RowsDue BY <1>u DEF RowsDue, IsInbound
<1>2. PICK i : i = Head(rpage[r]) OBVIOUS
<1>3. i \in DOMAIN history /\ IsInbound(i) BY <1>t, <1>u, <1>2, SMTT(60) DEF IndexTypeOK, ReaderOK
<1>4. PICK h : h = history[i].hash OBVIOUS
<1>5. PICK new : new = [hash |-> h, op |-> i, by |-> r] OBVIOUS
<1>6. history[i] \in PaymentOp BY <1>t, <1>3
<1>7. h \in TxHash /\ h \in RowsDue BY <1>3, <1>4, <1>6 DEF PaymentOp, RowsDue
<1>8. CASE inbound' = inbound BY <1>1, <1>u, <1>8, PromiseRests
<1>9. CASE HashUnused(h) /\ inbound' = inbound \cup {new}
  <2>1. RowsOf(h) = {} BY <1>9 DEF RowsOf, HashUnused, ExistsByTxHash
  <2>2. RowsOf(h)' = {new} BY <1>5, <1>9, <2>1 DEF RowsOf
  <2>3. Cardinality(RowsOf(h)) = 0 BY <2>1, FS_EmptySet
  <2>4. Cardinality(RowsOf(h)') = 1 BY <2>2, FS_Singleton
  <2>5. \A g \in TxHash : g # h => RowsOf(g)' = RowsOf(g) BY <1>5, <1>9 DEF RowsOf
  <2>6. RowCount[h] = 0 BY <1>7, <2>3 DEF RowCount
  <2>7. \A g \in TxHash : RowCount'[g] = IF g = h THEN 1 ELSE RowCount[g] BY <2>4, <2>5 DEF RowCount
  <2>8. RowCount' = [RowCount EXCEPT ![h] = 1] BY <2>7 DEF RowCount
  <2> QED BY <1>1, <1>7, <2>6, <2>8
<1>10. inbound' = inbound \/ (HashUnused(h) /\ inbound' = inbound \cup {new}) BY <1>2, <1>4, <1>5 DEF InsertPayment
<1> QED BY <1>8, <1>9, <1>10

(* For any history and any number of syncs and streams that read it, fail    *)
(* and start again, the rows of incoming payments implement OnceOnly: a      *)
(* transaction gets a row only if it paid the wallet, and one                *)
(* (processPayment, ExistsByTxHash, the unique tx_hash).                     *)
THEOREM RowsImplementOnce == IndexSpec => RowsKeepPromise
<1>1. IndexInit => RowPromise!OnceInit
  <2> SUFFICES ASSUME IndexInit PROVE RowPromise!OnceInit OBVIOUS
  <2>1. RowsDue = {} BY DEF IndexInit, RowsDue
  <2>2. \A h \in TxHash : RowsOf(h) = {} BY DEF IndexInit, RowsOf
  <2>3. \A h \in TxHash : Cardinality(RowsOf(h)) = 0 BY <2>2, FS_EmptySet
  <2>4. RowCount = [h \in TxHash |-> 0] BY <2>3 DEF RowCount
  <2> QED BY <2>1, <2>4 DEF RowPromise!OnceInit
<1>2. IndexInv /\ [IndexNext]_indexVars => [RowPromise!OnceNext]_(RowPromise!onceVars)
  <2> SUFFICES ASSUME IndexInv, [IndexNext]_indexVars PROVE [RowPromise!OnceNext]_(RowPromise!onceVars) OBVIOUS
  <2> USE DEF RowPromise!OnceNext, RowPromise!FallDue, RowPromise!Give, RowPromise!onceVars
  <2>1. CASE UNCHANGED <<history, inbound>> BY <2>1, PromiseRests
  <2>2. ASSUME NEW op \in PaymentOp, PaymentArrives(op) PROVE [RowPromise!OnceNext]_(RowPromise!onceVars)
    BY <2>2, DueByArrival
  <2>3. ASSUME NEW r \in Reader, InsertPayment(r) PROVE [RowPromise!OnceNext]_(RowPromise!onceVars)
    BY <2>3, RowIsGiven
  <2>4. \/ UNCHANGED <<history, inbound>>
        \/ \E op \in PaymentOp : PaymentArrives(op)
        \/ \E r \in Reader : InsertPayment(r)
    BY DEF IndexNext, SyncStep, StreamStep, SyncWallet, FetchPage, StartStream, StreamWallet, StreamEvent, Disconnect,
           CheckPayment, UpdateSyncCursor, ReaderStops, indexVars
  <2> QED BY <2>1, <2>2, <2>3, <2>4
<1> QED BY <1>1, <1>2, IndexInvInit, IndexInvStep, PTL DEF IndexSpec, RowsKeepPromise, RowPromise!OnceSpec

(* The sync task alone keeps what cmd/worker/main.go:119 says of it: without *)
(* a stream, which may begin at now and store its cursor, the stored cursor  *)
(* passes no payment that is not recorded, but for operations whose          *)
(* processing failed.                                                        *)
THEOREM SyncAloneCatchesUp ==
  ASSUME Stream = {}
  PROVE  IndexSpec => []SyncCatchesUp
<1> DEFINE NoneJumped == jumped = {}
<1>1. IndexInit => NoneJumped BY DEF IndexInit
<1>2. NoneJumped /\ [IndexNext]_indexVars => NoneJumped'
  BY DEF IndexNext, PaymentArrives, SyncStep, StreamStep, SyncWallet, FetchPage, StartStream, StreamWallet, StreamEvent, Disconnect,
         CheckPayment, InsertPayment, UpdateSyncCursor, ReaderStops, indexVars
<1>3. IndexInv /\ NoneJumped => SyncCatchesUp BY DEF IndexInv, IndexSafe, NothingPassedOver, SyncCatchesUp
<1> QED BY <1>1, <1>2, <1>3, IndexInvInit, IndexInvStep, PTL DEF IndexSpec

-----------------------------------------------------------------------------
(* The treasury.  A sweep carries a mark that it measured every wallet and   *)
(* that nobody has changed what it measured; while the mark is there the      *)
(* balance still covers reserve and buffer.  What was moved is logged or held *)
(* by a sweeper about to log it, so the log is behind by the sum over them.   *)

(* Positions; those at which a sweep is carried; what the task has to visit. *)
SweepAt == {"idle", "next", "check", "load", "submit", "sent", "record", "error"}
Carrying == {"check", "load", "submit", "sent", "record", "error"}
Visit == [asset : Asset, config : Config]

(* What s has moved and not yet logged, by asset.                            *)
Unlogged(a) == [s \in Sweeper |-> IF tpc[s] = "record" /\ sweep[s].asset = a THEN sweep[s].amount ELSE 0]

(* Types.                                                                    *)
TreasuryFlat ==
  /\ tbal \in [Asset -> 0..TopBalance] /\ tseq \in Nat /\ entries \in [Custodial -> 0..1]
  /\ tconfig \in [Asset -> Config] /\ flying \subseteq Envelope
  /\ tpc \in [Sweeper -> SweepAt] /\ sweep \in [Sweeper -> SweepLog \cup {NoSweep}]
  /\ todoAssets \in [Sweeper -> SUBSET Visit]
  /\ applied \in [Asset -> Nat] /\ logged \in [Asset -> Nat] /\ sweepFaults \in Nat

(* A sweeper carries a sweep exactly where it needs one, and a manual sweep  *)
(* is not part of a run of the task.                                         *)
SweeperOK(s) ==
  /\ (sweep[s] # NoSweep) <=> (tpc[s] \in Carrying)
  /\ tpc[s] = "idle" => todoAssets[s] = {}
  /\ (sweep[s] # NoSweep /\ sweep[s].by = "manual") => todoAssets[s] = {}

(* An envelope belongs to the sweeper that waits for it, or a fault came     *)
(* between.                                                                  *)
EnvelopeOK(e) ==
  /\ e.owner \in Sweeper => 
       /\ tpc[e.owner] = "sent" /\ sweep[e.owner].asset = e.asset
       /\ sweep[e.owner].amount = e.amount /\ sweep[e.owner].seq = e.seq
  /\ e.owner = NoSweep => sweepFaults > 0

(* What left the wallet is in the log or about to be; a fault may lose a row. *)
LogCovers(a) ==
  /\ logged[a] + SumOver(Unlogged(a), Sweeper) <= applied[a]
  /\ sweepFaults = 0 => logged[a] + SumOver(Unlogged(a), Sweeper) = applied[a]

TreasuryInv ==
  /\ TreasuryFlat
  /\ \A s \in Sweeper : SweeperOK(s)
  /\ \A e \in flying : EnvelopeOK(e)
  /\ \A a \in Asset : LogCovers(a)
  /\ SweepKeepsReserve

(* The reserve is a sum over the wallets that Horizon shows.                 *)
LEMMA ReserveIsASum ==
  ASSUME NEW shown
  PROVE  GetReserveRequirement(shown) = 2 * Cardinality(Custodial) + SumOver(entries, shown)
  BY Zenon DEF GetReserveRequirement, ListWalletPublicKeys, SumOver

(* The reserve is a natural number.                                          *)
LEMMA ReserveIsNat ==
  ASSUME TreasuryFlat, NEW shown \in SUBSET Custodial
  PROVE  GetReserveRequirement(shown) \in Nat
<1>1. IsFiniteSet(shown) /\ Cardinality(Custodial) \in Nat BY FleetIsFinite, FS_Subset, FS_CardinalityType
<1>2. \A w \in shown : entries[w] \in Nat BY DEF TreasuryFlat
<1>3. SumOver(entries, shown) \in Nat BY <1>1, <1>2, SumIsNat
<1>4. 2 * Cardinality(Custodial) \in Nat BY <1>1
<1> QED BY <1>3, <1>4, ReserveIsASum

(* It changes only when a subentry does.                                     *)
LEMMA ReserveStays ==
  ASSUME entries' = entries
  PROVE  GetReserveRequirement(Custodial)' = GetReserveRequirement(Custodial)
  BY DEF GetReserveRequirement, ListWalletPublicKeys, MapThenSumSet, MapThenFoldSet

USE SweepBounds, NativeIsSwept

(* Where a sweep that was measured stands until it is answered.              *)
Measured == {"load", "submit", "sent"}

(* SweepKeepsReserve for one sweeper.                                        *)
KeepsReserve(s) ==
  (tpc[s] \in Measured /\ sweep[s].clean) =>
    tbal[sweep[s].asset] - sweep[s].amount >= sweep[s].buffer + (IF sweep[s].asset = Native THEN GetReserveRequirement(Custodial) ELSE 0)

(* SweepKeepsReserve, sweeper by sweeper.                                    *)
LEMMA KeepsReserveBySweeper == SweepKeepsReserve <=> \A s \in Sweeper : KeepsReserve(s)
  BY DEF SweepKeepsReserve, KeepsReserve, Measured

(* A step that moves no balance and no reserve, and lets no sweep pass for   *)
(* clean that was not.                                                       *)
LEMMA ReserveFrame ==
  ASSUME SweepKeepsReserve, tbal' = tbal, entries' = entries,
         \A s \in Sweeper : (tpc'[s] \in Measured /\ sweep'[s].clean) =>
           /\ tpc[s] \in Measured /\ sweep[s].clean /\ sweep'[s].asset = sweep[s].asset
           /\ sweep'[s].amount = sweep[s].amount /\ sweep'[s].buffer = sweep[s].buffer
  PROVE  SweepKeepsReserve'
<1>1. \A s \in Sweeper : KeepsReserve(s)' BY ReserveStays, KeepsReserveBySweeper DEF KeepsReserve
<1> QED BY <1>1 DEF SweepKeepsReserve, KeepsReserve, Measured

(* What is still to be logged is a natural number.                           *)
LEMMA UnloggedIsNat ==
  ASSUME TreasuryFlat, \A s \in Sweeper : SweeperOK(s), NEW a \in Asset
  PROVE  /\ \A s \in Sweeper : Unlogged(a)[s] \in Nat
         /\ SumOver(Unlogged(a), Sweeper) \in Nat
<1>1. \A s \in Sweeper : Unlogged(a)[s] \in Nat BY DEF TreasuryFlat, SweeperOK, Unlogged, SweepLog, Carrying
<1> QED BY <1>1, FleetIsFinite, SumIsNat

(* A step that neither moves nor logs a unit.                                *)
LEMMA LogFrame ==
  ASSUME TreasuryInv, applied' = applied, logged' = logged,
         sweepFaults' \in Nat, sweepFaults' >= sweepFaults,
         \A s \in Sweeper : (tpc'[s] = "record") <=> (tpc[s] = "record"),
         \A s \in Sweeper : tpc[s] = "record" => sweep'[s].asset = sweep[s].asset /\ sweep'[s].amount = sweep[s].amount
  PROVE  \A a \in Asset : LogCovers(a)'
<1> SUFFICES ASSUME NEW a \in Asset PROVE LogCovers(a)' OBVIOUS
<1>1. \A s \in Sweeper : Unlogged(a)'[s] = Unlogged(a)[s] BY DEF Unlogged
<1>2. SumOver(Unlogged(a)', Sweeper) = SumOver(Unlogged(a), Sweeper) BY <1>1, FleetIsFinite, SumSame
<1>3. LogCovers(a) /\ sweepFaults \in Nat BY DEF TreasuryInv, TreasuryFlat
<1> QED BY <1>2, <1>3 DEF LogCovers

(* Sweeper s puts away what it had moved, and logs it or not.                *)
LEMMA LogPutAway ==
  ASSUME TreasuryInv, TreasuryFlat', \A t \in Sweeper : SweeperOK(t)', NEW s \in Sweeper, tpc[s] = "record", tpc'[s] # "record",
         applied' = applied,
         \/ logged' = [logged EXCEPT ![sweep[s].asset] = @ + sweep[s].amount] /\ sweepFaults' = sweepFaults
         \/ logged' = logged /\ sweepFaults' > 0,
         \A t \in Sweeper \ {s} : tpc'[t] = tpc[t] /\ sweep'[t] = sweep[t]
  PROVE  \A a \in Asset : LogCovers(a)'
<1> SUFFICES ASSUME NEW a \in Asset PROVE LogCovers(a)' OBVIOUS
<1>1. \A t \in Sweeper \ {s} : Unlogged(a)[t] = Unlogged(a)'[t] BY DEF Unlogged
<1>2. Unlogged(a)'[s] = 0 /\ Unlogged(a)[s] = IF sweep[s].asset = a THEN sweep[s].amount ELSE 0 BY DEF Unlogged
<1>3. /\ \A t \in Sweeper : Unlogged(a)[t] \in Nat 
      /\ SumOver(Unlogged(a), Sweeper) \in Nat
  BY UnloggedIsNat DEF TreasuryInv
<1>4. \A t \in Sweeper : Unlogged(a)'[t] \in Nat BY <1>1, <1>2, <1>3
<1>5. SumOver(Unlogged(a)', Sweeper) + Unlogged(a)[s] = SumOver(Unlogged(a), Sweeper) + Unlogged(a)'[s]
  BY <1>1, <1>3, <1>4, FleetIsFinite, SumChangedAt
<1>6. SumOver(Unlogged(a)', Sweeper) \in Nat BY <1>4, FleetIsFinite, SumIsNat
<1>7. LogCovers(a) /\ logged[a] \in Nat /\ applied[a] \in Nat /\ logged'[a] \in Nat /\ sweepFaults \in Nat BY DEF TreasuryInv, TreasuryFlat
<1>8. \/ logged'[a] = logged[a] + Unlogged(a)[s] /\ sweepFaults' = sweepFaults
      \/ logged'[a] = logged[a] /\ sweepFaults' > 0
  BY <1>2, <1>7 DEF TreasuryInv, TreasuryFlat
<1> QED BY <1>2, <1>3, <1>5, <1>6, <1>7, <1>8 DEF LogCovers

(* The measurement of ExecuteSweep and of the daily task.                    *)
LEMMA SweepableIsWithin ==
  ASSUME TreasuryFlat, NEW a \in Asset, NEW shown \in SUBSET Custodial
  PROVE  GetSweepableAmount(a, shown) \in 0..TopBalance
<1>1. GetReserveRequirement(shown) \in Nat BY ReserveIsNat
<1>2. tconfig[a].buffer \in Nat /\ tbal[a] \in 0..TopBalance BY DEF TreasuryFlat, Config
<1> QED BY <1>1, <1>2 DEF GetSweepableAmount, GetFeeBalance

(* Taking no more than that leaves the reserve and the buffer.               *)
LEMMA SweepableLeavesReserve ==
  ASSUME TreasuryFlat, NEW a \in Asset, NEW n \in Nat \ {0}, n <= GetSweepableAmount(a, Custodial)
  PROVE  tbal[a] - n >= tconfig[a].buffer + (IF a = Native THEN GetReserveRequirement(Custodial) ELSE 0)
<1>1. GetReserveRequirement(Custodial) \in Nat BY ReserveIsNat
<1>2. tconfig[a].buffer \in Nat /\ tbal[a] \in 0..TopBalance BY DEF TreasuryFlat, Config
<1> QED BY <1>1, <1>2 DEF GetSweepableAmount, GetFeeBalance

(* A manual sweep is taken up unmeasured.                                    *)
LEMMA ManualSweepOK ==
  ASSUME TreasuryInv, NEW s \in Sweeper, ManualSweep(s)
  PROVE  TreasuryInv'
<1> USE DEF TreasuryInv, Is, To, ledgerSide
<1>0. PICK r \in ManualSweepRequest :
        sweep' = [sweep EXCEPT ![s] = [asset |-> r.asset, amount |-> r.amount, by |-> "manual", dest |-> TRUE,
                                       seq |-> 0, clean |-> FALSE, buffer |-> 0]]
  BY DEF ManualSweep
<1>1. r.asset \in Asset /\ r.amount \in 0..TopBalance
  <2> HIDE DEF TreasuryInv
  <2>1. r.asset \in Asset /\ r.amount \in ManualAmounts BY <1>0 DEF ManualSweepRequest
  <2>2. \A n \in ManualAmounts : n \in 0..TopBalance BY SweepBounds
  <2> QED BY <2>1, <2>2
<1>2. sweep'[s] \in SweepLog /\ sweep'[s].by = "manual" /\ ~sweep'[s].clean /\ sweep'[s] # NoSweep
  <2>1. sweep'[s] \in SweepLog /\ sweep'[s].by = "manual" /\ ~sweep'[s].clean
    BY <1>0, <1>1 DEF SweepLog, TreasuryFlat
  <2> QED BY <2>1, NoSweepIsNone
<1>3. tpc[s] = "idle" /\ tpc'[s] = "check" /\ \A t \in Sweeper \ {s} : sweep'[t] = sweep[t] /\ tpc'[t] = tpc[t]
  BY <1>0 DEF ManualSweep, TreasuryFlat
<1>4. TreasuryFlat' BY <1>0, <1>2 DEF TreasuryFlat, ManualSweep, SweepAt
<1>5. \A t \in Sweeper : SweeperOK(t)' BY <1>2, <1>3 DEF SweeperOK, ManualSweep, Carrying
<1>6. \A e \in flying : EnvelopeOK(e)' BY <1>2, <1>3 DEF EnvelopeOK, ManualSweep
<1>7. \A a \in Asset : LogCovers(a)' BY <1>3, <1>4, LogFrame DEF ManualSweep, TreasuryFlat
<1>8. SweepKeepsReserve' BY <1>2, <1>3, ReserveFrame DEF ManualSweep, Measured
<1> QED BY <1>4, <1>5, <1>6, <1>7, <1>8 DEF ManualSweep

(* The daily task reads the configurations.                                  *)
LEMMA HandleSweepOK ==
  ASSUME TreasuryInv, NEW s \in Sweeper, HandleSweep(s)
  PROVE  TreasuryInv'
<1> USE DEF TreasuryInv, Is, To, ledgerSide
<1>1. tpc[s] = "idle" /\ tpc'[s] = "next" /\ \A t \in Sweeper \ {s} : tpc'[t] = tpc[t] /\ todoAssets'[t] = todoAssets[t]
  BY DEF HandleSweep, TreasuryFlat
<1>2. {c \in ListConfig : c.config.auto} \in SUBSET Visit BY DEF ListConfig, Visit, TreasuryFlat
<1>3. TreasuryFlat' BY <1>2 DEF TreasuryFlat, HandleSweep, SweepAt
<1>4. \A t \in Sweeper : SweeperOK(t)' BY <1>1 DEF SweeperOK, HandleSweep, Carrying
<1>5. \A e \in flying : EnvelopeOK(e)' BY <1>1 DEF EnvelopeOK, HandleSweep
<1>6. \A a \in Asset : LogCovers(a)' BY <1>1, LogFrame DEF HandleSweep, TreasuryFlat
<1>7. SweepKeepsReserve' BY <1>1, ReserveFrame DEF HandleSweep, Measured
<1> QED BY <1>3, <1>4, <1>5, <1>6, <1>7 DEF HandleSweep

(* The task takes up the next asset.                                         *)
LEMMA VisitAssetOK ==
  ASSUME TreasuryInv, NEW s \in Sweeper, VisitAsset(s)
  PROVE  TreasuryInv'
<1> USE DEF TreasuryInv, Is, To, ledgerSide
<1>0. PICK t \in todoAssets[s], shown \in SUBSET Custodial :
       /\ todoAssets' = [todoAssets EXCEPT ![s] = @ \ {t}]
       /\ IF shown = Custodial THEN UNCHANGED sweepFaults ELSE SweepFault
       /\ LET n == GetSweepableAmount(t.asset, shown)
          IN sweep' = [sweep EXCEPT ![s] = [asset |-> t.asset, amount |-> IF n > t.config.threshold THEN n ELSE 0,
                          by |-> "auto", dest |-> t.config.cold, seq |-> 0, clean |-> FALSE, buffer |-> 0]]
  BY DEF VisitAsset
<1>1. t \in Visit BY DEF TreasuryFlat
<1>2. GetSweepableAmount(t.asset, shown) \in 0..TopBalance BY <1>1, SweepableIsWithin DEF Visit
<1>3. sweep'[s] \in SweepLog /\ sweep'[s].by = "auto" /\ ~sweep'[s].clean /\ sweep'[s] # NoSweep
  <2> HIDE DEF TreasuryInv
  <2>1. sweep'[s] \in SweepLog /\ sweep'[s].by = "auto" /\ ~sweep'[s].clean
    BY <1>0, <1>1, <1>2 DEF SweepLog, TreasuryFlat, Visit, Config, TreasuryInv
  <2> QED BY <2>1, NoSweepIsNone
<1>4. /\ tpc[s] = "next" /\ tpc'[s] = "check"
      /\ \A u \in Sweeper \ {s} : sweep'[u] = sweep[u] /\ tpc'[u] = tpc[u] /\ todoAssets'[u] = todoAssets[u]
  BY <1>0 DEF VisitAsset, TreasuryFlat
<1>5. sweepFaults' \in Nat /\ sweepFaults' >= sweepFaults BY <1>0 DEF SweepFault, TreasuryFlat
<1>6. TreasuryFlat' BY <1>0, <1>3, <1>5 DEF TreasuryFlat, VisitAsset, SweepAt
<1>7. \A u \in Sweeper : SweeperOK(u)' BY <1>3, <1>4 DEF SweeperOK, Carrying
<1>8. \A e \in flying : EnvelopeOK(e)' BY <1>3, <1>4, <1>5 DEF EnvelopeOK, VisitAsset, TreasuryFlat
<1>9. \A a \in Asset : LogCovers(a)' BY <1>4, <1>5, LogFrame DEF VisitAsset
<1>10. SweepKeepsReserve' BY <1>3, <1>4, ReserveFrame DEF VisitAsset, Measured
<1> QED BY <1>6, <1>7, <1>8, <1>9, <1>10 DEF VisitAsset

(* The task has visited every asset.                                         *)
LEMMA SweepRunEndsOK ==
  ASSUME TreasuryInv, NEW s \in Sweeper, SweepRunEnds(s)
  PROVE  TreasuryInv'
<1> USE DEF TreasuryInv, Is, To, ledgerSide
<1>1. tpc[s] = "next" /\ tpc'[s] = "idle" /\ \A t \in Sweeper \ {s} : tpc'[t] = tpc[t]
  BY DEF SweepRunEnds, TreasuryFlat
<1>3. TreasuryFlat' BY DEF TreasuryFlat, SweepRunEnds, SweepAt
<1>4. \A t \in Sweeper : SweeperOK(t)' BY <1>1 DEF SweeperOK, SweepRunEnds, Carrying
<1>5. \A e \in flying : EnvelopeOK(e)' BY <1>1 DEF EnvelopeOK, SweepRunEnds
<1>6. \A a \in Asset : LogCovers(a)' BY <1>1, LogFrame DEF SweepRunEnds, TreasuryFlat
<1>7. SweepKeepsReserve' BY <1>1, ReserveFrame DEF SweepRunEnds, Measured
<1> QED BY <1>3, <1>4, <1>5, <1>6, <1>7 DEF SweepRunEnds

(* Where a sweeper stands when its sweep is over.                            *)
LEMMA EndSweepMoves ==
  ASSUME TreasuryInv, NEW s \in Sweeper, tpc[s] \in Carrying, EndSweep(s)
  PROVE  /\ tpc'[s] \in {"next", "idle"} /\ sweep'[s] = NoSweep
         /\ tpc'[s] = "idle" => todoAssets[s] = {}
         /\ \A t \in Sweeper \ {s} : tpc'[t] = tpc[t] /\ sweep'[t] = sweep[t]
         /\ tpc' \in [Sweeper -> SweepAt] /\ sweep' \in [Sweeper -> SweepLog \cup {NoSweep}]
<1>1. sweep[s] \in SweepLog BY DEF TreasuryInv, TreasuryFlat, SweeperOK
<1>2. sweep[s].by \in {"auto", "manual"} BY <1>1 DEF SweepLog
<1> QED BY <1>1, <1>2 DEF EndSweep, To, TreasuryInv, TreasuryFlat, SweeperOK, SweepAt

(* ExecuteSweep measures: here a sweep gets its mark.                        *)
LEMMA CheckSweepOK ==
  ASSUME TreasuryInv, NEW s \in Sweeper, CheckSweep(s)
  PROVE  TreasuryInv'
<1> USE DEF Is, To, ledgerSide
<1>0. PICK shown \in SUBSET Custodial :
       /\ IF shown = Custodial THEN UNCHANGED sweepFaults ELSE SweepFault
       /\ LET sw == sweep[s]
              refused == sw.amount > GetSweepableAmount(sw.asset, shown) \/ (sw.amount > 0 /\ ~sw.dest)
          IN IF refused \/ sw.amount = 0
             THEN EndSweep(s) /\ (IF refused THEN UNCHANGED logged ELSE RecordSweep(s))
             ELSE /\ To(s, "load") /\ UNCHANGED logged
                  /\ sweep' = [sweep EXCEPT ![s].clean = (shown = Custodial), ![s].buffer = tconfig[sw.asset].buffer]
  BY DEF CheckSweep
<1>1. tpc[s] = "check" /\ sweep[s] \in SweepLog /\ sweep[s] # NoSweep /\ tpc[s] \in Carrying
  BY DEF CheckSweep, TreasuryInv, TreasuryFlat, SweeperOK, Carrying
<1>2. sweep[s].asset \in Asset /\ sweep[s].amount \in 0..TopBalance BY <1>1 DEF SweepLog
<1>3. sweepFaults' \in Nat /\ sweepFaults' >= sweepFaults BY <1>0 DEF SweepFault, TreasuryInv, TreasuryFlat
<1>4. UNCHANGED <<tbal, tseq, entries, tconfig, todoAssets, flying, applied>> BY DEF CheckSweep
<1>5. TreasuryFlat /\ (\A t \in Sweeper : SweeperOK(t)) /\ (\A e \in flying : EnvelopeOK(e)) BY DEF TreasuryInv
<1>6. SweepKeepsReserve BY DEF TreasuryInv
<1>7. CASE EndSweep(s) /\ (logged' = logged \/ (sweep[s].amount = 0 /\ RecordSweep(s)))
  <2>1. /\ tpc'[s] \in {"next", "idle"} /\ sweep'[s] = NoSweep
        /\ tpc'[s] = "idle" => todoAssets[s] = {}
        /\ \A t \in Sweeper \ {s} : tpc'[t] = tpc[t] /\ sweep'[t] = sweep[t]
        /\ tpc' \in [Sweeper -> SweepAt] /\ sweep' \in [Sweeper -> SweepLog \cup {NoSweep}]
    BY <1>1, <1>7, EndSweepMoves
  <2>2. logged' = logged BY <1>2, <1>5, <1>7 DEF RecordSweep, TreasuryFlat
  <2>3. TreasuryFlat' BY <1>3, <1>4, <1>5, <2>1, <2>2 DEF TreasuryFlat
  <2>4. \A t \in Sweeper : SweeperOK(t)' BY <1>4, <1>5, <2>1 DEF SweeperOK, Carrying
  <2>5. \A e \in flying : EnvelopeOK(e)' BY <1>1, <1>3, <1>4, <1>5, <2>1 DEF EnvelopeOK, TreasuryFlat
  <2>6. \A a \in Asset : LogCovers(a)' BY <1>1, <1>3, <1>4, <2>1, <2>2, LogFrame
  <2>7. SweepKeepsReserve' BY <1>1, <1>4, <1>6, <2>1, ReserveFrame DEF Measured
  <2> QED BY <1>4, <2>3, <2>4, <2>5, <2>6, <2>7 DEF TreasuryInv
<1>8. CASE /\ tpc' = [tpc EXCEPT ![s] = "load"] /\ logged' = logged
           /\ sweep' = [sweep EXCEPT ![s].clean = (shown = Custodial), ![s].buffer = tconfig[sweep[s].asset].buffer]
           /\ sweep[s].amount # 0 /\ ~(sweep[s].amount > GetSweepableAmount(sweep[s].asset, shown))
  <2>1. tpc'[s] = "load" /\ \A t \in Sweeper \ {s} : tpc'[t] = tpc[t] /\ sweep'[t] = sweep[t]
    BY <1>8, <1>5 DEF TreasuryFlat
  <2>2. tconfig[sweep[s].asset].buffer \in Nat BY <1>2, <1>5 DEF TreasuryFlat, Config
  <2>3. /\ sweep'[s] \in SweepLog /\ sweep'[s].clean = (shown = Custodial) /\ sweep'[s].asset = sweep[s].asset
        /\ sweep'[s].amount = sweep[s].amount /\ sweep'[s].by = sweep[s].by /\ sweep'[s].buffer = tconfig[sweep[s].asset].buffer
    BY <1>1, <1>5, <1>8, <2>2 DEF SweepLog, TreasuryFlat
  <2>4. sweep'[s] # NoSweep BY <2>3, NoSweepIsNone
  <2>5. sweep' \in [Sweeper -> SweepLog \cup {NoSweep}]
    <3>1. sweep' = [t \in Sweeper |-> sweep'[t]] BY <1>5, <1>8 DEF TreasuryFlat
    <3> QED BY <3>1, <1>5, <2>1, <2>3 DEF TreasuryFlat
  <2>6. TreasuryFlat' BY <1>3, <1>4, <1>5, <1>8, <2>5 DEF TreasuryFlat, SweepAt
  <2>7. \A t \in Sweeper : SweeperOK(t)' BY <1>1, <1>4, <1>5, <2>1, <2>3, <2>4 DEF SweeperOK, Carrying
  <2>8. \A e \in flying : EnvelopeOK(e)' BY <1>1, <1>3, <1>4, <1>5, <2>1 DEF EnvelopeOK, TreasuryFlat
  <2>9. \A a \in Asset : LogCovers(a)' BY <1>1, <1>3, <1>4, <1>8, <2>1, LogFrame
  <2>10. SweepKeepsReserve'
    <3>1. \A t \in Sweeper \ {s} : KeepsReserve(t)' BY <1>4, <1>6, <2>1, ReserveStays, KeepsReserveBySweeper DEF KeepsReserve
    <3>2. KeepsReserve(s)'
      <4>1. CASE shown # Custodial BY <4>1, <2>3 DEF KeepsReserve
      <4>2. CASE shown = Custodial
        <5>1. sweep[s].amount <= GetSweepableAmount(sweep[s].asset, Custodial)
          BY <4>2, <1>8, <1>2, <1>5, SweepableIsWithin
        <5>2. tbal[sweep[s].asset] - sweep[s].amount >=
                tconfig[sweep[s].asset].buffer + (IF sweep[s].asset = Native THEN GetReserveRequirement(Custodial) ELSE 0)
          BY <5>1, <1>2, <1>5, <1>8, SweepableLeavesReserve
        <5> QED BY <5>2, <1>4, <2>3, ReserveStays DEF KeepsReserve
      <4> QED BY <4>1, <4>2
    <3> QED BY <3>1, <3>2 DEF SweepKeepsReserve, KeepsReserve, Measured
  <2> QED BY <1>4, <2>6, <2>7, <2>8, <2>9, <2>10 DEF TreasuryInv
<1> QED BY <1>0, <1>7, <1>8

(* The sequence number is loaded.                                            *)
LEMMA LoadFeeWalletOK ==
  ASSUME TreasuryInv, NEW s \in Sweeper, LoadFeeWallet(s)
  PROVE  TreasuryInv'
<1> USE DEF Is, To, ledgerSide
<1>1. tpc[s] = "load" /\ sweep[s] \in SweepLog /\ sweep[s] # NoSweep
  BY DEF LoadFeeWallet, TreasuryInv, TreasuryFlat, SweeperOK, Carrying
<1>2. UNCHANGED <<tbal, tseq, entries, tconfig, todoAssets, flying, applied, logged, sweepFaults>> BY DEF LoadFeeWallet
<1>3. TreasuryFlat /\ (\A t \in Sweeper : SweeperOK(t)) /\ (\A e \in flying : EnvelopeOK(e)) BY DEF TreasuryInv
<1>4. SweepKeepsReserve BY DEF TreasuryInv
<1>5. tpc'[s] = "submit" /\ \A t \in Sweeper \ {s} : tpc'[t] = tpc[t] /\ sweep'[t] = sweep[t]
  BY <1>3 DEF LoadFeeWallet, TreasuryFlat
<1>6. /\ sweep'[s] \in SweepLog /\ sweep'[s].clean = sweep[s].clean /\ sweep'[s].asset = sweep[s].asset
      /\ sweep'[s].amount = sweep[s].amount /\ sweep'[s].by = sweep[s].by /\ sweep'[s].buffer = sweep[s].buffer
  BY <1>1, <1>3 DEF LoadFeeWallet, SweepLog, TreasuryFlat
<1>7. sweep'[s] # NoSweep BY <1>6, NoSweepIsNone
<1>8. TreasuryFlat' BY <1>2, <1>3, <1>6 DEF TreasuryFlat, LoadFeeWallet, SweepAt
<1>9. \A t \in Sweeper : SweeperOK(t)' BY <1>2, <1>3, <1>1, <1>5, <1>6, <1>7 DEF SweeperOK, Carrying
<1>10. \A e \in flying : EnvelopeOK(e)' BY <1>1, <1>2, <1>3, <1>5 DEF EnvelopeOK
<1>11. \A a \in Asset : LogCovers(a)' BY <1>1, <1>2, <1>3, <1>5, LogFrame DEF TreasuryFlat
<1>12. SweepKeepsReserve' BY <1>1, <1>2, <1>4, <1>5, <1>6, ReserveFrame DEF Measured
<1> QED BY <1>2, <1>8, <1>9, <1>10, <1>11, <1>12 DEF TreasuryInv

(* The envelope goes to the network.                                         *)
LEMMA SubmitSweepOK ==
  ASSUME TreasuryInv, NEW s \in Sweeper, SubmitSweep(s)
  PROVE  TreasuryInv'
<1> USE DEF Is, To, ledgerSide
<1> DEFINE sent == [asset |-> sweep[s].asset, amount |-> sweep[s].amount, seq |-> sweep[s].seq, owner |-> s]
<1>1. tpc[s] = "submit" /\ sweep[s] \in SweepLog /\ sweep[s] # NoSweep
  BY DEF SubmitSweep, TreasuryInv, TreasuryFlat, SweeperOK, Carrying
<1>2. UNCHANGED <<tbal, tseq, entries, tconfig, sweep, todoAssets, applied, logged, sweepFaults>> /\ flying' = flying \cup {sent}
  BY DEF SubmitSweep
<1>3. TreasuryFlat /\ (\A t \in Sweeper : SweeperOK(t)) /\ (\A e \in flying : EnvelopeOK(e)) BY DEF TreasuryInv
<1>4. SweepKeepsReserve BY DEF TreasuryInv
<1>5. tpc'[s] = "sent" /\ \A t \in Sweeper \ {s} : tpc'[t] = tpc[t] BY <1>3 DEF SubmitSweep, TreasuryFlat
<1>6. sent \in Envelope BY <1>1 DEF SweepLog, Envelope
<1>7. TreasuryFlat' BY <1>2, <1>3, <1>6 DEF TreasuryFlat, SubmitSweep, SweepAt
<1>8. \A t \in Sweeper : SweeperOK(t)' BY <1>1, <1>2, <1>3, <1>5 DEF SweeperOK, Carrying
<1>9. \A e \in flying : EnvelopeOK(e)' BY <1>1, <1>2, <1>3, <1>5 DEF EnvelopeOK
<1>10. \A e : e = sent => EnvelopeOK(e)' BY <1>2, <1>5, NoSweepIsNone DEF EnvelopeOK
<1>11. \A a \in Asset : LogCovers(a)' BY <1>1, <1>2, <1>3, <1>5, LogFrame DEF TreasuryFlat
<1>12. SweepKeepsReserve' BY <1>1, <1>2, <1>4, <1>5, ReserveFrame DEF Measured
<1> HIDE DEF sent
<1>13. \A e \in flying' : EnvelopeOK(e)' BY <1>2, <1>9, <1>10
<1> QED BY <1>7, <1>8, <1>11, <1>12, <1>13 DEF TreasuryInv

(* A refused sweep is put away.                                              *)
LEMMA SweepFailsOK ==
  ASSUME TreasuryInv, NEW s \in Sweeper, SweepFails(s)
  PROVE  TreasuryInv'
<1>1. tpc[s] = "error" /\ tpc[s] \in Carrying BY DEF SweepFails, Is, Carrying
<1>2. UNCHANGED <<tbal, tseq, entries, tconfig, todoAssets, flying, applied, logged, sweepFaults>> BY DEF SweepFails, ledgerSide
<1>3. TreasuryFlat /\ (\A t \in Sweeper : SweeperOK(t)) /\ (\A e \in flying : EnvelopeOK(e)) BY DEF TreasuryInv
<1>4. /\ tpc'[s] \in {"next", "idle"} /\ sweep'[s] = NoSweep
      /\ tpc'[s] = "idle" => todoAssets[s] = {}
      /\ \A t \in Sweeper \ {s} : tpc'[t] = tpc[t] /\ sweep'[t] = sweep[t]
      /\ tpc' \in [Sweeper -> SweepAt] /\ sweep' \in [Sweeper -> SweepLog \cup {NoSweep}]
  BY <1>1, EndSweepMoves DEF SweepFails
<1>5. TreasuryFlat' BY <1>2, <1>3, <1>4 DEF TreasuryFlat
<1>6. \A t \in Sweeper : SweeperOK(t)' BY <1>2, <1>3, <1>4 DEF SweeperOK, Carrying
<1>7. \A e \in flying : EnvelopeOK(e)' BY <1>1, <1>2, <1>3, <1>4 DEF EnvelopeOK
<1>8. \A a \in Asset : LogCovers(a)' BY <1>1, <1>2, <1>3, <1>4, LogFrame DEF TreasuryFlat
<1>9. SweepKeepsReserve' BY <1>1, <1>2, <1>4, ReserveFrame DEF Measured, TreasuryInv
<1> QED BY <1>2, <1>5, <1>6, <1>7, <1>8, <1>9 DEF TreasuryInv

(* The row is written, or its error swallowed.                               *)
LEMMA LogSweepOK ==
  ASSUME TreasuryInv, NEW s \in Sweeper, LogSweep(s)
  PROVE  TreasuryInv'
<1>1. tpc[s] = "record" /\ tpc[s] \in Carrying BY DEF LogSweep, Is, Carrying
<1>2. UNCHANGED <<tbal, tseq, entries, tconfig, todoAssets, flying, applied>> BY DEF LogSweep, ledgerSide
<1>3. TreasuryFlat /\ (\A t \in Sweeper : SweeperOK(t)) /\ (\A e \in flying : EnvelopeOK(e)) BY DEF TreasuryInv
<1>4. /\ tpc'[s] \in {"next", "idle"} /\ sweep'[s] = NoSweep
      /\ tpc'[s] = "idle" => todoAssets[s] = {}
      /\ \A t \in Sweeper \ {s} : tpc'[t] = tpc[t] /\ sweep'[t] = sweep[t]
      /\ tpc' \in [Sweeper -> SweepAt] /\ sweep' \in [Sweeper -> SweepLog \cup {NoSweep}]
  BY <1>1, EndSweepMoves DEF LogSweep
<1>5. \/ logged' = [logged EXCEPT ![sweep[s].asset] = @ + sweep[s].amount] /\ sweepFaults' = sweepFaults
      \/ logged' = logged /\ sweepFaults' = sweepFaults + 1
  BY DEF LogSweep, RecordSweep, SweepFault
<1>6. sweep[s].asset \in Asset /\ sweep[s].amount \in Nat BY <1>1, <1>3 DEF TreasuryFlat, SweeperOK, SweepLog
<1>7. TreasuryFlat' BY <1>2, <1>3, <1>4, <1>5, <1>6 DEF TreasuryFlat
<1>8. \A t \in Sweeper : SweeperOK(t)' BY <1>2, <1>3, <1>4 DEF SweeperOK, Carrying
<1>9. \A e \in flying : EnvelopeOK(e)' BY <1>1, <1>2, <1>3, <1>4, <1>5 DEF EnvelopeOK, TreasuryFlat
<1>10. \A a \in Asset : LogCovers(a)'
  <2>1. \/ logged' = [logged EXCEPT ![sweep[s].asset] = @ + sweep[s].amount] /\ sweepFaults' = sweepFaults
        \/ logged' = logged /\ sweepFaults' > 0
    BY <1>3, <1>5 DEF TreasuryFlat
  <2>2. tpc'[s] # "record" BY <1>4
  <2> QED BY <1>1, <1>2, <1>4, <1>7, <1>8, <2>1, <2>2, LogPutAway
<1>11. SweepKeepsReserve' BY <1>1, <1>2, <1>4, ReserveFrame DEF Measured, TreasuryInv
<1> QED BY <1>2, <1>7, <1>8, <1>9, <1>10, <1>11 DEF TreasuryInv

(* What LoseSweepAnswer and LoseSweeper leave of the envelopes.              *)
LEMMA OrphansOK ==
  ASSUME TreasuryInv, NEW s \in Sweeper, flying' = Orphaned(s), sweepFaults' \in Nat, sweepFaults' > 0,
         \A t \in Sweeper \ {s} : tpc'[t] = tpc[t] /\ sweep'[t] = sweep[t]
  PROVE  flying' \subseteq Envelope /\ \A e \in flying' : EnvelopeOK(e)'
<1> SUFFICES ASSUME NEW e \in flying' PROVE e \in Envelope /\ EnvelopeOK(e)' OBVIOUS
<1>1. PICK d \in flying : e = IF d.owner = s THEN [d EXCEPT !.owner = NoSweep] ELSE d BY DEF Orphaned
<1>2. d \in Envelope /\ EnvelopeOK(d) BY DEF TreasuryInv, TreasuryFlat
<1>3. CASE d.owner = s
  <2>1. e \in Envelope /\ e.owner = NoSweep BY <1>1, <1>2, <1>3 DEF Envelope
  <2> QED BY <2>1, NoSweepIsNone DEF EnvelopeOK
<1>4. CASE d.owner # s
  <2>1. e = d BY <1>1, <1>4
  <2> QED BY <2>1, <1>2, <1>4 DEF EnvelopeOK
<1> QED BY <1>3, <1>4

(* The answer is lost.                                                       *)
LEMMA LoseSweepAnswerOK ==
  ASSUME TreasuryInv, NEW s \in Sweeper, LoseSweepAnswer(s)
  PROVE  TreasuryInv'
<1>1. tpc[s] = "sent" /\ tpc' = [tpc EXCEPT ![s] = "error"] BY DEF LoseSweepAnswer, Is, To
<1>2. UNCHANGED <<tbal, tseq, entries, tconfig, sweep, todoAssets, applied, logged>> BY DEF LoseSweepAnswer, ledgerSide
<1>3. TreasuryFlat /\ (\A t \in Sweeper : SweeperOK(t)) BY DEF TreasuryInv
<1>4. sweepFaults' \in Nat /\ sweepFaults' > 0 /\ sweepFaults' >= sweepFaults BY <1>3 DEF LoseSweepAnswer, SweepFault, TreasuryFlat
<1>5. tpc'[s] = "error" /\ \A t \in Sweeper \ {s} : tpc'[t] = tpc[t] BY <1>1, <1>3 DEF TreasuryFlat
<1>6. flying' \subseteq Envelope /\ \A e \in flying' : EnvelopeOK(e)' BY <1>2, <1>4, <1>5, OrphansOK DEF LoseSweepAnswer
<1>7. TreasuryFlat' BY <1>1, <1>2, <1>3, <1>4, <1>6 DEF TreasuryFlat, SweepAt
<1>8. \A t \in Sweeper : SweeperOK(t)' BY <1>1, <1>2, <1>3, <1>5 DEF SweeperOK, Carrying
<1>9. \A a \in Asset : LogCovers(a)' BY <1>1, <1>2, <1>4, <1>5, LogFrame
<1>10. SweepKeepsReserve' BY <1>1, <1>2, <1>5, ReserveFrame DEF Measured, TreasuryInv
<1> QED BY <1>6, <1>7, <1>8, <1>9, <1>10 DEF TreasuryInv

(* The process dies.                                                         *)
LEMMA LoseSweeperOK ==
  ASSUME TreasuryInv, NEW s \in Sweeper, LoseSweeper(s)
  PROVE  TreasuryInv'
<1>1. /\ tpc' = [tpc EXCEPT ![s] = "idle"] /\ sweep' = [sweep EXCEPT ![s] = NoSweep]
      /\ todoAssets' = [todoAssets EXCEPT ![s] = {}]
  BY DEF LoseSweeper, To
<1>2. UNCHANGED <<tbal, tseq, entries, tconfig, applied, logged>> BY DEF LoseSweeper, ledgerSide
<1>3. TreasuryFlat /\ (\A t \in Sweeper : SweeperOK(t)) BY DEF TreasuryInv
<1>4. sweepFaults' \in Nat /\ sweepFaults' > 0 /\ sweepFaults' >= sweepFaults BY <1>3 DEF LoseSweeper, SweepFault, TreasuryFlat
<1>5. /\ tpc'[s] = "idle" /\ sweep'[s] = NoSweep /\ todoAssets'[s] = {}
      /\ \A t \in Sweeper \ {s} : tpc'[t] = tpc[t] /\ sweep'[t] = sweep[t] /\ todoAssets'[t] = todoAssets[t]
  BY <1>1, <1>3 DEF TreasuryFlat
<1>6. flying' \subseteq Envelope /\ \A e \in flying' : EnvelopeOK(e)' BY <1>4, <1>5, OrphansOK DEF LoseSweeper
<1>7. TreasuryFlat' BY <1>1, <1>2, <1>3, <1>4, <1>6 DEF TreasuryFlat, SweepAt
<1>8. \A t \in Sweeper : SweeperOK(t)' BY <1>3, <1>5 DEF SweeperOK, Carrying
<1>9. \A a \in Asset : LogCovers(a)'
  <2>1. CASE tpc[s] = "record" BY <2>1, <1>2, <1>4, <1>5, <1>7, <1>8, LogPutAway
  <2>2. CASE tpc[s] # "record" BY <2>2, <1>2, <1>4, <1>5, LogFrame
  <2> QED BY <2>1, <2>2
<1>10. SweepKeepsReserve' BY <1>2, <1>5, ReserveFrame DEF Measured, TreasuryInv
<1> QED BY <1>6, <1>7, <1>8, <1>9, <1>10 DEF TreasuryInv

(* Stale changes nothing but the mark of the sweeps of those assets.         *)
LEMMA StaleMarks ==
  ASSUME TreasuryFlat, NEW as, sweep' = Stale(as)
  PROVE  /\ sweep' \in [Sweeper -> SweepLog \cup {NoSweep}]
         /\ \A s \in Sweeper : sweep[s] = NoSweep => sweep'[s] = NoSweep
         /\ \A s \in Sweeper : sweep[s] # NoSweep =>
              /\ sweep'[s] # NoSweep /\ sweep'[s].asset = sweep[s].asset /\ sweep'[s].amount = sweep[s].amount
              /\ sweep'[s].seq = sweep[s].seq /\ sweep'[s].by = sweep[s].by /\ sweep'[s].buffer = sweep[s].buffer
              /\ sweep'[s].clean => sweep[s].clean /\ sweep[s].asset \notin as
<1> DEFINE fresh(s) == IF sweep[s] # NoSweep /\ sweep[s].asset \in as THEN [sweep[s] EXCEPT !.clean = FALSE] ELSE sweep[s]
<1>1. \A s \in Sweeper : sweep'[s] = fresh(s) BY DEF Stale
<1>2. ASSUME NEW s \in Sweeper, sweep[s] # NoSweep
      PROVE  /\ sweep'[s] \in SweepLog /\ sweep'[s].asset = sweep[s].asset /\ sweep'[s].amount = sweep[s].amount
             /\ sweep'[s].seq = sweep[s].seq /\ sweep'[s].by = sweep[s].by /\ sweep'[s].buffer = sweep[s].buffer
             /\ sweep'[s].clean => sweep[s].clean /\ sweep[s].asset \notin as
  <2>1. sweep[s] \in SweepLog BY <1>2 DEF TreasuryFlat
  <2> QED BY <1>1, <1>2, <2>1, ZenonT(60) DEF SweepLog
<1>3. \A s \in Sweeper : sweep[s] = NoSweep => sweep'[s] = NoSweep BY <1>1
<1>4. sweep' = [s \in Sweeper |-> sweep'[s]] BY DEF Stale
<1> QED BY <1>2, <1>3, <1>4, NoSweepIsNone

(* An envelope nobody waits for expires.                                     *)
LEMMA ExpireSweepOK ==
  ASSUME TreasuryInv, NEW e \in flying, ExpireSweep(e)
  PROVE  TreasuryInv'
<1>1. UNCHANGED <<tbal, tseq, entries, tconfig, tpc, sweep, todoAssets, applied, logged, sweepFaults>> /\ flying' = flying \ {e}
  BY DEF ExpireSweep, ledgerSide
<1>2. TreasuryFlat' BY <1>1 DEF TreasuryFlat, TreasuryInv
<1>3. \A t \in Sweeper : SweeperOK(t)' BY <1>1 DEF SweeperOK, TreasuryInv
<1>4. \A d \in flying' : EnvelopeOK(d)' BY <1>1 DEF EnvelopeOK, TreasuryInv
<1>5. \A a \in Asset : LogCovers(a)' BY <1>1, LogFrame DEF TreasuryInv, TreasuryFlat
<1>6. SweepKeepsReserve' BY <1>1, ReserveFrame DEF TreasuryInv
<1> QED BY <1>2, <1>3, <1>4, <1>5, <1>6 DEF TreasuryInv

(* A new configuration takes the mark from the sweeps of its asset.          *)
LEMMA UpdateConfigOK ==
  ASSUME TreasuryInv, NEW a \in Asset, UpdateConfig(a)
  PROVE  TreasuryInv'
<1>1. UNCHANGED <<tbal, tseq, entries, tpc, todoAssets, flying, applied, logged, sweepFaults>> /\ sweep' = Stale({a})
  BY DEF UpdateConfig, ledgerSide
<1>2. TreasuryFlat /\ (\A t \in Sweeper : SweeperOK(t)) /\ (\A e \in flying : EnvelopeOK(e)) BY DEF TreasuryInv
<1>3. /\ sweep' \in [Sweeper -> SweepLog \cup {NoSweep}]
      /\ \A s \in Sweeper : sweep[s] = NoSweep => sweep'[s] = NoSweep
      /\ \A s \in Sweeper : sweep[s] # NoSweep =>
           /\ sweep'[s] # NoSweep /\ sweep'[s].asset = sweep[s].asset /\ sweep'[s].amount = sweep[s].amount
           /\ sweep'[s].seq = sweep[s].seq /\ sweep'[s].by = sweep[s].by /\ sweep'[s].buffer = sweep[s].buffer
           /\ sweep'[s].clean => sweep[s].clean /\ sweep[s].asset \notin {a}
  BY <1>1, <1>2, StaleMarks
<1>4. tconfig' \in [Asset -> Config] BY <1>2, PoliciesAreConfigs DEF UpdateConfig, UpdateConfigRequest, TreasuryFlat, Config
<1>5. TreasuryFlat' BY <1>1, <1>2, <1>3, <1>4 DEF TreasuryFlat
<1>6. \A t \in Sweeper : SweeperOK(t)' BY <1>1, <1>2, <1>3 DEF SweeperOK
<1>7. \A e \in flying' : EnvelopeOK(e)'
  <2>1. \A s \in Sweeper : tpc[s] = "sent" => sweep[s] # NoSweep BY <1>2 DEF SweeperOK, Carrying
  <2> SUFFICES ASSUME NEW e \in flying PROVE EnvelopeOK(e)' BY <1>1
  <2>2. EnvelopeOK(e) BY <1>2
  <2> QED BY <1>1, <1>3, <2>1, <2>2 DEF EnvelopeOK
<1>8. \A b \in Asset : LogCovers(b)' 
  <2>1. \A s \in Sweeper : tpc[s] = "record" => sweep[s] # NoSweep BY <1>2 DEF SweeperOK, Carrying
  <2>2. sweepFaults' \in Nat /\ sweepFaults' >= sweepFaults BY <1>1, <1>2 DEF TreasuryFlat
  <2>3. \A s \in Sweeper : tpc[s] = "record" => sweep'[s].asset = sweep[s].asset /\ sweep'[s].amount = sweep[s].amount
    BY <1>3, <2>1
  <2> QED BY <1>1, <2>2, <2>3, LogFrame
<1>9. SweepKeepsReserve'
  <2>1. \A s \in Sweeper : tpc[s] \in Measured => sweep[s] # NoSweep BY <1>2 DEF SweeperOK, Carrying, Measured
  <2> QED BY <1>1, <1>3, <2>1, ReserveFrame DEF TreasuryInv
<1> QED BY <1>5, <1>6, <1>7, <1>8, <1>9 DEF TreasuryInv

(* A new subentry takes the mark from the sweeps of the native asset.        *)
LEMMA AddSubentryOK ==
  ASSUME TreasuryInv, NEW w \in Custodial, AddSubentry(w)
  PROVE  TreasuryInv'
<1>1. /\ UNCHANGED <<tbal, tseq, tconfig, tpc, todoAssets, flying, applied, logged, sweepFaults>>
      /\ sweep' = Stale({Native}) /\ entries' = [entries EXCEPT ![w] = 1]
  BY DEF AddSubentry
<1>2. TreasuryFlat /\ (\A t \in Sweeper : SweeperOK(t)) /\ (\A e \in flying : EnvelopeOK(e)) BY DEF TreasuryInv
<1>3. /\ sweep' \in [Sweeper -> SweepLog \cup {NoSweep}]
      /\ \A s \in Sweeper : sweep[s] = NoSweep => sweep'[s] = NoSweep
      /\ \A s \in Sweeper : sweep[s] # NoSweep =>
           /\ sweep'[s] # NoSweep /\ sweep'[s].asset = sweep[s].asset /\ sweep'[s].amount = sweep[s].amount
           /\ sweep'[s].seq = sweep[s].seq /\ sweep'[s].by = sweep[s].by /\ sweep'[s].buffer = sweep[s].buffer
           /\ sweep'[s].clean => sweep[s].clean /\ sweep[s].asset \notin {Native}
  BY <1>1, <1>2, StaleMarks
<1>4. entries' \in [Custodial -> 0..1] BY <1>1, <1>2 DEF TreasuryFlat
<1>5. TreasuryFlat' BY <1>1, <1>2, <1>3, <1>4 DEF TreasuryFlat
<1>6. \A t \in Sweeper : SweeperOK(t)' BY <1>1, <1>2, <1>3 DEF SweeperOK
<1>7. \A e \in flying' : EnvelopeOK(e)'
  <2>1. \A s \in Sweeper : tpc[s] = "sent" => sweep[s] # NoSweep BY <1>2 DEF SweeperOK, Carrying
  <2> SUFFICES ASSUME NEW e \in flying PROVE EnvelopeOK(e)' BY <1>1
  <2>2. EnvelopeOK(e) BY <1>2
  <2> QED BY <1>1, <1>3, <2>1, <2>2 DEF EnvelopeOK
<1>8. \A b \in Asset : LogCovers(b)' 
  <2>1. \A s \in Sweeper : tpc[s] = "record" => sweep[s] # NoSweep BY <1>2 DEF SweeperOK, Carrying
  <2>2. sweepFaults' \in Nat /\ sweepFaults' >= sweepFaults BY <1>1, <1>2 DEF TreasuryFlat
  <2>3. \A s \in Sweeper : tpc[s] = "record" => sweep'[s].asset = sweep[s].asset /\ sweep'[s].amount = sweep[s].amount
    BY <1>3, <2>1
  <2> QED BY <1>1, <2>2, <2>3, LogFrame
<1>9. SweepKeepsReserve'
  <2>1. \A s \in Sweeper : tpc[s] \in Measured => sweep[s] # NoSweep BY <1>2 DEF SweeperOK, Carrying, Measured
  <2>2. \A s \in Sweeper : KeepsReserve(s) BY KeepsReserveBySweeper DEF TreasuryInv
  <2>3. \A s \in Sweeper : KeepsReserve(s)' BY <1>1, <1>3, <2>1, <2>2 DEF KeepsReserve
  <2> QED BY <2>3 DEF SweepKeepsReserve, KeepsReserve, Measured
<1> QED BY <1>5, <1>6, <1>7, <1>8, <1>9 DEF TreasuryInv

(* The network applies an envelope: only its owner moves, and every sweep    *)
(* whose balance changes loses its mark.                                     *)
LEMMA ApplySweepOK ==
  ASSUME TreasuryInv, NEW e \in flying, ApplySweep(e)
  PROVE  TreasuryInv'
<1>1. TreasuryFlat /\ (\A t \in Sweeper : SweeperOK(t)) /\ (\A d \in flying : EnvelopeOK(d)) BY DEF TreasuryInv
<1>2. flying' = flying \ {e} /\ UNCHANGED <<tconfig, todoAssets, logged, sweepFaults>> BY DEF ApplySweep
<1>3. /\ e \in Envelope /\ EnvelopeOK(e) /\ e.asset \in Asset /\ e.amount \in 0..TopBalance
      /\ e.owner \in Sweeper \cup {NoSweep}
  BY <1>1 DEF TreasuryFlat, Envelope
<1>4. \A d \in flying' : d.owner \in Sweeper => d.owner # e.owner
  <2> SUFFICES ASSUME NEW d \in flying', d.owner \in Sweeper, d.owner = e.owner PROVE FALSE OBVIOUS
  <2>1. d \in flying /\ d # e BY <1>2
  <2>2. d \in Envelope /\ EnvelopeOK(d) BY <2>1, <1>1 DEF TreasuryFlat
  <2>3. d.asset = e.asset /\ d.amount = e.amount /\ d.seq = e.seq BY <2>2, <1>3 DEF EnvelopeOK
  <2>4. d = e BY <2>2, <2>3, <1>3 DEF Envelope
  <2> QED BY <2>1, <2>4
<1>5. CASE /\ tpc' = [s \in Sweeper |-> IF s = e.owner THEN "error" ELSE tpc[s]]
           /\ UNCHANGED <<tbal, tseq, entries, applied, sweep>>
  <2>1. \A s \in Sweeper : s = e.owner => tpc[s] = "sent" BY <1>3 DEF EnvelopeOK
  <2>2. TreasuryFlat' BY <1>1, <1>2, <1>5 DEF TreasuryFlat, SweepAt
  <2>3. \A t \in Sweeper : SweeperOK(t)' BY <1>1, <1>2, <1>5, <2>1 DEF SweeperOK, Carrying
  <2>4. \A d \in flying' : EnvelopeOK(d)' BY <1>1, <1>2, <1>4, <1>5 DEF EnvelopeOK
  <2>5. \A a \in Asset : LogCovers(a)' BY <1>1, <1>2, <1>5, <2>1, LogFrame DEF TreasuryFlat
  <2>6. SweepKeepsReserve' BY <1>5, ReserveFrame DEF TreasuryInv, Measured
  <2> QED BY <2>2, <2>3, <2>4, <2>5, <2>6 DEF TreasuryInv
<1>6. CASE e.seq = tseq + 1
  <2> DEFINE covered == tbal[e.asset] >= e.amount + (IF e.asset = Native THEN NetworkFee ELSE 0)
             paid == IF covered THEN e.amount ELSE 0
             fee == IF tbal[Native] < NetworkFee THEN tbal[Native] ELSE NetworkFee
  <2>1. /\ tseq' = tseq + 1 /\ entries' = entries /\ sweep' = Stale({e.asset, Native})
        /\ tbal' = [a \in Asset |-> tbal[a] - (IF a = e.asset THEN paid ELSE 0) - (IF a = Native THEN fee ELSE 0)]
        /\ applied' = [applied EXCEPT ![e.asset] = @ + paid]
        /\ tpc' = [s \in Sweeper |-> IF s = e.owner THEN (IF covered THEN "record" ELSE "error") ELSE tpc[s]]
    BY <1>6 DEF ApplySweep
  <2>2. /\ sweep' \in [Sweeper -> SweepLog \cup {NoSweep}]
        /\ \A s \in Sweeper : sweep[s] = NoSweep => sweep'[s] = NoSweep
        /\ \A s \in Sweeper : sweep[s] # NoSweep =>
             /\ sweep'[s] # NoSweep /\ sweep'[s].asset = sweep[s].asset /\ sweep'[s].amount = sweep[s].amount
             /\ sweep'[s].seq = sweep[s].seq /\ sweep'[s].by = sweep[s].by /\ sweep'[s].buffer = sweep[s].buffer
             /\ sweep'[s].clean => sweep[s].clean /\ sweep[s].asset \notin {e.asset, Native}
    BY <1>1, <2>1, StaleMarks
  <2>3. tbal' \in [Asset -> 0..TopBalance]
    <3>1. \A a \in Asset : tbal[a] \in 0..TopBalance BY <1>1 DEF TreasuryFlat
    <3>2. \A a \in Asset : tbal[a] - (IF a = e.asset THEN paid ELSE 0) - (IF a = Native THEN fee ELSE 0) \in 0..TopBalance
      BY <1>3, <3>1
    <3> HIDE DEF paid, fee
    <3> QED BY <2>1, <3>2
  <2>4. applied' \in [Asset -> Nat] BY <1>1, <1>3, <2>1 DEF TreasuryFlat
  <2>5. tpc' \in [Sweeper -> SweepAt] BY <1>1, <2>1 DEF TreasuryFlat, SweepAt
  <2>6. TreasuryFlat'
    <3>1. tseq' \in Nat /\ entries' = entries BY <1>1, <2>1 DEF TreasuryFlat
    <3>2. flying' \subseteq Envelope BY <1>1, <1>2 DEF TreasuryFlat
    <3> QED BY <1>1, <1>2, <2>2, <2>3, <2>4, <2>5, <3>1, <3>2 DEF TreasuryFlat
  <2>7. \A s \in Sweeper : tpc[s] \in Carrying => sweep[s] # NoSweep BY <1>1 DEF SweeperOK
  <2>8. \A s \in Sweeper : s = e.owner => tpc[s] = "sent" /\ sweep[s].asset = e.asset /\ sweep[s].amount = e.amount
    BY <1>3 DEF EnvelopeOK
  <2>9. \A t \in Sweeper : SweeperOK(t)'
    <3> SUFFICES ASSUME NEW t \in Sweeper PROVE SweeperOK(t)' OBVIOUS
    <3>1. (tpc'[t] \in Carrying) <=> (tpc[t] \in Carrying) BY <2>1, <2>8 DEF Carrying
    <3>2. (tpc'[t] = "idle") => (tpc[t] = "idle") BY <2>1
    <3>3. (sweep'[t] = NoSweep) <=> (sweep[t] = NoSweep) BY <2>2
    <3>4. sweep[t] # NoSweep => sweep'[t].by = sweep[t].by BY <2>2
    <3> QED BY <1>1, <1>2, <3>1, <3>2, <3>3, <3>4 DEF SweeperOK
  <2>10. \A d \in flying' : EnvelopeOK(d)'
    <3> SUFFICES ASSUME NEW d \in flying' PROVE EnvelopeOK(d)' OBVIOUS
    <3>1. d \in flying /\ EnvelopeOK(d) BY <1>1, <1>2
    <3>2. d.owner \in Sweeper => sweep[d.owner] # NoSweep BY <3>1, <2>7 DEF EnvelopeOK, Carrying
    <3>3. d.owner \in Sweeper => tpc'[d.owner] = tpc[d.owner] BY <1>4, <2>1
    <3> QED BY <1>2, <2>2, <3>1, <3>2, <3>3 DEF EnvelopeOK
  <2>11. SweepKeepsReserve'
    <3>1. \A s \in Sweeper : KeepsReserve(s) BY KeepsReserveBySweeper DEF TreasuryInv
    <3>2. ASSUME NEW s \in Sweeper, tpc'[s] \in Measured, sweep'[s].clean
          PROVE  /\ tpc[s] \in Measured /\ sweep[s].clean /\ sweep[s].asset \notin {e.asset, Native} /\ sweep[s].asset \in Asset
                 /\ sweep'[s].asset = sweep[s].asset /\ sweep'[s].amount = sweep[s].amount /\ sweep'[s].buffer = sweep[s].buffer
      <4>1. tpc[s] \in Measured /\ tpc[s] \in Carrying BY <2>1, <3>2 DEF Measured, Carrying
      <4>2. sweep[s] # NoSweep BY <4>1, <2>7
      <4>3. sweep[s].asset \in Asset BY <4>2, <1>1 DEF TreasuryFlat, SweepLog
      <4> QED BY <4>1, <4>2, <4>3, <2>2, <3>2
    <3>3. \A a \in Asset \ {e.asset, Native} : tbal'[a] = tbal[a]
      <4>1. \A a \in Asset : tbal[a] \in Int BY <1>1 DEF TreasuryFlat
      <4> HIDE DEF paid, fee
      <4> QED BY <2>1, <4>1
    <3>4. \A s \in Sweeper : KeepsReserve(s)'
      <4> SUFFICES ASSUME NEW s \in Sweeper, tpc'[s] \in Measured, sweep'[s].clean PROVE KeepsReserve(s)' BY DEF KeepsReserve
      <4>1. /\ tpc[s] \in Measured /\ sweep[s].clean /\ sweep[s].asset \notin {e.asset, Native} /\ sweep[s].asset \in Asset
            /\ sweep'[s].asset = sweep[s].asset /\ sweep'[s].amount = sweep[s].amount /\ sweep'[s].buffer = sweep[s].buffer
        BY <3>2
      <4>2. tbal'[sweep[s].asset] = tbal[sweep[s].asset] BY <3>3, <4>1
      <4> QED BY <3>1, <4>1, <4>2 DEF KeepsReserve
    <3> QED BY <3>4 DEF SweepKeepsReserve, KeepsReserve, Measured
  <2>12. \A a \in Asset : LogCovers(a)'
    <3> SUFFICES ASSUME NEW a \in Asset PROVE LogCovers(a)' OBVIOUS
    <3>1. LogCovers(a) /\ logged[a] \in Nat /\ applied[a] \in Nat /\ sweepFaults \in Nat BY <1>1 DEF TreasuryInv, TreasuryFlat
    <3>2. \A s \in Sweeper : Unlogged(a)[s] \in Nat BY <1>1, UnloggedIsNat
    <3>3. SumOver(Unlogged(a), Sweeper) \in Nat BY <1>1, UnloggedIsNat
    <3>4. \A s \in Sweeper : s # e.owner => Unlogged(a)'[s] = Unlogged(a)[s]
      <4>1. \A s \in Sweeper : tpc[s] = "record" => sweep[s] # NoSweep BY <2>7 DEF Carrying
      <4> QED BY <2>1, <2>2, <4>1 DEF Unlogged
    <3>5. applied'[a] = applied[a] + (IF a = e.asset THEN paid ELSE 0) BY <1>1, <1>3, <2>1, <3>1 DEF TreasuryFlat
    <3>6. CASE e.owner \in Sweeper
      <4>1. sweep[e.owner] # NoSweep BY <3>6, <2>7, <2>8 DEF Carrying
      <4>2. sweep'[e.owner].asset = e.asset /\ sweep'[e.owner].amount = e.amount BY <3>6, <4>1, <2>2, <2>8
      <4>3. Unlogged(a)'[e.owner] = IF a = e.asset THEN paid ELSE 0 BY <3>6, <4>2, <2>1 DEF Unlogged
      <4>4. Unlogged(a)[e.owner] = 0 BY <3>6, <2>8 DEF Unlogged
      <4>5. paid \in Nat BY <1>3
      <4>6. \A s \in Sweeper : Unlogged(a)'[s] \in Nat BY <3>2, <3>4, <4>3, <4>5
      <4>7. \A s \in Sweeper \ {e.owner} : Unlogged(a)[s] = Unlogged(a)'[s] BY <3>4
      <4>8. SumOver(Unlogged(a)', Sweeper) + Unlogged(a)[e.owner] = SumOver(Unlogged(a), Sweeper) + Unlogged(a)'[e.owner]
        BY <3>2, <3>6, <4>6, <4>7, FleetIsFinite, SumChangedAt
      <4>9. SumOver(Unlogged(a)', Sweeper) \in Nat BY <4>6, FleetIsFinite, SumIsNat
      <4> HIDE DEF paid
      <4> QED BY <1>2, <3>1, <3>3, <3>5, <4>3, <4>4, <4>5, <4>8, <4>9 DEF LogCovers
    <3>7. CASE e.owner = NoSweep
      <4>1. sweepFaults > 0 BY <3>7, <1>3 DEF EnvelopeOK
      <4>2. \A s \in Sweeper : Unlogged(a)'[s] = Unlogged(a)[s] BY <3>4, <3>7, NoSweepIsNone
      <4>3. SumOver(Unlogged(a)', Sweeper) = SumOver(Unlogged(a), Sweeper) BY <4>2, FleetIsFinite, SumSame
      <4>4. paid \in Nat BY <1>3
      <4> HIDE DEF paid
      <4> QED BY <1>2, <3>1, <3>3, <3>5, <4>1, <4>3, <4>4 DEF LogCovers
    <3> QED BY <1>3, <3>6, <3>7
  <2> QED BY <2>6, <2>9, <2>10, <2>11, <2>12 DEF TreasuryInv
<1>7. CASE e.seq # tseq + 1 BY <1>5, <1>7 DEF ApplySweep, ledgerSide
<1> QED BY <1>6, <1>7

(* The invariant holds at the start.                                         *)
LEMMA TreasuryInitOK == TreasuryInit => TreasuryInv
<1> SUFFICES ASSUME TreasuryInit PROVE TreasuryInv OBVIOUS
<1>1. TreasuryFlat BY DEF TreasuryInit, TreasuryFlat, SweepAt, Config
<1>2. \A s \in Sweeper : SweeperOK(s) BY DEF TreasuryInit, SweeperOK, Carrying
<1>3. \A e \in flying : EnvelopeOK(e) BY DEF TreasuryInit
<1>4. \A a \in Asset : LogCovers(a)
  <2> SUFFICES ASSUME NEW a \in Asset PROVE LogCovers(a) OBVIOUS
  <2>1. \A s \in Sweeper : Unlogged(a)[s] = 0 BY DEF TreasuryInit, Unlogged
  <2>2. SumOver(Unlogged(a), Sweeper) = 0 BY <2>1, FleetIsFinite, SumOfZeros
  <2> QED BY <2>2 DEF LogCovers, TreasuryInit
<1>5. SweepKeepsReserve BY DEF SweepKeepsReserve, TreasuryInit
<1> QED BY <1>1, <1>2, <1>3, <1>4, <1>5 DEF TreasuryInv

(* It implies what the run checks.                                           *)
LEMMA TreasuryInvIsSafe == TreasuryInv => TreasurySafe
<1> SUFFICES ASSUME TreasuryInv PROVE TreasurySafe OBVIOUS
<1>1. TreasuryFlat /\ SweepKeepsReserve /\ \A s \in Sweeper : SweeperOK(s) BY DEF TreasuryInv
<1>2. TreasuryTypeOK
  <2>1. \A s \in Sweeper :
          /\ sweep[s] \in SweepLog \cup {NoSweep}
          /\ Is(s, "idle") => sweep[s] = NoSweep /\ todoAssets[s] = {}
          /\ tpc[s] \in {"check", "load", "submit", "sent", "record", "error"} => sweep[s] # NoSweep
    BY <1>1 DEF TreasuryFlat, SweeperOK, Is, Carrying
  <2> QED BY <1>1, <2>1 DEF TreasuryTypeOK, TreasuryFlat
<1>3. LogAgrees
  <2> SUFFICES ASSUME NEW a \in Asset
               PROVE  /\ logged[a] <= applied[a]
                      /\ (sweepFaults = 0 /\ \A s \in Sweeper : Is(s, "idle")) => logged[a] = applied[a]
    BY DEF LogAgrees
  <2>1. LogCovers(a) /\ logged[a] \in Nat /\ applied[a] \in Nat BY DEF TreasuryInv, TreasuryFlat
  <2>2. SumOver(Unlogged(a), Sweeper) \in Nat BY <1>1, UnloggedIsNat
  <2>3. (\A s \in Sweeper : Is(s, "idle")) => SumOver(Unlogged(a), Sweeper) = 0
    <3> SUFFICES ASSUME \A s \in Sweeper : Is(s, "idle") PROVE SumOver(Unlogged(a), Sweeper) = 0 OBVIOUS
    <3>1. \A s \in Sweeper : Unlogged(a)[s] = 0 BY DEF Unlogged, Is
    <3> QED BY <3>1, FleetIsFinite, SumOfZeros
  <2> QED BY <2>1, <2>2, <2>3 DEF LogCovers
<1> QED BY <1>1, <1>2, <1>3 DEF TreasurySafe

(* Every step keeps it.                                                      *)
LEMMA TreasuryStepOK == TreasuryInv /\ [TreasuryNext]_treasuryVars => TreasuryInv'
<1> SUFFICES ASSUME TreasuryInv, [TreasuryNext]_treasuryVars PROVE TreasuryInv' OBVIOUS
<1>1. CASE UNCHANGED treasuryVars
  <2>1. UNCHANGED <<tbal, tseq, entries, tconfig, tpc, sweep, todoAssets, flying, applied, logged, sweepFaults>>
    BY <1>1 DEF treasuryVars
  <2>2. TreasuryFlat' BY <2>1 DEF TreasuryFlat, TreasuryInv
  <2>3. \A t \in Sweeper : SweeperOK(t)' BY <2>1 DEF SweeperOK, TreasuryInv
  <2>4. \A d \in flying' : EnvelopeOK(d)' BY <2>1 DEF EnvelopeOK, TreasuryInv
  <2>5. \A a \in Asset : LogCovers(a)' BY <2>1, LogFrame DEF TreasuryInv, TreasuryFlat
  <2>6. SweepKeepsReserve' BY <2>1, ReserveFrame DEF TreasuryInv
  <2> QED BY <2>2, <2>3, <2>4, <2>5, <2>6 DEF TreasuryInv
<1>2. CASE TreasuryNext
  <2>1. ASSUME NEW s \in Sweeper, SweepStep(s) PROVE TreasuryInv'
    BY <2>1, HandleSweepOK, VisitAssetOK, SweepRunEndsOK, CheckSweepOK, LoadFeeWalletOK, SubmitSweepOK,
       SweepFailsOK, LogSweepOK DEF SweepStep
  <2>2. ASSUME NEW s \in Sweeper, ManualSweep(s) \/ LoseSweepAnswer(s) \/ LoseSweeper(s) PROVE TreasuryInv'
    BY <2>2, ManualSweepOK, LoseSweepAnswerOK, LoseSweeperOK
  <2>3. ASSUME NEW e \in flying, ApplySweep(e) \/ ExpireSweep(e) PROVE TreasuryInv'
    BY <2>3, ApplySweepOK, ExpireSweepOK
  <2> QED BY <1>2, <2>1, <2>2, <2>3, UpdateConfigOK, AddSubentryOK DEF TreasuryNext
<1> QED BY <1>1, <1>2

(* Whatever sweeps overlap, one that nobody overtook leaves the reserve and  *)
(* the buffer in the fee wallet, the log never claims more than was moved,   *)
(* and without faults it names all of it (ExecuteSweep, GetSweepableAmount). *)
THEOREM SweepsAreSafe == TreasurySpec => []TreasurySafe
<1>1. TreasurySpec => []TreasuryInv BY TreasuryInitOK, TreasuryStepOK, PTL DEF TreasurySpec
<1> QED BY <1>1, TreasuryInvIsSafe, PTL
===============================================================================
