---------------------------- MODULE BatchPayments ----------------------------
(***************************************************************************)
(* Batch payments (internal/batch) and the monthly quota every transfer of *)
(* a tenant passes (transfer.initiate, CreateWithMonthlyLimit).  A batch   *)
(* creates its items one after the other through the transfer service;     *)
(* several batches of one tenant run at once, and settlement and reviews   *)
(* move the rows meanwhile.  Rows reference their wallets by foreign keys  *)
(* (migration 2).                                                          *)
(***************************************************************************)
EXTENDS Integers, FiniteSets, Sequences, FiniteSetsExt

CONSTANTS
  Batch,                        \* batches of one tenant
  BatchSize,                    \* items of a batch
  MonthlyLimit,                 \* the tenant's quota of transfers a month
  MaxBatchFaults                \* bound on failed statements and crashes

ASSUME BatchBounds == BatchSize \in Nat \ {0} /\ MonthlyLimit \in Nat \ {0} /\ MaxBatchFaults \in Nat

Item == 1..BatchSize

(* An item as initiate meets it: in order; refused by a check before the    *)
(* quota (same wallet, no trustline, sanctions); to a wallet that does not  *)
(* exist.                                                                   *)
ItemKind == {"good", "refused", "unknown"}
ItemRow == [item : Item, status : {"pending", "compliance_hold", "confirmed", "failed"}, initiated : BOOLEAN]
Nobody == "nobody"

ASSUME BatchesAreFinite == IsFiniteSet(Batch) /\ Nobody \notin Batch

VARIABLES
  kinds,                        \* kinds[b]: the items of b
  mpc, at,                      \* a request: position; the item it is at
  counted,                      \* transfers of the month as its transaction counted them
  tenantLock,                   \* who holds the tenant's row FOR UPDATE
  batchRows,                    \* rows of transactions with batch_id b, oldest first
  orphaned,                     \* history: held rows whose review could not be recorded
  batchFaults

batchVars == <<kinds, mpc, at, counted, tenantLock, batchRows, orphaned, batchFaults>>
quota == <<counted, tenantLock>>

BatchTypeOK ==
  /\ kinds \in [Batch -> [Item -> ItemKind]] /\ at \in [Batch -> 1..(BatchSize + 1)]
  /\ mpc \in [Batch -> {"none", "initiate", "locked", "counted", "hold", "record", "done", "aborted", "lost"}]
  /\ \A b \in Batch : \A i \in DOMAIN batchRows[b] : batchRows[b][i] \in ItemRow
  /\ tenantLock \in Batch \cup {Nobody} /\ orphaned \subseteq Batch \X Item
  /\ \A b \in Batch : (tenantLock = b) <=> (mpc[b] \in {"locked", "counted"})
  /\ batchFaults \in 0..MaxBatchFaults

BatchInit ==
  /\ kinds \in [Batch -> [Item -> ItemKind]] /\ at = [b \in Batch |-> 1]
  /\ mpc = [b \in Batch |-> "none"] /\ counted = [b \in Batch |-> 0] /\ tenantLock = Nobody
  /\ batchRows = [b \in Batch |-> <<>>] /\ orphaned = {} /\ batchFaults = 0

BatchFault == batchFaults < MaxBatchFaults /\ batchFaults' = batchFaults + 1
At(b, pc) == mpc' = [mpc EXCEPT ![b] = pc]
AddRow(b, status, initiated) ==
  batchRows' = [batchRows EXCEPT ![b] = Append(@, [item |-> at[b], status |-> status, initiated |-> initiated])]
NextItem(b) == at' = [at EXCEPT ![b] = @ + 1] /\ At(b, IF at[b] = BatchSize THEN "done" ELSE "initiate")
-----------------------------------------------------------------------------
(* createBatch and CreateBatch: the items are validated, the batch row      *)
(* written.                                                                 *)
CreateBatch(b) ==
  /\ mpc[b] = "none" /\ At(b, "initiate")
  /\ UNCHANGED <<kinds, at, quota, batchRows, orphaned, batchFaults>>

(* initiate up to the quota. *)
Refuse(b) ==
  /\ mpc[b] = "initiate" /\ kinds[b][at[b]] # "good" /\ At(b, "record")
  /\ UNCHANGED <<kinds, at, quota, batchRows, orphaned, batchFaults>>

(* Seeded fault: no row is locked before the count. *)
NoLock(b) == TRUE

TenantFree(b) == tenantLock = Nobody

(* CreateWithMonthlyLimit: the tenant's row is locked, *)
LockTenant(b) ==
  /\ mpc[b] = "initiate" /\ kinds[b][at[b]] = "good" /\ TenantFree(b)
  /\ tenantLock' = b /\ At(b, "locked")
  /\ UNCHANGED <<kinds, at, counted, batchRows, orphaned, batchFaults>>

(* the month's rows are counted, those of refused items among them, *)
CountMonth(b) ==
  /\ mpc[b] = "locked" /\ counted' = [counted EXCEPT ![b] = MapThenSumSet(LAMBDA c : Len(batchRows[c]), Batch)] /\ At(b, "counted")
  /\ UNCHANGED <<kinds, at, tenantLock, batchRows, orphaned, batchFaults>>

(* Seeded fault: the transaction of a request over the quota stays open. *)
LeaveOpen(b) ==
  /\ mpc[b] = "counted"
  /\ \/ counted[b] >= MonthlyLimit /\ At(b, "record") /\ UNCHANGED <<batchRows, at, batchFaults, quota>>
     \/ /\ counted[b] < MonthlyLimit /\ AddRow(b, "pending", TRUE) /\ NextItem(b) /\ UNCHANGED batchFaults
        /\ tenantLock' = Nobody /\ counted' = [counted EXCEPT ![b] = 0]
  /\ UNCHANGED <<kinds, orphaned>>

(* and the row is inserted, as the screening decided, unless the quota is   *)
(* used up; the commit releases the lock.  A cleared transfer is enqueued   *)
(* (an error of that is ignored), a held one gets its review.               *)
InsertWithinLimit(b) ==
  /\ mpc[b] = "counted" /\ tenantLock' = Nobody /\ counted' = [counted EXCEPT ![b] = 0]
  /\ \/ counted[b] >= MonthlyLimit /\ At(b, "record") /\ UNCHANGED <<batchRows, at, batchFaults>>
     \/ counted[b] < MonthlyLimit /\ BatchFault /\ At(b, "record") /\ UNCHANGED <<batchRows, at>>
     \/ counted[b] < MonthlyLimit /\ AddRow(b, "pending", TRUE) /\ NextItem(b) /\ UNCHANGED batchFaults
     \/ counted[b] < MonthlyLimit /\ AddRow(b, "compliance_hold", TRUE) /\ At(b, "hold") /\ UNCHANGED <<at, batchFaults>>
  /\ UNCHANGED <<kinds, orphaned>>

(* RecordHold: when it fails the held row stays and the item is an error. *)
RecordHold(b) ==
  /\ mpc[b] = "hold"
  /\ \/ NextItem(b) /\ UNCHANGED <<orphaned, batchFaults>>
     \/ BatchFault /\ At(b, "record") /\ orphaned' = orphaned \cup {<<b, at[b]>>} /\ UNCHANGED at
  /\ UNCHANGED <<kinds, quota, batchRows>>

(* Seeded fault: an item that could not be initiated leaves no row. *)
SkipFailedItem(b) ==
  /\ mpc[b] = "record" /\ NextItem(b)
  /\ UNCHANGED <<kinds, quota, batchRows, orphaned, batchFaults>>

(* The failed row of an item; a row for a wallet that does not exist breaks *)
(* the foreign key, and an error ends the batch where it stands.            *)
RecordFailedItem(b) ==
  /\ mpc[b] = "record"
  /\ \/ kinds[b][at[b]] # "unknown" /\ AddRow(b, "failed", FALSE) /\ NextItem(b) /\ UNCHANGED batchFaults
     \/ kinds[b][at[b]] = "unknown" /\ At(b, "aborted") /\ UNCHANGED <<at, batchRows, batchFaults>>
     \/ BatchFault /\ At(b, "aborted") /\ UNCHANGED <<at, batchRows>>
  /\ UNCHANGED <<kinds, quota, orphaned>>

(* The process dies; its database transaction is rolled back. *)
LoseBatch(b) ==
  /\ mpc[b] \in {"initiate", "locked", "counted", "hold", "record"} /\ BatchFault /\ At(b, "lost")
  /\ tenantLock' = (IF tenantLock = b THEN Nobody ELSE tenantLock) /\ counted' = [counted EXCEPT ![b] = 0]
  /\ orphaned' = (IF mpc[b] = "hold" THEN orphaned \cup {<<b, at[b]>>} ELSE orphaned)
  /\ UNCHANGED <<kinds, at, batchRows>>

(* Settlement and reviews; a held row without a review stays (external to   *)
(* this module: Transfers has them).                                        *)
RowSettles(b) ==
  /\ \E i \in DOMAIN batchRows[b], s \in {"pending", "confirmed", "failed"} :
       /\ <<batchRows[b][i].status, s>> \in {<<"pending", "confirmed">>, <<"pending", "failed">>,
                                            <<"compliance_hold", "pending">>, <<"compliance_hold", "failed">>}
       /\ batchRows[b][i].status = "compliance_hold" =>
            <<b, batchRows[b][i].item>> \notin orphaned /\ ~(mpc[b] \in {"hold", "record"} /\ batchRows[b][i].item = at[b])
       /\ batchRows' = [batchRows EXCEPT ![b][i].status = s]
  /\ UNCHANGED <<kinds, mpc, at, quota, orphaned, batchFaults>>

BatchStep(b) ==
  \/ Refuse(b) \/ LockTenant(b) \/ CountMonth(b) \/ InsertWithinLimit(b) \/ RecordHold(b) \/ RecordFailedItem(b)

BatchNext == \E b \in Batch : CreateBatch(b) \/ BatchStep(b) \/ LoseBatch(b) \/ RowSettles(b)

BatchSpec == BatchInit /\ [][BatchNext]_batchVars
-----------------------------------------------------------------------------
Having(b, statuses) == Cardinality({i \in DOMAIN batchRows[b] : batchRows[b][i].status \in statuses})

(* Seeded fault: a held row counts as one still on its way. *)
StatusWithoutHolds(b) ==
  LET succeeded == Having(b, {"confirmed"})
      failed == Having(b, {"failed"} \cup {"compliance_hold"})
      total == Len(batchRows[b])
  IN  CASE succeeded + failed = 0 -> "pending"
        [] succeeded + failed > 0 /\ succeeded + failed < total -> "processing"
        [] succeeded + failed > 0 /\ failed = total -> "failed"
        [] succeeded + failed > 0 /\ succeeded = total -> "completed"
        [] OTHER -> "partial"

(* aggregateStatus, over the rows there are. *)
AggregateStatus(b) ==
  LET succeeded == Having(b, {"confirmed"})
      failed == Having(b, {"failed"})
      held == Having(b, {"compliance_hold"})
      total == Len(batchRows[b])
      resolved == succeeded + failed
  IN  IF held > 0 /\ resolved + held = total THEN "compliance_hold"
      ELSE IF resolved = 0 THEN "pending"
      ELSE IF resolved < total THEN "processing"
      ELSE IF failed = total THEN "failed"
      ELSE IF succeeded = total THEN "completed"
      ELSE "partial"

Initiated ==
  {p \in Batch \X (1..(2 * BatchSize)) : p[2] \in DOMAIN batchRows[p[1]] /\ batchRows[p[1]][p[2]].initiated}

(* However many batches run at once, no more transfers are initiated in the *)
(* month than the quota allows (CreateWithMonthlyLimit).                    *)
QuotaHolds == Cardinality(Initiated) <= MonthlyLimit

(* A request that ended well has a row for each of its items, and no item   *)
(* has two that may pay it; where nothing was orphaned there is one each.   *)
ItemsAccounted ==
  \A b \in Batch, k \in Item :
    LET rowsOf == {i \in DOMAIN batchRows[b] : batchRows[b][i].item = k} IN
    /\ Cardinality({i \in rowsOf : batchRows[b][i].initiated}) <= 1
    /\ mpc[b] = "done" => rowsOf # {}
    /\ <<b, k>> \notin orphaned => Cardinality(rowsOf) <= 1

(* What a batch that was created whole reports is true of its items: all    *)
(* paid, all failed, some of both, or one waiting for a reviewer.           *)
StatusIsOfItems ==
  \A b \in Batch : mpc[b] = "done" =>
    LET has(k, s) == \E i \in DOMAIN batchRows[b] : batchRows[b][i].item = k /\ batchRows[b][i].status = s IN
    /\ AggregateStatus(b) = "completed" <=> \A k \in Item : has(k, "confirmed")
    /\ AggregateStatus(b) = "failed" <=> \A k \in Item : has(k, "failed") /\ ~has(k, "compliance_hold")
    /\ AggregateStatus(b) \in {"completed", "failed", "partial"} => \A k \in Item : ~has(k, "compliance_hold") /\ ~has(k, "pending")
    /\ AggregateStatus(b) = "compliance_hold" => \E k \in Item : has(k, "compliance_hold")

(* Every batch request comes to an end: the one that waits for the tenant's *)
(* row gets it, because no transaction that holds it stays open.            *)
BatchEnds == \A b \in Batch : mpc[b] = "initiate" ~> mpc[b] \in {"done", "aborted", "lost"}

(* CreateBatch says of an item that fails, "e.g. an invalid destination     *)
(* wallet", that it is recorded "rather than aborting the remaining items". *)
FailedItemGoesOn == batchFaults = 0 => \A b \in Batch : mpc[b] # "aborted"

(* docs/FEATURES_EXPLAINED.md says of a batch: all or none. *)
AllOrNothing ==
  batchFaults = 0 => \A b \in Batch : mpc[b] \in {"done", "aborted"} =>
    \A i, j \in DOMAIN batchRows[b] : batchRows[b][i].initiated = batchRows[b][j].initiated

(* Concurrent batches keep the tenant's monthly quota, every item a batch has *)
(* passed has a row, and the status read back is that of the rows (CreateBatch, *)
(* CreateWithMonthlyLimit, aggregateStatus).                                *)
BatchSafe ==
  /\ BatchTypeOK
  /\ QuotaHolds
  /\ ItemsAccounted
  /\ StatusIsOfItems
=============================================================================
