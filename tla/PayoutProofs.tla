----------------------------- MODULE PayoutProofs -----------------------------
(***************************************************************************)
(* What the modules of batch, fiat and scheduled payouts guarantee for any *)
(* number of batches, orders, schedules and requests.                      *)
(***************************************************************************)
EXTENDS Schedule, FiatRails, BatchPayments, Counting, FiniteSetTheorems, SequenceTheorems, TLAPS

(***************************************************************************)
(* Batches.  The tenant's row is locked from the count to the insert, so   *)
(* that nobody else initiates a transfer in between and the count bounds   *)
(* the transfers there are; the count is a sum over the batches and is     *)
(* compared with the number of pairs of a batch and an initiated row.      *)
(***************************************************************************)
USE BatchBounds

RequestAt == {"none", "initiate", "locked", "counted", "hold", "record", "done", "aborted", "lost"}

BatchFlat ==
  /\ kinds \in [Batch -> [Item -> ItemKind]] /\ at \in [Batch -> 1..(BatchSize + 1)]
  /\ mpc \in [Batch -> RequestAt] /\ counted \in [Batch -> Nat] /\ tenantLock \in Batch \cup {Nobody}
  /\ batchRows \in [Batch -> Seq(ItemRow)] /\ orphaned \subseteq Batch \X Item
  /\ batchFaults \in 0..MaxBatchFaults

(* Where a request may stand after its hold could not be recorded.           *)
Later == {"record", "aborted", "lost"}

(* The rows of a batch: one for each item it has passed, none for the one it *)
(* is at but for a hold, and a second one only for an item whose hold was    *)
(* not recorded.                                                             *)
PassedHaveRows(b) == \A k \in 1..(at[b] - 1) : \E i \in DOMAIN batchRows[b] : batchRows[b][i].item = k
RowOK(b, i) ==
  LET row == batchRows[b][i] IN
  /\ row.item <= at[b]
  /\ row.item = at[b] => /\ row.initiated /\ row.status = "compliance_hold"
                         /\ mpc[b] = "hold" \/ (mpc[b] \in Later /\ <<b, at[b]>> \in orphaned)
  /\ ~row.initiated => row.status = "failed"
TwiceIsOrphaned(b) ==
  \A i, j \in DOMAIN batchRows[b] : (i # j /\ batchRows[b][i].item = batchRows[b][j].item) =>
    /\ <<b, batchRows[b][i].item>> \in orphaned
    /\ ~(batchRows[b][i].initiated /\ batchRows[b][j].initiated)
OrphanOK(b, k) ==
  /\ k <= at[b] /\ (k = at[b] => mpc[b] \in Later)
  /\ \E i \in DOMAIN batchRows[b] : batchRows[b][i].item = k /\ batchRows[b][i].initiated
  /\ \A i \in DOMAIN batchRows[b] : (batchRows[b][i].item = k /\ batchRows[b][i].initiated) => batchRows[b][i].status = "compliance_hold"

RequestOK(b) ==
  /\ (mpc[b] = "done") <=> (at[b] = BatchSize + 1)
  /\ (tenantLock = b) <=> (mpc[b] \in {"locked", "counted"})
  /\ mpc[b] = "hold" => \E i \in DOMAIN batchRows[b] : batchRows[b][i].item = at[b]
  /\ PassedHaveRows(b)
  /\ \A i \in DOMAIN batchRows[b] : RowOK(b, i)
  /\ TwiceIsOrphaned(b)
  /\ \A k \in Item : <<b, k>> \in orphaned => OrphanOK(b, k)

(* While a request is between its count and its insert nobody else initiates *)
(* a transfer.                                                               *)
CountIsEnough == \A b \in Batch : mpc[b] = "counted" => Cardinality(Initiated) <= counted[b]

BatchInv ==
  /\ BatchFlat
  /\ \A b \in Batch : RequestOK(b)
  /\ CountIsEnough
  /\ QuotaHolds

(* The items of all batches that may have initiated a transfer are finitely  *)
(* many.                                                                     *)
LEMMA InitiatedIsFinite ==
  IsFiniteSet(Initiated) /\ Cardinality(Initiated) \in Nat
<1>1. IsFiniteSet(1..(2 * BatchSize)) BY FS_Interval
<1>2. IsFiniteSet(Batch \X (1..(2 * BatchSize))) BY <1>1, BatchesAreFinite, FS_Product
<1>3. Initiated \in SUBSET (Batch \X (1..(2 * BatchSize))) BY DEF Initiated
<1>4. IsFiniteSet(Initiated) BY <1>2, <1>3, FS_Subset
<1> QED BY <1>4, FS_CardinalityType

(* They are no more than the rows of all batches together.                   *)
LEMMA InitiatedWithinRows ==
  ASSUME BatchFlat
  PROVE  /\ MapThenSumSet(LAMBDA c : Len(batchRows[c]), Batch) \in Nat
         /\ Cardinality(Initiated) <= MapThenSumSet(LAMBDA c : Len(batchRows[c]), Batch)
<1> DEFINE n == [c \in Batch |-> Len(batchRows[c])]
<1>1. \A c \in Batch : n[c] \in Nat BY DEF BatchFlat
<1>2. \A p \in Initiated : p = <<p[1], p[2]>> /\ p[1] \in Batch /\ p[2] \in 1..n[p[1]]
  BY DEF Initiated, BatchFlat
<1> HIDE DEF n
<1>3. Cardinality(Initiated) <= SumOver(n, Batch) BY <1>1, <1>2, BatchesAreFinite, PairsAreCounted
<1>4. SumOver(n, Batch) \in Nat BY <1>1, BatchesAreFinite, SumIsNat
<1>5. SumOver(n, Batch) = MapThenSumSet(LAMBDA c : Len(batchRows[c]), Batch)
  <2> DEFINE Unf(g) == g = [s \in SUBSET Batch |-> IF s = {} THEN 0 ELSE
                               Len(batchRows[CHOOSE x \in s : TRUE]) + g[s \ {CHOOSE x \in s : TRUE}]]
  <2>1. MapThenSumSet(LAMBDA c : Len(batchRows[c]), Batch) = (CHOOSE g : Unf(g))[Batch]
    BY DEF MapThenSumSet, MapThenFoldSet
  <2>2. \A g : Unf(g) <=> Unfolds(n, SUBSET Batch, g)
    <3> SUFFICES ASSUME NEW g PROVE Unf(g) <=> Unfolds(n, SUBSET Batch, g) OBVIOUS
    <3>1. \A s \in SUBSET Batch : s # {} => n[CHOOSE x \in s : TRUE] = Len(batchRows[CHOOSE x \in s : TRUE]) BY DEF n
    <3>2. [s \in SUBSET Batch |-> IF s = {} THEN 0 ELSE n[CHOOSE x \in s : TRUE] + g[s \ {CHOOSE x \in s : TRUE}]]
        = [s \in SUBSET Batch |-> IF s = {} THEN 0 ELSE Len(batchRows[CHOOSE x \in s : TRUE]) + g[s \ {CHOOSE x \in s : TRUE}]]
      BY <3>1
    <3> QED BY <3>2 DEF Unfolds
  <2> HIDE DEF Unf
  <2>3. (CHOOSE g : Unf(g)) = (CHOOSE g : Unfolds(n, SUBSET Batch, g)) BY <2>2
  <2> QED BY <2>1, <2>3, SumIsUnfolded
<1> QED BY <1>3, <1>4, <1>5

(* A step that initiates nothing and lets no batch count keeps the monthly   *)
(* quota.                                                                    *)
LEMMA QuotaFrame ==
  ASSUME BatchInv, Initiated' \subseteq Initiated,
         \A c \in Batch : mpc'[c] = "counted" => mpc[c] = "counted" /\ counted'[c] = counted[c]
  PROVE  CountIsEnough' /\ QuotaHolds'
<1>1. IsFiniteSet(Initiated) /\ Cardinality(Initiated) \in Nat BY InitiatedIsFinite
<1>2. IsFiniteSet(Initiated') /\ Cardinality(Initiated') <= Cardinality(Initiated) BY <1>1, FS_Subset
<1>3. Cardinality(Initiated') \in Nat BY <1>2, FS_CardinalityType
<1>4. QuotaHolds' BY <1>1, <1>2, <1>3 DEF BatchInv, QuotaHolds
<1>5. CountIsEnough'
  <2> SUFFICES ASSUME NEW c \in Batch, mpc'[c] = "counted" PROVE Cardinality(Initiated') <= counted'[c] BY DEF CountIsEnough
  <2>1. Cardinality(Initiated) <= counted[c] /\ counted'[c] = counted[c] /\ counted[c] \in Nat
    BY DEF BatchInv, CountIsEnough, BatchFlat
  <2> QED BY <1>1, <1>2, <1>3, <2>1
<1> QED BY <1>4, <1>5

(* A request that is left alone.                                             *)
LEMMA OthersKeep ==
  ASSUME NEW c \in Batch, RequestOK(c), mpc'[c] = mpc[c], at'[c] = at[c], batchRows'[c] = batchRows[c],
         \A k : <<c, k>> \in orphaned' <=> <<c, k>> \in orphaned,
         (tenantLock' = c) <=> (tenantLock = c)
  PROVE  RequestOK(c)'
<1>1. \A i \in DOMAIN batchRows'[c] : RowOK(c, i)' BY DEF RequestOK, RowOK
<1>2. TwiceIsOrphaned(c)' BY DEF RequestOK, TwiceIsOrphaned
<1>3. \A k \in Item : <<c, k>> \in orphaned' => OrphanOK(c, k)' BY DEF RequestOK, OrphanOK
<1>4. PassedHaveRows(c)' BY DEF RequestOK, PassedHaveRows
<1> QED BY <1>1, <1>2, <1>3, <1>4 DEF RequestOK, Item

(* A request that moves and leaves its rows, its item and the orphans alone. *)
LEMMA MovesOn ==
  ASSUME NEW b \in Batch, RequestOK(b), at'[b] = at[b], batchRows'[b] = batchRows[b],
         \A k : <<b, k>> \in orphaned' <=> <<b, k>> \in orphaned,
         mpc[b] \in {"none", "initiate", "locked", "counted", "record"}, mpc[b] \in Later => mpc'[b] \in Later,
         mpc'[b] \notin {"hold", "done"},
         (tenantLock' = b) <=> (mpc'[b] \in {"locked", "counted"})
  PROVE  RequestOK(b)'
<1>1. \A i \in DOMAIN batchRows'[b] : RowOK(b, i)' BY DEF RequestOK, RowOK
<1>2. TwiceIsOrphaned(b)' BY DEF RequestOK, TwiceIsOrphaned
<1>3. \A k \in Item : <<b, k>> \in orphaned' => OrphanOK(b, k)' BY DEF RequestOK, OrphanOK
<1>4. PassedHaveRows(b)' BY DEF RequestOK, PassedHaveRows
<1> QED BY <1>1, <1>2, <1>3, <1>4 DEF RequestOK, Item

(* A step of b that leaves rows, items, orphans and counts alone.            *)
LEMMA RequestMoves ==
  ASSUME BatchInv, NEW b \in Batch, NEW pc \in RequestAt \ {"hold", "done", "counted"}, mpc' = [mpc EXCEPT ![b] = pc],
         mpc[b] \in {"none", "initiate", "locked", "counted", "record"}, mpc[b] \in Later => pc \in Later,
         UNCHANGED <<kinds, at, batchRows, orphaned>>, counted' \in [Batch -> Nat], batchFaults' \in 0..MaxBatchFaults,
         \A c \in Batch \ {b} : counted'[c] = counted[c] /\ ((tenantLock' = c) <=> (tenantLock = c)),
         (tenantLock' = b) <=> (pc = "locked"), tenantLock' \in Batch \cup {Nobody}
  PROVE  BatchInv'
<1>1. BatchFlat /\ \A c \in Batch : RequestOK(c) BY DEF BatchInv
<1>2. mpc'[b] = pc /\ \A c \in Batch \ {b} : mpc'[c] = mpc[c] BY <1>1 DEF BatchFlat
<1>3. BatchFlat' BY <1>1 DEF BatchFlat
<1>4. \A c \in Batch \ {b} : RequestOK(c)' BY <1>1, <1>2, OthersKeep
<1>5. RequestOK(b)' BY <1>1, <1>2, MovesOn
<1>6. Initiated' = Initiated BY DEF Initiated
<1>7. CountIsEnough' /\ QuotaHolds' BY <1>2, <1>6, QuotaFrame
<1> QED BY <1>3, <1>4, <1>5, <1>7 DEF BatchInv

(* A batch begins with nothing initiated.                                    *)
LEMMA CreateBatchOK == ASSUME BatchInv, NEW b \in Batch, CreateBatch(b) PROVE BatchInv'
<1>1. BatchFlat /\ RequestOK(b) BY DEF BatchInv
<1>2. tenantLock # b BY <1>1 DEF RequestOK, CreateBatch
<1> QED BY <1>1, <1>2, RequestMoves DEF CreateBatch, At, quota, BatchFlat, RequestAt, Later

(* An item that is refused initiates nothing.                                *)
LEMMA RefuseOK == ASSUME BatchInv, NEW b \in Batch, Refuse(b) PROVE BatchInv'
<1>1. BatchFlat /\ RequestOK(b) BY DEF BatchInv
<1>2. tenantLock # b BY <1>1 DEF RequestOK, Refuse
<1> QED BY <1>1, <1>2, RequestMoves DEF Refuse, At, quota, BatchFlat, RequestAt, Later

(* One batch holds the lock of the tenant at a time.                         *)
LEMMA LockTenantOK == ASSUME BatchInv, NEW b \in Batch, LockTenant(b) PROVE BatchInv'
<1>1. BatchFlat BY DEF BatchInv
<1>2. tenantLock = Nobody /\ Nobody \notin Batch BY BatchesAreFinite DEF LockTenant, TenantFree
<1> QED BY <1>1, <1>2, RequestMoves DEF LockTenant, At, BatchFlat, RequestAt, Later

(* The count is taken under the lock, so it stays at least what is           *)
(* initiated.                                                                *)
LEMMA CountMonthOK == ASSUME BatchInv, NEW b \in Batch, CountMonth(b) PROVE BatchInv'
<1>1. BatchFlat /\ \A c \in Batch : RequestOK(c) BY DEF BatchInv
<1> DEFINE month == MapThenSumSet(LAMBDA c : Len(batchRows[c]), Batch)
<1>2. month \in Nat /\ Cardinality(Initiated) <= month BY <1>1, InitiatedWithinRows
<1>3. /\ mpc[b] = "locked" /\ counted' = [counted EXCEPT ![b] = month] /\ mpc' = [mpc EXCEPT ![b] = "counted"]
      /\ UNCHANGED <<kinds, at, tenantLock, batchRows, orphaned, batchFaults>>
  BY DEF CountMonth, At
<1> HIDE DEF month
<1>4. mpc'[b] = "counted" /\ counted'[b] = month /\ \A c \in Batch \ {b} : mpc'[c] = mpc[c] /\ counted'[c] = counted[c]
  BY <1>1, <1>3 DEF BatchFlat
<1>5. BatchFlat' BY <1>1, <1>2, <1>3 DEF BatchFlat, RequestAt
<1>6. \A c \in Batch \ {b} : RequestOK(c)' BY <1>1, <1>3, <1>4, OthersKeep
<1>7. tenantLock = b BY <1>1, <1>3 DEF RequestOK
<1>8. RequestOK(b)' BY <1>1, <1>3, <1>4, <1>7, MovesOn DEF Later
<1>9. Initiated' = Initiated BY <1>3 DEF Initiated
<1>10. CountIsEnough' BY <1>2, <1>4, <1>9 DEF CountIsEnough, BatchInv
<1>11. QuotaHolds' BY <1>9 DEF QuotaHolds, BatchInv
<1> QED BY <1>5, <1>6, <1>8, <1>10, <1>11 DEF BatchInv

(* A request that is not done stands at one of its items.                    *)
LEMMA StandsAtItem ==
  ASSUME BatchInv, NEW b \in Batch, mpc[b] # "done"
  PROVE  at[b] \in Item /\ at[b] # BatchSize + 1
<1>1. BatchFlat /\ RequestOK(b) BY DEF BatchInv
<1>2. at[b] \in 1..(BatchSize + 1) BY <1>1 DEF BatchFlat
<1>3. at[b] # BatchSize + 1 BY <1>1 DEF RequestOK
<1> QED BY <1>2, <1>3 DEF Item

(* What AddRow does to the rows of its batch.                                *)
LEMMA AddedRow ==
  ASSUME BatchInv, NEW b \in Batch, NEW st \in {"pending", "compliance_hold", "confirmed", "failed"}, NEW ini \in BOOLEAN,
         mpc[b] # "done", AddRow(b, st, ini)
  PROVE  LET n == Len(batchRows[b]) IN
         /\ n \in Nat /\ DOMAIN batchRows[b] = 1..n
         /\ batchRows' \in [Batch -> Seq(ItemRow)] /\ DOMAIN batchRows'[b] = 1..(n + 1)
         /\ batchRows'[b][n + 1] = [item |-> at[b], status |-> st, initiated |-> ini]
         /\ \A i \in 1..n : batchRows'[b][i] = batchRows[b][i]
         /\ \A c \in Batch \ {b} : batchRows'[c] = batchRows[c]
         /\ Initiated' \subseteq (IF ini THEN Initiated \cup {<<b, n + 1>>} ELSE Initiated)
         /\ at[b] \in Item
<1> DEFINE n == Len(batchRows[b])
           row == [item |-> at[b], status |-> st, initiated |-> ini]
<1>1. BatchFlat /\ RequestOK(b) BY DEF BatchInv
<1>2. at[b] \in Item BY StandsAtItem
<1>3. row \in ItemRow BY <1>2 DEF ItemRow
<1>4. batchRows[b] \in Seq(ItemRow) BY <1>1 DEF BatchFlat
<1>5. batchRows' = [batchRows EXCEPT ![b] = Append(batchRows[b], row)] BY DEF AddRow
<1>6. batchRows'[b] = Append(batchRows[b], row) /\ \A c \in Batch \ {b} : batchRows'[c] = batchRows[c] BY <1>1, <1>5 DEF BatchFlat
<1>7. row.initiated = ini OBVIOUS
<1> HIDE DEF row
<1>8. Append(batchRows[b], row) \in Seq(ItemRow) BY <1>3, <1>4
<1>9. n \in Nat /\ DOMAIN batchRows[b] = 1..n /\ DOMAIN batchRows'[b] = 1..(n + 1) BY <1>4, <1>6, <1>3
<1>10. batchRows'[b][n + 1] = row /\ \A i \in 1..n : batchRows'[b][i] = batchRows[b][i] BY <1>4, <1>6, <1>3
<1>11. batchRows' \in [Batch -> Seq(ItemRow)] BY <1>1, <1>5, <1>8 DEF BatchFlat
<1> HIDE DEF n
<1>12. Initiated' \subseteq (IF ini THEN Initiated \cup {<<b, n + 1>>} ELSE Initiated)
  <2> SUFFICES ASSUME NEW p \in Initiated' PROVE p \in Initiated \/ (ini /\ p = <<b, n + 1>>) OBVIOUS
  <2>1. /\ p \in Batch \X (1..(2 * BatchSize)) /\ p[1] \in Batch /\ p[2] \in DOMAIN batchRows'[p[1]]
        /\ batchRows'[p[1]][p[2]].initiated /\ p = <<p[1], p[2]>>
    BY DEF Initiated
  <2>2. CASE p[1] # b
    <3>1. batchRows'[p[1]] = batchRows[p[1]] BY <2>1, <2>2, <1>6
    <3> QED BY <2>1, <3>1 DEF Initiated
  <2>3. CASE p[1] = b /\ p[2] = n + 1 BY <2>1, <2>3, <1>10, <1>7
  <2>4. CASE p[1] = b /\ p[2] # n + 1
    <3>1. p[2] \in 1..n BY <2>1, <2>4, <1>9
    <3>2. p[2] \in DOMAIN batchRows[p[1]] /\ batchRows[p[1]][p[2]].initiated BY <2>1, <2>4, <3>1, <1>9, <1>10
    <3> QED BY <2>1, <3>2 DEF Initiated
  <2> QED BY <2>2, <2>3, <2>4
<1> QED BY <1>2, <1>6, <1>9, <1>10, <1>11, <1>12 DEF n, row

(* The next item begins after a row of this one was added.                   *)
LEMMA NextItemAfterRow ==
  ASSUME BatchInv, NEW b \in Batch, NEW st \in {"pending", "failed"}, NEW ini \in BOOLEAN,
         AddRow(b, st, ini), NextItem(b), ~ini => st = "failed",
         \/ ini /\ mpc[b] = "counted"
         \/ ~ini /\ mpc[b] = "record",
         orphaned' = orphaned, tenantLock' # b
  PROVE  RequestOK(b)'
<1> DEFINE n == Len(batchRows[b])
           R == batchRows[b]
<1>1. BatchFlat /\ RequestOK(b) BY DEF BatchInv
<1>2. /\ n \in Nat /\ DOMAIN R = 1..n
      /\ batchRows' \in [Batch -> Seq(ItemRow)] /\ DOMAIN batchRows'[b] = 1..(n + 1)
      /\ batchRows'[b][n + 1] = [item |-> at[b], status |-> st, initiated |-> ini]
      /\ \A i \in 1..n : batchRows'[b][i] = R[i]
      /\ at[b] \in Item
  BY AddedRow
<1>3. batchRows'[b][n + 1].item = at[b] /\ batchRows'[b][n + 1].status = st /\ batchRows'[b][n + 1].initiated = ini BY <1>2
<1>4. at'[b] = at[b] + 1 /\ mpc'[b] = IF at[b] = BatchSize THEN "done" ELSE "initiate"
  BY <1>1 DEF NextItem, At, BatchFlat
<1>5. \A i \in 1..n : RowOK(b, i) BY <1>1, <1>2 DEF RequestOK
<1>6. \A i \in 1..n : R[i] \in ItemRow /\ R[i].item \in Nat
  <2>1. R \in Seq(ItemRow) BY <1>1 DEF BatchFlat
  <2> HIDE DEF R
  <2>2. \A i \in 1..n : R[i] \in ItemRow BY <2>1, <1>2
  <2> QED BY <2>2 DEF ItemRow, Item
<1> HIDE DEF n, R
<1>7. \A i \in 1..(n + 1) : RowOK(b, i)'
  <2> SUFFICES ASSUME NEW i \in 1..(n + 1) PROVE RowOK(b, i)' OBVIOUS
  <2>1. CASE i = n + 1 BY <2>1, <1>2, <1>3, <1>4 DEF RowOK, Item
  <2>2. CASE i # n + 1
    <3>1. i \in 1..n BY <2>2, <1>2
    <3>2. R[i].item \in Nat /\ R[i].item <= at[b] /\ (~R[i].initiated => R[i].status = "failed")
      BY <3>1, <1>5, <1>6 DEF RowOK, R
    <3>3. R[i].item # at'[b] /\ R[i].item <= at'[b] BY <3>2, <1>2, <1>4 DEF Item
    <3> QED BY <3>1, <3>2, <3>3, <1>2 DEF RowOK
  <2> QED BY <2>1, <2>2
<1>8. PassedHaveRows(b)'
  <2> SUFFICES ASSUME NEW k \in 1..(at'[b] - 1) PROVE \E i \in DOMAIN batchRows'[b] : batchRows'[b][i].item = k
    BY DEF PassedHaveRows
  <2>1. CASE k = at[b] BY <2>1, <1>2, <1>3
  <2>2. CASE k # at[b]
    <3>1. k \in 1..(at[b] - 1) BY <2>2, <1>2, <1>4 DEF Item
    <3>2. PICK i \in 1..n : R[i].item = k BY <3>1, <1>1, <1>2 DEF RequestOK, PassedHaveRows, R
    <3> QED BY <3>2, <1>2
  <2> QED BY <2>1, <2>2
<1>9. TwiceIsOrphaned(b)'
  <2>0. ASSUME NEW i \in 1..n, R[i].item = at[b] PROVE ~ini /\ R[i].initiated /\ <<b, at[b]>> \in orphaned
    <3>1. RowOK(b, i) BY <1>5
    <3>2. R[i].initiated /\ (mpc[b] = "hold" \/ (mpc[b] \in Later /\ <<b, at[b]>> \in orphaned)) BY <2>0, <3>1 DEF RowOK, R
    <3>3. mpc[b] # "hold" /\ (ini => mpc[b] \notin Later) BY DEF Later
    <3> QED BY <3>2, <3>3
  <2>1. \A i, j \in 1..n : (i # j /\ R[i].item = R[j].item) =>
           <<b, R[i].item>> \in orphaned /\ ~(R[i].initiated /\ R[j].initiated)
    BY <1>1, <1>2 DEF RequestOK, TwiceIsOrphaned, R
  <2> SUFFICES ASSUME NEW i \in 1..(n + 1), NEW j \in 1..(n + 1), i # j, batchRows'[b][i].item = batchRows'[b][j].item
               PROVE  <<b, batchRows'[b][i].item>> \in orphaned /\ ~(batchRows'[b][i].initiated /\ batchRows'[b][j].initiated)
    BY <1>2 DEF TwiceIsOrphaned
  <2>2. CASE i # n + 1 /\ j # n + 1
    <3>1. i \in 1..n /\ j \in 1..n BY <2>2, <1>2
    <3> QED BY <3>1, <2>1, <1>2
  <2>3. CASE i = n + 1
    <3>1. j \in 1..n BY <2>3, <1>2
    <3>2. R[j].item = at[b] BY <2>3, <3>1, <1>2, <1>3
    <3> QED BY <2>3, <3>1, <3>2, <2>0, <1>2, <1>3
  <2>4. CASE j = n + 1
    <3>1. i \in 1..n BY <2>4, <1>2
    <3>2. R[i].item = at[b] BY <2>4, <3>1, <1>2, <1>3
    <3> QED BY <2>4, <3>1, <3>2, <2>0, <1>2, <1>3
  <2> QED BY <2>2, <2>3, <2>4
<1>10. \A k \in Item : <<b, k>> \in orphaned => OrphanOK(b, k)'
  <2> SUFFICES ASSUME NEW k \in Item, <<b, k>> \in orphaned PROVE OrphanOK(b, k)' OBVIOUS
  <2>1. OrphanOK(b, k) BY <1>1 DEF RequestOK
  <2>2. k <= at'[b] /\ k # at'[b] BY <2>1, <1>2, <1>4 DEF OrphanOK, Item
  <2>3. PICK i \in 1..n : R[i].item = k /\ R[i].initiated BY <2>1, <1>2 DEF OrphanOK, R
  <2>4. \A j \in 1..n : (R[j].item = k /\ R[j].initiated) => R[j].status = "compliance_hold" BY <2>1, <1>2 DEF OrphanOK, R
  <2>5. ini => k # at[b] BY <2>1 DEF OrphanOK, Later
  <2>6. \A j \in 1..(n + 1) : (batchRows'[b][j].item = k /\ batchRows'[b][j].initiated) => batchRows'[b][j].status = "compliance_hold"
    <3> SUFFICES ASSUME NEW j \in 1..(n + 1), batchRows'[b][j].item = k, batchRows'[b][j].initiated
                 PROVE  batchRows'[b][j].status = "compliance_hold"
      OBVIOUS
    <3>1. j # n + 1 BY <2>5, <1>3
    <3>2. j \in 1..n BY <3>1, <1>2
    <3> QED BY <3>2, <2>4, <1>2
  <2>7. i \in 1..(n + 1) /\ batchRows'[b][i].item = k /\ batchRows'[b][i].initiated BY <2>3, <1>2
  <2> QED BY <2>2, <2>6, <2>7, <1>2 DEF OrphanOK
<1>11. (mpc'[b] = "done") <=> (at'[b] = BatchSize + 1) BY <1>2, <1>4 DEF Item
<1> QED BY <1>2, <1>4, <1>7, <1>8, <1>9, <1>10, <1>11 DEF RequestOK

(* The held row of the item is added; its review is not yet recorded.        *)
LEMMA HeldRowAdded ==
  ASSUME BatchInv, NEW b \in Batch, AddRow(b, "compliance_hold", TRUE), mpc[b] = "counted",
         mpc'[b] = "hold", at'[b] = at[b], orphaned' = orphaned, tenantLock' # b
  PROVE  RequestOK(b)'
<1> DEFINE n == Len(batchRows[b])
           R == batchRows[b]
<1>1. BatchFlat /\ RequestOK(b) BY DEF BatchInv
<1>2. /\ n \in Nat /\ DOMAIN R = 1..n
      /\ batchRows' \in [Batch -> Seq(ItemRow)] /\ DOMAIN batchRows'[b] = 1..(n + 1)
      /\ batchRows'[b][n + 1] = [item |-> at[b], status |-> "compliance_hold", initiated |-> TRUE]
      /\ \A i \in 1..n : batchRows'[b][i] = R[i]
      /\ at[b] \in Item
  BY AddedRow
<1>3. batchRows'[b][n + 1].item = at[b] /\ batchRows'[b][n + 1].status = "compliance_hold" /\ batchRows'[b][n + 1].initiated BY <1>2
<1>5. \A i \in 1..n : RowOK(b, i) /\ R[i].item # at[b] BY <1>1, <1>2 DEF RequestOK, RowOK, Later
<1> HIDE DEF n, R
<1>7. \A i \in 1..(n + 1) : RowOK(b, i)'
  <2> SUFFICES ASSUME NEW i \in 1..(n + 1) PROVE RowOK(b, i)' OBVIOUS
  <2>1. CASE i = n + 1 BY <2>1, <1>2, <1>3 DEF RowOK, Item
  <2>2. CASE i # n + 1
    <3>1. i \in 1..n BY <2>2, <1>2
    <3> QED BY <3>1, <1>2, <1>5 DEF RowOK, R
  <2> QED BY <2>1, <2>2
<1>8. PassedHaveRows(b)'
  <2> SUFFICES ASSUME NEW k \in 1..(at[b] - 1) PROVE \E i \in DOMAIN batchRows'[b] : batchRows'[b][i].item = k
    BY DEF PassedHaveRows
  <2>1. PICK i \in 1..n : R[i].item = k BY <1>1, <1>2 DEF RequestOK, PassedHaveRows, R
  <2>2. i \in 1..(n + 1) BY <1>2
  <2> QED BY <2>1, <2>2, <1>2
<1>9. TwiceIsOrphaned(b)'
  <2>1. \A i, j \in 1..n : (i # j /\ R[i].item = R[j].item) =>
           <<b, R[i].item>> \in orphaned /\ ~(R[i].initiated /\ R[j].initiated)
    BY <1>1, <1>2 DEF RequestOK, TwiceIsOrphaned, R
  <2> SUFFICES ASSUME NEW i \in 1..(n + 1), NEW j \in 1..(n + 1), i # j, batchRows'[b][i].item = batchRows'[b][j].item
               PROVE  <<b, batchRows'[b][i].item>> \in orphaned /\ ~(batchRows'[b][i].initiated /\ batchRows'[b][j].initiated)
    BY <1>2 DEF TwiceIsOrphaned
  <2>2. i # n + 1 /\ j # n + 1
    <3>1. i \in 1..n \/ i = n + 1 BY <1>2
    <3>2. j \in 1..n \/ j = n + 1 BY <1>2
    <3> QED BY <3>1, <3>2, <1>2, <1>3, <1>5
  <2>3. i \in 1..n /\ j \in 1..n BY <2>2, <1>2
  <2> QED BY <2>3, <2>1, <1>2
<1>10. \A k \in Item : <<b, k>> \in orphaned => OrphanOK(b, k)'
  <2> SUFFICES ASSUME NEW k \in Item, <<b, k>> \in orphaned PROVE OrphanOK(b, k)' OBVIOUS
  <2>1. OrphanOK(b, k) BY <1>1 DEF RequestOK
  <2>2. k <= at[b] /\ k # at[b] BY <2>1 DEF OrphanOK, Later
  <2>3. PICK i \in 1..n : R[i].item = k /\ R[i].initiated BY <2>1, <1>2 DEF OrphanOK, R
  <2>4. \A j \in 1..n : (R[j].item = k /\ R[j].initiated) => R[j].status = "compliance_hold" BY <2>1, <1>2 DEF OrphanOK, R
  <2>6. \A j \in 1..(n + 1) : (batchRows'[b][j].item = k /\ batchRows'[b][j].initiated) => batchRows'[b][j].status = "compliance_hold"
    <3> SUFFICES ASSUME NEW j \in 1..(n + 1), batchRows'[b][j].item = k, batchRows'[b][j].initiated
                 PROVE  batchRows'[b][j].status = "compliance_hold"
      OBVIOUS
    <3>1. CASE j = n + 1 BY <3>1, <1>3
    <3>2. CASE j # n + 1
      <4>1. j \in 1..n BY <3>2, <1>2
      <4> QED BY <4>1, <2>4, <1>2
    <3> QED BY <3>1, <3>2
  <2>7. i \in 1..(n + 1) /\ batchRows'[b][i].item = k /\ batchRows'[b][i].initiated BY <2>3, <1>2
  <2> QED BY <2>2, <2>6, <2>7, <1>2 DEF OrphanOK
<1>11. at[b] # BatchSize + 1 BY <1>1 DEF RequestOK
<1>12. \E i \in DOMAIN batchRows'[b] : batchRows'[b][i].item = at'[b] BY <1>2, <1>3
<1> QED BY <1>2, <1>7, <1>8, <1>9, <1>10, <1>11, <1>12 DEF RequestOK

(* Where a request stands after NextItem.                                    *)
LEMMA NextItemMoves ==
  ASSUME BatchFlat, NEW b \in Batch, at[b] \in Item, NextItem(b)
  PROVE  /\ mpc' \in [Batch -> RequestAt] /\ at' \in [Batch -> 1..(BatchSize + 1)] /\ mpc'[b] # "counted"
         /\ mpc'[b] = (IF at[b] = BatchSize THEN "done" ELSE "initiate") /\ at'[b] = at[b] + 1
         /\ \A c \in Batch \ {b} : mpc'[c] = mpc[c] /\ at'[c] = at[c]
<1>1. at[b] + 1 \in 1..(BatchSize + 1) BY DEF Item
<1>2. at' = [at EXCEPT ![b] = at[b] + 1] /\ mpc' = [mpc EXCEPT ![b] = IF at[b] = BatchSize THEN "done" ELSE "initiate"]
  BY DEF NextItem, At
<1> QED BY <1>1, <1>2 DEF BatchFlat, RequestAt

(* A row is inserted under the lock only below the limit.                    *)
LEMMA InsertWithinLimitOK == ASSUME BatchInv, NEW b \in Batch, InsertWithinLimit(b) PROVE BatchInv'
<1>1. BatchFlat /\ \A c \in Batch : RequestOK(c) BY DEF BatchInv
<1>2. /\ mpc[b] = "counted" /\ tenantLock' = Nobody /\ counted' = [counted EXCEPT ![b] = 0]
      /\ UNCHANGED <<kinds, orphaned>>
  BY DEF InsertWithinLimit
<1>3. tenantLock = b /\ Nobody \notin Batch BY <1>1, <1>2, BatchesAreFinite DEF RequestOK
<1>4. /\ counted' \in [Batch -> Nat] /\ \A c \in Batch \ {b} : counted'[c] = counted[c] /\ tenantLock' # c /\ tenantLock # c
  BY <1>1, <1>2, <1>3 DEF BatchFlat
<1>5. CASE mpc' = [mpc EXCEPT ![b] = "record"] /\ UNCHANGED <<batchRows, at>> /\ batchFaults' \in 0..MaxBatchFaults
  BY <1>2, <1>3, <1>4, <1>5, RequestMoves DEF RequestAt, Later
<1>6. CASE counted[b] < MonthlyLimit /\ \E st \in {"pending", "compliance_hold"} :
             /\ AddRow(b, st, TRUE)
             /\ \/ st = "pending" /\ NextItem(b)
                \/ st = "compliance_hold" /\ mpc' = [mpc EXCEPT ![b] = "hold"] /\ at' = at
             /\ batchFaults' = batchFaults
  <2>1. PICK st \in {"pending", "compliance_hold"} :
             /\ AddRow(b, st, TRUE)
             /\ \/ st = "pending" /\ NextItem(b)
                \/ st = "compliance_hold" /\ mpc' = [mpc EXCEPT ![b] = "hold"] /\ at' = at
             /\ batchFaults' = batchFaults
    BY <1>6
  <2>2. /\ batchRows' \in [Batch -> Seq(ItemRow)] /\ \A c \in Batch \ {b} : batchRows'[c] = batchRows[c]
        /\ Initiated' \subseteq Initiated \cup {<<b, Len(batchRows[b]) + 1>>} /\ at[b] \in Item
    BY <1>2, <2>1, AddedRow
  <2>3. /\ mpc' \in [Batch -> RequestAt] /\ at' \in [Batch -> 1..(BatchSize + 1)] /\ mpc'[b] # "counted"
        /\ \A c \in Batch \ {b} : mpc'[c] = mpc[c] /\ at'[c] = at[c]
    <3>1. CASE st = "pending" BY <3>1, <1>1, <2>1, <2>2, NextItemMoves
    <3>2. CASE st = "compliance_hold" BY <3>2, <1>1, <2>1 DEF BatchFlat, RequestAt
    <3> QED BY <3>1, <3>2
  <2>4. BatchFlat' BY <1>1, <1>2, <1>4, <2>1, <2>2, <2>3 DEF BatchFlat
  <2>5. \A c \in Batch \ {b} : RequestOK(c)' BY <1>1, <1>2, <1>4, <2>2, <2>3, OthersKeep
  <2>6. RequestOK(b)'
    <3>1. CASE st = "pending" BY <3>1, <1>2, <1>3, <2>1, NextItemAfterRow
    <3>2. CASE st = "compliance_hold"
      <4>1. mpc'[b] = "hold" /\ at'[b] = at[b] BY <3>2, <1>1, <2>1 DEF BatchFlat
      <4> QED BY <3>2, <4>1, <1>2, <1>3, <2>1, HeldRowAdded
    <3> QED BY <3>1, <3>2
  <2>7. \A c \in Batch : mpc'[c] # "counted" BY <1>1, <1>4, <2>3 DEF RequestOK
  <2>8. QuotaHolds'
    <3>1. IsFiniteSet(Initiated) /\ Cardinality(Initiated) \in Nat BY InitiatedIsFinite
    <3> DEFINE x == <<b, Len(batchRows[b]) + 1>>
    <3>2. IsFiniteSet(Initiated \cup {x}) /\ Cardinality(Initiated \cup {x}) <= Cardinality(Initiated) + 1
      <4> HIDE DEF x
      <4>1. IsFiniteSet(Initiated \cup {x}) /\ Cardinality(Initiated \cup {x}) =
              IF x \in Initiated THEN Cardinality(Initiated) ELSE Cardinality(Initiated) + 1 BY <3>1, FS_AddElement
      <4> QED BY <3>1, <4>1
    <3>3. Initiated' \in SUBSET (Initiated \cup {x}) BY <2>2
    <3> HIDE DEF x
    <3>4. IsFiniteSet(Initiated') /\ Cardinality(Initiated') <= Cardinality(Initiated \cup {x}) BY <3>2, <3>3, FS_Subset
    <3>5. Cardinality(Initiated') \in Nat /\ Cardinality(Initiated \cup {x}) \in Nat BY <3>2, <3>4, FS_CardinalityType
    <3>6. Cardinality(Initiated) <= counted[b] /\ counted[b] \in Nat BY <1>1, <1>2 DEF BatchInv, CountIsEnough, BatchFlat
    <3> QED BY <1>6, <3>1, <3>2, <3>4, <3>5, <3>6 DEF QuotaHolds
  <2> QED BY <2>4, <2>5, <2>6, <2>7, <2>8 DEF BatchInv, CountIsEnough
<1>7. \/ mpc' = [mpc EXCEPT ![b] = "record"] /\ UNCHANGED <<batchRows, at>> /\ batchFaults' \in 0..MaxBatchFaults
      \/ counted[b] < MonthlyLimit /\ AddRow(b, "pending", TRUE) /\ NextItem(b) /\ batchFaults' = batchFaults
      \/ counted[b] < MonthlyLimit /\ AddRow(b, "compliance_hold", TRUE) /\ mpc' = [mpc EXCEPT ![b] = "hold"] /\ at' = at /\ batchFaults' = batchFaults
  <2>1. BatchFault => batchFaults' \in 0..MaxBatchFaults BY <1>1 DEF BatchFault, BatchFlat
  <2>2. batchFaults \in 0..MaxBatchFaults BY <1>1 DEF BatchFlat
  <2> QED BY <2>1, <2>2 DEF InsertWithinLimit, At
<1> QED BY <1>5, <1>6, <1>7

(* The review is recorded and the next item begins.                          *)
LEMMA NextItemAfterHold ==
  ASSUME BatchInv, NEW b \in Batch, mpc[b] = "hold", NextItem(b), batchRows' = batchRows, orphaned' = orphaned, tenantLock' # b
  PROVE  RequestOK(b)'
<1> DEFINE R == batchRows[b]
<1>1. BatchFlat /\ RequestOK(b) BY DEF BatchInv
<1>2. at[b] \in Item BY StandsAtItem
<1>3. /\ mpc'[b] = (IF at[b] = BatchSize THEN "done" ELSE "initiate") /\ at'[b] = at[b] + 1 BY <1>1, <1>2, NextItemMoves
<1>4. \A i \in DOMAIN R : R[i].item \in Nat
  <2>1. R \in Seq(ItemRow) BY <1>1 DEF BatchFlat
  <2> HIDE DEF R
  <2>2. \A i \in DOMAIN R : R[i] \in ItemRow BY <2>1
  <2> QED BY <2>2 DEF ItemRow, Item
<1>5. \A i \in DOMAIN R : RowOK(b, i)'
  <2> SUFFICES ASSUME NEW i \in DOMAIN R PROVE RowOK(b, i)' OBVIOUS
  <2>1. R[i].item \in Nat /\ R[i].item <= at[b] /\ (~R[i].initiated => R[i].status = "failed")
    BY <1>1, <1>4 DEF RequestOK, RowOK
  <2>2. R[i].item # at'[b] /\ R[i].item <= at'[b] BY <2>1, <1>2, <1>3 DEF Item
  <2> QED BY <2>1, <2>2 DEF RowOK
<1>6. PassedHaveRows(b)'
  <2> SUFFICES ASSUME NEW k \in 1..(at'[b] - 1) PROVE \E i \in DOMAIN R : R[i].item = k
    BY DEF PassedHaveRows
  <2>1. CASE k = at[b] BY <2>1, <1>1 DEF RequestOK
  <2>2. CASE k # at[b]
    <3>1. k \in 1..(at[b] - 1) BY <2>2, <1>2, <1>3 DEF Item
    <3> QED BY <3>1, <1>1 DEF RequestOK, PassedHaveRows
  <2> QED BY <2>1, <2>2
<1>7. TwiceIsOrphaned(b)' BY <1>1 DEF RequestOK, TwiceIsOrphaned
<1>8. \A k \in Item : <<b, k>> \in orphaned => OrphanOK(b, k)'
  <2> SUFFICES ASSUME NEW k \in Item, <<b, k>> \in orphaned PROVE OrphanOK(b, k)' OBVIOUS
  <2>1. OrphanOK(b, k) BY <1>1 DEF RequestOK
  <2>2. k <= at'[b] /\ k # at'[b] BY <2>1, <1>2, <1>3 DEF OrphanOK, Item
  <2> QED BY <2>1, <2>2 DEF OrphanOK
<1>9. (mpc'[b] = "done") <=> (at'[b] = BatchSize + 1) BY <1>2, <1>3 DEF Item
<1>10. mpc'[b] \notin {"hold", "locked", "counted"} BY <1>3
<1> QED BY <1>5, <1>6, <1>7, <1>8, <1>9, <1>10 DEF RequestOK

(* The held row is there, its review is not: it is orphaned.                 *)
LEMMA HoldIsOrphaned ==
  ASSUME BatchInv, NEW b \in Batch, mpc[b] = "hold", mpc'[b] \in {"record", "lost"}, at'[b] = at[b], batchRows' = batchRows,
         orphaned' = orphaned \cup {<<b, at[b]>>}, tenantLock' # b
  PROVE  RequestOK(b)'
<1> DEFINE R == batchRows[b]
<1>1. BatchFlat /\ RequestOK(b) BY DEF BatchInv
<1>2. at[b] \in Item /\ at[b] # BatchSize + 1 BY StandsAtItem
<1>3. PICK h \in DOMAIN R : R[h].item = at[b] BY <1>1 DEF RequestOK
<1>4. \A i \in DOMAIN R : RowOK(b, i) BY <1>1 DEF RequestOK
<1>5. \A i \in DOMAIN R : RowOK(b, i)' BY <1>4 DEF RowOK, Later
<1>6. PassedHaveRows(b)' BY <1>1 DEF PassedHaveRows, RequestOK
<1>7. TwiceIsOrphaned(b)' BY <1>1 DEF RequestOK, TwiceIsOrphaned
<1>8. \A k \in Item : <<b, k>> \in orphaned' => OrphanOK(b, k)'
  <2> SUFFICES ASSUME NEW k \in Item, <<b, k>> \in orphaned' PROVE OrphanOK(b, k)' OBVIOUS
  <2>1. CASE k = at[b]
    <3>1. R[h].initiated /\ \A i \in DOMAIN R : R[i].item = k => R[i].status = "compliance_hold" BY <2>1, <1>3, <1>4 DEF RowOK
    <3>2. k <= at'[b] /\ mpc'[b] \in Later BY <2>1, <1>2 DEF Later, Item
    <3> QED BY <2>1, <3>1, <3>2, <1>3 DEF OrphanOK
  <2>2. CASE k # at[b]
    <3>1. OrphanOK(b, k) BY <2>2, <1>1 DEF RequestOK
    <3> QED BY <2>2, <3>1 DEF OrphanOK
  <2> QED BY <2>1, <2>2
<1> QED BY <1>2, <1>5, <1>6, <1>7, <1>8 DEF RequestOK

(* A held item is a row already counted.                                     *)
LEMMA RecordHoldOK == ASSUME BatchInv, NEW b \in Batch, RecordHold(b) PROVE BatchInv'
<1>1. BatchFlat /\ \A c \in Batch : RequestOK(c) BY DEF BatchInv
<1>2. mpc[b] = "hold" /\ UNCHANGED <<kinds, counted, tenantLock, batchRows>> BY DEF RecordHold, quota
<1>3. tenantLock # b /\ at[b] \in Item BY <1>1, <1>2, StandsAtItem DEF RequestOK
<1>4. Initiated' = Initiated BY <1>2 DEF Initiated
<1>5. CASE NextItem(b) /\ UNCHANGED <<orphaned, batchFaults>>
  <2>1. /\ mpc' \in [Batch -> RequestAt] /\ at' \in [Batch -> 1..(BatchSize + 1)] /\ mpc'[b] # "counted"
        /\ \A c \in Batch \ {b} : mpc'[c] = mpc[c] /\ at'[c] = at[c]
    BY <1>1, <1>3, <1>5, NextItemMoves
  <2>2. BatchFlat' BY <1>1, <1>2, <1>5, <2>1 DEF BatchFlat
  <2>3. \A c \in Batch \ {b} : RequestOK(c)' BY <1>1, <1>2, <1>5, <2>1, OthersKeep
  <2>4. RequestOK(b)' BY <1>2, <1>3, <1>5, NextItemAfterHold
  <2>5. CountIsEnough' /\ QuotaHolds' BY <1>2, <1>4, <2>1, QuotaFrame
  <2> QED BY <2>2, <2>3, <2>4, <2>5 DEF BatchInv
<1>6. CASE BatchFault /\ At(b, "record") /\ orphaned' = orphaned \cup {<<b, at[b]>>} /\ UNCHANGED at
  <2>1. mpc'[b] = "record" /\ \A c \in Batch \ {b} : mpc'[c] = mpc[c] BY <1>1, <1>6 DEF At, BatchFlat
  <2>2. batchFaults' \in 0..MaxBatchFaults BY <1>1, <1>6 DEF BatchFault, BatchFlat
  <2>3. BatchFlat' BY <1>1, <1>2, <1>3, <1>6, <2>2 DEF BatchFlat, At, RequestAt
  <2>4. \A c \in Batch \ {b} : RequestOK(c)' BY <1>1, <1>2, <1>6, <2>1, OthersKeep
  <2>5. RequestOK(b)' BY <1>2, <1>3, <1>6, <2>1, HoldIsOrphaned
  <2>6. CountIsEnough' /\ QuotaHolds' BY <1>2, <1>4, <2>1, QuotaFrame
  <2> QED BY <2>3, <2>4, <2>5, <2>6 DEF BatchInv
<1> QED BY <1>5, <1>6 DEF RecordHold

(* A failed item is recorded, and the batch goes on, ends or aborts.         *)
LEMMA RecordFailedItemOK == ASSUME BatchInv, NEW b \in Batch, RecordFailedItem(b) PROVE BatchInv'
<1>1. BatchFlat /\ \A c \in Batch : RequestOK(c) BY DEF BatchInv
<1>2. mpc[b] = "record" /\ UNCHANGED <<kinds, counted, tenantLock, orphaned>> BY DEF RecordFailedItem, quota
<1>3. tenantLock # b /\ at[b] \in Item BY <1>1, <1>2, StandsAtItem DEF RequestOK
<1>4. CASE mpc' = [mpc EXCEPT ![b] = "aborted"] /\ UNCHANGED <<at, batchRows>> /\ batchFaults' \in 0..MaxBatchFaults
  BY <1>1, <1>2, <1>3, <1>4, RequestMoves DEF RequestAt, Later, BatchFlat
<1>5. CASE AddRow(b, "failed", FALSE) /\ NextItem(b) /\ batchFaults' = batchFaults
  <2>1. /\ mpc' \in [Batch -> RequestAt] /\ at' \in [Batch -> 1..(BatchSize + 1)] /\ mpc'[b] # "counted"
        /\ \A c \in Batch \ {b} : mpc'[c] = mpc[c] /\ at'[c] = at[c]
    BY <1>1, <1>3, <1>5, NextItemMoves
  <2>2. /\ batchRows' \in [Batch -> Seq(ItemRow)] /\ \A c \in Batch \ {b} : batchRows'[c] = batchRows[c]
        /\ Initiated' \subseteq Initiated
    BY <1>2, <1>5, AddedRow
  <2>3. BatchFlat' BY <1>1, <1>2, <1>5, <2>1, <2>2 DEF BatchFlat
  <2>4. \A c \in Batch \ {b} : RequestOK(c)' BY <1>1, <1>2, <2>1, <2>2, OthersKeep
  <2>5. RequestOK(b)' BY <1>2, <1>3, <1>5, NextItemAfterRow
  <2>6. CountIsEnough' /\ QuotaHolds' BY <1>2, <2>1, <2>2, QuotaFrame
  <2> QED BY <2>3, <2>4, <2>5, <2>6 DEF BatchInv
<1>6. BatchFault => batchFaults' \in 0..MaxBatchFaults BY <1>1 DEF BatchFault, BatchFlat
<1>7. batchFaults \in 0..MaxBatchFaults BY <1>1 DEF BatchFlat
<1> QED BY <1>4, <1>5, <1>6, <1>7 DEF RecordFailedItem, At

(* A process that dies releases the lock and leaves the rows.                *)
LEMMA LoseBatchOK == ASSUME BatchInv, NEW b \in Batch, LoseBatch(b) PROVE BatchInv'
<1>1. BatchFlat /\ \A c \in Batch : RequestOK(c) BY DEF BatchInv
<1>2. /\ mpc[b] \in {"initiate", "locked", "counted", "hold", "record"} /\ mpc' = [mpc EXCEPT ![b] = "lost"]
      /\ tenantLock' = (IF tenantLock = b THEN Nobody ELSE tenantLock) /\ counted' = [counted EXCEPT ![b] = 0]
      /\ orphaned' = (IF mpc[b] = "hold" THEN orphaned \cup {<<b, at[b]>>} ELSE orphaned)
      /\ UNCHANGED <<kinds, at, batchRows>>
  BY DEF LoseBatch, At
<1>3. batchFaults' \in 0..MaxBatchFaults BY <1>1 DEF BatchFault, BatchFlat, LoseBatch
<1>4. Nobody \notin Batch BY BatchesAreFinite
<1>5. /\ tenantLock' \in Batch \cup {Nobody} /\ tenantLock' # b /\ counted' \in [Batch -> Nat]
      /\ \A c \in Batch \ {b} : counted'[c] = counted[c] /\ ((tenantLock' = c) <=> (tenantLock = c))
  BY <1>1, <1>2, <1>4 DEF BatchFlat
<1>6. CASE mpc[b] # "hold"
  BY <1>2, <1>3, <1>5, <1>6, RequestMoves DEF RequestAt, Later
<1>7. CASE mpc[b] = "hold"
  <2>1. at[b] \in Item /\ orphaned' = orphaned \cup {<<b, at[b]>>} BY <1>2, <1>7, StandsAtItem
  <2>2. mpc'[b] = "lost" /\ \A c \in Batch \ {b} : mpc'[c] = mpc[c] BY <1>1, <1>2 DEF BatchFlat
  <2>3. BatchFlat' BY <1>1, <1>2, <1>3, <1>5, <2>1 DEF BatchFlat, RequestAt
  <2>4. \A c \in Batch \ {b} : RequestOK(c)' BY <1>1, <1>2, <1>5, <2>1, <2>2, OthersKeep
  <2>5. RequestOK(b)' BY <1>2, <1>5, <1>7, <2>1, <2>2, HoldIsOrphaned
  <2>6. Initiated' = Initiated BY <1>2 DEF Initiated
  <2>7. CountIsEnough' /\ QuotaHolds' BY <1>5, <2>2, <2>6, QuotaFrame
  <2> QED BY <2>3, <2>4, <2>5, <2>7 DEF BatchInv
<1> QED BY <1>6, <1>7

(* A row that settlement or a reviewer moves is initiated, not orphaned and  *)
(* not the one its request stands at.                                        *)
LEMMA RowSettlesOK == ASSUME BatchInv, NEW b \in Batch, RowSettles(b) PROVE BatchInv'
<1> DEFINE R == batchRows[b]
<1>1. BatchFlat /\ \A c \in Batch : RequestOK(c) BY DEF BatchInv
<1>2. UNCHANGED <<kinds, mpc, at, counted, tenantLock, orphaned, batchFaults>> BY DEF RowSettles, quota
<1>3. PICK i \in DOMAIN R, s \in {"pending", "confirmed", "failed"} :
       /\ R[i].status \in {"pending", "compliance_hold"}
       /\ R[i].status = "compliance_hold" =>
            <<b, R[i].item>> \notin orphaned /\ ~(mpc[b] \in {"hold", "record"} /\ R[i].item = at[b])
       /\ batchRows' = [batchRows EXCEPT ![b][i].status = s]
  BY DEF RowSettles
<1>4. R \in Seq(ItemRow) /\ R[i] \in ItemRow
  <2>1. R \in Seq(ItemRow) BY <1>1 DEF BatchFlat
  <2> HIDE DEF R
  <2> QED BY <2>1
<1>5. batchRows' = [batchRows EXCEPT ![b] = [R EXCEPT ![i] = [R[i] EXCEPT !.status = s]]] BY <1>3
<1> DEFINE row == [R[i] EXCEPT !.status = s]
           Q == [R EXCEPT ![i] = row]
<1>6. row \in ItemRow /\ row.item = R[i].item /\ row.initiated = R[i].initiated BY <1>4 DEF ItemRow
<1>7. batchRows'[b] = Q /\ \A c \in Batch \ {b} : batchRows'[c] = batchRows[c] BY <1>1, <1>5 DEF BatchFlat
<1> HIDE DEF R, row
<1>8. Q \in Seq(ItemRow) /\ DOMAIN Q = DOMAIN R /\ Q[i] = row /\ \A j \in DOMAIN R \ {i} : Q[j] = R[j]
  BY <1>3, <1>4, <1>6, ExceptSeq
<1>9. batchRows' \in [Batch -> Seq(ItemRow)] BY <1>1, <1>5, <1>8 DEF BatchFlat, row
<1> HIDE DEF Q
<1>10. \A j \in DOMAIN R : Q[j].item = R[j].item /\ Q[j].initiated = R[j].initiated BY <1>6, <1>8
<1>11. RowOK(b, i) /\ RequestOK(b) BY <1>1, <1>3 DEF RequestOK, R
<1>12. R[i].initiated BY <1>3, <1>11 DEF RowOK, R
<1>13. <<b, R[i].item>> \notin orphaned
  <2> SUFFICES ASSUME <<b, R[i].item>> \in orphaned PROVE FALSE OBVIOUS
  <2>1. R[i].item \in Item BY <1>4 DEF ItemRow
  <2>2. OrphanOK(b, R[i].item) BY <1>11, <2>1 DEF RequestOK
  <2>3. R[i].status = "compliance_hold" BY <2>2, <1>3, <1>12 DEF OrphanOK, R
  <2> QED BY <2>3, <1>3
<1>14. R[i].item # at[b] BY <1>3, <1>11, <1>13 DEF RowOK, R
<1>15. RequestOK(b)'
  <2>1. \A j \in DOMAIN Q : RowOK(b, j)'
    <3> SUFFICES ASSUME NEW j \in DOMAIN R PROVE RowOK(b, j)' BY <1>8
    <3>1. RowOK(b, j) BY <1>11 DEF RequestOK, R
    <3>2. CASE j = i BY <3>1, <3>2, <1>2, <1>7, <1>10, <1>12, <1>14 DEF RowOK, R
    <3>3. CASE j # i BY <3>1, <3>3, <1>2, <1>7, <1>8 DEF RowOK, R
    <3> QED BY <3>2, <3>3
  <2>2. TwiceIsOrphaned(b)' BY <1>11, <1>2, <1>7, <1>8, <1>10, SMTT(60) DEF RequestOK, TwiceIsOrphaned, R
  <2>3. PassedHaveRows(b)' BY <1>11, <1>2, <1>7, <1>8, <1>10 DEF RequestOK, PassedHaveRows, R
  <2>4. \A k \in Item : <<b, k>> \in orphaned' => OrphanOK(b, k)'
    <3> SUFFICES ASSUME NEW k \in Item, <<b, k>> \in orphaned PROVE OrphanOK(b, k)' BY <1>2
    <3>1. OrphanOK(b, k) /\ k # R[i].item BY <1>11, <1>13 DEF RequestOK
    <3>2. \A j \in DOMAIN Q : Q[j].item = k => Q[j] = R[j] BY <3>1, <1>8, <1>10
    <3>3. \E j \in DOMAIN Q : Q[j].item = k /\ Q[j].initiated BY <3>1, <1>8, <1>10 DEF OrphanOK, R
    <3>4. \A j \in DOMAIN Q : (Q[j].item = k /\ Q[j].initiated) => Q[j].status = "compliance_hold"
      BY <3>1, <3>2, <1>8 DEF OrphanOK, R
    <3> QED BY <3>1, <3>3, <3>4, <1>2, <1>7 DEF OrphanOK
  <2>5. mpc'[b] = "hold" => \E j \in DOMAIN Q : Q[j].item = at'[b] BY <1>11, <1>2, <1>8, <1>10 DEF RequestOK, R
  <2> QED BY <2>1, <2>2, <2>3, <2>4, <2>5, <1>11, <1>2, <1>7 DEF RequestOK
<1>16. BatchFlat' BY <1>1, <1>2, <1>9 DEF BatchFlat
<1>17. \A c \in Batch \ {b} : RequestOK(c)' BY <1>1, <1>2, <1>7, OthersKeep
<1>18. Initiated' \subseteq Initiated
  <2> SUFFICES ASSUME NEW p \in Initiated' PROVE p \in Initiated OBVIOUS
  <2>1. /\ p \in Batch \X (1..(2 * BatchSize)) /\ p[1] \in Batch /\ p[2] \in DOMAIN batchRows'[p[1]]
        /\ batchRows'[p[1]][p[2]].initiated
    BY DEF Initiated
  <2>2. p[2] \in DOMAIN batchRows[p[1]] /\ batchRows[p[1]][p[2]].initiated
    <3>1. CASE p[1] = b BY <3>1, <2>1, <1>7, <1>8, <1>10 DEF R
    <3>2. CASE p[1] # b BY <3>2, <2>1, <1>7
    <3> QED BY <3>1, <3>2
  <2> QED BY <2>1, <2>2 DEF Initiated
<1>19. CountIsEnough' /\ QuotaHolds' BY <1>2, <1>18, QuotaFrame
<1> QED BY <1>15, <1>16, <1>17, <1>19 DEF BatchInv

(* Every step of a batch keeps the invariant.                                *)
LEMMA BatchStepOK == BatchInv /\ [BatchNext]_batchVars => BatchInv'
<1> SUFFICES ASSUME BatchInv, [BatchNext]_batchVars PROVE BatchInv' OBVIOUS
<1>1. CASE BatchNext
  <2>1. PICK b \in Batch : CreateBatch(b) \/ BatchStep(b) \/ LoseBatch(b) \/ RowSettles(b) BY <1>1 DEF BatchNext
  <2> QED BY <2>1, CreateBatchOK, RefuseOK, LockTenantOK, CountMonthOK, InsertWithinLimitOK, RecordHoldOK,
             RecordFailedItemOK, LoseBatchOK, RowSettlesOK DEF BatchStep
<1>2. CASE UNCHANGED batchVars
  <2>1. BatchFlat /\ \A c \in Batch : RequestOK(c) BY DEF BatchInv
  <2>2. UNCHANGED <<kinds, mpc, at, counted, tenantLock, batchRows, orphaned, batchFaults>> BY <1>2 DEF batchVars
  <2>3. BatchFlat' BY <2>1, <2>2 DEF BatchFlat
  <2>4. \A c \in Batch : RequestOK(c)' BY <2>1, <2>2, OthersKeep
  <2>5. Initiated' = Initiated BY <2>2 DEF Initiated
  <2>6. CountIsEnough' /\ QuotaHolds' BY <2>2, <2>5, QuotaFrame
  <2> QED BY <2>3, <2>4, <2>6 DEF BatchInv
<1> QED BY <1>1, <1>2

(* No row is there when the batches begin.                                   *)
LEMMA BatchInitOK == BatchInit => BatchInv
<1> SUFFICES ASSUME BatchInit PROVE BatchInv OBVIOUS
<1>1. BatchFlat BY DEF BatchInit, BatchFlat, RequestAt
<1>2. \A b \in Batch : DOMAIN batchRows[b] = {}
  <2>1. \A b \in Batch : batchRows[b] = <<>> BY DEF BatchInit
  <2> QED BY <2>1
<1>3. \A b \in Batch : RequestOK(b)
  <2> SUFFICES ASSUME NEW b \in Batch PROVE RequestOK(b) OBVIOUS
  <2>1. /\ DOMAIN batchRows[b] = {} /\ at[b] = 1 /\ mpc[b] = "none" /\ tenantLock # b /\ orphaned = {}
    BY <1>2, BatchesAreFinite DEF BatchInit
  <2>2. PassedHaveRows(b) BY <2>1 DEF PassedHaveRows
  <2> QED BY <2>1, <2>2 DEF RequestOK, TwiceIsOrphaned
<1>4. Initiated = {} BY <1>2 DEF Initiated
<1>5. Cardinality(Initiated) = 0 BY <1>4, FS_EmptySet
<1>6. QuotaHolds BY <1>5 DEF QuotaHolds
<1>7. CountIsEnough BY DEF BatchInit, CountIsEnough
<1> QED BY <1>1, <1>3, <1>6, <1>7 DEF BatchInv

(* An item that is not orphaned has one row; the initiated row of one that   *)
(* is waits for a reviewer.                                                  *)
LEMMA RowsOfAnItem ==
  ASSUME BatchInv, NEW b \in Batch, NEW i \in DOMAIN batchRows[b], NEW j \in DOMAIN batchRows[b],
         i # j, batchRows[b][i].item = batchRows[b][j].item
  PROVE  /\ \E h \in DOMAIN batchRows[b] : batchRows[b][h].item = batchRows[b][i].item /\ batchRows[b][h].status = "compliance_hold"
         /\ batchRows[b][i].status \in {"failed", "compliance_hold"}
<1>1. RequestOK(b) /\ BatchFlat BY DEF BatchInv
<1>2. batchRows[b][i].item \in Item
  <2> DEFINE R == batchRows[b]
  <2>1. R \in Seq(ItemRow) BY <1>1 DEF BatchFlat
  <2> HIDE DEF R
  <2>2. R[i] \in ItemRow BY <2>1 DEF R
  <2> QED BY <2>2 DEF ItemRow, R
<1>3. <<b, batchRows[b][i].item>> \in orphaned BY <1>1 DEF RequestOK, TwiceIsOrphaned
<1>4. OrphanOK(b, batchRows[b][i].item) BY <1>1, <1>2, <1>3 DEF RequestOK
<1>5. RowOK(b, i) BY <1>1 DEF RequestOK
<1> QED BY <1>4, <1>5 DEF OrphanOK, RowOK

(* No item has two rows that may pay it.                                     *)
LEMMA ItemsAreAccounted == BatchInv => ItemsAccounted
<1> SUFFICES ASSUME BatchInv, NEW b \in Batch, NEW k \in Item
             PROVE  LET rowsOf == {i \in DOMAIN batchRows[b] : batchRows[b][i].item = k} IN
                    /\ Cardinality({i \in rowsOf : batchRows[b][i].initiated}) <= 1
                    /\ mpc[b] = "done" => rowsOf # {}
                    /\ <<b, k>> \notin orphaned => Cardinality(rowsOf) <= 1
  BY DEF ItemsAccounted
<1> DEFINE rowsOf == {i \in DOMAIN batchRows[b] : batchRows[b][i].item = k}
           paying == {i \in rowsOf : batchRows[b][i].initiated}
<1>1. RequestOK(b) /\ BatchFlat BY DEF BatchInv
<1>2. \A i, j \in paying : i = j BY <1>1 DEF RequestOK, TwiceIsOrphaned
<1>3. Cardinality(paying) <= 1
  <2> HIDE DEF paying
  <2> QED BY <1>2, AtMostOne
<1>4. mpc[b] = "done" => rowsOf # {}
  <2> SUFFICES ASSUME mpc[b] = "done" PROVE rowsOf # {} OBVIOUS
  <2>1. k \in 1..(at[b] - 1) BY <1>1 DEF RequestOK, Item
  <2>2. PassedHaveRows(b) BY <1>1 DEF RequestOK
  <2> QED BY <2>1, <2>2 DEF PassedHaveRows
<1>5. <<b, k>> \notin orphaned => Cardinality(rowsOf) <= 1
  <2> SUFFICES ASSUME <<b, k>> \notin orphaned PROVE Cardinality(rowsOf) <= 1 OBVIOUS
  <2>1. \A i, j \in rowsOf : i = j BY <1>1 DEF RequestOK, TwiceIsOrphaned
  <2> HIDE DEF rowsOf
  <2> QED BY <2>1, AtMostOne
<1> QED BY <1>3, <1>4, <1>5

(* What aggregateStatus answers, in terms of the rows instead of their       *)
(* numbers.                                                                  *)
LEMMA StatusOfRows ==
  ASSUME BatchFlat, NEW b \in Batch, Len(batchRows[b]) # 0
  PROVE  LET R == batchRows[b] IN
         /\ AggregateStatus(b) = "completed" <=> \A i \in DOMAIN R : R[i].status = "confirmed"
         /\ AggregateStatus(b) = "failed" <=> \A i \in DOMAIN R : R[i].status = "failed"
         /\ AggregateStatus(b) \in {"completed", "failed", "partial"} => \A i \in DOMAIN R : R[i].status \in {"confirmed", "failed"}
         /\ AggregateStatus(b) = "compliance_hold" => \E i \in DOMAIN R : R[i].status = "compliance_hold"
<1> DEFINE R == batchRows[b]
           n == Len(R)
           C == {i \in DOMAIN R : R[i].status \in {"confirmed"}}
           F == {i \in DOMAIN R : R[i].status \in {"failed"}}
           H == {i \in DOMAIN R : R[i].status \in {"compliance_hold"}}
           c == Cardinality(C)
           f == Cardinality(F)
           h == Cardinality(H)
<1>1. n \in Nat /\ n # 0 /\ DOMAIN R = 1..n
  <2>1. R \in Seq(ItemRow) BY DEF BatchFlat
  <2> HIDE DEF R
  <2>2. n \in Nat /\ DOMAIN R = 1..n BY <2>1
  <2> QED BY <2>2 DEF R
<1>2. AggregateStatus(b) =
        IF h > 0 /\ (c + f) + h = n THEN "compliance_hold"
        ELSE IF c + f = 0 THEN "pending"
        ELSE IF c + f < n THEN "processing"
        ELSE IF f = n THEN "failed"
        ELSE IF c = n THEN "completed"
        ELSE "partial"
  BY DEF AggregateStatus, Having
<1>3. /\ C \in SUBSET (1..n) /\ F \in SUBSET (1..n) /\ H \in SUBSET (1..n) /\ {} \in SUBSET (1..n)
      /\ C \cap F = {} /\ C \cap H = {} /\ F \cap H = {} /\ (C \cup F) \cap H = {}
  BY <1>1
<1>4. /\ \A i \in DOMAIN R : i \in C <=> R[i].status = "confirmed"
      /\ \A i \in DOMAIN R : i \in F <=> R[i].status = "failed"
      /\ \A i \in DOMAIN R : i \in H <=> R[i].status = "compliance_hold"
  OBVIOUS
<1> HIDE DEF R, n, C, F, H
<1>5. /\ c \in Nat /\ f \in Nat /\ c + f <= n /\ ((c + f = n) <=> (C \cup F = 1..n))
  BY <1>1, <1>3, PartsOfInterval, SMTT(60)
<1>6. /\ h \in Nat /\ c + h <= n
  BY <1>1, <1>3, PartsOfInterval
<1>7. (h = 0) <=> (H = {})
  <2>1. H \cap C = {} BY <1>3
  <2> QED BY <2>1, <1>1, <1>3, PartsOfInterval
<1>8. f + h <= n BY <1>1, <1>3, PartsOfInterval
<1>9. Cardinality({}) = 0 BY FS_EmptySet
<1>10. (c = n) <=> (C = 1..n)
  <2>1. C \cap {} = {} /\ C \cup {} = C OBVIOUS
  <2>2. (c + Cardinality({}) = n) <=> (C \cup {} = 1..n) BY <2>1, <1>1, <1>3, PartsOfInterval
  <2> QED BY <2>1, <2>2, <1>5, <1>9
<1>11. (f = n) <=> (F = 1..n)
  <2>1. F \cap {} = {} /\ F \cup {} = F OBVIOUS
  <2>2. (f + Cardinality({}) = n) <=> (F \cup {} = 1..n) BY <2>1, <1>1, <1>3, PartsOfInterval
  <2> QED BY <2>1, <2>2, <1>5, <1>9
<1> HIDE DEF c, f, h
<1>12. (AggregateStatus(b) = "completed") <=> (c = n) BY <1>1, <1>2, <1>5, <1>6
<1>13. (AggregateStatus(b) = "failed") <=> (f = n) BY <1>1, <1>2, <1>5, <1>6, <1>8
<1>14. AggregateStatus(b) \in {"completed", "failed", "partial"} => c + f = n BY <1>1, <1>2, <1>5
<1>15. AggregateStatus(b) = "compliance_hold" => h # 0 BY <1>2, <1>6
<1>16. (C = 1..n) <=> (\A i \in DOMAIN R : R[i].status = "confirmed") BY <1>1, <1>3, <1>4
<1>17. (F = 1..n) <=> (\A i \in DOMAIN R : R[i].status = "failed") BY <1>1, <1>3, <1>4
<1>18. (C \cup F = 1..n) => \A i \in DOMAIN R : R[i].status \in {"confirmed", "failed"} BY <1>1, <1>4
<1>19. (H # {}) => \E i \in DOMAIN R : R[i].status = "compliance_hold" BY <1>1, <1>3, <1>4
<1> QED BY <1>5, <1>7, <1>10, <1>11, <1>12, <1>13, <1>14, <1>15, <1>16, <1>17, <1>18, <1>19 DEF R

(* and what that says of the items of a batch created whole.                 *)
LEMMA StatusOfItems == BatchInv => StatusIsOfItems
<1> SUFFICES ASSUME BatchInv, NEW b \in Batch, mpc[b] = "done"
             PROVE  LET has(k, s) == \E i \in DOMAIN batchRows[b] : batchRows[b][i].item = k /\ batchRows[b][i].status = s IN
                    /\ AggregateStatus(b) = "completed" <=> \A k \in Item : has(k, "confirmed")
                    /\ AggregateStatus(b) = "failed" <=> \A k \in Item : has(k, "failed") /\ ~has(k, "compliance_hold")
                    /\ AggregateStatus(b) \in {"completed", "failed", "partial"} => \A k \in Item : ~has(k, "compliance_hold") /\ ~has(k, "pending")
                    /\ AggregateStatus(b) = "compliance_hold" => \E k \in Item : has(k, "compliance_hold")
  BY DEF StatusIsOfItems
<1> DEFINE R == batchRows[b]
           has(k, s) == \E i \in DOMAIN R : R[i].item = k /\ R[i].status = s
<1>1. BatchFlat /\ RequestOK(b) BY DEF BatchInv
<1>2. R \in Seq(ItemRow) BY <1>1 DEF BatchFlat
<1>3. \A k \in Item : \E i \in DOMAIN R : R[i].item = k
  <2>1. at[b] = BatchSize + 1 /\ PassedHaveRows(b) BY <1>1 DEF RequestOK
  <2> QED BY <2>1 DEF PassedHaveRows, Item
<1>4. \A i, j \in DOMAIN R : (i # j /\ R[i].item = R[j].item) =>
        has(R[i].item, "compliance_hold") /\ R[i].status \in {"failed", "compliance_hold"}
  BY RowsOfAnItem
<1> DEFINE all(s) == \A i \in DOMAIN R : R[i].status = s
<1>5. Len(R) # 0 => /\ AggregateStatus(b) = "completed" <=> all("confirmed")
                    /\ AggregateStatus(b) = "failed" <=> all("failed")
                    /\ AggregateStatus(b) \in {"completed", "failed", "partial"} => \A i \in DOMAIN R : R[i].status \in {"confirmed", "failed"}
                    /\ AggregateStatus(b) = "compliance_hold" => \E i \in DOMAIN R : R[i].status = "compliance_hold"
  BY <1>1, StatusOfRows
<1> HIDE DEF R
<1>6. \A i \in DOMAIN R : R[i].item \in Item
  <2>1. \A i \in DOMAIN R : R[i] \in ItemRow BY <1>2
  <2> QED BY <2>1 DEF ItemRow
<1>7. Len(R) # 0
  <2>1. 1 \in Item BY DEF Item
  <2>2. DOMAIN R # {} BY <2>1, <1>3
  <2> QED BY <1>2, <2>2
<1>8. all("confirmed") <=> \A k \in Item : has(k, "confirmed")
  <2>1. ASSUME \A k \in Item : has(k, "confirmed"), NEW i \in DOMAIN R PROVE R[i].status = "confirmed"
    <3>1. PICK j \in DOMAIN R : R[j].item = R[i].item /\ R[j].status = "confirmed" BY <2>1, <1>6
    <3> QED BY <3>1, <1>4
  <2> QED BY <1>3, <2>1
<1>9. all("failed") <=> \A k \in Item : has(k, "failed") /\ ~has(k, "compliance_hold")
  <2>1. ASSUME \A k \in Item : has(k, "failed") /\ ~has(k, "compliance_hold"), NEW i \in DOMAIN R PROVE R[i].status = "failed"
    <3>1. PICK j \in DOMAIN R : R[j].item = R[i].item /\ R[j].status = "failed" BY <2>1, <1>6
    <3>2. ~has(R[i].item, "compliance_hold") BY <2>1, <1>6
    <3> QED BY <3>1, <3>2, <1>4
  <2>2. ASSUME all("failed"), NEW k \in Item PROVE has(k, "failed") /\ ~has(k, "compliance_hold") BY <2>2, <1>3
  <2> QED BY <2>1, <2>2
<1>10. (\A i \in DOMAIN R : R[i].status \in {"confirmed", "failed"}) => \A k \in Item : ~has(k, "compliance_hold") /\ ~has(k, "pending")
  OBVIOUS
<1>11. (\E i \in DOMAIN R : R[i].status = "compliance_hold") => \E k \in Item : has(k, "compliance_hold") BY <1>6
<1> HIDE DEF all, has
<1>12. /\ AggregateStatus(b) = "completed" <=> \A k \in Item : has(k, "confirmed")
       /\ AggregateStatus(b) = "failed" <=> \A k \in Item : has(k, "failed") /\ ~has(k, "compliance_hold")
       /\ AggregateStatus(b) \in {"completed", "failed", "partial"} => \A k \in Item : ~has(k, "compliance_hold") /\ ~has(k, "pending")
       /\ AggregateStatus(b) = "compliance_hold" => \E k \in Item : has(k, "compliance_hold")
  BY <1>5, <1>7, <1>8, <1>9, <1>10, <1>11
<1> QED BY <1>12 DEF has, R

(* The invariant says what is to be shown of the batches.                    *)
LEMMA BatchInvIsSafe == BatchInv => BatchSafe
<1> SUFFICES ASSUME BatchInv PROVE BatchSafe OBVIOUS
<1>1. BatchFlat /\ \A b \in Batch : RequestOK(b) BY DEF BatchInv
<1>2. \A b \in Batch : \A i \in DOMAIN batchRows[b] : batchRows[b][i] \in ItemRow
  <2> SUFFICES ASSUME NEW b \in Batch PROVE \A i \in DOMAIN batchRows[b] : batchRows[b][i] \in ItemRow OBVIOUS
  <2>1. batchRows[b] \in Seq(ItemRow) BY <1>1 DEF BatchFlat
  <2> QED BY <2>1
<1>3. BatchTypeOK BY <1>1, <1>2 DEF BatchFlat, BatchTypeOK, RequestOK, RequestAt
<1> QED BY <1>3, ItemsAreAccounted, StatusOfItems DEF BatchSafe, BatchInv

(* However the batches of a tenant interleave and wherever one dies, the     *)
(* quota of the month holds, no item has two transfers, and the status read  *)
(* back is that of the items (CreateBatch, CreateWithMonthlyLimit,           *)
(* aggregateStatus), for every number of batches, items and faults.          *)
THEOREM BatchesAreSafe == BatchSpec => []BatchSafe
<1>1. BatchInit => BatchInv BY BatchInitOK
<1>2. BatchInv /\ [BatchNext]_batchVars => BatchInv' BY BatchStepOK
<1>3. BatchInv => BatchSafe BY BatchInvIsSafe
<1> QED BY <1>1, <1>2, <1>3, PTL DEF BatchSpec

-----------------------------------------------------------------------------
(***************************************************************************)
(* Fiat rails.  The argument is one of ownership: the guarded UPDATE that  *)
(* takes a row out of pending makes its handler the only one that may      *)
(* credit or refund the order, and a row never returns to pending.         *)
(***************************************************************************)
USE FiatAmounts, NoOrderIsNoRow

FiatOutcome == {"open", "paid", "failed"}
Owning == {"credit", "complete", "reject", "refund"}

(* A notice tells the truth about the provider's payment.                    *)
NoticesAreTrue ==
  \A o \in Order : \A n \in posted[o] :
    /\ frow[o] # NoOrder
    /\ \E outcome \in FiatOutcome :
         /\ n = Notice(frow[o].rail, frow[o].kind, outcome)
         /\ outcome = "open" \/ charge[o] = outcome

FiatBase ==
  /\ FiatTypeOK /\ DOMAIN posted = Order
  /\ NoticesAreTrue

(* An order nobody opened.                                                   *)
Unopened(o) ==
  /\ fapi[o] = "none" /\ charge[o] = "none"
  /\ debits[o] = 0 /\ credits[o] = 0 /\ refunds[o] = 0

(* A deposit: credited once at most, after it left pending.                  *)
DepositOK(o) ==
  /\ debits[o] = 0 /\ refunds[o] = 0 /\ credits[o] <= 1
  /\ fapi[o] \notin {"none", "debit"} /\ (fapi[o] = "rail" => charge[o] = "none")
  /\ frow[o].status = "pending" => credits[o] = 0
  /\ credits[o] > 0 => charge[o] = "paid" /\ AmountMatches(o)

(* A withdrawal: debited before the provider hears of it, refunded only      *)
(* after it left pending.                                                    *)
WithdrawalOK(o) ==
  /\ credits[o] = 0 /\ debits[o] <= 1 /\ refunds[o] <= debits[o]
  /\ fapi[o] # "none"
  /\ fapi[o] = "debit" => debits[o] = 0 /\ charge[o] = "none" /\ frow[o].status = "pending"
  /\ fapi[o] = "rail" => debits[o] = 1 /\ charge[o] = "none"
  /\ fapi[o] = "giveup" => lapsed[o] \/ debits[o] = 0
  /\ charge[o] # "none" => debits[o] = 1
  /\ frow[o].status = "pending" => refunds[o] = 0
  /\ refunds[o] > 0 => charge[o] = "failed"

OrdersOK ==
  \A o \in Order :
    /\ frow[o] = NoOrder => Unopened(o)
    /\ frow[o] # NoOrder /\ frow[o].kind = "deposit" => DepositOK(o)
    /\ frow[o] # NoOrder /\ frow[o].kind = "withdrawal" => WithdrawalOK(o)

(* What a handler that holds order o with an event of status st may rely on. *)
HandlerOK(pc, o, st) ==
  /\ o \in Order /\ frow[o] # NoOrder
  /\ st = "completed" => charge[o] = "paid"
  /\ st = "failed" => charge[o] = "failed"
  /\ pc \in {"claim", "credit", "complete", "reject"} => frow[o].kind = "deposit" /\ AmountMatches(o)
  /\ pc \in {"settle", "refund"} => frow[o].kind = "withdrawal"
  /\ pc \in Owning => frow[o].status # "pending"
  /\ pc = "credit" => credits[o] = 0 /\ st = "completed"
  /\ pc = "refund" => refunds[o] = 0 /\ st = "failed" /\ frow[o].status = "failed"

HandlersOK ==
  \A h \in Hook : hpc[h] # "idle" =>
    hjob[h].status \in {"completed", "failed"} /\ HandlerOK(hpc[h], hjob[h].order, hjob[h].status)

(* At most one handler owns an order.                                        *)
HandlersApart ==
  \A g, h \in Hook : g # h /\ hpc[g] \in Owning /\ hpc[h] \in Owning => hjob[g].order # hjob[h].order

FiatInv == FiatBase /\ OrdersOK /\ HandlersOK /\ HandlersApart /\ FailedIsRefunded
-----------------------------------------------------------------------------
(* An event that concerns the order's own table has the outcome of the       *)
(* payment as its status, whatever the rail: progress never looks final, and *)
(* failure never looks like success.                                         *)
LEMMA EventTells ==
  ASSUME NEW row \in FiatRow, NEW outcome \in FiatOutcome,
         NEW e, e = RailEvent(row.rail, Notice(row.rail, row.kind, outcome)),
         \/ row.kind = "deposit" /\ e.type \in DepositEvents
         \/ row.kind = "withdrawal" /\ e.type \in WithdrawalEvents
  PROVE  \/ outcome = "paid" /\ e.status = "completed"
         \/ outcome = "failed" /\ e.status = "failed"
<1> USE DEF RailEvent, Notice, DepositEvents, WithdrawalEvents, FiatOutcome, NoEvent
<1>1. row.rail \in Rail /\ row.kind \in {"deposit", "withdrawal"}
  BY DEF FiatRow
<1>2. CASE row.rail = "flutterwave"
  BY <1>2, ZenonT(60) DEF FlutterwaveEvent, FlutterwaveStatus
<1>3. CASE row.rail = "stripe"
  BY <1>1, <1>3, ZenonT(60) DEF StripeEvent
<1>4. CASE row.rail = "yellowcard"
  BY <1>1, <1>4 DEF YellowCardEvent
<1> QED
  BY <1>1, <1>2, <1>3, <1>4 DEF Rail

(* What the provider is asked for depends on rail, kind and amount alone.    *)
LEMMA AskedTheSame ==
  ASSUME NEW a, NEW b, a.kind = b.kind, a.rail = b.rail, a.amount = b.amount
  PROVE  Asked(a) = Asked(b)
  BY DEF Asked

(* A row keeps what it promises, and never returns to pending.               *)
Kept(x) ==
  frow[x] # NoOrder =>
    /\ frow'[x] # NoOrder
    /\ frow'[x].kind = frow[x].kind /\ frow'[x].rail = frow[x].rail
    /\ AmountMatches(x)' <=> AmountMatches(x)
    /\ frow[x].status # "pending" => frow'[x].status # "pending"

(* UpdateStatus writes the status of one order and nothing else of the       *)
(* table.                                                                    *)
LEMMA StatusWritten ==
  ASSUME FiatTypeOK, NEW o \in Order, frow[o] # NoOrder,
         NEW s \in FiatStatus \ {"pending"}, SetStatus(o, s)
  PROVE  /\ frow' \in [Order -> FiatRow \cup {NoOrder}]
         /\ frow'[o].status = s
         /\ \A x \in Order : x # o => frow'[x] = frow[x]
         /\ \A x \in Order : Kept(x)
<1>1. frow[o] \in FiatRow
  BY DEF FiatTypeOK
<1>2. [frow[o] EXCEPT !.status = s] \in FiatRow
  BY <1>1 DEF FiatRow
<1>3. frow' = [frow EXCEPT ![o] = [frow[o] EXCEPT !.status = s]]
  BY DEF SetStatus
<1>4. /\ frow'[o] \in FiatRow /\ frow'[o].status = s
      /\ frow'[o].kind = frow[o].kind /\ frow'[o].rail = frow[o].rail /\ frow'[o].amount = frow[o].amount
  BY <1>1, <1>2, <1>3 DEF FiatRow, FiatTypeOK
<1>5. \A x \in Order : x # o => frow'[x] = frow[x]
  BY <1>3 DEF FiatTypeOK
<1>6. Asked(frow'[o]) = Asked(frow[o])
  BY <1>4, AskedTheSame
<1>7. Kept(o)
  BY <1>4, <1>6 DEF Kept, AmountMatches
<1>8. \A x \in Order : x # o => Kept(x)
  BY <1>5 DEF Kept, AmountMatches
<1> QED
  BY <1>2, <1>3, <1>4, <1>5, <1>7, <1>8 DEF FiatTypeOK

(* A handler at work holds an order that exists.                             *)
LEMMA AtWork ==
  ASSUME FiatInv, NEW h \in Hook, hpc[h] # "idle"
  PROVE  /\ hjob[h].order \in Order /\ frow[hjob[h].order] # NoOrder
         /\ frow[hjob[h].order] \in FiatRow
         /\ hjob[h].status \in {"completed", "failed"}
         /\ HandlerOK(hpc[h], hjob[h].order, hjob[h].status)
  BY DEF FiatInv, FiatBase, FiatTypeOK, HandlersOK, HandlerOK

(* Every step keeps the rows that are there.                                 *)
LEMMA RowsAreKept ==
  ASSUME FiatInv, [FiatNext]_fiatVars
  PROVE  /\ frow' \in [Order -> FiatRow \cup {NoOrder}]
         /\ \A x \in Order : Kept(x)
<1> USE DEF FiatInv, FiatBase
<1>0. FiatTypeOK
  OBVIOUS
<1>1. CASE UNCHANGED frow
  BY <1>1 DEF Kept, AmountMatches, FiatTypeOK
<1>2. ASSUME NEW o \in Order, NEW req \in DepositReq, InitiateDeposit(o, req)
      PROVE  frow' \in [Order -> FiatRow \cup {NoOrder}] /\ \A x \in Order : Kept(x)
  <2>1. [kind |-> "deposit", rail |-> req.rail, amount |-> req.amount, status |-> "pending"] \in FiatRow
    BY DEF DepositReq, FiatRow, FiatStatus
  <2>2. /\ frow' \in [Order -> FiatRow \cup {NoOrder}] /\ frow[o] = NoOrder
        /\ \A x \in Order : x # o => frow'[x] = frow[x]
    BY <1>2, <2>1 DEF InitiateDeposit, CreateDeposit, FiatTypeOK
  <2> QED
    BY <2>2 DEF Kept, AmountMatches
<1>3. ASSUME NEW o \in Order, NEW req \in WithdrawReq, InitiateWithdrawal(o, req)
      PROVE  frow' \in [Order -> FiatRow \cup {NoOrder}] /\ \A x \in Order : Kept(x)
  <2>1. [kind |-> "withdrawal", rail |-> req.rail, amount |-> req.amount, status |-> "pending"] \in FiatRow
    BY DEF WithdrawReq, FiatRow, FiatStatus
  <2>2. /\ frow' \in [Order -> FiatRow \cup {NoOrder}] /\ frow[o] = NoOrder
        /\ \A x \in Order : x # o => frow'[x] = frow[x]
    BY <1>3, <2>1 DEF InitiateWithdrawal, CreateWithdrawal, FiatTypeOK
  <2> QED
    BY <2>2 DEF Kept, AmountMatches
<1>4. ASSUME NEW o \in Order, GiveUp(o), ~ UNCHANGED frow
      PROVE  frow' \in [Order -> FiatRow \cup {NoOrder}] /\ \A x \in Order : Kept(x)
  <2>1. frow[o] # NoOrder
    BY <1>4 DEF GiveUp, OrdersOK, Unopened
  <2>2. SetStatus(o, "failed")
    BY <1>4 DEF GiveUp, UpdateDepositStatus
  <2> QED
    BY <1>0, <2>1, <2>2, StatusWritten DEF FiatStatus
<1>5. ASSUME NEW h \in Hook, HookStep(h), ~ UNCHANGED frow
      PROVE  frow' \in [Order -> FiatRow \cup {NoOrder}] /\ \A x \in Order : Kept(x)
  <2>1. hpc[h] # "idle"
    BY <1>5 DEF HookStep, ClaimDepositForProcessing, CreditWallet, FinishDeposit, UpdateWithdrawalStatus, RefundWallet
  <2>2. hjob[h].order \in Order /\ frow[hjob[h].order] # NoOrder /\ hjob[h].status \in {"completed", "failed"}
    BY <2>1, AtWork
  <2>3. \E s \in {"processing", "completed", "failed"} : SetStatus(hjob[h].order, s)
    BY <1>5, <2>2 DEF HookStep, ClaimDepositForProcessing, CreditWallet, FinishDeposit,
                      UpdateWithdrawalStatus, RefundWallet, UpdateDepositStatus
  <2> QED
    BY <1>0, <2>2, <2>3, StatusWritten DEF FiatStatus
<1> QED
  BY <1>1, <1>2, <1>3, <1>4, <1>5
     DEF FiatNext, DebitWallet, CallRail, DropOrder, ProviderNotes, ReceiveWebhook, DropWebhook, fiatVars

(* What the provider posts stays a notice of what it did.                    *)
LEMMA NoticesStep == FiatInv /\ [FiatNext]_fiatVars => NoticesAreTrue'
<1> SUFFICES ASSUME FiatInv, [FiatNext]_fiatVars PROVE NoticesAreTrue'
  OBVIOUS
<1> USE DEF FiatInv, FiatBase
<1>1. \A x \in Order : frow[x] # NoOrder =>
        frow'[x] # NoOrder /\ frow'[x].kind = frow[x].kind /\ frow'[x].rail = frow[x].rail
  BY RowsAreKept DEF Kept
<1>2. CASE UNCHANGED <<posted, charge>>
  BY <1>1, <1>2 DEF NoticesAreTrue
<1>3. ASSUME NEW o \in Order, CallRail(o) PROVE NoticesAreTrue'
  <2>1. /\ posted' = posted /\ charge[o] = "none" /\ frow' = frow
        /\ \A x \in Order : x # o => charge'[x] = charge[x]
    <3>1. frow[o] # NoOrder /\ frow[o].kind \in {"deposit", "withdrawal"}
      BY <1>3 DEF CallRail, OrdersOK, Unopened, FiatTypeOK, FiatRow
    <3> QED
      BY <1>3, <3>1 DEF CallRail, OrdersOK, DepositOK, WithdrawalOK, FiatTypeOK
  <2>2. \A n \in posted[o] : n = Notice(frow[o].rail, frow[o].kind, "open")
    BY <2>1 DEF NoticesAreTrue, FiatOutcome
  <2> QED
    BY <2>1, <2>2 DEF NoticesAreTrue, FiatOutcome
<1>4. ASSUME NEW o \in Order, NEW outcome \in FiatOutcome, ProviderNotes(o, outcome) PROVE NoticesAreTrue'
  <2>1. frow[o] # NoOrder /\ frow' = frow /\ charge[o] = "open"
    BY <1>4 DEF ProviderNotes, OrdersOK, Unopened
  <2>2. /\ posted'[o] = posted[o] \cup {Notice(frow[o].rail, frow[o].kind, outcome)} /\ charge'[o] = outcome
        /\ \A x \in Order : x # o => posted'[x] = posted[x] /\ charge'[x] = charge[x]
    BY <1>4 DEF ProviderNotes, FiatTypeOK
  <2>3. \A n \in posted[o] : n = Notice(frow[o].rail, frow[o].kind, "open")
    BY <2>1 DEF NoticesAreTrue, FiatOutcome
  <2> QED
    BY <2>1, <2>2, <2>3 DEF NoticesAreTrue, FiatOutcome
<1> QED
  BY <1>2, <1>3, <1>4
     DEF FiatNext, FiatOutcome, fiatVars, InitiateDeposit, InitiateWithdrawal, DebitWallet, GiveUp, DropOrder,
         ReceiveWebhook, HookStep, ClaimDepositForProcessing, CreditWallet, FinishDeposit,
         UpdateWithdrawalStatus, RefundWallet, DropWebhook, ledgerVars

(* What a delivery that is acted on says of the payment.                     *)
LEMMA ReceivedTells ==
  ASSUME FiatInv, NEW o \in Order, NEW h \in Hook, NEW n \in posted[o], ReceiveWebhook(h, o, n)
  PROVE  \E st \in {"completed", "failed"}, pc \in {"claim", "settle"} :
           /\ hjob' = [hjob EXCEPT ![h] = [order |-> o, status |-> st]]
           /\ hpc' = [hpc EXCEPT ![h] = pc]
           /\ frow[o] # NoOrder
           /\ charge[o] = IF st = "completed" THEN "paid" ELSE "failed"
           /\ IF pc = "claim" THEN frow[o].kind = "deposit" /\ AmountMatches(o) ELSE frow[o].kind = "withdrawal"
<1> USE DEF FiatInv, FiatBase
<1> DEFINE e == RailEvent(frow[o].rail, n)
<1>1. PICK outcome \in FiatOutcome :
        /\ n = Notice(frow[o].rail, frow[o].kind, outcome)
        /\ outcome = "open" \/ charge[o] = outcome
  BY DEF NoticesAreTrue
<1>2. frow[o] # NoOrder /\ frow[o] \in FiatRow
  BY DEF NoticesAreTrue, FiatTypeOK
<1>3. /\ hjob' = [hjob EXCEPT ![h] = [order |-> o, status |-> e.status]]
      /\ \/ /\ e.type \in DepositEvents /\ frow[o].kind = "deposit" /\ AmountMatches(o)
            /\ hpc' = [hpc EXCEPT ![h] = "claim"]
         \/ /\ e.type \in WithdrawalEvents /\ frow[o].kind = "withdrawal"
            /\ hpc' = [hpc EXCEPT ![h] = "settle"]
  BY DEF ReceiveWebhook, GetDepositByReference, GetWithdrawalByReference
<1>4. \/ outcome = "paid" /\ e.status = "completed"
      \/ outcome = "failed" /\ e.status = "failed"
  BY <1>1, <1>2, <1>3, EventTells
<1> HIDE DEF e
<1> QED
  BY <1>1, <1>2, <1>3, <1>4

(* Every step of the rails keeps the types.                                  *)
LEMMA FiatTypesStep == FiatInv /\ [FiatNext]_fiatVars => FiatTypeOK' /\ DOMAIN posted' = Order
<1> SUFFICES ASSUME FiatInv, [FiatNext]_fiatVars PROVE FiatTypeOK' /\ DOMAIN posted' = Order
  OBVIOUS
<1>0. FiatTypeOK /\ DOMAIN posted = Order /\ NoJob \in [order : Order, status : {"completed", "failed"}] \cup {NoJob}
  BY DEF FiatInv, FiatBase
<1>1. frow' \in [Order -> FiatRow \cup {NoOrder}]
  BY RowsAreKept
<1>2. ASSUME NEW o \in Order, NEW req \in DepositReq, InitiateDeposit(o, req) PROVE FiatTypeOK' /\ DOMAIN posted' = Order
  BY <1>0, <1>1, <1>2 DEF FiatTypeOK, InitiateDeposit, handling, ledgerVars
<1>3. ASSUME NEW o \in Order, NEW req \in WithdrawReq, InitiateWithdrawal(o, req) PROVE FiatTypeOK' /\ DOMAIN posted' = Order
  BY <1>0, <1>1, <1>3 DEF FiatTypeOK, InitiateWithdrawal, handling, ledgerVars
<1>4. ASSUME NEW o \in Order, DebitWallet(o) PROVE FiatTypeOK' /\ DOMAIN posted' = Order
  <2>1. /\ debits' \in [Order -> Nat] /\ lapsed' \in [Order -> BOOLEAN]
        /\ fapi' \in [Order -> {"none", "debit", "rail", "giveup", "done"}]
    BY <1>0, <1>4 DEF FiatTypeOK, DebitWallet, InitiateTransfer
  <2> QED
    BY <1>0, <1>4, <2>1 DEF FiatTypeOK, DebitWallet, handling
<1>5. ASSUME NEW o \in Order, CallRail(o) PROVE FiatTypeOK' /\ DOMAIN posted' = Order
  <2>1. lapsed' \in [Order -> BOOLEAN]
    BY <1>0, <1>5 DEF FiatTypeOK, CallRail
  <2> QED
    BY <1>0, <1>5, <2>1 DEF FiatTypeOK, CallRail, handling
<1>6. ASSUME NEW o \in Order, GiveUp(o) PROVE FiatTypeOK' /\ DOMAIN posted' = Order
  BY <1>0, <1>1, <1>6 DEF FiatTypeOK, GiveUp, handling, ledgerVars
<1>7. ASSUME NEW o \in Order, DropOrder(o) PROVE FiatTypeOK' /\ DOMAIN posted' = Order
  <2>1. lapsed' \in [Order -> BOOLEAN]
    BY <1>0, <1>7 DEF FiatTypeOK, DropOrder
  <2> QED
    BY <1>0, <1>7, <2>1 DEF FiatTypeOK, DropOrder, handling
<1>8. ASSUME NEW o \in Order, NEW outcome \in FiatOutcome, ProviderNotes(o, outcome) PROVE FiatTypeOK' /\ DOMAIN posted' = Order
  <2>1. \A x \in Order : IsFiniteSet(posted'[x])
    <3>1. IsFiniteSet(posted[o] \cup {Notice(frow[o].rail, frow[o].kind, outcome)})
      BY <1>0, FS_AddElement DEF FiatTypeOK
    <3> QED
      BY <1>0, <1>8, <3>1 DEF FiatTypeOK, ProviderNotes
  <2> QED
    BY <1>0, <1>8, <2>1 DEF FiatTypeOK, ProviderNotes, FiatOutcome, handling, ledgerVars
<1>9. ASSUME NEW o \in Order, NEW h \in Hook, NEW n \in posted[o], ReceiveWebhook(h, o, n) PROVE FiatTypeOK' /\ DOMAIN posted' = Order
  <2>1. PICK st \in {"completed", "failed"}, pc \in {"claim", "settle"} :
          hjob' = [hjob EXCEPT ![h] = [order |-> o, status |-> st]] /\ hpc' = [hpc EXCEPT ![h] = pc]
    BY <1>9, ReceivedTells
  <2> QED
    BY <1>0, <1>9, <2>1 DEF FiatTypeOK, ReceiveWebhook
<1>10. ASSUME NEW h \in Hook, EndHook(h)
       PROVE  /\ hpc' \in [Hook -> {"idle", "claim", "credit", "complete", "reject", "settle", "refund"}]
              /\ hjob' \in [Hook -> [order : Order, status : {"completed", "failed"}] \cup {NoJob}]
  BY <1>0, <1>10 DEF FiatTypeOK, EndHook
<1>11. ASSUME NEW h \in Hook, HookStep(h) PROVE FiatTypeOK' /\ DOMAIN posted' = Order
  <2>1. hpc[h] # "idle"
    BY <1>11 DEF HookStep, ClaimDepositForProcessing, CreditWallet, FinishDeposit, UpdateWithdrawalStatus, RefundWallet
  <2>2. hjob[h].order \in Order
    BY <2>1, AtWork
  <2>3. CASE ClaimDepositForProcessing(h)
    BY <1>0, <1>1, <1>10, <2>3 DEF FiatTypeOK, ClaimDepositForProcessing, ledgerVars
  <2>4. CASE CreditWallet(h)
    BY <1>0, <2>2, <2>4 DEF FiatTypeOK, CreditWallet, InitiateTransfer
  <2>5. CASE FinishDeposit(h)
    BY <1>0, <1>1, <1>10, <2>5 DEF FiatTypeOK, FinishDeposit, ledgerVars
  <2>6. CASE UpdateWithdrawalStatus(h)
    BY <1>0, <1>1, <1>10, <2>6 DEF FiatTypeOK, UpdateWithdrawalStatus, ledgerVars
  <2>7. CASE RefundWallet(h)
    <3>1. refunds' \in [Order -> Nat]
      BY <1>0, <2>2, <2>7 DEF FiatTypeOK, RefundWallet, InitiateTransfer
    <3>2. lapsed' \in [Order -> BOOLEAN]
      BY <1>0, <2>2, <2>7 DEF FiatTypeOK, RefundWallet
    <3> QED
      BY <1>0, <1>10, <2>7, <3>1, <3>2 DEF FiatTypeOK, RefundWallet
  <2> QED
    BY <1>11, <2>3, <2>4, <2>5, <2>6, <2>7 DEF HookStep
<1>12. ASSUME NEW h \in Hook, DropWebhook(h) PROVE FiatTypeOK' /\ DOMAIN posted' = Order
  <2>1. hjob[h].order \in Order
    BY <1>12, AtWork DEF DropWebhook
  <2>2. lapsed' \in [Order -> BOOLEAN]
    BY <1>0, <1>12, <2>1 DEF FiatTypeOK, DropWebhook
  <2> QED
    BY <1>0, <1>10, <1>12, <2>2 DEF FiatTypeOK, DropWebhook
<1>13. CASE UNCHANGED fiatVars
  BY <1>0, <1>13 DEF FiatTypeOK, fiatVars
<1> QED
  BY <1>2, <1>3, <1>4, <1>5, <1>6, <1>7, <1>8, <1>9, <1>11, <1>12, <1>13 DEF FiatNext, FiatOutcome
-----------------------------------------------------------------------------
(* The rest of the invariant, action by action.                              *)
FiatRest == OrdersOK /\ HandlersOK /\ HandlersApart /\ FailedIsRefunded

(* Nothing of any other order changes.                                       *)
OthersRest(o) ==
  \A x \in Order : x # o =>
    /\ frow'[x] = frow[x] /\ fapi'[x] = fapi[x] /\ charge'[x] = charge[x]
    /\ debits'[x] = debits[x] /\ credits'[x] = credits[x] /\ refunds'[x] = refunds[x] /\ lapsed'[x] = lapsed[x]

(* A step of the request or of the provider: it suffices to look at its own  *)
(* order and at the handlers that hold it.                                   *)
LEMMA OwnOrder ==
  ASSUME FiatInv, NEW o \in Order, OthersRest(o), UNCHANGED <<hpc, hjob>>,
         frow'[o] = NoOrder => Unopened(o)',
         frow'[o] # NoOrder /\ frow'[o].kind = "deposit" => DepositOK(o)',
         frow'[o] # NoOrder /\ frow'[o].kind = "withdrawal" => WithdrawalOK(o)',
         \A h \in Hook : hpc[h] # "idle" /\ hjob[h].order = o => HandlerOK(hpc[h], o, hjob[h].status)',
         frow'[o] # NoOrder /\ frow'[o].kind = "withdrawal" /\ frow'[o].status = "failed" =>
           \/ debits'[o] = refunds'[o] \/ lapsed'[o]
           \/ \E h \in Hook : hpc[h] = "refund" /\ hjob[h].order = o
  PROVE  FiatRest'
<1>1. OrdersOK'
  BY DEF FiatInv, OrdersOK, OthersRest, Unopened, DepositOK, WithdrawalOK, AmountMatches
<1>2. HandlersOK'
  <2> SUFFICES ASSUME NEW h \in Hook, hpc[h] # "idle"
               PROVE  hjob[h].status \in {"completed", "failed"} /\ HandlerOK(hpc[h], hjob[h].order, hjob[h].status)'
    BY DEF HandlersOK
  <2>1. hjob[h].order \in Order /\ hjob[h].status \in {"completed", "failed"}
        /\ HandlerOK(hpc[h], hjob[h].order, hjob[h].status)
    BY AtWork
  <2>2. CASE hjob[h].order # o
    BY <2>1, <2>2 DEF OthersRest, HandlerOK, AmountMatches
  <2> QED
    BY <2>1, <2>2
<1>3. HandlersApart'
  BY DEF FiatInv, HandlersApart
<1>4. FailedIsRefunded'
  BY DEF FiatInv, FailedIsRefunded, OthersRest
<1> QED
  BY <1>1, <1>2, <1>3, <1>4 DEF FiatRest

(* An order just opened has moved no money.                                  *)
LEMMA OpenStep ==
  ASSUME FiatInv, NEW o \in Order, NEW kind \in {"deposit", "withdrawal"}, frow[o] = NoOrder,
         frow'[o] # NoOrder, frow'[o].kind = kind, frow'[o].status = "pending",
         fapi'[o] = IF kind = "deposit" THEN "rail" ELSE "debit",
         OthersRest(o), UNCHANGED <<charge, handling, ledgerVars>>
  PROVE  FiatRest'
<1>1. Unopened(o)
  BY DEF FiatInv, OrdersOK
<1>2. \A h \in Hook : hpc[h] # "idle" => hjob[h].order # o
  BY AtWork
<1>3. kind = "deposit" => DepositOK(o)'
  BY <1>1 DEF Unopened, DepositOK, ledgerVars
<1>4. kind = "withdrawal" => WithdrawalOK(o)'
  BY <1>1 DEF Unopened, WithdrawalOK, ledgerVars
<1>5. UNCHANGED <<hpc, hjob>>
  BY DEF handling
<1> QED
  BY <1>2, <1>3, <1>4, <1>5, OwnOrder

(* A withdrawal debits its wallet once, before the rail is called.           *)
LEMMA DebitStep == ASSUME FiatInv, NEW o \in Order, DebitWallet(o) PROVE FiatRest'
<1> USE DEF FiatInv, FiatBase
<1>1. frow[o] # NoOrder /\ frow[o].kind = "withdrawal" /\ WithdrawalOK(o)
  BY DEF DebitWallet, OrdersOK, Unopened, DepositOK, FiatTypeOK, FiatRow
<1>2. /\ debits[o] = 0 /\ charge[o] = "none" /\ frow[o].status = "pending" /\ refunds[o] = 0 /\ credits[o] = 0
  BY <1>1 DEF DebitWallet, WithdrawalOK
<1>3. \A h \in Hook : hpc[h] # "idle" => hjob[h].order # o
  BY <1>2, AtWork DEF HandlerOK
<1>4. /\ frow' = frow /\ charge' = charge /\ refunds' = refunds /\ credits' = credits /\ UNCHANGED <<hpc, hjob>>
  BY DEF DebitWallet, handling
<1>5. \/ fapi'[o] = "rail" /\ debits'[o] = 1
      \/ fapi'[o] = "giveup" /\ debits'[o] = 0
      \/ fapi'[o] = "giveup" /\ debits'[o] = 1 /\ lapsed'[o]
  <2>1. PICK ok \in BOOLEAN :
          /\ InitiateTransfer(debits, o, ok)
          /\ fapi' = [fapi EXCEPT ![o] = IF ok THEN "rail" ELSE "giveup"]
          /\ lapsed' = [lapsed EXCEPT ![o] = ~ok /\ debits'[o] > 0]
    BY DEF DebitWallet
  <2>2. debits'[o] = 1 \/ (~ok /\ debits'[o] = 0)
    BY <1>2, <2>1 DEF InitiateTransfer, FiatTypeOK
  <2>3. /\ fapi'[o] = IF ok THEN "rail" ELSE "giveup"
        /\ ~ok /\ debits'[o] > 0 => lapsed'[o]
    BY <2>1 DEF FiatTypeOK
  <2> QED
    BY <2>2, <2>3
<1>6. OthersRest(o)
  BY <1>4 DEF OthersRest, DebitWallet, InitiateTransfer, FiatTypeOK
<1>7. WithdrawalOK(o)'
  BY <1>2, <1>4, <1>5 DEF WithdrawalOK
<1> QED
  BY <1>1, <1>2, <1>3, <1>4, <1>6, <1>7, OwnOrder

(* The provider opens the payment or not, and the caller may see an error    *)
(* either way.                                                               *)
LEMMA CallStep == ASSUME FiatInv, NEW o \in Order, CallRail(o) PROVE FiatRest'
<1> USE DEF FiatInv, FiatBase
<1>1. frow[o] # NoOrder /\ frow[o].kind \in {"deposit", "withdrawal"}
  BY DEF CallRail, OrdersOK, Unopened, FiatTypeOK, FiatRow
<1>2. charge[o] = "none"
  BY <1>1 DEF CallRail, OrdersOK, DepositOK, WithdrawalOK
<1>3. \A h \in Hook : hpc[h] # "idle" => hjob[h].order # o
  BY <1>2, AtWork DEF HandlerOK
<1>4. /\ frow' = frow /\ debits' = debits /\ refunds' = refunds /\ credits' = credits /\ UNCHANGED <<hpc, hjob>>
  BY DEF CallRail, handling
<1>5. /\ charge'[o] \in {"open", "none"}
      /\ \/ fapi'[o] = "done" /\ (lapsed[o] => lapsed'[o])
         \/ fapi'[o] = "giveup" /\ (lapsed[o] => lapsed'[o]) /\ (frow[o].kind = "withdrawal" => lapsed'[o])
  BY <1>2 DEF CallRail, FiatTypeOK
<1>6. OthersRest(o)
  BY <1>4 DEF OthersRest, CallRail, FiatTypeOK
<1>7. frow[o].kind = "deposit" => DepositOK(o)'
  <2>1. frow[o].kind = "deposit" => DepositOK(o)
    BY <1>1 DEF OrdersOK
  <2> QED
    BY <1>2, <1>4, <1>5, <2>1 DEF DepositOK, AmountMatches
<1>8. frow[o].kind = "withdrawal" => WithdrawalOK(o) /\ WithdrawalOK(o)'
  <2>1. frow[o].kind = "withdrawal" => WithdrawalOK(o) /\ fapi[o] = "rail"
    BY <1>1 DEF OrdersOK, CallRail
  <2> QED
    BY <1>2, <1>4, <1>5, <2>1 DEF WithdrawalOK
<1>9. frow[o].kind = "withdrawal" /\ frow[o].status = "failed" => debits[o] = refunds[o] \/ lapsed'[o]
  BY <1>1, <1>3, <1>5 DEF FailedIsRefunded
<1> QED
  BY <1>1, <1>3, <1>4, <1>6, <1>7, <1>8, <1>9, OwnOrder

(* The request that opened the order writes its failure, unless a notice has *)
(* closed the order; a debit is not refunded here.                           *)
LEMMA GiveUpStep == ASSUME FiatInv, NEW o \in Order, GiveUp(o), [FiatNext]_fiatVars PROVE FiatRest'
<1> USE DEF FiatInv, FiatBase
<1>1. frow[o] # NoOrder /\ frow[o] \in FiatRow /\ frow[o].kind \in {"deposit", "withdrawal"} /\ fapi[o] = "giveup"
  BY DEF GiveUp, OrdersOK, Unopened, FiatTypeOK, FiatRow
<1>2. UNCHANGED <<hpc, hjob, charge, debits, credits, refunds, lapsed>> /\ fapi'[o] = "done"
  BY DEF GiveUp, handling, ledgerVars, FiatTypeOK
<1>3. Kept(o)
  BY RowsAreKept
<1>4. OthersRest(o)
  BY <1>2 DEF OthersRest, GiveUp, UpdateDepositStatus, SetStatus, FiatTypeOK
<1>5. frow' = frow \/ (frow[o].status \notin {"completed", "failed"} /\ frow'[o].status = "failed")
  <2>1. SetStatus(o, "failed") => frow'[o].status = "failed"
    BY <1>1, StatusWritten DEF FiatStatus
  <2> QED
    BY <2>1 DEF GiveUp, UpdateDepositStatus, WithdrawalOpen
<1>6. frow[o].kind = "deposit" => DepositOK(o)'
  <2>1. frow[o].kind = "deposit" => DepositOK(o)
    BY <1>1 DEF OrdersOK
  <2> QED
    BY <1>1, <1>2, <1>3, <2>1 DEF DepositOK, Kept
<1>7. frow[o].kind = "withdrawal" => WithdrawalOK(o)
  BY <1>1 DEF OrdersOK
<1>8. frow[o].kind = "withdrawal" => WithdrawalOK(o)'
  BY <1>1, <1>2, <1>3, <1>7 DEF WithdrawalOK, Kept
<1>9. \A h \in Hook : hpc[h] # "idle" /\ hjob[h].order = o => HandlerOK(hpc[h], o, hjob[h].status)'
  <2> SUFFICES ASSUME NEW h \in Hook, hpc[h] # "idle", hjob[h].order = o
               PROVE  HandlerOK(hpc[h], o, hjob[h].status)'
    OBVIOUS
  <2>1. HandlerOK(hpc[h], o, hjob[h].status)
    BY AtWork
  <2> QED
    BY <1>1, <1>2, <1>3, <1>5, <2>1 DEF HandlerOK, Kept
<1>10. frow'[o].kind = "withdrawal" /\ frow'[o].status = "failed" =>
          debits'[o] = refunds'[o] \/ lapsed'[o] \/ \E h \in Hook : hpc[h] = "refund" /\ hjob[h].order = o
  <2>1. CASE frow' = frow
    BY <1>1, <1>2, <2>1 DEF FailedIsRefunded
  <2>2. CASE frow[o].kind = "withdrawal"
    <3>1. lapsed[o] \/ debits[o] = 0
      BY <1>1, <1>7, <2>2 DEF WithdrawalOK
    <3>2. debits[o] = 0 => refunds[o] = 0
      BY <1>7, <2>2 DEF WithdrawalOK, FiatTypeOK
    <3> QED
      BY <1>2, <3>1, <3>2
  <2> QED
    BY <1>1, <1>3, <2>1, <2>2 DEF Kept
<1>11. frow'[o] # NoOrder /\ frow'[o].kind = frow[o].kind
  BY <1>1, <1>3 DEF Kept
<1> QED
  BY <1>2, <1>4, <1>6, <1>8, <1>9, <1>10, <1>11, OwnOrder

(* A request that dies leaves its order to the notices.                      *)
LEMMA DropOrderStep == ASSUME FiatInv, NEW o \in Order, DropOrder(o) PROVE FiatRest'
<1> USE DEF FiatInv, FiatBase
<1>1. frow[o] # NoOrder /\ frow[o].kind \in {"deposit", "withdrawal"}
  BY DEF DropOrder, OrdersOK, Unopened, FiatTypeOK, FiatRow
<1>2. /\ UNCHANGED <<frow, hpc, hjob, charge, debits, credits, refunds>>
      /\ fapi'[o] = "done" /\ (lapsed[o] => lapsed'[o])
  BY DEF DropOrder, handling, FiatTypeOK
<1>3. OthersRest(o)
  BY <1>2 DEF OthersRest, DropOrder, FiatTypeOK
<1>4. frow[o].kind = "deposit" => DepositOK(o)'
  BY <1>1, <1>2 DEF OrdersOK, DepositOK, AmountMatches
<1>5. frow[o].kind = "withdrawal" => WithdrawalOK(o)'
  BY <1>1, <1>2 DEF OrdersOK, WithdrawalOK
<1>6. \A h \in Hook : hpc[h] # "idle" /\ hjob[h].order = o => HandlerOK(hpc[h], o, hjob[h].status)'
  BY <1>2, AtWork DEF HandlerOK, AmountMatches
<1>7. frow[o].kind = "withdrawal" /\ frow[o].status = "failed" =>
          debits[o] = refunds[o] \/ lapsed'[o] \/ \E h \in Hook : hpc[h] = "refund" /\ hjob[h].order = o
  BY <1>1, <1>2 DEF FailedIsRefunded
<1> QED
  BY <1>1, <1>2, <1>3, <1>4, <1>5, <1>6, <1>7, OwnOrder

(* The provider posts what became of an order.                               *)
LEMMA NotesStep ==
  ASSUME FiatInv, NEW o \in Order, NEW outcome \in FiatOutcome, ProviderNotes(o, outcome)
  PROVE  FiatRest'
<1> USE DEF FiatInv, FiatBase
<1>1. frow[o] # NoOrder /\ frow[o].kind \in {"deposit", "withdrawal"} /\ charge[o] = "open"
  BY DEF ProviderNotes, OrdersOK, Unopened, FiatTypeOK, FiatRow
<1>2. /\ UNCHANGED <<frow, fapi, hpc, hjob, debits, credits, refunds, lapsed>>
      /\ charge'[o] # "none"
  BY DEF ProviderNotes, FiatOutcome, handling, ledgerVars, FiatTypeOK
<1>3. OthersRest(o)
  BY <1>2 DEF OthersRest, ProviderNotes, FiatTypeOK
<1>4. frow[o].kind = "deposit" => DepositOK(o)'
  <2>1. frow[o].kind = "deposit" => DepositOK(o)
    BY <1>1 DEF OrdersOK
  <2> QED
    BY <1>1, <1>2, <2>1 DEF DepositOK, AmountMatches
<1>5. frow[o].kind = "withdrawal" => WithdrawalOK(o)'
  <2>1. frow[o].kind = "withdrawal" => WithdrawalOK(o)
    BY <1>1 DEF OrdersOK
  <2> QED
    BY <1>1, <1>2, <2>1 DEF WithdrawalOK
<1>6. \A h \in Hook : hpc[h] # "idle" => hjob[h].order # o
  BY <1>1, AtWork DEF HandlerOK
<1>7. frow[o].kind = "withdrawal" /\ frow[o].status = "failed" => debits[o] = refunds[o] \/ lapsed[o]
  BY <1>1, <1>6 DEF FailedIsRefunded
<1> QED
  BY <1>1, <1>2, <1>3, <1>4, <1>5, <1>6, <1>7, OwnOrder
-----------------------------------------------------------------------------
(* A step of handler h: the other handlers stay where they are.              *)
OtherHooksRest(h) == \A g \in Hook : g # h => hpc'[g] = hpc[g] /\ hjob'[g] = hjob[g]

(* A notice is received, perhaps for the second time, perhaps beside         *)
(* another.                                                                  *)
LEMMA ReceiveStep ==
  ASSUME FiatInv, NEW o \in Order, NEW h \in Hook, NEW n \in posted[o], ReceiveWebhook(h, o, n)
  PROVE  FiatRest'
<1>1. PICK st \in {"completed", "failed"}, pc \in {"claim", "settle"} :
        /\ hjob' = [hjob EXCEPT ![h] = [order |-> o, status |-> st]]
        /\ hpc' = [hpc EXCEPT ![h] = pc]
        /\ frow[o] # NoOrder
        /\ charge[o] = IF st = "completed" THEN "paid" ELSE "failed"
        /\ IF pc = "claim" THEN frow[o].kind = "deposit" /\ AmountMatches(o) ELSE frow[o].kind = "withdrawal"
  BY ReceivedTells
<1>2. UNCHANGED <<frow, fapi, charge, debits, credits, refunds, lapsed>> /\ hpc[h] = "idle"
  BY DEF ReceiveWebhook, HandleWebhookRequest
<1>3. OtherHooksRest(h) /\ hpc'[h] = pc /\ hjob'[h].order = o /\ hjob'[h].status = st
  BY <1>1 DEF OtherHooksRest, FiatInv, FiatBase, FiatTypeOK
<1>4. OrdersOK'
  BY <1>2 DEF FiatInv, OrdersOK, Unopened, DepositOK, WithdrawalOK, AmountMatches
<1>5. HandlersOK'
  <2>1. \A g \in Hook : g # h /\ hpc'[g] # "idle" =>
          hjob'[g].status \in {"completed", "failed"} /\ HandlerOK(hpc'[g], hjob'[g].order, hjob'[g].status)
    BY <1>3, AtWork DEF OtherHooksRest
  <2>2. HandlerOK(pc, o, st)
    BY <1>1 DEF HandlerOK, Owning
  <2>3. \A g \in Hook : hpc'[g] # "idle" =>
          hjob'[g].status \in {"completed", "failed"} /\ HandlerOK(hpc'[g], hjob'[g].order, hjob'[g].status)
    BY <1>1, <1>3, <2>1, <2>2
  <2> QED
    BY <1>2, <2>3 DEF HandlersOK, HandlerOK, AmountMatches
<1>6. HandlersApart'
  BY <1>3 DEF OtherHooksRest, FiatInv, HandlersApart, Owning
<1>7. FailedIsRefunded'
  BY <1>2, <1>3 DEF OtherHooksRest, FiatInv, FailedIsRefunded
<1> QED
  BY <1>4, <1>5, <1>6, <1>7 DEF FiatRest

(* A step of one handler of a notice, from what holds of its order and of    *)
(* it.                                                                       *)
LEMMA OwnHook ==
  ASSUME FiatInv, NEW h \in Hook, hpc[h] # "idle", NEW o \in Order, o = hjob[h].order,
         OthersRest(o), OtherHooksRest(h), frow'[o] # NoOrder,
         frow'[o].kind = "deposit" => DepositOK(o)',
         frow'[o].kind = "withdrawal" => WithdrawalOK(o)',
         \A g \in Hook : g # h /\ hpc[g] # "idle" /\ hjob[g].order = o => HandlerOK(hpc[g], o, hjob[g].status)',
         hpc'[h] # "idle" => hjob'[h] = hjob[h] /\ HandlerOK(hpc[h], o, hjob[h].status)',
         hpc'[h] \in Owning => \A g \in Hook : g # h /\ hpc[g] \in Owning => hjob[g].order # o,
         frow'[o].kind = "withdrawal" /\ frow'[o].status = "failed" =>
           \/ debits'[o] = refunds'[o] \/ lapsed'[o]
           \/ \E g \in Hook : hpc'[g] = "refund" /\ hjob'[g].order = o
  PROVE  FiatRest'
<1>1. OrdersOK'
  BY DEF FiatInv, OrdersOK, OthersRest, Unopened, DepositOK, WithdrawalOK, AmountMatches
<1>2. HandlersOK'
  <2> SUFFICES ASSUME NEW g \in Hook, hpc'[g] # "idle"
               PROVE  /\ hjob'[g].status \in {"completed", "failed"}
                      /\ HandlerOK(hpc[g], hjob[g].order, hjob[g].status)'
    BY DEF HandlersOK
  <2>1. CASE g = h
    <3>1. hjob[h].status \in {"completed", "failed"}
      BY AtWork
    <3> QED
      BY <2>1, <3>1
  <2>2. CASE g # h
    <3>1. hpc'[g] = hpc[g] /\ hjob'[g] = hjob[g] /\ hpc[g] # "idle"
      BY <2>2 DEF OtherHooksRest
    <3>2. hjob[g].order \in Order /\ hjob[g].status \in {"completed", "failed"}
          /\ HandlerOK(hpc[g], hjob[g].order, hjob[g].status)
      BY <3>1, AtWork
    <3>3. CASE hjob[g].order = o
      BY <2>2, <3>1, <3>2, <3>3
    <3>4. CASE hjob[g].order # o
      BY <3>1, <3>2, <3>4 DEF OthersRest, HandlerOK, AmountMatches
    <3> QED
      BY <3>3, <3>4
  <2> QED
    BY <2>1, <2>2
<1>3. HandlersApart'
  BY DEF FiatInv, HandlersApart, OtherHooksRest, Owning
<1>4. FailedIsRefunded'
  BY DEF FiatInv, FailedIsRefunded, OthersRest, OtherHooksRest
<1> QED
  BY <1>1, <1>2, <1>3, <1>4 DEF FiatRest

(* A handler that ends without touching its order.                           *)
LEMMA HookEnds ==
  ASSUME FiatInv, NEW h \in Hook, hpc[h] # "idle", EndHook(h), NEW o, o = hjob[h].order,
         UNCHANGED <<frow, fapi, charge, debits, credits, refunds>>,
         \A x \in Order : lapsed[x] => lapsed'[x],
         \A x \in Order : x # o => lapsed'[x] = lapsed[x],
         hpc[h] = "refund" => lapsed'[o]
  PROVE  FiatRest'
<1>1. o \in Order /\ frow[o] # NoOrder
  BY AtWork
<1>2. OthersRest(o)
  BY DEF OthersRest
<1>3. OtherHooksRest(h) /\ hpc'[h] = "idle"
  BY DEF OtherHooksRest, EndHook, FiatInv, FiatBase, FiatTypeOK
<1>4. frow'[o].kind = "deposit" => DepositOK(o)'
  BY <1>1 DEF FiatInv, OrdersOK, DepositOK, AmountMatches
<1>5. frow'[o].kind = "withdrawal" => WithdrawalOK(o)'
  BY <1>1 DEF FiatInv, OrdersOK, WithdrawalOK
<1>6. \A g \in Hook : g # h /\ hpc[g] # "idle" /\ hjob[g].order = o => HandlerOK(hpc[g], o, hjob[g].status)'
  BY <1>3, AtWork DEF OtherHooksRest, HandlerOK, AmountMatches
<1>7. frow'[o].kind = "withdrawal" /\ frow'[o].status = "failed" =>
           \/ debits'[o] = refunds'[o] \/ lapsed'[o]
           \/ \E g \in Hook : hpc'[g] = "refund" /\ hjob'[g].order = o
  BY <1>1, <1>3 DEF FiatInv, FailedIsRefunded, OtherHooksRest
<1> QED
  BY <1>1, <1>2, <1>3, <1>4, <1>5, <1>6, <1>7, OwnHook DEF Owning

(* Of the handlers of a deposit's notices one claims it (the conditional     *)
(* UPDATE).                                                                  *)
LEMMA ClaimStep ==
  ASSUME FiatInv, NEW h \in Hook, NEW o, NEW st, o = hjob[h].order, st = hjob[h].status,
         ClaimDepositForProcessing(h)
  PROVE  FiatRest'
<1> USE DEF FiatInv, FiatBase
<1>1. hpc[h] = "claim" /\ UNCHANGED <<fapi, charge, debits, credits, refunds, lapsed>>
  BY DEF ClaimDepositForProcessing, ledgerVars
<1>2. /\ o \in Order /\ frow[o] # NoOrder /\ frow[o] \in FiatRow /\ st \in {"completed", "failed"}
      /\ HandlerOK("claim", o, st)
  BY <1>1, AtWork
<1>3. CASE ~DepositUnclaimed(o)
  BY <1>1, <1>3, HookEnds DEF ClaimDepositForProcessing
<1>4. CASE DepositUnclaimed(o)
  <2>1. /\ SetStatus(o, "processing") /\ hjob' = hjob /\ frow[o].status = "pending"
        /\ hpc'[h] = IF st = "completed" THEN "credit" ELSE "reject"
        /\ OtherHooksRest(h)
    BY <1>4 DEF ClaimDepositForProcessing, DepositUnclaimed, OtherHooksRest, FiatTypeOK
  <2>2. /\ frow'[o].status = "processing" /\ Kept(o)
        /\ \A x \in Order : x # o => frow'[x] = frow[x]
    BY <1>2, <2>1, StatusWritten DEF FiatStatus
  <2>3. frow[o].kind = "deposit" /\ frow'[o].kind = "deposit" /\ frow'[o] # NoOrder
        /\ (AmountMatches(o)' <=> AmountMatches(o)) /\ AmountMatches(o)
    BY <1>2, <2>2 DEF HandlerOK, Kept
  <2>4. DepositOK(o) /\ credits[o] = 0
    BY <1>2, <2>1, <2>3 DEF OrdersOK, DepositOK
  <2>5. OthersRest(o)
    BY <1>1, <2>2 DEF OthersRest
  <2>6. DepositOK(o)'
    BY <1>1, <2>2, <2>3, <2>4 DEF DepositOK
  <2>7. \A g \in Hook : g # h /\ hpc[g] # "idle" /\ hjob[g].order = o =>
          hpc[g] \notin Owning /\ HandlerOK(hpc[g], o, hjob[g].status)
    BY <2>1, AtWork DEF HandlerOK
  <2>8. \A g \in Hook : g # h /\ hpc[g] # "idle" /\ hjob[g].order = o => HandlerOK(hpc[g], o, hjob[g].status)'
    BY <1>1, <1>2, <2>1, <2>2, <2>3, <2>7 DEF OtherHooksRest, HandlerOK, Owning
  <2>9. HandlerOK(hpc[h], o, hjob[h].status)'
    BY <1>1, <1>2, <2>1, <2>2, <2>3, <2>4 DEF HandlerOK, Owning
  <2>10. \A g \in Hook : g # h /\ hpc[g] \in Owning => hjob[g].order # o
    BY <2>7 DEF Owning
  <2> QED
    BY <1>1, <1>2, <2>1, <2>3, <2>5, <2>6, <2>8, <2>9, <2>10, OwnHook
<1> QED
  BY <1>3, <1>4

(* The handler that claimed the deposit credits it.                          *)
LEMMA CreditStep ==
  ASSUME FiatInv, NEW h \in Hook, NEW o, NEW st, o = hjob[h].order, st = hjob[h].status, CreditWallet(h)
  PROVE  FiatRest'
<1> USE DEF FiatInv, FiatBase
<1>1. hpc[h] = "credit" /\ UNCHANGED <<frow, fapi, charge, debits, refunds, lapsed, hjob>>
  BY DEF CreditWallet
<1>2. /\ o \in Order /\ frow[o] # NoOrder /\ st \in {"completed", "failed"}
      /\ HandlerOK("credit", o, st)
  BY <1>1, AtWork
<1>3. /\ credits'[o] \in {0, 1} /\ hpc'[h] \in {"complete", "reject"}
      /\ OtherHooksRest(h)
      /\ \A x \in Order : x # o => credits'[x] = credits[x]
  BY <1>2 DEF CreditWallet, InitiateTransfer, HandlerOK, OtherHooksRest, FiatTypeOK
<1>4. OthersRest(o)
  BY <1>1, <1>3 DEF OthersRest
<1>5. frow[o].kind = "deposit" /\ DepositOK(o)
  BY <1>2 DEF OrdersOK, HandlerOK
<1>6. DepositOK(o)'
  BY <1>1, <1>2, <1>3, <1>5 DEF DepositOK, HandlerOK, AmountMatches, Owning
<1>7. \A g \in Hook : g # h /\ hpc[g] \in Owning => hjob[g].order # o
  BY <1>1 DEF HandlersApart, Owning
<1>8. \A g \in Hook : g # h /\ hpc[g] # "idle" /\ hjob[g].order = o => HandlerOK(hpc[g], o, hjob[g].status)'
  BY <1>1, <1>2, <1>3, <1>7, AtWork DEF OtherHooksRest, HandlerOK, AmountMatches, Owning
<1>9. HandlerOK(hpc[h], o, hjob[h].status)'
  BY <1>1, <1>2, <1>3 DEF HandlerOK, AmountMatches, Owning
<1> QED
  BY <1>1, <1>2, <1>3, <1>4, <1>5, <1>6, <1>7, <1>8, <1>9, OwnHook

(* The claimed deposit is closed after the credit.                           *)
LEMMA FinishStep ==
  ASSUME FiatInv, NEW h \in Hook, NEW o, o = hjob[h].order, FinishDeposit(h)
  PROVE  FiatRest'
<1> USE DEF FiatInv, FiatBase
<1>1. /\ hpc[h] \in {"complete", "reject"} /\ EndHook(h)
      /\ UNCHANGED <<fapi, charge, debits, credits, refunds, lapsed>>
  BY DEF FinishDeposit, ledgerVars
<1>2. /\ o \in Order /\ frow[o] # NoOrder /\ frow[o] \in FiatRow
      /\ HandlerOK(hpc[h], o, hjob[h].status)
  BY <1>1, AtWork
<1>3. CASE frow' = frow
  BY <1>1, <1>3, HookEnds
<1>4. CASE frow' # frow
  <2>1. SetStatus(o, IF hpc[h] = "complete" THEN "completed" ELSE "failed")
    BY <1>4 DEF FinishDeposit, UpdateDepositStatus
  <2>2. /\ Kept(o) /\ \A x \in Order : x # o => frow'[x] = frow[x]
    BY <1>2, <2>1, StatusWritten DEF FiatStatus
  <2>3. OtherHooksRest(h) /\ hpc'[h] = "idle"
    BY <1>1 DEF OtherHooksRest, EndHook, FiatTypeOK
  <2>4. OthersRest(o)
    BY <1>1, <2>2 DEF OthersRest
  <2>5. /\ frow[o].kind = "deposit" /\ DepositOK(o) /\ frow[o].status # "pending"
        /\ frow'[o].kind = "deposit" /\ frow'[o] # NoOrder /\ frow'[o].status # "pending"
        /\ AmountMatches(o)' <=> AmountMatches(o)
    BY <1>1, <1>2, <2>2 DEF OrdersOK, HandlerOK, Kept, Owning
  <2>6. DepositOK(o)'
    BY <1>1, <2>5 DEF DepositOK
  <2>7. \A g \in Hook : g # h /\ hpc[g] # "idle" /\ hjob[g].order = o =>
          hpc[g] # "refund" /\ HandlerOK(hpc[g], o, hjob[g].status)
    BY <2>5, AtWork DEF HandlerOK
  <2>8. \A g \in Hook : g # h /\ hpc[g] # "idle" /\ hjob[g].order = o => HandlerOK(hpc[g], o, hjob[g].status)'
    BY <1>1, <1>2, <2>3, <2>5, <2>7 DEF OtherHooksRest, HandlerOK
  <2> QED
    BY <1>1, <1>2, <2>3, <2>4, <2>5, <2>6, <2>8, OwnHook DEF Owning
<1> QED
  BY <1>3, <1>4

(* Of the handlers of a withdrawal's notices one closes it.                  *)
LEMMA SettleStep ==
  ASSUME FiatInv, NEW h \in Hook, NEW o, NEW st, o = hjob[h].order, st = hjob[h].status,
         UpdateWithdrawalStatus(h)
  PROVE  FiatRest'
<1> USE DEF FiatInv, FiatBase
<1>1. /\ hpc[h] = "settle" /\ UNCHANGED <<fapi, charge, debits, credits, refunds, lapsed>>
  BY DEF UpdateWithdrawalStatus, ledgerVars
<1>2. /\ o \in Order /\ frow[o] # NoOrder /\ frow[o] \in FiatRow /\ st \in {"completed", "failed"}
      /\ HandlerOK("settle", o, st)
  BY <1>1, AtWork
<1>3. CASE ~WithdrawalOpen(o)
  BY <1>1, <1>3, HookEnds DEF UpdateWithdrawalStatus
<1>4. CASE WithdrawalOpen(o)
  <2>1. /\ SetStatus(o, st) /\ frow[o].status = "pending" /\ OtherHooksRest(h)
        /\ \/ st = "completed" /\ hpc'[h] = "idle"
           \/ st = "failed" /\ hpc'[h] = "refund" /\ hjob' = hjob
    BY <1>2, <1>4 DEF UpdateWithdrawalStatus, WithdrawalOpen, EndHook, OtherHooksRest, FiatTypeOK
  <2>2. /\ Kept(o) /\ frow'[o].status = st /\ \A x \in Order : x # o => frow'[x] = frow[x]
    BY <1>2, <2>1, StatusWritten DEF FiatStatus
  <2>3. OthersRest(o)
    BY <1>1, <2>2 DEF OthersRest
  <2>4. /\ frow[o].kind = "withdrawal" /\ WithdrawalOK(o) /\ charge[o] # "none"
        /\ frow'[o].kind = "withdrawal" /\ frow'[o] # NoOrder /\ refunds[o] = 0
    BY <1>2, <2>1, <2>2 DEF OrdersOK, HandlerOK, Kept, WithdrawalOK
  <2>5. WithdrawalOK(o)'
    BY <1>1, <1>2, <2>1, <2>2, <2>4 DEF WithdrawalOK
  <2>6. \A g \in Hook : g # h /\ hpc[g] # "idle" /\ hjob[g].order = o =>
          hpc[g] \notin Owning /\ HandlerOK(hpc[g], o, hjob[g].status)
    BY <2>1, AtWork DEF HandlerOK
  <2>7. \A g \in Hook : g # h /\ hpc[g] # "idle" /\ hjob[g].order = o => HandlerOK(hpc[g], o, hjob[g].status)'
    BY <1>1, <1>2, <2>1, <2>2, <2>4, <2>6 DEF OtherHooksRest, HandlerOK, Owning
  <2>8. hpc'[h] # "idle" => hjob'[h] = hjob[h] /\ HandlerOK(hpc[h], o, hjob[h].status)'
    BY <1>1, <1>2, <2>1, <2>2, <2>4 DEF HandlerOK, Owning
  <2>9. \A g \in Hook : g # h /\ hpc[g] \in Owning => hjob[g].order # o
    BY <2>6 DEF Owning
  <2>10. frow'[o].status = "failed" => \E g \in Hook : hpc'[g] = "refund" /\ hjob'[g].order = o
    BY <2>1, <2>2
  <2> QED
    BY <1>1, <1>2, <2>1, <2>3, <2>4, <2>5, <2>7, <2>8, <2>9, <2>10, OwnHook
<1> QED
  BY <1>3, <1>4

(* The handler that closed the withdrawal as failed refunds it.              *)
LEMMA RefundStep ==
  ASSUME FiatInv, NEW h \in Hook, NEW o, o = hjob[h].order, RefundWallet(h)
  PROVE  FiatRest'
<1> USE DEF FiatInv, FiatBase
<1>1. hpc[h] = "refund" /\ EndHook(h) /\ UNCHANGED <<frow, fapi, charge, debits, credits>>
  BY DEF RefundWallet
<1>2. /\ o \in Order /\ frow[o] # NoOrder /\ hjob[h].status \in {"completed", "failed"}
      /\ HandlerOK("refund", o, hjob[h].status)
  BY <1>1, AtWork
<1>3. /\ frow[o].kind = "withdrawal" /\ frow[o].status = "failed" /\ charge[o] = "failed"
      /\ refunds[o] = 0 /\ WithdrawalOK(o) /\ debits[o] = 1
  BY <1>2 DEF HandlerOK, OrdersOK, WithdrawalOK
<1>4. OtherHooksRest(h) /\ hpc'[h] = "idle"
  BY <1>1 DEF OtherHooksRest, EndHook, FiatTypeOK
<1>5. /\ refunds'[o] = 1 \/ (refunds'[o] = 0 /\ lapsed'[o])
      /\ lapsed[o] => lapsed'[o]
      /\ \A x \in Order : x # o => refunds'[x] = refunds[x] /\ lapsed'[x] = lapsed[x]
  <2>1. PICK ok \in BOOLEAN :
          /\ InitiateTransfer(refunds, o, ok)
          /\ lapsed' = [lapsed EXCEPT ![o] = @ \/ ~ok]
    BY DEF RefundWallet
  <2>2. /\ refunds'[o] = 1 \/ (~ok /\ refunds'[o] = 0)
        /\ \A x \in Order : x # o => refunds'[x] = refunds[x]
    BY <1>2, <1>3, <2>1 DEF InitiateTransfer, FiatTypeOK
  <2>3. /\ ~ok => lapsed'[o]
        /\ lapsed[o] => lapsed'[o]
        /\ \A x \in Order : x # o => lapsed'[x] = lapsed[x]
    BY <1>2, <2>1 DEF FiatTypeOK
  <2> QED
    BY <2>2, <2>3
<1>6. OthersRest(o)
  BY <1>1, <1>5 DEF OthersRest
<1>7. WithdrawalOK(o)'
  BY <1>1, <1>3, <1>5 DEF WithdrawalOK
<1>8. \A g \in Hook : g # h /\ hpc[g] \in Owning => hjob[g].order # o
  BY <1>1 DEF HandlersApart, Owning
<1>9. \A g \in Hook : g # h /\ hpc[g] # "idle" /\ hjob[g].order = o => HandlerOK(hpc[g], o, hjob[g].status)'
  BY <1>1, <1>2, <1>3, <1>4, <1>8, AtWork DEF OtherHooksRest, HandlerOK, AmountMatches, Owning
<1>10. debits'[o] = refunds'[o] \/ lapsed'[o]
  BY <1>1, <1>3, <1>5
<1> QED
  BY <1>1, <1>2, <1>3, <1>4, <1>6, <1>7, <1>9, <1>10, OwnHook DEF Owning

(* A handler that dies leaves the order as it is; a later notice may not     *)
(* finish it.                                                                *)
LEMMA DropWebhookStep ==
  ASSUME FiatInv, NEW h \in Hook, NEW o, o = hjob[h].order, DropWebhook(h)
  PROVE  FiatRest'
<1>1. o \in Order /\ hpc[h] # "idle"
  BY AtWork DEF DropWebhook
<1>2. lapsed' = [lapsed EXCEPT ![o] = @ \/ hpc[h] = "refund"]
  BY DEF DropWebhook
<1>3. /\ \A x \in Order : lapsed[x] => lapsed'[x]
      /\ \A x \in Order : x # o => lapsed'[x] = lapsed[x]
      /\ hpc[h] = "refund" => lapsed'[o]
  BY <1>1, <1>2 DEF FiatInv, FiatBase, FiatTypeOK
<1> QED
  BY <1>1, <1>3, HookEnds DEF DropWebhook
-----------------------------------------------------------------------------
(* No order at first.                                                        *)
LEMMA FiatInvInit == FiatInit => FiatInv
<1> SUFFICES ASSUME FiatInit PROVE FiatInv
  OBVIOUS
<1>1. FiatBase
  BY FS_EmptySet DEF FiatInit, FiatBase, FiatTypeOK, NoticesAreTrue
<1>2. OrdersOK /\ HandlersOK /\ HandlersApart /\ FailedIsRefunded
  BY DEF FiatInit, OrdersOK, Unopened, HandlersOK, HandlersApart, FailedIsRefunded, Owning
<1> QED
  BY <1>1, <1>2 DEF FiatInv

(* Every step of the rails keeps the invariant.                              *)
LEMMA FiatInvStep == FiatInv /\ [FiatNext]_fiatVars => FiatInv'
<1> SUFFICES ASSUME FiatInv, [FiatNext]_fiatVars PROVE FiatInv'
  OBVIOUS
<1>1. FiatBase'
  BY FiatTypesStep, NoticesStep DEF FiatBase
<1>2. ASSUME NEW o \in Order, NEW req \in DepositReq, InitiateDeposit(o, req) PROVE FiatRest'
  <2>1. /\ frow[o] = NoOrder /\ frow'[o] # NoOrder /\ frow'[o].kind = "deposit" /\ frow'[o].status = "pending"
        /\ fapi'[o] = "rail" /\ UNCHANGED <<charge, handling, ledgerVars>> /\ OthersRest(o)
    <3>1. [kind |-> "deposit", rail |-> req.rail, amount |-> req.amount, status |-> "pending"] \in FiatRow
      BY DEF DepositReq, FiatRow, FiatStatus
    <3> QED
      BY <1>2, <3>1 DEF InitiateDeposit, CreateDeposit, FiatInv, FiatBase, FiatTypeOK, OthersRest, ledgerVars
  <2> QED
    BY <2>1, OpenStep
<1>3. ASSUME NEW o \in Order, NEW req \in WithdrawReq, InitiateWithdrawal(o, req) PROVE FiatRest'
  <2>1. /\ frow[o] = NoOrder /\ frow'[o] # NoOrder /\ frow'[o].kind = "withdrawal" /\ frow'[o].status = "pending"
        /\ fapi'[o] = "debit" /\ UNCHANGED <<charge, handling, ledgerVars>> /\ OthersRest(o)
    <3>1. [kind |-> "withdrawal", rail |-> req.rail, amount |-> req.amount, status |-> "pending"] \in FiatRow
      BY DEF WithdrawReq, FiatRow, FiatStatus
    <3> QED
      BY <1>3, <3>1 DEF InitiateWithdrawal, CreateWithdrawal, FiatInv, FiatBase, FiatTypeOK, OthersRest, ledgerVars
  <2> QED
    BY <2>1, OpenStep
<1>4. ASSUME NEW h \in Hook, HookStep(h) PROVE FiatRest'
  BY <1>4, ClaimStep, CreditStep, FinishStep, SettleStep, RefundStep DEF HookStep
<1>5. ASSUME UNCHANGED fiatVars PROVE FiatRest'
  BY <1>5 DEF fiatVars, FiatInv, FiatRest, OrdersOK, Unopened, DepositOK, WithdrawalOK, HandlersOK, HandlerOK,
              HandlersApart, FailedIsRefunded, AmountMatches
<1>6. FiatRest'
  <2>1. ASSUME NEW o \in Order, DebitWallet(o) \/ CallRail(o) \/ GiveUp(o) \/ DropOrder(o) PROVE FiatRest'
    BY <2>1, DebitStep, CallStep, GiveUpStep, DropOrderStep
  <2>2. ASSUME NEW o \in Order, NEW outcome \in {"open", "paid", "failed"}, ProviderNotes(o, outcome)
        PROVE  FiatRest'
    BY <2>2, NotesStep DEF FiatOutcome
  <2>3. ASSUME NEW o \in Order, NEW h \in Hook, NEW n \in posted[o], ReceiveWebhook(h, o, n) PROVE FiatRest'
    BY <2>3, ReceiveStep
  <2>4. ASSUME NEW h \in Hook, DropWebhook(h) PROVE FiatRest'
    BY <2>4, DropWebhookStep
  <2> QED
    BY <1>2, <1>3, <1>4, <1>5, <2>1, <2>2, <2>3, <2>4 DEF FiatNext
<1> QED
  BY <1>1, <1>6 DEF FiatInv, FiatRest

(* Whatever the providers send, repeat, delay or reorder, however many       *)
(* deliveries are handled at once, and wherever a request or a handler dies: *)
(* a deposit is credited at most once and only for the amount that was       *)
(* collected, a withdrawal is not both paid out and given back, and one that *)
(* failed is given back but for the named losses (HandleWebhook,             *)
(* InitiateWithdrawal).                                                      *)
THEOREM FiatOrdersAreSafe == FiatSpec => []FiatSafe
<1>1. FiatInv => FiatSafe
  <2> SUFFICES ASSUME FiatInv PROVE FiatSafe
    OBVIOUS
  <2>1. \A o \in Order : frow[o] # NoOrder => frow[o].kind \in {"deposit", "withdrawal"}
    BY DEF FiatInv, FiatBase, FiatTypeOK, FiatRow
  <2>2. CreditedOnce
    BY <2>1 DEF FiatInv, OrdersOK, Unopened, DepositOK, WithdrawalOK, CreditedOnce
  <2>3. CreditIsCovered
    BY <2>1 DEF FiatInv, OrdersOK, Unopened, DepositOK, WithdrawalOK, CreditIsCovered, AmountMatches
  <2>4. NeverPaidTwice
    BY <2>1 DEF FiatInv, OrdersOK, Unopened, DepositOK, WithdrawalOK, NeverPaidTwice
  <2> QED
    BY <2>2, <2>3, <2>4 DEF FiatSafe, FiatInv, FiatBase
<1> QED
  BY <1>1, FiatInvInit, FiatInvStep, PTL DEF FiatSpec

(* A step that changes no payment at the provider leaves what is due alone.  *)
LEMMA DueStays ==
  ASSUME FiatInv, [FiatNext]_fiatVars, UNCHANGED <<charge, debits>>
  PROVE  CreditsDue' = CreditsDue /\ RefundsDue' = RefundsDue
<1>1. \A x \in Order : Kept(x) BY RowsAreKept
<1>2. \A x \in Order : frow[x] = NoOrder => charge[x] = "none" BY DEF FiatInv, OrdersOK, Unopened
<1>3. \A x \in Order : x \in CreditsDue' <=> x \in CreditsDue BY <1>1, <1>2 DEF CreditsDue, Kept
<1>4. \A x \in Order : x \in RefundsDue' <=> x \in RefundsDue BY <1>1, <1>2 DEF RefundsDue, Kept
<1>5. CreditsDue \subseteq Order /\ RefundsDue \subseteq Order BY DEF CreditsDue, RefundsDue
<1>6. CreditsDue' \subseteq Order /\ RefundsDue' \subseteq Order BY DEF CreditsDue, RefundsDue
<1> QED BY <1>3, <1>4, <1>5, <1>6

(* The provider's last word makes one claim due, or none.                    *)
LEMMA DueByNotice ==
  ASSUME FiatInv, NEW o \in Order, NEW outcome \in FiatOutcome, ProviderNotes(o, outcome)
  PROVE  /\ CreditsDue' = CreditsDue \/ (o \notin CreditsDue /\ CreditsDue' = CreditsDue \cup {o})
         /\ RefundsDue' = RefundsDue \/ (o \notin RefundsDue /\ RefundsDue' = RefundsDue \cup {o})
<1>1. frow' = frow /\ debits' = debits /\ charge[o] = "open" BY DEF ProviderNotes, ledgerVars
<1>2. \A x \in Order : charge'[x] = IF x = o THEN outcome ELSE charge[x]
  BY DEF ProviderNotes, FiatInv, FiatBase, FiatTypeOK
<1>3. \A x \in Order : AmountMatches(x)' <=> AmountMatches(x) BY <1>1 DEF AmountMatches
<1>4. \A x \in Order : x # o => (x \in CreditsDue' <=> x \in CreditsDue) /\ (x \in RefundsDue' <=> x \in RefundsDue)
  BY <1>1, <1>2, <1>3 DEF CreditsDue, RefundsDue
<1>5. o \notin CreditsDue /\ o \notin RefundsDue BY <1>1 DEF CreditsDue, RefundsDue
<1>6. CreditsDue \subseteq Order /\ RefundsDue \subseteq Order BY DEF CreditsDue, RefundsDue
<1>7. CreditsDue' \subseteq Order /\ RefundsDue' \subseteq Order BY DEF CreditsDue, RefundsDue
<1> QED BY <1>4, <1>5, <1>6, <1>7

(* The request that opens an order makes nothing due: it calls the rail      *)
(* after the debit, and before the provider has said anything.               *)
LEMMA DueByRequest ==
  ASSUME FiatInv, NEW o \in Order, DebitWallet(o) \/ CallRail(o)
  PROVE  CreditsDue' = CreditsDue /\ RefundsDue' = RefundsDue
<1>1. frow' = frow /\ fapi[o] \in {"debit", "rail"} BY DEF DebitWallet, CallRail
<1>2. frow[o] # NoOrder /\ frow[o].kind \in {"deposit", "withdrawal"}
  BY <1>1 DEF FiatInv, FiatBase, FiatTypeOK, FiatRow, OrdersOK, Unopened
<1>3. charge[o] = "none" BY <1>1, <1>2 DEF FiatInv, OrdersOK, DepositOK, WithdrawalOK
<1>4. /\ \A x \in Order : x # o => charge'[x] = charge[x] /\ debits'[x] = debits[x]
      /\ charge'[o] \in {"none", "open"}
  BY <1>3 DEF DebitWallet, CallRail, InitiateTransfer, FiatInv, FiatBase, FiatTypeOK
<1>5. \A x \in Order : AmountMatches(x)' <=> AmountMatches(x) BY <1>1 DEF AmountMatches
<1>6. \A x \in Order : (x \in CreditsDue' <=> x \in CreditsDue) /\ (x \in RefundsDue' <=> x \in RefundsDue)
  BY <1>1, <1>3, <1>4, <1>5 DEF CreditsDue, RefundsDue
<1>7. CreditsDue \subseteq Order /\ RefundsDue \subseteq Order BY DEF CreditsDue, RefundsDue
<1>8. CreditsDue' \subseteq Order /\ RefundsDue' \subseteq Order BY DEF CreditsDue, RefundsDue
<1> QED BY <1>6, <1>7, <1>8

(* The handler that may credit is the only one, and finds the credit due and *)
(* not yet given.                                                            *)
LEMMA CreditIsGiven ==
  ASSUME FiatInv, NEW h \in Hook, CreditWallet(h)
  PROVE  \/ credits' = credits
         \/ \E o \in Order : o \in CreditsDue /\ credits[o] = 0 /\ credits' = [credits EXCEPT ![o] = 1]
<1>1. PICK o : o = hjob[h].order OBVIOUS
<1>2. hpc[h] = "credit" /\ o \in Order /\ HandlerOK("credit", o, hjob[h].status) BY <1>1, AtWork DEF CreditWallet
<1>3. frow[o] # NoOrder /\ frow[o].kind = "deposit" /\ AmountMatches(o) /\ charge[o] = "paid" /\ credits[o] = 0
  BY <1>2 DEF HandlerOK, Owning
<1>4. o \in CreditsDue BY <1>2, <1>3 DEF CreditsDue
<1>5. credits' = credits \/ credits' = [credits EXCEPT ![o] = @ + 1] BY <1>1 DEF CreditWallet, InitiateTransfer
<1> QED BY <1>2, <1>3, <1>4, <1>5

(* The same for the return of a withdrawal.                                  *)
LEMMA RefundIsGiven ==
  ASSUME FiatInv, NEW h \in Hook, RefundWallet(h)
  PROVE  \/ refunds' = refunds
         \/ \E o \in Order : o \in RefundsDue /\ refunds[o] = 0 /\ refunds' = [refunds EXCEPT ![o] = 1]
<1>1. PICK o : o = hjob[h].order OBVIOUS
<1>2. hpc[h] = "refund" /\ o \in Order /\ HandlerOK("refund", o, hjob[h].status) BY <1>1, AtWork DEF RefundWallet
<1>3. frow[o] # NoOrder /\ frow[o].kind = "withdrawal" /\ charge[o] = "failed" /\ refunds[o] = 0
  BY <1>2 DEF HandlerOK, Owning
<1>4. debits[o] = 1 BY <1>2, <1>3 DEF FiatInv, OrdersOK, WithdrawalOK
<1>5. o \in RefundsDue BY <1>2, <1>3, <1>4 DEF RefundsDue
<1>6. refunds' = refunds \/ refunds' = [refunds EXCEPT ![o] = @ + 1] BY <1>1 DEF RefundWallet, InitiateTransfer
<1> QED BY <1>2, <1>3, <1>5, <1>6

(* What a step does to the two promises.                                     *)
LEMMA FiatPromiseStep ==
  ASSUME FiatInv, [FiatNext]_fiatVars
  PROVE  /\ \/ CreditsDue' = CreditsDue /\ credits' = credits
            \/ \E o \in Order : o \notin CreditsDue /\ CreditsDue' = CreditsDue \cup {o} /\ credits' = credits
            \/ \E o \in Order : o \in CreditsDue /\ credits[o] = 0 /\ credits' = [credits EXCEPT ![o] = 1]
                                /\ CreditsDue' = CreditsDue
         /\ \/ RefundsDue' = RefundsDue /\ refunds' = refunds
            \/ \E o \in Order : o \notin RefundsDue /\ RefundsDue' = RefundsDue \cup {o} /\ refunds' = refunds
            \/ \E o \in Order : o \in RefundsDue /\ refunds[o] = 0 /\ refunds' = [refunds EXCEPT ![o] = 1]
                                /\ RefundsDue' = RefundsDue
<1>1. ASSUME NEW h \in Hook, CreditWallet(h)
      PROVE  CreditsDue' = CreditsDue /\ RefundsDue' = RefundsDue /\ refunds' = refunds
  BY <1>1, DueStays DEF CreditWallet
<1>2. ASSUME NEW h \in Hook, RefundWallet(h)
      PROVE  CreditsDue' = CreditsDue /\ RefundsDue' = RefundsDue /\ credits' = credits
  BY <1>2, DueStays DEF RefundWallet
<1>3. ASSUME NEW o \in Order, NEW outcome \in FiatOutcome, ProviderNotes(o, outcome)
      PROVE  credits' = credits /\ refunds' = refunds
  BY <1>3 DEF ProviderNotes, ledgerVars
<1>4. ASSUME NEW o \in Order, DebitWallet(o) \/ CallRail(o)
      PROVE  /\ CreditsDue' = CreditsDue /\ RefundsDue' = RefundsDue /\ credits' = credits /\ refunds' = refunds
  <2>1. credits' = credits /\ refunds' = refunds BY <1>4 DEF DebitWallet, CallRail
  <2> QED BY <1>4, <2>1, DueByRequest
<1>5. CASE UNCHANGED <<charge, debits, credits, refunds>> BY <1>5, DueStays
<1>6. \/ UNCHANGED <<charge, debits, credits, refunds>>
      \/ \E h \in Hook : CreditWallet(h) \/ RefundWallet(h)
      \/ \E o \in Order : DebitWallet(o) \/ CallRail(o) \/ \E outcome \in FiatOutcome : ProviderNotes(o, outcome)
  BY DEF FiatNext, FiatOutcome, fiatVars, InitiateDeposit, InitiateWithdrawal, GiveUp, DropOrder, ReceiveWebhook, HookStep,
         ClaimDepositForProcessing, FinishDeposit, UpdateWithdrawalStatus, DropWebhook, ledgerVars
<1>7. ASSUME NEW o \in Order, NEW outcome \in FiatOutcome, ProviderNotes(o, outcome)
      PROVE  /\ \/ CreditsDue' = CreditsDue /\ credits' = credits
                \/ o \notin CreditsDue /\ CreditsDue' = CreditsDue \cup {o} /\ credits' = credits
             /\ \/ RefundsDue' = RefundsDue /\ refunds' = refunds
                \/ o \notin RefundsDue /\ RefundsDue' = RefundsDue \cup {o} /\ refunds' = refunds
  BY <1>3, <1>7, DueByNotice, Zenon
<1> QED BY <1>1, <1>2, <1>4, <1>5, <1>6, <1>7, CreditIsGiven, RefundIsGiven, Zenon

(* Nothing is due and nothing is given at first.                             *)
LEMMA FiatPromiseInit == FiatInit => CreditPromise!OnceInit /\ RefundPromise!OnceInit
<1> SUFFICES ASSUME FiatInit PROVE CreditPromise!OnceInit /\ RefundPromise!OnceInit OBVIOUS
<1>1. CreditsDue = {} /\ RefundsDue = {} BY DEF FiatInit, CreditsDue, RefundsDue
<1> QED BY <1>1 DEF FiatInit, CreditPromise!OnceInit, RefundPromise!OnceInit

(* For any number of orders and of overlapping, repeated, delayed and lost   *)
(* notices, the credits of deposits implement OnceOnly: a wallet is credited *)
(* only for a payment the provider confirmed in full, and once               *)
(* (ClaimDepositForProcessing, CreditWallet).                                *)
THEOREM CreditsImplementOnce == FiatSpec => CreditsKeepPromise
<1>1. FiatInv /\ [FiatNext]_fiatVars => [CreditPromise!OnceNext]_(CreditPromise!onceVars)
  BY FiatPromiseStep DEF CreditPromise!OnceNext, CreditPromise!FallDue, CreditPromise!Give, CreditPromise!onceVars
<1> QED BY <1>1, FiatPromiseInit, FiatInvInit, FiatInvStep, PTL DEF FiatSpec, CreditsKeepPromise, CreditPromise!OnceSpec

(* So do the returns of withdrawals: one for a debit whose payout failed     *)
(* (UpdateWithdrawalStatus, RefundWallet).                                   *)
THEOREM RefundsImplementOnce == FiatSpec => RefundsKeepPromise
<1>1. FiatInv /\ [FiatNext]_fiatVars => [RefundPromise!OnceNext]_(RefundPromise!onceVars)
  BY FiatPromiseStep DEF RefundPromise!OnceNext, RefundPromise!FallDue, RefundPromise!Give, RefundPromise!onceVars
<1> QED BY <1>1, FiatPromiseInit, FiatInvInit, FiatInvStep, PTL DEF FiatSpec, RefundsKeepPromise, RefundPromise!OnceSpec

(* What no step may do to the row of an order.                               *)
StaysClosed(x) == frow[x] # NoOrder /\ frow[x].status \in {"completed", "failed"} => frow'[x] = frow[x]

(* A write to an order that is not closed disturbs no closed one.            *)
LEMMA OpenIsWritten ==
  ASSUME FiatTypeOK, NEW o \in Order, frow[o] # NoOrder, frow[o].status \notin {"completed", "failed"},
         NEW s \in FiatStatus \ {"pending"}, SetStatus(o, s)
  PROVE  \A x \in Order : StaysClosed(x)
  BY StatusWritten DEF StaysClosed

(* Every write to the table finds its order open, or does nothing.           *)
LEMMA ClosedStep ==
  ASSUME FiatInv, [FiatNext]_fiatVars
  PROVE  \A x \in Order : StaysClosed(x)
<1>0. FiatTypeOK BY DEF FiatInv, FiatBase
<1>1. CASE UNCHANGED frow BY <1>1 DEF StaysClosed
<1>2. ASSUME NEW o \in Order, NEW req \in DepositReq, InitiateDeposit(o, req)
      PROVE  \A x \in Order : StaysClosed(x)
  BY <1>0, <1>2 DEF InitiateDeposit, CreateDeposit, FiatTypeOK, StaysClosed
<1>3. ASSUME NEW o \in Order, NEW req \in WithdrawReq, InitiateWithdrawal(o, req)
      PROVE  \A x \in Order : StaysClosed(x)
  BY <1>0, <1>3 DEF InitiateWithdrawal, CreateWithdrawal, FiatTypeOK, StaysClosed
<1>4. ASSUME NEW o \in Order, GiveUp(o), ~ UNCHANGED frow
      PROVE  \A x \in Order : StaysClosed(x)
  <2>1. frow[o] # NoOrder BY <1>4 DEF GiveUp, FiatInv, OrdersOK, Unopened
  <2>2. SetStatus(o, "failed") /\ frow[o].status \notin {"completed", "failed"}
    BY <1>4 DEF GiveUp, UpdateDepositStatus, WithdrawalOpen
  <2> QED BY <1>0, <2>1, <2>2, OpenIsWritten DEF FiatStatus
<1>5. ASSUME NEW h \in Hook, HookStep(h), ~ UNCHANGED frow
      PROVE  \A x \in Order : StaysClosed(x)
  <2>1. hpc[h] # "idle"
    BY <1>5 DEF HookStep, ClaimDepositForProcessing, CreditWallet, FinishDeposit, UpdateWithdrawalStatus, RefundWallet
  <2>2. hjob[h].order \in Order /\ frow[hjob[h].order] # NoOrder /\ hjob[h].status \in {"completed", "failed"}
    BY <2>1, AtWork
  <2>3. /\ \E s \in {"processing", "completed", "failed"} : SetStatus(hjob[h].order, s)
        /\ frow[hjob[h].order].status \notin {"completed", "failed"}
    BY <1>5, <2>2 DEF HookStep, ClaimDepositForProcessing, CreditWallet, FinishDeposit,
                      UpdateWithdrawalStatus, RefundWallet, UpdateDepositStatus, DepositUnclaimed, WithdrawalOpen
  <2> QED BY <1>0, <2>2, <2>3, OpenIsWritten DEF FiatStatus
<1> QED
  BY <1>1, <1>2, <1>3, <1>4, <1>5
     DEF FiatNext, DebitWallet, CallRail, DropOrder, ProviderNotes, ReceiveWebhook, DropWebhook, fiatVars

(* An order that is completed or failed never changes again, whichever       *)
(* request or delivery still works on it (UpdateDepositStatus,               *)
(* UpdateWithdrawalStatus, ClaimDepositForProcessing).                       *)
THEOREM ClosedOrdersStay == FiatSpec => ClosedStaysClosed
<1>1. FiatInv /\ [FiatNext]_fiatVars =>
        [\A o \in Order : frow[o] # NoOrder /\ frow[o].status \in {"completed", "failed"} => frow'[o] = frow[o]]_fiatVars
  BY ClosedStep DEF StaysClosed
<1> QED BY <1>1, FiatInvInit, FiatInvStep, PTL DEF FiatSpec, ClosedStaysClosed

-----------------------------------------------------------------------------
(***************************************************************************)
(* Schedules.  A claim for one occurrence is charged to the occurrence     *)
(* itself or to an outdated write: once a row was claimed at t, it is      *)
(* active at t again only after such a write, because every other way back *)
(* to active moves it past today.                                          *)
(***************************************************************************)
USE IntervalsAdvance, LastDayIsNat, EnumIsBoolean, EndDates, NoScheduleIsNoRow
USE DEF scheduleVars, tableVars, runVars, planVars

(* Products of positive numbers are positive; the provers use it as a fact.  *)
LEMMA PositiveProduct ==
  ASSUME NEW a \in Nat \ {0}, NEW b \in Nat
  PROVE  a * (b + 1) \in Nat /\ a * (b + 1) > 0
  OBVIOUS

(* Integer division of numbers.                                              *)
LEMMA QuotientIsNat ==
  ASSUME NEW a \in Nat, NEW b \in Nat \ {0}
  PROVE  a \div b \in Nat
  OBVIOUS

(* RollForward never goes back, and leaves a day that has come behind.       *)
LEMMA RollsForward ==
  ASSUME day \in Nat, NEW t \in Nat, NEW freq \in DOMAIN Interval
  PROVE  /\ RollForward(t, freq) \in Nat
         /\ RollForward(t, freq) >= t
         /\ t <= day => RollForward(t, freq) > t
<1>1. CASE t > day
  BY <1>1 DEF RollForward
<1>2. CASE t <= day
  <2>1. day - t \in Nat /\ Interval[freq] \in Nat \ {0}
    BY <1>2
  <2>2. (day - t) \div Interval[freq] \in Nat
    BY <2>1, QuotientIsNat
  <2> DEFINE step == Interval[freq] * (((day - t) \div Interval[freq]) + 1)
  <2>3. step \in Nat /\ step > 0
    BY <2>1, <2>2, PositiveProduct
  <2>4. RollForward(t, freq) = t + step
    BY <1>2 DEF RollForward
  <2> HIDE DEF step
  <2> QED
    BY <2>3, <2>4
<1> QED
  BY <1>1, <1>2

(* What PATCH makes of a row is a row, never earlier than it was; made       *)
(* active, it is later than today unless it already was.                     *)
LEMMA ChangedRow ==
  ASSUME day \in Nat, NEW row \in Schedule, NEW in \in UpdateInput
  PROVE  /\ Changed(row, in) \in Schedule
         /\ Changed(row, in).next >= row.next
         /\ Changed(row, in).status = "active" /\ row.next <= day /\ row.status # "active"
              => Changed(row, in).next > row.next
         /\ Changed(row, in).next = row.next /\ row.next <= day
              => Changed(row, in).status # "active" \/ row.status = "active"
<1> DEFINE freq == IF in.freq = "" THEN row.freq ELSE in.freq
           next == IF in.status = "active" THEN RollForward(row.next, freq) ELSE row.next
           status == IF in.status = "" THEN row.status ELSE in.status
           end == IF in.end = Never THEN row.end ELSE in.end
<1>1. freq \in DOMAIN Interval /\ status \in ScheduleStatus /\ end \in Nat \cup {Never}
  BY DEF Schedule, UpdateInput, ScheduleStatus
<1>2. row.next \in Nat
  BY DEF Schedule
<1>3. next \in Nat /\ next >= row.next /\ (in.status = "active" /\ row.next <= day => next > row.next)
  <2> HIDE DEF freq
  <2>1. /\ RollForward(row.next, freq) \in Nat /\ RollForward(row.next, freq) >= row.next
        /\ row.next <= day => RollForward(row.next, freq) > row.next
    BY <1>1, <1>2, RollsForward
  <2> QED
    BY <1>2, <2>1
<1>4. Changed(row, in) = [status |-> status, freq |-> freq, next |-> next, end |-> end]
  BY DEF Changed
<1>5. status = "active" => in.status = "active" \/ row.status = "active"
  OBVIOUS
<1> HIDE DEF freq, next, status, end
<1> QED
  BY <1>1, <1>2, <1>3, <1>4, <1>5 DEF Schedule
-----------------------------------------------------------------------------
(* Types, and what copies know of the rows they were taken from: rows are    *)
(* not deleted, what a run lists was due, and a run that is to advance a row *)
(* has initiated its transfer.                                               *)
Listed ==
  /\ \A r \in Runner : \A j \in sjobs[r] : srow[j.id] # NoSchedule /\ j.row.next <= day
  /\ \A r \in Runner : spc[r] # "idle" => scopy[r] \in Copy /\ srow[scopy[r].id] # NoSchedule
  /\ \A r \in Runner : spc[r] = "advance" => scopy[r].row.next \in fired[scopy[r].id]
  /\ \A c \in Client : acopy[c] \in Copy => srow[acopy[c].id] # NoSchedule

ScheduleBase == ScheduleTypeOK /\ Listed

(* Every claim of an occurrence is charged.  An occurrence that is active or *)
(* still to come has a claim to spare.                                       *)
Charged ==
  \A s \in ScheduleId :
    /\ srow[s] = NoSchedule => planned[s] = {} /\ \A t \in 0..LastDay : started[s][t] = 0
    /\ \A t \in 0..LastDay :
         /\ started[s][t] > 0 => t <= day
         /\ started[s][t] <= 1 + stale[s]
         /\ srow[s] # NoSchedule /\ srow[s].next < t => started[s][t] <= stale[s]
         /\ srow[s] # NoSchedule /\ srow[s].next = t /\ srow[s].status = "active" => started[s][t] <= stale[s]

(* Until an outdated write, next_run_at is the last of the planned times,    *)
(* and the earlier ones were paid or jumped over.                            *)
Accounted ==
  \A s \in ScheduleId : srow[s] # NoSchedule /\ stale[s] = 0 =>
    \A t \in planned[s] : t <= srow[s].next /\ (t < srow[s].next => t \in fired[s] \cup skipped[s])

(* The two marks of a scheduler without a row are no rows.                   *)
LEMMA NoneIsNoCopy == None \notin Copy /\ Done \notin Copy
  BY DEF None, Done, Copy

(* No scheduler holds a row at first.                                        *)
LEMMA BaseInit == ScheduleInit => ScheduleBase
  BY NoneIsNoCopy DEF ScheduleInit, ScheduleBase, ScheduleTypeOK, Listed

(* An UPDATE of a whole row keeps the table typed and makes no row vanish.   *)
LEMMA UpdatedTable ==
  ASSUME ScheduleTypeOK, NEW s \in ScheduleId, NEW seen, NEW new \in Schedule, UpdateRow(s, seen, new)
  PROVE  /\ srow' \in [ScheduleId -> Schedule \cup {NoSchedule}]
         /\ planned' \in [ScheduleId -> SUBSET Nat] /\ stale' \in [ScheduleId -> Nat]
         /\ \A x \in ScheduleId : srow[x] # NoSchedule => srow'[x] # NoSchedule
<1>1. new.next \in Nat /\ new # NoSchedule
  BY DEF Schedule
<1> QED
  BY <1>1 DEF ScheduleTypeOK, UpdateRow

(* What a scheduler writes back is a schedule.                               *)
LEMMA OutcomeIsRow ==
  ASSUME ScheduleBase, NEW r \in Runner, spc[r] \in {"advance", "refused"}
  PROVE  /\ scopy[r] \in Copy /\ scopy[r].id \in ScheduleId /\ scopy[r].row \in Schedule
         /\ Outcome(r) \in Schedule
         /\ spc[r] = "advance" => Outcome(r).next > scopy[r].row.next
         /\ spc[r] = "refused" => Outcome(r).next = scopy[r].row.next /\ Outcome(r).status = "failed"
<1>1. scopy[r] \in Copy
  BY DEF ScheduleBase, Listed
<1>2. scopy[r].id \in ScheduleId /\ scopy[r].row \in Schedule
  BY <1>1 DEF Copy
<1>3. Interval[scopy[r].row.freq] \in Nat \ {0}
  BY <1>2 DEF Schedule
<1> DEFINE row == scopy[r].row
           next == row.next + Interval[row.freq]
           status == IF row.end # Never /\ next > row.end THEN "completed" ELSE "active"
<1>4. row \in Schedule /\ next \in Nat /\ next > row.next /\ status \in ScheduleStatus
  BY <1>2, <1>3 DEF Schedule, ScheduleStatus
<1>5. CASE spc[r] = "refused"
  <2>1. Outcome(r) = [row EXCEPT !.status = "failed"]
    BY <1>5 DEF Outcome
  <2>2. Outcome(r) \in Schedule /\ Outcome(r).next = row.next /\ Outcome(r).status = "failed"
    <3> HIDE DEF row
    <3> QED
      BY <1>4, <2>1 DEF Schedule, ScheduleStatus
  <2> QED
    BY <1>1, <1>2, <1>5, <2>2
<1>6. CASE spc[r] = "advance"
  <2>1. Outcome(r) = [row EXCEPT !.next = next, !.status = status]
    BY <1>6 DEF Outcome, AddInterval
  <2> HIDE DEF status, next
  <2>2. Outcome(r) \in Schedule /\ Outcome(r).next = next
    <3> HIDE DEF row
    <3> QED
      BY <1>4, <2>1 DEF Schedule
  <2> QED
    BY <1>1, <1>2, <1>4, <1>6, <2>2
<1> QED
  BY <1>5, <1>6

(* Every step of the schedulers keeps their state typed and their copies     *)
(* copies of rows.                                                           *)
LEMMA BaseStep == ScheduleBase /\ [ScheduleNext]_scheduleVars => ScheduleBase'
<1> SUFFICES ASSUME ScheduleBase, [ScheduleNext]_scheduleVars PROVE ScheduleBase'
  OBVIOUS
<1> USE DEF ScheduleBase
<1>1. ASSUME NEW r \in Runner, ListDue(r) PROVE ScheduleBase'
  <2>1. \A s \in ScheduleId : IsDue(s) => [id |-> s, row |-> srow[s]] \in Copy /\ srow[s].next <= day
    BY DEF ScheduleTypeOK, IsDue, Copy
  <2>2. \A j \in sjobs'[r] : j \in Copy /\ srow[j.id] # NoSchedule /\ j.row.next <= day
    BY <1>1, <2>1 DEF ScheduleTypeOK, ListDue, IsDue
  <2>3. /\ sjobs' \in [Runner -> SUBSET Copy]
        /\ \A q \in Runner : q # r => sjobs'[q] = sjobs[q]
    BY <1>1, <2>2 DEF ScheduleTypeOK, ListDue
  <2> QED
    BY <1>1, <2>2, <2>3 DEF ScheduleTypeOK, Listed, ListDue
<1>2. ASSUME NEW r \in Runner, NEW j \in sjobs[r], ClaimDue(r, j) PROVE ScheduleBase'
  <2>1. j \in Copy /\ j.id \in ScheduleId /\ srow[j.id] \in Schedule /\ j.row \in Schedule
    BY DEF ScheduleTypeOK, Listed, Copy
  <2>2. /\ srow' \in [ScheduleId -> Schedule \cup {NoSchedule}]
        /\ \A x \in ScheduleId : srow[x] # NoSchedule => srow'[x] # NoSchedule
    <3>1. [srow[j.id] EXCEPT !.status = "processing"] \in Schedule
      BY <2>1 DEF Schedule, ScheduleStatus
    <3> QED
      BY <1>2, <2>1, <3>1 DEF ClaimDue, ScheduleTypeOK
  <2>3. started' \in [ScheduleId -> [0..LastDay -> Nat]]
    <3>1. j.row.next \in 0..LastDay
      BY <2>1 DEF ScheduleTypeOK, Listed, Schedule
    <3>2. started[j.id] \in [0..LastDay -> Nat] /\ started[j.id][j.row.next] \in Nat
      BY <2>1, <3>1 DEF ScheduleTypeOK
    <3> DEFINE counts == [started[j.id] EXCEPT ![j.row.next] = started[j.id][j.row.next] + 1]
    <3>3. counts \in [0..LastDay -> Nat]
      BY <3>1, <3>2, SMTT(60)
    <3>4. started' = [started EXCEPT ![j.id] = counts]
      BY <1>2 DEF ClaimDue
    <3> HIDE DEF counts
    <3> QED
      BY <2>1, <3>3, <3>4 DEF ScheduleTypeOK
  <2>4. /\ sjobs' \in [Runner -> SUBSET Copy] /\ \A q \in Runner : sjobs'[q] \subseteq sjobs[q]
        /\ scopy' = [scopy EXCEPT ![r] = j] /\ spc' = [spc EXCEPT ![r] = "initiate"]
    BY <1>2 DEF ClaimDue, ScheduleTypeOK
  <2>5. ScheduleTypeOK'
    BY <1>2, <2>1, <2>2, <2>3, <2>4, SMTT(60) DEF ClaimDue, ScheduleTypeOK
  <2>6. \A q \in Runner : \A i \in sjobs[q] : i.id \in ScheduleId
    BY DEF ScheduleTypeOK, Copy
  <2>7. \A q \in Runner : scopy[q] \in Copy => scopy[q].id \in ScheduleId
    BY DEF Copy
  <2>8. \A c \in Client : acopy[c] \in Copy => acopy[c].id \in ScheduleId
    BY DEF Copy
  <2>9. Listed'
    BY <1>2, <2>1, <2>2, <2>4, <2>6, <2>7, <2>8 DEF ClaimDue, ScheduleTypeOK, Listed
  <2> QED
    BY <2>5, <2>9
<1>3. ASSUME NEW r \in Runner, NEW j \in sjobs[r], PassOver(r, j) PROVE ScheduleBase'
  BY <1>3 DEF PassOver, ScheduleTypeOK, Listed
<1>4. ASSUME NEW r \in Runner, InitiateDue(r) PROVE ScheduleBase'
  <2>1. scopy[r] \in Copy /\ scopy[r].id \in ScheduleId /\ scopy[r].row.next \in Nat
    BY <1>4 DEF InitiateDue, Listed, Copy, Schedule
  <2>2. PICK made \in BOOLEAN :
          /\ fired' = [fired EXCEPT ![scopy[r].id] = IF made THEN @ \cup {scopy[r].row.next} ELSE @]
          /\ \E pc \in (IF made THEN {"advance", "refused"} ELSE {"refused"}) : spc' = [spc EXCEPT ![r] = pc]
    BY <1>4 DEF InitiateDue
  <2>3. /\ fired' \in [ScheduleId -> SUBSET Nat]
        /\ \A s \in ScheduleId : fired[s] \subseteq fired'[s]
        /\ made => scopy[r].row.next \in fired'[scopy[r].id]
    BY <2>1, <2>2 DEF ScheduleTypeOK
  <2>4. /\ spc' \in [Runner -> {"idle", "initiate", "advance", "refused"}]
        /\ \A q \in Runner : q # r => spc'[q] = spc[q]
        /\ spc'[r] = "advance" => made
    BY <2>2 DEF ScheduleTypeOK
  <2>5. \A q \in Runner : spc[q] # "idle" => scopy[q].id \in ScheduleId
    BY DEF Listed, Copy
  <2> QED
    BY <1>4, <2>1, <2>3, <2>4, <2>5 DEF InitiateDue, ScheduleTypeOK, Listed
<1>5. ASSUME NEW r \in Runner, FinishRun(r) PROVE ScheduleBase'
  <2>1. /\ scopy[r].id \in ScheduleId /\ Outcome(r) \in Schedule
        /\ UpdateRow(scopy[r].id, [scopy[r].row EXCEPT !.status = "processing"], Outcome(r))
    BY <1>5, OutcomeIsRow DEF FinishRun
  <2>2. /\ srow' \in [ScheduleId -> Schedule \cup {NoSchedule}]
        /\ planned' \in [ScheduleId -> SUBSET Nat] /\ stale' \in [ScheduleId -> Nat]
        /\ \A x \in ScheduleId : srow[x] # NoSchedule => srow'[x] # NoSchedule
    BY <2>1, UpdatedTable
  <2>3. ScheduleTypeOK'
    BY <1>5, <2>2 DEF FinishRun, ScheduleTypeOK
  <2>4. Listed'
    BY <1>5, <2>2, NoneIsNoCopy, SMTT(60) DEF FinishRun, ScheduleTypeOK, Listed, Copy
  <2> QED
    BY <2>3, <2>4
<1>6. ASSUME NEW r \in Runner, DropRun(r) PROVE ScheduleBase'
  BY <1>6 DEF DropRun, ScheduleTypeOK, Listed
<1>7. ASSUME NEW s \in ScheduleId, NEW in \in CreateInput, CreateSchedule(s, in) PROVE ScheduleBase'
  <2>1. [status |-> "active", freq |-> in.freq, next |-> in.start, end |-> in.end] \in Schedule
    BY DEF CreateInput, Schedule, ScheduleStatus
  <2>2. in.start \in Nat
    BY DEF CreateInput
  <2> QED
    BY <1>7, <2>1, <2>2 DEF CreateSchedule, InsertSchedule, ScheduleTypeOK, Listed, Copy
<1>8. ASSUME NEW c \in Client, NEW s \in ScheduleId, ReadSchedule(c, s) PROVE ScheduleBase'
  <2>1. [id |-> s, row |-> srow[s]] \in Copy
    BY <1>8 DEF ReadSchedule, ScheduleTypeOK, Copy
  <2> QED
    BY <1>8, <2>1 DEF ReadSchedule, ScheduleTypeOK, Listed
<1>9. ASSUME NEW c \in Client, NEW new \in Schedule, WriteSchedule(c, new) PROVE ScheduleBase'
  <2>1. acopy[c] \in Copy /\ acopy[c].id \in ScheduleId /\ UpdateRow(acopy[c].id, acopy[c].row, new)
    BY <1>9 DEF WriteSchedule, Copy
  <2>2. /\ srow' \in [ScheduleId -> Schedule \cup {NoSchedule}]
        /\ planned' \in [ScheduleId -> SUBSET Nat] /\ stale' \in [ScheduleId -> Nat]
        /\ \A x \in ScheduleId : srow[x] # NoSchedule => srow'[x] # NoSchedule
    BY <2>1, UpdatedTable
  <2>3. skipped' \in [ScheduleId -> SUBSET Nat]
    BY <1>9, <2>1 DEF WriteSchedule, ScheduleTypeOK
  <2>4. ScheduleTypeOK'
    BY <1>9, <2>2, <2>3 DEF WriteSchedule, ScheduleTypeOK
  <2>5. Listed'
    BY <1>9, <2>2, NoneIsNoCopy, SMTT(60) DEF WriteSchedule, ScheduleTypeOK, Listed, Copy
  <2> QED
    BY <2>4, <2>5
<1>10. ASSUME NEW c \in Client, NEW in \in UpdateInput, UpdateSchedule(c, in) PROVE ScheduleBase'
  <2>1. acopy[c].row \in Schedule /\ day \in Nat
    BY <1>10 DEF UpdateSchedule, Copy, ScheduleTypeOK
  <2> QED
    BY <1>9, <1>10, <2>1, ChangedRow DEF UpdateSchedule
<1>11. ASSUME NEW c \in Client, CancelSchedule(c) PROVE ScheduleBase'
  <2>1. [acopy[c].row EXCEPT !.status = "cancelled"] \in Schedule
    BY <1>11 DEF CancelSchedule, Copy, Schedule, ScheduleStatus
  <2> QED
    BY <1>9, <1>11, <2>1 DEF CancelSchedule
<1>12. ASSUME NEW c \in Client, DropRequest(c) PROVE ScheduleBase'
  BY <1>12, NoneIsNoCopy DEF DropRequest, ScheduleTypeOK, Listed
<1>13. CASE NextDay
  <2>1. \A r \in Runner : \A j \in sjobs[r] : j.row.next \in Nat
    BY DEF ScheduleTypeOK, Copy, Schedule
  <2> QED
    BY <1>13, <2>1 DEF NextDay, ScheduleTypeOK, Listed
<1>14. CASE UNCHANGED scheduleVars
  BY <1>14 DEF ScheduleTypeOK, Listed
<1> QED
  BY <1>1, <1>2, <1>3, <1>4, <1>5, <1>6, <1>7, <1>8, <1>10, <1>11, <1>12, <1>13, <1>14
     DEF ScheduleNext, RunStep, ApiStep
-----------------------------------------------------------------------------
(* A whole-row write.  One that is up to date may move the row on, or keep   *)
(* it where it is unless it revives an occurrence that has come; one that is *)
(* outdated pays for the extra claim it may allow.                           *)
LEMMA ChargedWrite ==
  ASSUME ScheduleBase, Charged,
         NEW s \in ScheduleId, NEW seen \in Schedule, NEW new \in Schedule,
         srow[s] # NoSchedule, UpdateRow(s, seen, new),
         new.next >= seen.next,
         new.next = seen.next /\ new.status = "active" => seen.status = "active" \/ seen.next > day,
         UNCHANGED <<day, started>>
  PROVE  Charged'
<1> USE DEF ScheduleBase, ScheduleTypeOK
<1>1. seen.next \in Nat /\ new.next \in Nat /\ srow[s] \in Schedule /\ srow[s].next \in Nat
  BY DEF Schedule
<1>2. srow'[s] = new /\ new # NoSchedule
  BY DEF UpdateRow
<1>3. \A x \in ScheduleId : x # s => /\ srow'[x] = srow[x] /\ planned'[x] = planned[x]
                                    /\ stale'[x] = stale[x]
  BY DEF UpdateRow
<1>4. \/ /\ stale'[s] = stale[s]
         /\ srow[s].status = seen.status /\ srow[s].next = seen.next
      \/ stale'[s] = stale[s] + 1
  BY DEF UpdateRow
<1>5. \A t \in 0..LastDay : started[s][t] \in Nat /\ stale[s] \in Nat /\ day \in Nat
  OBVIOUS
<1>6. ASSUME NEW t \in 0..LastDay
      PROVE  /\ started'[s][t] > 0 => t <= day'
             /\ started'[s][t] <= 1 + stale'[s]
             /\ new.next < t => started'[s][t] <= stale'[s]
             /\ new.next = t /\ new.status = "active" => started'[s][t] <= stale'[s]
  <2>1. /\ started[s][t] > 0 => t <= day
        /\ started[s][t] <= 1 + stale[s]
        /\ srow[s].next < t => started[s][t] <= stale[s]
        /\ srow[s].next = t /\ srow[s].status = "active" => started[s][t] <= stale[s]
    BY DEF Charged
  <2> QED
    BY <1>1, <1>4, <1>5, <2>1, SMTT(60)
<1> QED
  BY <1>2, <1>3, <1>6, ZenonT(60) DEF Charged

(* Nothing has been fired at first.                                          *)
LEMMA ChargedInit == ScheduleInit => Charged
  BY DEF ScheduleInit, Charged

(* A claim is charged to the occurrence the row had; only an outdated write  *)
(* lets one be claimed again.                                                *)
LEMMA ChargedStep == ScheduleBase /\ Charged /\ [ScheduleNext]_scheduleVars => Charged'
<1> SUFFICES ASSUME ScheduleBase, Charged, [ScheduleNext]_scheduleVars PROVE Charged'
  OBVIOUS
<1>1. ASSUME UNCHANGED <<srow, day, planned, started, stale>> PROVE Charged'
  BY <1>1 DEF Charged
<1>2. ASSUME NEW r \in Runner, NEW j \in sjobs[r], ClaimDue(r, j) PROVE Charged'
  <2>1. /\ j \in Copy /\ j.id \in ScheduleId /\ j.row \in Schedule
        /\ srow[j.id] \in Schedule /\ srow[j.id] # NoSchedule /\ j.row.next <= day
    BY DEF ScheduleBase, ScheduleTypeOK, Listed, Copy
  <2> DEFINE s == j.id
             d == j.row.next
  <2>2. d \in 0..LastDay /\ d <= day /\ day \in Nat
    BY <2>1 DEF ScheduleBase, ScheduleTypeOK, Schedule
  <2>3. /\ srow[s].status = "active" /\ srow[s].next = d
        /\ srow'[s] = [srow[s] EXCEPT !.status = "processing"]
        /\ \A x \in ScheduleId : x # s => srow'[x] = srow[x] /\ started'[x] = started[x]
        /\ \A t \in 0..LastDay : started'[s][t] = IF t = d THEN started[s][t] + 1 ELSE started[s][t]
        /\ UNCHANGED <<day, planned, stale>>
    BY <1>2, <2>1, <2>2 DEF ClaimDue, Claimable, ScheduleBase, ScheduleTypeOK
  <2>4. /\ srow'[s] # NoSchedule /\ srow'[s].status = "processing" /\ srow'[s].next = srow[s].next
    <3>1. [srow[s] EXCEPT !.status = "processing"] \in Schedule
      BY <2>1 DEF Schedule, ScheduleStatus
    <3> QED
      BY <2>1, <2>3, <3>1 DEF Schedule
  <2>5. \A t \in 0..LastDay : started[s][t] \in Nat /\ stale[s] \in Nat
    BY <2>1 DEF ScheduleBase, ScheduleTypeOK
  <2>6. s \in ScheduleId /\ srow[s] # NoSchedule
    BY <2>1
  <2> HIDE DEF s, d
  <2>7. ASSUME NEW t \in 0..LastDay
        PROVE  /\ started'[s][t] > 0 => t <= day'
               /\ started'[s][t] <= 1 + stale'[s]
               /\ srow'[s].next < t => started'[s][t] <= stale'[s]
               /\ srow'[s].next = t /\ srow'[s].status = "active" => started'[s][t] <= stale'[s]
    <3>1. /\ started[s][t] > 0 => t <= day
          /\ started[s][t] <= 1 + stale[s]
          /\ srow[s].next < t => started[s][t] <= stale[s]
          /\ srow[s].next = t => started[s][t] <= stale[s]
      BY <2>3, <2>6 DEF Charged
    <3> QED
      BY <2>2, <2>3, <2>4, <2>5, <3>1
  <2>8. ASSUME NEW x \in ScheduleId, x # s
        PROVE  srow'[x] = srow[x] /\ started'[x] = started[x]
    BY <2>3, <2>8
  <2>9. UNCHANGED <<day, planned, stale>>
    BY <2>3
  <2> QED
    BY <2>4, <2>6, <2>7, <2>8, <2>9 DEF Charged
<1>3. ASSUME NEW r \in Runner, FinishRun(r) PROVE Charged'
  <2> DEFINE seen == [scopy[r].row EXCEPT !.status = "processing"]
  <2>1. /\ scopy[r].id \in ScheduleId /\ scopy[r].row \in Schedule /\ Outcome(r) \in Schedule
        /\ spc[r] = "advance" => Outcome(r).next > scopy[r].row.next
        /\ spc[r] = "refused" => Outcome(r).next = scopy[r].row.next /\ Outcome(r).status = "failed"
        /\ spc[r] \in {"advance", "refused"}
    BY <1>3, OutcomeIsRow DEF FinishRun
  <2>2. seen \in Schedule /\ seen.next = scopy[r].row.next /\ seen.next \in Nat /\ Outcome(r).next \in Nat
    BY <2>1 DEF Schedule, ScheduleStatus
  <2>3. srow[scopy[r].id] # NoSchedule /\ UpdateRow(scopy[r].id, seen, Outcome(r)) /\ UNCHANGED <<day, started>>
    BY <1>3 DEF FinishRun, ScheduleBase, Listed
  <2> HIDE DEF seen
  <2>4. /\ Outcome(r).next >= seen.next
        /\ Outcome(r).next = seen.next => Outcome(r).status # "active"
    BY <2>1, <2>2
  <2> QED
    BY <2>1, <2>2, <2>3, <2>4, ChargedWrite
<1>4. ASSUME NEW s \in ScheduleId, NEW in \in CreateInput, CreateSchedule(s, in) PROVE Charged'
  <2>1. /\ srow[s] = NoSchedule /\ UNCHANGED <<day, started, stale>>
        /\ srow'[s] # NoSchedule
        /\ \A x \in ScheduleId : x # s => srow'[x] = srow[x] /\ planned'[x] = planned[x]
    <3>1. [status |-> "active", freq |-> in.freq, next |-> in.start, end |-> in.end] \in Schedule
      BY DEF CreateInput, Schedule, ScheduleStatus
    <3> QED
      BY <1>4, <3>1 DEF CreateSchedule, InsertSchedule, ScheduleBase, ScheduleTypeOK
  <2>2. \A t \in 0..LastDay : started[s][t] = 0 /\ stale[s] \in Nat
    BY <2>1 DEF Charged, ScheduleBase, ScheduleTypeOK
  <2> QED
    BY <2>1, <2>2 DEF Charged
<1>5. ASSUME NEW c \in Client, NEW in \in UpdateInput, UpdateSchedule(c, in) PROVE Charged'
  <2>1. /\ acopy[c].id \in ScheduleId /\ acopy[c].row \in Schedule /\ srow[acopy[c].id] # NoSchedule
        /\ UpdateRow(acopy[c].id, acopy[c].row, Changed(acopy[c].row, in)) /\ UNCHANGED <<day, started>>
        /\ day \in Nat
    BY <1>5 DEF UpdateSchedule, WriteSchedule, Copy, ScheduleBase, ScheduleTypeOK, Listed
  <2> DEFINE seen == acopy[c].row
             new == Changed(seen, in)
  <2>2. /\ new \in Schedule /\ new.next >= seen.next
        /\ new.next = seen.next /\ seen.next <= day => new.status # "active" \/ seen.status = "active"
        /\ seen.next \in Nat
    BY <2>1, ChangedRow DEF Schedule
  <2> HIDE DEF seen, new
  <2>3. new.next = seen.next /\ new.status = "active" => seen.status = "active" \/ seen.next > day
    BY <2>1, <2>2
  <2> QED
    BY <2>1, <2>2, <2>3, ChargedWrite DEF seen, new
<1>6. ASSUME NEW c \in Client, CancelSchedule(c) PROVE Charged'
  <2> DEFINE seen == acopy[c].row
             new == [seen EXCEPT !.status = "cancelled"]
  <2>1. /\ acopy[c].id \in ScheduleId /\ seen \in Schedule /\ srow[acopy[c].id] # NoSchedule
        /\ UpdateRow(acopy[c].id, seen, new) /\ UNCHANGED <<day, started>>
    BY <1>6 DEF CancelSchedule, WriteSchedule, Copy, ScheduleBase, Listed
  <2>2. new \in Schedule /\ new.next = seen.next /\ new.status = "cancelled" /\ seen.next \in Nat
    BY <2>1 DEF Schedule, ScheduleStatus
  <2> HIDE DEF seen, new
  <2> QED
    BY <2>1, <2>2, ChargedWrite
<1>7. CASE NextDay
  <2>1. day \in Nat /\ \A s \in ScheduleId : \A t \in 0..LastDay : started[s][t] \in Nat
    BY DEF ScheduleBase, ScheduleTypeOK
  <2> QED
    BY <1>7, <2>1 DEF NextDay, Charged
<1> QED
  BY <1>1, <1>2, <1>3, <1>4, <1>5, <1>6, <1>7
     DEF ScheduleNext, RunStep, ApiStep, ListDue, PassOver, InitiateDue, DropRun, ReadSchedule, DropRequest
-----------------------------------------------------------------------------
(* An up-to-date write leaves the occurrence it moves on from accounted for. *)
LEMMA AccountedWrite ==
  ASSUME ScheduleBase, Accounted,
         NEW s \in ScheduleId, NEW seen \in Schedule, NEW new \in Schedule,
         srow[s] # NoSchedule, UpdateRow(s, seen, new),
         new.next >= seen.next,
         seen.next \in planned[s] /\ seen.next < new.next => seen.next \in fired'[s] \cup skipped'[s],
         \A x \in ScheduleId : fired[x] \cup skipped[x] \subseteq fired'[x] \cup skipped'[x]
  PROVE  Accounted'
<1> USE DEF ScheduleBase, ScheduleTypeOK
<1>1. seen.next \in Nat /\ new.next \in Nat /\ srow[s].next \in Nat
  BY DEF Schedule
<1>2. srow'[s] = new /\ planned'[s] = planned[s] \cup {new.next}
  BY DEF UpdateRow
<1>3. \A x \in ScheduleId : x # s => /\ srow'[x] = srow[x] /\ planned'[x] = planned[x]
                                    /\ stale'[x] = stale[x]
  BY DEF UpdateRow
<1>4. stale'[s] = 0 => stale[s] = 0 /\ srow[s].next = seen.next
  BY DEF UpdateRow
<1>5. ASSUME stale'[s] = 0, NEW t \in planned'[s]
      PROVE  t <= new.next /\ (t < new.next => t \in fired'[s] \cup skipped'[s])
  <2>1. CASE t \in planned[s]
    <3>1. t \in Nat /\ t <= seen.next /\ (t < seen.next => t \in fired[s] \cup skipped[s])
      BY <1>4, <1>5, <2>1 DEF Accounted
    <3> QED
      BY <1>1, <2>1, <3>1
  <2>2. CASE t = new.next
    BY <1>1, <2>2
  <2> QED
    BY <1>2, <1>5, <2>1, <2>2
<1> QED
  BY <1>2, <1>3, <1>5 DEF Accounted

(* No firing to account for at first.                                        *)
LEMMA AccountedInit == ScheduleInit => Accounted
  BY DEF ScheduleInit, Accounted

(* next_run_at moves only past an occurrence that was paid or jumped over.   *)
LEMMA AccountedStep ==
  ScheduleBase /\ Charged /\ Accounted /\ [ScheduleNext]_scheduleVars => Accounted'
<1> SUFFICES ASSUME ScheduleBase, Charged, Accounted, [ScheduleNext]_scheduleVars PROVE Accounted'
  OBVIOUS
<1>1. ASSUME UNCHANGED <<srow, planned, fired, skipped, stale>> PROVE Accounted'
  BY <1>1 DEF Accounted
<1>2. ASSUME NEW r \in Runner, NEW j \in sjobs[r], ClaimDue(r, j) PROVE Accounted'
  <2>1. j.id \in ScheduleId /\ srow[j.id] \in Schedule /\ srow[j.id] # NoSchedule
    BY DEF ScheduleBase, ScheduleTypeOK, Listed, Copy
  <2>2. /\ srow'[j.id] = [srow[j.id] EXCEPT !.status = "processing"]
        /\ \A x \in ScheduleId : x # j.id => srow'[x] = srow[x]
        /\ UNCHANGED <<planned, fired, skipped, stale>>
    BY <1>2, <2>1 DEF ClaimDue, ScheduleBase, ScheduleTypeOK
  <2>3. srow'[j.id].next = srow[j.id].next
    BY <2>1, <2>2 DEF Schedule
  <2> QED
    BY <2>1, <2>2, <2>3 DEF Accounted
<1>3. ASSUME NEW r \in Runner, InitiateDue(r) PROVE Accounted'
  <2>1. UNCHANGED <<srow, planned, skipped, stale>>
    BY <1>3 DEF InitiateDue
  <2>2. \A s \in ScheduleId : fired[s] \subseteq fired'[s]
    BY <1>3 DEF InitiateDue, ScheduleBase, ScheduleTypeOK
  <2> QED
    BY <2>1, <2>2 DEF Accounted
<1>4. ASSUME NEW r \in Runner, FinishRun(r) PROVE Accounted'
  <2> DEFINE seen == [scopy[r].row EXCEPT !.status = "processing"]
  <2>1. /\ scopy[r].id \in ScheduleId /\ scopy[r].row \in Schedule /\ Outcome(r) \in Schedule
        /\ spc[r] = "advance" => Outcome(r).next > scopy[r].row.next
        /\ spc[r] = "refused" => Outcome(r).next = scopy[r].row.next
        /\ spc[r] \in {"advance", "refused"}
    BY <1>4, OutcomeIsRow DEF FinishRun
  <2>2. seen \in Schedule /\ seen.next = scopy[r].row.next /\ seen.next \in Nat /\ Outcome(r).next \in Nat
    BY <2>1 DEF Schedule, ScheduleStatus
  <2>3. srow[scopy[r].id] # NoSchedule /\ UpdateRow(scopy[r].id, seen, Outcome(r)) /\ UNCHANGED <<fired, skipped>>
    BY <1>4 DEF FinishRun, ScheduleBase, Listed
  <2>4. spc[r] = "advance" => seen.next \in fired[scopy[r].id]
    BY <2>2 DEF ScheduleBase, Listed
  <2> HIDE DEF seen
  <2>5. Outcome(r).next >= seen.next
    BY <2>1, <2>2
  <2>6. seen.next < Outcome(r).next => seen.next \in fired'[scopy[r].id] \cup skipped'[scopy[r].id]
    BY <2>1, <2>2, <2>3, <2>4
  <2>7. \A x \in ScheduleId : fired[x] \cup skipped[x] \subseteq fired'[x] \cup skipped'[x]
    BY <2>3
  <2> QED
    BY <2>1, <2>2, <2>3, <2>5, <2>6, <2>7, AccountedWrite
<1>5. ASSUME NEW s \in ScheduleId, NEW in \in CreateInput, CreateSchedule(s, in) PROVE Accounted'
  <2>1. /\ srow'[s].next = in.start /\ planned'[s] = {in.start} /\ in.start \in Nat
        /\ \A x \in ScheduleId : x # s => srow'[x] = srow[x] /\ planned'[x] = planned[x]
        /\ UNCHANGED <<fired, skipped, stale>>
    BY <1>5 DEF CreateSchedule, InsertSchedule, CreateInput, ScheduleBase, ScheduleTypeOK
  <2> QED
    BY <2>1 DEF Accounted
<1>6. ASSUME NEW c \in Client, NEW new \in Schedule, WriteSchedule(c, new), new.next >= acopy[c].row.next
      PROVE  Accounted'
  <2> DEFINE s == acopy[c].id
             seen == acopy[c].row
  <2>1. s \in ScheduleId /\ seen \in Schedule /\ srow[s] # NoSchedule /\ UpdateRow(s, seen, new)
    BY <1>6 DEF WriteSchedule, Copy, ScheduleBase, Listed
  <2>2. /\ skipped' = [skipped EXCEPT ![s] = @ \cup {t \in planned[s] : seen.next <= t /\ t < new.next}]
        /\ fired' = fired
    BY <1>6 DEF WriteSchedule
  <2>3. seen.next \in Nat
    BY <2>1 DEF Schedule
  <2> HIDE DEF s, seen
  <2>4. /\ seen.next \in planned[s] /\ seen.next < new.next => seen.next \in skipped'[s]
        /\ \A x \in ScheduleId : skipped[x] \subseteq skipped'[x]
    BY <2>1, <2>2, <2>3 DEF ScheduleBase, ScheduleTypeOK
  <2>5. \A x \in ScheduleId : fired[x] \cup skipped[x] \subseteq fired'[x] \cup skipped'[x]
    BY <2>2, <2>4
  <2>6. new.next >= seen.next
    BY <1>6 DEF seen
  <2> QED
    BY <2>1, <2>4, <2>5, <2>6, AccountedWrite
<1>7. ASSUME NEW c \in Client, NEW in \in UpdateInput, UpdateSchedule(c, in) PROVE Accounted'
  <2>1. acopy[c].row \in Schedule /\ day \in Nat
    BY <1>7 DEF UpdateSchedule, Copy, ScheduleBase, ScheduleTypeOK
  <2> QED
    BY <1>6, <1>7, <2>1, ChangedRow DEF UpdateSchedule
<1>8. ASSUME NEW c \in Client, CancelSchedule(c) PROVE Accounted'
  <2> DEFINE seen == acopy[c].row
             new == [seen EXCEPT !.status = "cancelled"]
  <2>1. seen \in Schedule /\ WriteSchedule(c, new)
    BY <1>8 DEF CancelSchedule, Copy
  <2>2. new \in Schedule /\ new.next = seen.next /\ seen.next \in Nat
    BY <2>1 DEF Schedule, ScheduleStatus
  <2>3. new.next >= seen.next
    <3> HIDE DEF seen, new
    <3> QED
      BY <2>2
  <2> QED
    BY <1>6, <2>1, <2>2, <2>3
<1> QED
  BY <1>1, <1>2, <1>3, <1>4, <1>5, <1>7, <1>8
     DEF ScheduleNext, RunStep, ApiStep, ListDue, PassOver, DropRun, ReadSchedule, DropRequest, NextDay
-----------------------------------------------------------------------------
(* For any number of overlapping runs and requests, in any order and with    *)
(* any of them dying anywhere: an occurrence is claimed once more than its   *)
(* row was overwritten with an outdated copy, at most, and until that        *)
(* happens none is left behind without its transfer (worker.go:runOne,       *)
(* service.go:Update).                                                       *)
THEOREM SchedulesAreSafe == ScheduleSpec => []ScheduleSafe
<1>1. ScheduleInit => ScheduleBase /\ Charged /\ Accounted
  BY BaseInit, ChargedInit, AccountedInit
<1>2. ScheduleBase /\ Charged /\ Accounted /\ [ScheduleNext]_scheduleVars
        => (ScheduleBase /\ Charged /\ Accounted)'
  BY BaseStep, ChargedStep, AccountedStep
<1>3. ScheduleBase /\ Charged /\ Accounted => ScheduleSafe
  BY DEF ScheduleBase, Charged, Accounted, ScheduleSafe, RunsOncePerOccurrence, NoOccurrenceLost
<1> QED
  BY <1>1, <1>2, <1>3, PTL DEF ScheduleSpec
-----------------------------------------------------------------------------
(* The system while nobody edits a schedule: schedules are created, and any  *)
(* number of runs of schedule:run overlap, fail and die.                     *)
WorkersNext ==
  \/ \E r \in Runner : RunStep(r)
  \/ \E s \in ScheduleId, in \in CreateInput : CreateSchedule(s, in)
  \/ NextDay
WorkersSpec == ScheduleInit /\ [][WorkersNext]_scheduleVars

(* A claimed row belongs to the run that claimed it, as that run knows it,   *)
(* so that no write is outdated.                                             *)
Owned ==
  /\ \A s \in ScheduleId : stale[s] = 0
  /\ \A r \in Runner : spc[r] # "idle" =>
       /\ srow[scopy[r].id].status = "processing"
       /\ srow[scopy[r].id].next = scopy[r].row.next
       /\ \A q \in Runner : q # r /\ spc[q] # "idle" => scopy[q].id # scopy[r].id

(* Without edits by clients a claimed row is written by its claimer alone.   *)
LEMMA OwnedStep == ScheduleBase /\ Owned /\ [WorkersNext]_scheduleVars => Owned'
<1> SUFFICES ASSUME ScheduleBase, Owned, [WorkersNext]_scheduleVars PROVE Owned'
  OBVIOUS
<1> USE DEF ScheduleBase
<1>0. \A q \in Runner : spc[q] # "idle" => scopy[q] \in Copy /\ scopy[q].id \in ScheduleId
  BY DEF Listed, Copy
<1>1. ASSUME UNCHANGED <<srow, spc, scopy, stale>> PROVE Owned'
  BY <1>1 DEF Owned
<1>2. ASSUME NEW r \in Runner, NEW j \in sjobs[r], ClaimDue(r, j) PROVE Owned'
  <2>1. j.id \in ScheduleId /\ srow[j.id] \in Schedule
    BY DEF ScheduleTypeOK, Listed, Copy
  <2>2. /\ srow[j.id].status = "active" /\ srow[j.id].next = j.row.next
        /\ srow'[j.id] = [srow[j.id] EXCEPT !.status = "processing"]
        /\ \A x \in ScheduleId : x # j.id => srow'[x] = srow[x]
        /\ spc'[r] = "initiate" /\ scopy'[r] = j /\ stale' = stale
        /\ \A q \in Runner : q # r => spc'[q] = spc[q] /\ scopy'[q] = scopy[q]
    BY <1>2, <2>1 DEF ClaimDue, Claimable, ScheduleTypeOK
  <2>3. srow'[j.id].status = "processing" /\ srow'[j.id].next = j.row.next
    BY <2>1, <2>2 DEF Schedule
  <2>4. \A q \in Runner : q # r /\ spc[q] # "idle" => scopy[q].id # j.id
    BY <2>2 DEF Owned
  <2>5. ASSUME NEW p \in Runner, spc'[p] # "idle"
        PROVE  /\ srow'[scopy'[p].id].status = "processing"
               /\ srow'[scopy'[p].id].next = scopy'[p].row.next
               /\ \A q \in Runner : q # p /\ spc'[q] # "idle" => scopy'[q].id # scopy'[p].id
    <3>1. CASE p = r
      <4>1. scopy'[p] = j
        BY <2>2, <3>1
      <4>2. ASSUME NEW q \in Runner, q # p, spc'[q] # "idle" PROVE scopy'[q].id # j.id
        <5>1. q # r /\ spc[q] # "idle" /\ scopy'[q] = scopy[q]
          BY <2>2, <3>1, <4>2
        <5> QED
          BY <2>4, <5>1
      <4> QED
        BY <2>3, <4>1, <4>2
    <3>2. CASE p # r
      <4>1. /\ scopy'[p] = scopy[p] /\ spc[p] # "idle" /\ scopy[p].id # j.id
            /\ srow'[scopy[p].id] = srow[scopy[p].id]
        BY <1>0, <2>2, <2>4, <2>5, <3>2
      <4> QED
        BY <2>2, <2>5, <4>1 DEF Owned
    <3> QED
      BY <3>1, <3>2
  <2> QED
    BY <2>2, <2>5 DEF Owned
<1>3. ASSUME NEW r \in Runner, InitiateDue(r) PROVE Owned'
  <2>1. spc[r] # "idle" /\ UNCHANGED <<srow, scopy, stale>> /\ \A q \in Runner : q # r => spc'[q] = spc[q]
    BY <1>3 DEF InitiateDue, ScheduleTypeOK
  <2> QED
    BY <2>1 DEF Owned
<1>4. ASSUME NEW r \in Runner, FinishRun(r) PROVE Owned'
  <2> DEFINE s == scopy[r].id
  <2>1. spc[r] # "idle" /\ s \in ScheduleId /\ scopy[r].row \in Schedule
    BY <1>4, OutcomeIsRow DEF FinishRun
  <2>2. [scopy[r].row EXCEPT !.status = "processing"].status = "processing"
        /\ [scopy[r].row EXCEPT !.status = "processing"].next = scopy[r].row.next
    BY <2>1 DEF Schedule
  <2>3. stale' = stale
    BY <1>4, <2>1, <2>2 DEF FinishRun, UpdateRow, Owned, ScheduleTypeOK
  <2>4. /\ spc'[r] = "idle"
        /\ \A q \in Runner : q # r => spc'[q] = spc[q] /\ scopy'[q] = scopy[q]
        /\ \A x \in ScheduleId : x # s => srow'[x] = srow[x]
    BY <1>4 DEF FinishRun, UpdateRow, ScheduleTypeOK
  <2> HIDE DEF s
  <2>5. \A q \in Runner : q # r /\ spc[q] # "idle" => scopy[q].id # s
    BY <2>1 DEF Owned, s
  <2> QED
    BY <1>0, <2>3, <2>4, <2>5 DEF Owned
<1>5. ASSUME NEW r \in Runner, DropRun(r) PROVE Owned'
  BY <1>5 DEF DropRun, Owned, ScheduleTypeOK
<1>6. ASSUME NEW s \in ScheduleId, NEW in \in CreateInput, CreateSchedule(s, in) PROVE Owned'
  <2>1. srow[s] = NoSchedule /\ UNCHANGED <<spc, scopy, stale>> /\ \A x \in ScheduleId : x # s => srow'[x] = srow[x]
    BY <1>6 DEF CreateSchedule, InsertSchedule, ScheduleTypeOK
  <2>2. \A q \in Runner : spc[q] # "idle" => scopy[q].id # s
    BY <2>1 DEF Listed
  <2> QED
    BY <1>0, <2>1, <2>2 DEF Owned
<1> QED
  BY <1>1, <1>2, <1>3, <1>4, <1>5, <1>6
     DEF WorkersNext, RunStep, ListDue, PassOver, NextDay

(* docs/FEATURES_EXPLAINED.md:77, the claim "so two workers never fire it    *)
(* twice", for any number of workers: while no request edits a schedule, an  *)
(* occurrence is claimed once at most.                                       *)
THEOREM WorkersNeverFireTwice == WorkersSpec => []NeverTwice
<1>1. ScheduleInit => ScheduleBase /\ Charged /\ Owned
  BY BaseInit, ChargedInit DEF ScheduleInit, Owned
<1>2. [WorkersNext]_scheduleVars => [ScheduleNext]_scheduleVars
  BY DEF WorkersNext, ScheduleNext, ApiStep
<1>3. ScheduleBase /\ Charged /\ Owned /\ [WorkersNext]_scheduleVars => (ScheduleBase /\ Charged /\ Owned)'
  BY <1>2, BaseStep, ChargedStep, OwnedStep
<1>4. ScheduleBase /\ Charged /\ Owned => NeverTwice
  BY DEF ScheduleBase, ScheduleTypeOK, Charged, Owned, NeverTwice
<1> QED
  BY <1>1, <1>3, <1>4, PTL DEF WorkersSpec
===============================================================================
