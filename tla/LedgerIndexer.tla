--------------------------- MODULE LedgerIndexer ---------------------------
(***************************************************************************)
(* internal/indexer: the payments Horizon reports for one wallet become    *)
(* transaction rows.  Two kinds of reader work on the same stored cursor:  *)
(* the sync task, every 30 seconds, and a stream per process (worker and   *)
(* API).  A payment is named by its position in the wallet's history; its  *)
(* paging token is that position, and 0 is the empty cursor.               *)
(***************************************************************************)
EXTENDS Naturals, Sequences, FiniteSets

CONSTANTS
  Syncer, Stream,               \* runs of SyncWallet, goroutines of StreamWallet
  TxHash,                       \* transactions of the network
  MaxPayments, PageLimit,       \* bounds: length of the history, paymentsPageLimit
  MaxFaults                     \* bound: failed statements, lost processes

ASSUME PagesAreFinite == PageLimit \in Nat \ {0} /\ MaxPayments \in Nat /\ MaxFaults \in Nat
ASSUME ReadersAreOfOneKind == Syncer \cap Stream = {}

VARIABLES
  history,                      \* Horizon: the wallet's payment operations
  cursor,                       \* wallets.sync_cursor
  inbound,                      \* rows of transactions made by the indexer: hash and operation
  rpc, rpos, rfeed, rpage,      \* a reader: position, cursor, where its feed is, rest of its page
  rfull,                        \* a sync: was its page a full one
  failed, jumped, faults        \* history: operations whose processing failed, operations that
                                \* were there when a stream began at now; faults so far

indexVars == <<history, cursor, inbound, rpc, rpos, rfeed, rpage, rfull, failed, jumped, faults>>
readerVars == <<rpc, rpos, rfeed, rpage, rfull>>

Reader == Syncer \cup Stream
(* payment and path payment are read, other operations are not. *)
PaymentOp == [hash : TxHash, kind : {"payment", "other"}, inward : BOOLEAN, ok : BOOLEAN]

IndexInit ==
  /\ history = <<>> /\ cursor = 0 /\ inbound = {}
  /\ rpc = [r \in Reader |-> "idle"] /\ rpos = [r \in Reader |-> 0]
  /\ rfeed = [r \in Reader |-> 0] /\ rpage = [r \in Reader |-> <<>>]
  /\ rfull = [r \in Reader |-> FALSE]
  /\ failed = {} /\ jumped = {} /\ faults = 0

(* One operation enters a ledger; the operations of a transaction are adjacent *)
(* and share their fate.                                                       *)
PaymentArrives(op) ==
  /\ Len(history) < MaxPayments
  /\ \A i \in DOMAIN history : history[i].hash = op.hash =>
        /\ history[i].ok = op.ok
        /\ \A j \in i..Len(history) : history[j].hash = op.hash
  /\ history' = Append(history, op)
  /\ UNCHANGED <<cursor, inbound, readerVars, failed, jumped, faults>>

Fault == faults < MaxFaults /\ faults' = faults + 1
Step(r, pc) == rpc' = [rpc EXCEPT ![r] = pc]

(* Seeded fault: every page is a full one. *)
FullPage(pos) == [i \in 1..PageLimit |-> pos + i]

(* Payments(account, cursor, limit): the page after the cursor, oldest first. *)
PageAfter(pos) == [i \in 1..(IF Len(history) - pos < PageLimit THEN Len(history) - pos ELSE PageLimit) |-> pos + i]

(* What processPayment records: a successful payment to the wallet itself. *)
IsInbound(i) == history[i].ok /\ history[i].kind = "payment" /\ history[i].inward

ExistsByTxHash(h) == \E row \in inbound : row.hash = h
-----------------------------------------------------------------------------
(* SyncAll loads the wallet, SyncWallet its balances and the first page. *)
SyncWallet(r) ==
  /\ r \in Syncer /\ rpc[r] = "idle"
  /\ rpos' = [rpos EXCEPT ![r] = cursor] /\ Step(r, "page")
  /\ UNCHANGED <<history, cursor, inbound, rfeed, rpage, rfull, failed, jumped, faults>>

FetchPage(r) ==
  LET page == PageAfter(rpos[r]) IN
  /\ r \in Syncer /\ rpc[r] = "page"
  /\ rpage' = [rpage EXCEPT ![r] = page]
  /\ rfull' = [rfull EXCEPT ![r] = Len(page) = PageLimit]
  /\ Step(r, IF page = <<>> THEN "idle" ELSE "check")
  /\ UNCHANGED <<history, cursor, inbound, rpos, rfeed, failed, jumped, faults>>

(* StreamAll loads the wallet once, when the process starts. *)
StartStream(r) ==
  /\ r \in Stream /\ rpc[r] = "idle"
  /\ rpos' = [rpos EXCEPT ![r] = cursor] /\ Step(r, "connect")
  /\ UNCHANGED <<history, cursor, inbound, rfeed, rpage, rfull, failed, jumped, faults>>

(* "starting strictly after cursor (empty cursor streams only new payments)"  *)
(* (stellar/client.go:24); a reconnection uses the cursor of the goroutine.   *)
StreamWallet(r) ==
  /\ r \in Stream /\ rpc[r] = "connect"
  /\ IF rpos[r] = 0
     THEN rfeed' = [rfeed EXCEPT ![r] = Len(history)] /\ jumped' = jumped \cup DOMAIN history
     ELSE rfeed' = [rfeed EXCEPT ![r] = rpos[r]] /\ UNCHANGED jumped
  /\ Step(r, "live")
  /\ UNCHANGED <<history, cursor, inbound, rpos, rpage, rfull, failed, faults>>

StreamEvent(r) ==
  /\ r \in Stream /\ rpc[r] = "live" /\ rfeed[r] < Len(history)
  /\ rfeed' = [rfeed EXCEPT ![r] = @ + 1]
  /\ rpage' = [rpage EXCEPT ![r] = <<rfeed[r] + 1>>] /\ Step(r, "check")
  /\ UNCHANGED <<history, cursor, inbound, rpos, rfull, failed, jumped, faults>>

Disconnect(r) ==
  /\ r \in Stream /\ rpc[r] = "live" /\ Fault /\ Step(r, "connect")
  /\ UNCHANGED <<history, cursor, inbound, rpos, rfeed, rpage, rfull, failed, jumped>>

(* After an operation, recorded or not: the reader's cursor is its token.  A  *)
(* stream stores it at once, a sync at the end of the page.                   *)
NextOperation(r) ==
  /\ rpos' = [rpos EXCEPT ![r] = Head(rpage[r])] /\ rpage' = [rpage EXCEPT ![r] = Tail(@)]
  /\ Step(r, IF Tail(rpage[r]) = <<>> THEN "save" ELSE "check")

(* The first half of processPayment: early returns, then ExistsByTxHash. *)
CheckPayment(r) ==
  /\ rpc[r] = "check"
  /\ LET i == Head(rpage[r]) IN
     IF IsInbound(i) /\ ~ExistsByTxHash(history[i].hash)
     THEN \/ Step(r, "insert") /\ UNCHANGED <<rpos, rpage, failed, faults>>
          \/ Fault /\ failed' = failed \cup {i} /\ NextOperation(r)
     ELSE NextOperation(r) /\ UNCHANGED <<failed, faults>>
  /\ UNCHANGED <<history, cursor, inbound, rfeed, rfull, jumped>>

(* Seeded fault: the table takes a second row of a hash. *)
AnyHash(h) == h \in TxHash

(* tx_hash is UNIQUE: of two readers that both found no row, one fails. *)
HashUnused(h) == ~ExistsByTxHash(h)

(* Create, in the second half.  An error is logged and the operation passed. *)
InsertPayment(r) ==
  /\ rpc[r] = "insert"
  /\ LET i == Head(rpage[r])
         h == history[i].hash IN
     \/ HashUnused(h) /\ inbound' = inbound \cup {[hash |-> h, op |-> i, by |-> r]} /\ UNCHANGED <<failed, faults>>
     \/ ~HashUnused(h) /\ UNCHANGED <<inbound, failed, faults>>
     \/ Fault /\ failed' = failed \cup {i} /\ UNCHANGED inbound
  /\ NextOperation(r)
  /\ UNCHANGED <<history, cursor, rfeed, rfull, jumped>>

AfterSave(r) ==
  Step(r, IF r \in Stream THEN "live" ELSE IF rfull[r] THEN "page" ELSE "idle")

(* Seeded fault: the cursor stored is the end of the history. *)
SaveNewest(r) ==
  /\ rpc[r] = "save" /\ cursor' = Len(history) /\ AfterSave(r)
  /\ UNCHANGED <<history, inbound, rpos, rfeed, rpage, rfull, failed, jumped, faults>>

(* UpdateSyncCursor overwrites; a failure ends a sync and is ignored by a stream. *)
UpdateSyncCursor(r) ==
  /\ rpc[r] = "save"
  /\ \/ cursor' = rpos[r] /\ UNCHANGED faults /\ AfterSave(r)
     \/ Fault /\ UNCHANGED cursor /\ Step(r, IF r \in Stream THEN "live" ELSE "idle")
  /\ UNCHANGED <<history, inbound, rpos, rfeed, rpage, rfull, failed, jumped>>

(* The process is lost, or a call of the sync fails. *)
ReaderStops(r) ==
  /\ rpc[r] # "idle" /\ Fault /\ Step(r, "idle")
  /\ rpage' = [rpage EXCEPT ![r] = <<>>]
  /\ UNCHANGED <<history, cursor, inbound, rpos, rfeed, rfull, failed, jumped>>
-----------------------------------------------------------------------------
SyncStep(r) ==
  \/ SyncWallet(r) \/ FetchPage(r)
  \/ r \in Syncer /\ (CheckPayment(r) \/ InsertPayment(r) \/ UpdateSyncCursor(r))

StreamStep(r) ==
  \/ StartStream(r) \/ StreamWallet(r) \/ StreamEvent(r) \/ Disconnect(r)
  \/ r \in Stream /\ (CheckPayment(r) \/ InsertPayment(r) \/ UpdateSyncCursor(r))

IndexNext ==
  \/ \E op \in PaymentOp : PaymentArrives(op)
  \/ \E r \in Reader : SyncStep(r) \/ StreamStep(r) \/ ReaderStops(r)

IndexSpec == IndexInit /\ [][IndexNext]_indexVars
-----------------------------------------------------------------------------
IndexTypeOK ==
  /\ history \in Seq(PaymentOp) /\ cursor \in 0..Len(history)
  /\ inbound \subseteq [hash : TxHash, op : DOMAIN history, by : Reader]
  /\ rpc \in [Reader -> {"idle", "page", "connect", "live", "check", "insert", "save"}]
  /\ rpos \in [Reader -> 0..Len(history)] /\ rfeed \in [Reader -> 0..Len(history)]
  /\ rpage \in [Reader -> Seq(DOMAIN history)] /\ rfull \in [Reader -> BOOLEAN]
  /\ failed \subseteq DOMAIN history /\ jumped \subseteq DOMAIN history /\ faults \in 0..MaxFaults

(* "ExistsByTxHash guards against double-processing the same operation across *)
(* polling and streaming sync" (indexer.go:201): a transaction is recorded    *)
(* once, and only when it really paid the wallet.                             *)
RecordedOnce ==
  \A p, q \in inbound : p.hash = q.hash => p = q /\ IsInbound(p.op)

(* The stored cursor never passes a payment that is not recorded, but for an  *)
(* operation whose processing failed and for what was there when a stream     *)
(* began at now.                                                              *)
NothingPassedOver ==
  \A i \in 1..cursor : IsInbound(i) /\ i \notin failed \cup jumped => ExistsByTxHash(history[i].hash)

(* Under the same exceptions every payment is recorded in the end.            *)
PaymentsAreRecorded ==
  \A i \in 1..MaxPayments :
    (i \in DOMAIN history /\ IsInbound(i))
      ~> (i \in DOMAIN history /\ (i \in failed \cup jumped \/ ExistsByTxHash(history[i].hash)))

(* "the @every 30s indexer:sync task below is the incremental-poll fallback   *)
(* that also catches up any wallet whose stream is reconnecting"              *)
(* (cmd/worker/main.go:119): whatever a stream misses is not passed over.     *)
SyncCatchesUp ==
  \A i \in 1..cursor : IsInbound(i) /\ i \notin failed => ExistsByTxHash(history[i].hash)

(* A row is due to each transaction that paid the wallet, and there is one    *)
(* (processPayment).                                                          *)
RowsDue == {h \in TxHash : \E i \in DOMAIN history : history[i].hash = h /\ IsInbound(i)}
RowsOf(h) == {row \in inbound : row.hash = h}
RowCount == [h \in TxHash |-> Cardinality(RowsOf(h))]
RowPromise == INSTANCE OnceOnly WITH Claim <- TxHash, due <- RowsDue, given <- RowCount
RowsKeepPromise == RowPromise!OnceSpec

(* Streams and the sync task read the same payments: none is recorded twice, *)
(* and the cursor passes none that was not read (processPayment, SyncAll).  *)
IndexSafe ==
  /\ IndexTypeOK
  /\ RecordedOnce
  /\ NothingPassedOver
=============================================================================
