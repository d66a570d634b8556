--------------------------- MODULE XDCSettlement ---------------------------
(***************************************************************************)
(* Settlement on XDC: internal/settlement/xdc_engine.go, the chain client  *)
(* internal/chain/xdc, and the deposit check of wallet/xdc_service.go that *)
(* writes to the same table.  All transfers leave one wallet, so that they *)
(* compete for its nonces; no reconciler runs on this backend.             *)
(***************************************************************************)
EXTENDS Naturals, Sequences, FiniteSets

CONSTANTS
  XTransfer, XWorker,           \* transfers of one source wallet, workers of one process
  NoTx,                         \* no hash
  WithFee                       \* transfers that carry a fee

ASSUME FeesOfTransfers == WithFee \subseteq XTransfer

VARIABLES
  xrow,                         \* transfer rows: status and hash
  deposits,                     \* hashes recorded by VerifyDeposit
  wpc, wtx, wnonce, whash,      \* a worker: position, transfer, nonce read, tx sent
  walletLock,                   \* the holder of the wallet's mutex
  mem, ledger, buried,          \* chain: pending and mined txs by nonce, txs deep enough
  feeRecorded,                  \* rows of fee_collections
  ambiguous, clashes, cut       \* history: accepted with an error; legs that met at a nonce;
                                \* transfers whose worker died or gave up early

xdcVars == <<xrow, deposits, wpc, wtx, wnonce, whash, walletLock, mem, ledger, buried,
             feeRecorded, ambiguous, clashes, cut>>
workerVars == <<wpc, wtx, wnonce, whash, walletLock>>
chainVars == <<mem, ledger, buried>>
historyVars == <<ambiguous, clashes, cut>>

ChainTx == [t : XTransfer, leg : {"main", "fee"}, n : Nat]
ASSUME NoTxIsNothing == NoTx \notin XWorker /\ NoTx \notin XTransfer /\ NoTx \notin ChainTx

Position == {"idle", "nonce", "send", "fail", "wait", "submitted", "confirm", "feeNonce", "feeSend", "feeRecord"}

XDCInit ==
  /\ xrow = [t \in XTransfer |-> [status |-> "pending", hash |-> NoTx]] /\ deposits = {}
  /\ wpc = [w \in XWorker |-> "idle"] /\ wtx = [w \in XWorker |-> NoTx]
  /\ wnonce = [w \in XWorker |-> 0] /\ whash = [w \in XWorker |-> NoTx]
  /\ walletLock = NoTx
  /\ mem = <<>> /\ ledger = <<>> /\ buried = 0
  /\ feeRecorded = {} /\ ambiguous = {} /\ clashes = {} /\ cut = {}
-----------------------------------------------------------------------------
(* The chain.  The pool holds consecutive nonces from the next one on. *)
PendingNonceAt == Len(ledger) + Len(mem)
(* Also a seeded fault for Confirmed: the first block is deep enough. *)
Succeeded(x) == \E i \in DOMAIN ledger : ledger[i].tx = x /\ ledger[i].ok

(* WaitConfirmations returns: the receipt is a success and deep enough. *)
Confirmed(x) == \E i \in 1..buried : ledger[i].tx = x /\ ledger[i].ok

(* SendTransaction: a nonce that is taken in the pool is refused or, at a     *)
(* better gas price, takes the place; a nonce that is mined is refused.       *)
Accepted(x) ==
  /\ x.n >= Len(ledger)
  /\ mem' = IF x.n = PendingNonceAt THEN Append(mem, x)
            ELSE [mem EXCEPT ![x.n - Len(ledger) + 1] = x]

(* The legs that hold, or held, the nonce of x. *)
Rivals(x) ==
  {mem[i].leg : i \in {j \in DOMAIN mem : mem[j].n = x.n}}
  \cup {ledger[i].tx.leg : i \in {j \in DOMAIN ledger : ledger[j].tx.n = x.n}}

Mine ==
  /\ mem # <<>>
  /\ \E ok \in BOOLEAN : ledger' = Append(ledger, [tx |-> Head(mem), ok |-> ok])
  /\ mem' = Tail(mem)
  /\ UNCHANGED <<xrow, deposits, workerVars, buried, feeRecorded, historyVars>>

Bury ==
  /\ buried < Len(ledger) /\ buried' = buried + 1
  /\ UNCHANGED <<xrow, deposits, workerVars, mem, ledger, feeRecorded, historyVars>>
-----------------------------------------------------------------------------
(* Seeded fault: the claim takes a failed row as well, as a retry would. *)
RetryableRow(t) == xrow[t].status \in {"pending", "failed"}

(* ClaimForSubmission: WHERE id = $1 AND status = 'pending' *)
ClaimableRow(t) == xrow[t].status = "pending"

(* UpdateStatus: WHERE status != 'confirmed'; tx_hash is UNIQUE over all rows, *)
(* so the statement fails if another row has the hash.                        *)
HashFree(t, x) == x = NoTx \/ (x \notin deposits /\ \A u \in XTransfer \ {t} : xrow[u].hash # x)
UpdateStatus(t, status, x) ==
  IF xrow[t].status # "confirmed" /\ HashFree(t, x)
  THEN xrow' = [xrow EXCEPT ![t] = [status |-> status, hash |-> x]]
  ELSE UNCHANGED xrow

Goto(w, pc) == wpc' = [wpc EXCEPT ![w] = pc]

(* SubmitTransfer: any delivery of transfer:process finds the row. *)
XClaim(w, t) ==
  /\ wpc[w] = "idle" /\ ClaimableRow(t)
  /\ xrow' = [xrow EXCEPT ![t].status = "submitted"]
  /\ wtx' = [wtx EXCEPT ![w] = t] /\ whash' = [whash EXCEPT ![w] = NoTx]
  /\ Goto(w, "nonce")
  /\ UNCHANGED <<deposits, wnonce, walletLock, chainVars, feeRecorded, historyVars>>

(* Seeded fault: the mutex is not taken. *)
NoLockNeeded(w) == w \in XWorker

LockFree(w) == walletLock = NoTx

(* walletLock.Lock() and the nonce of the main leg. *)
XNonce(w) ==
  /\ wpc[w] = "nonce" /\ LockFree(w)
  /\ walletLock' = w /\ wnonce' = [wnonce EXCEPT ![w] = PendingNonceAt]
  /\ Goto(w, "send")
  /\ UNCHANGED <<xrow, deposits, wtx, whash, chainVars, feeRecorded, historyVars>>

(* The three ways of the send, then walletLock.Unlock().  Every error, also   *)
(* one of a call before the send, leads to failed.                            *)
XSend(w) ==
  LET x == [t |-> wtx[w], leg |-> "main", n |-> wnonce[w]] IN
  /\ wpc[w] = "send"
  /\ \/ /\ Accepted(x) /\ UNCHANGED ambiguous
        /\ whash' = [whash EXCEPT ![w] = x] /\ Goto(w, "wait")
     \/ /\ Accepted(x) /\ ambiguous' = ambiguous \cup {wtx[w]}
        /\ Goto(w, "fail") /\ UNCHANGED whash
     \/ Goto(w, "fail") /\ UNCHANGED <<mem, ambiguous, whash>>
  /\ walletLock' = NoTx /\ clashes' = clashes \cup {{"main", l} : l \in Rivals(x)}
  /\ UNCHANGED <<xrow, deposits, wtx, wnonce, ledger, buried, feeRecorded, cut>>

(* An asset other than the native one, or an error of chain.Transfer. *)
XFail(w) ==
  /\ wpc[w] \in {"nonce", "fail"}
  /\ UpdateStatus(wtx[w], "failed", NoTx) /\ Goto(w, "idle")
  /\ UNCHANGED <<deposits, wtx, wnonce, whash, walletLock, chainVars, feeRecorded, historyVars>>

WaitConfirmations(w) ==
  /\ wpc[w] = "wait"
  /\ \/ Confirmed(whash[w]) /\ Goto(w, "confirm")
     \/ Goto(w, "submitted")
  /\ UNCHANGED <<xrow, deposits, wtx, wnonce, whash, walletLock, chainVars, feeRecorded, historyVars>>

(* Seeded faults: a timeout is a failure, is forgotten, has a status of its own. *)
XFailedOnTimeout(w) ==
  /\ wpc[w] = "submitted"
  /\ UpdateStatus(wtx[w], "failed", NoTx) /\ Goto(w, "idle")
  /\ UNCHANGED <<deposits, wtx, wnonce, whash, walletLock, chainVars, feeRecorded, historyVars>>
XForgetOnTimeout(w) ==
  /\ wpc[w] = "submitted" /\ Goto(w, "idle")
  /\ UNCHANGED <<xrow, deposits, wtx, wnonce, whash, walletLock, chainVars, feeRecorded, historyVars>>
XTimeoutStatus(w) ==
  /\ wpc[w] = "submitted"
  /\ UpdateStatus(wtx[w], "timeout", whash[w]) /\ Goto(w, "idle")
  /\ UNCHANGED <<deposits, wtx, wnonce, whash, walletLock, chainVars, feeRecorded, historyVars>>

(* The timeout keeps the hash; nobody looks at the row again. *)
XSubmitted(w) ==
  /\ wpc[w] = "submitted"
  /\ UpdateStatus(wtx[w], "submitted", whash[w]) /\ Goto(w, "idle")
  /\ UNCHANGED <<deposits, wtx, wnonce, whash, walletLock, chainVars, feeRecorded, historyVars>>

(* A failed update is logged; the fee is collected all the same. *)
XConfirm(w) ==
  /\ wpc[w] = "confirm"
  /\ UpdateStatus(wtx[w], "confirmed", whash[w])
  /\ Goto(w, IF wtx[w] \in WithFee THEN "feeNonce" ELSE "idle")
  /\ UNCHANGED <<deposits, wtx, wnonce, whash, walletLock, chainVars, feeRecorded, historyVars>>

(* collectFee sends without the mutex. *)
FeeNonce(w) ==
  /\ wpc[w] = "feeNonce"
  /\ wnonce' = [wnonce EXCEPT ![w] = PendingNonceAt] /\ Goto(w, "feeSend")
  /\ UNCHANGED <<xrow, deposits, wtx, whash, walletLock, chainVars, feeRecorded, historyVars>>

FeeSend(w) ==
  LET x == [t |-> wtx[w], leg |-> "fee", n |-> wnonce[w]] IN
  /\ wpc[w] = "feeSend"
  /\ \/ Accepted(x) /\ \E pc \in {"feeRecord", "idle"} : Goto(w, pc)
     \/ Goto(w, "idle") /\ UNCHANGED mem
  /\ clashes' = clashes \cup {{"fee", l} : l \in Rivals(x)}
  /\ UNCHANGED <<xrow, deposits, wtx, wnonce, whash, walletLock, ledger, buried, feeRecorded, ambiguous, cut>>

RecordCollection(w) ==
  /\ wpc[w] = "feeRecord"
  /\ feeRecorded' = feeRecorded \cup {wtx[w]} /\ Goto(w, "idle")
  /\ UNCHANGED <<xrow, deposits, wtx, wnonce, whash, walletLock, chainVars, historyVars>>

(* The worker process dies, or a wallet cannot be loaded after the claim:     *)
(* the row keeps the status submitted and no task will claim it again.        *)
XCut(w) ==
  /\ wpc[w] # "idle" /\ Goto(w, "idle")
  /\ walletLock' = IF walletLock = w THEN NoTx ELSE walletLock
  /\ cut' = cut \cup {wtx[w]}
  /\ UNCHANGED <<xrow, deposits, wtx, wnonce, whash, chainVars, feeRecorded, ambiguous, clashes>>

(* VerifyDeposit with the hash of any payment to a wallet of ours.  The check *)
(* for a duplicate looks a row up by id = hash and never finds one; what      *)
(* refuses a second row is the UNIQUE column.                                 *)
VerifyDeposit(x) ==
  /\ Succeeded(x) /\ x.leg = "main"
  /\ x \notin deposits /\ \A t \in XTransfer : xrow[t].hash # x
  /\ deposits' = deposits \cup {x}
  /\ UNCHANGED <<xrow, workerVars, chainVars, feeRecorded, historyVars>>
-----------------------------------------------------------------------------
XWork(w) ==
  \/ XNonce(w) \/ XSend(w) \/ XFail(w) \/ WaitConfirmations(w) \/ XSubmitted(w)
  \/ XConfirm(w) \/ FeeNonce(w) \/ FeeSend(w) \/ RecordCollection(w)

XDCNext ==
  \/ \E w \in XWorker : (\E t \in XTransfer : XClaim(w, t)) \/ XWork(w) \/ XCut(w)
  \/ \E i \in DOMAIN ledger : VerifyDeposit(ledger[i].tx)
  \/ Mine \/ Bury

XDCSpec == XDCInit /\ [][XDCNext]_xdcVars
-----------------------------------------------------------------------------
XDCTypeOK ==
  /\ xrow \in [XTransfer -> [status : {"pending", "submitted", "confirmed", "failed"},
                             hash : ChainTx \cup {NoTx}]]
  /\ deposits \subseteq ChainTx /\ feeRecorded \subseteq XTransfer
  /\ wpc \in [XWorker -> Position] /\ wtx \in [XWorker -> XTransfer \cup {NoTx}]
  /\ wnonce \in [XWorker -> Nat] /\ whash \in [XWorker -> ChainTx \cup {NoTx}]
  /\ walletLock \in XWorker \cup {NoTx}
  /\ mem \in Seq(ChainTx) /\ ledger \in Seq([tx : ChainTx, ok : BOOLEAN]) /\ buried \in Nat
  /\ ambiguous \subseteq XTransfer /\ cut \subseteq XTransfer
  /\ clashes \subseteq SUBSET {"main", "fee"}

(* "exactly one worker may settle a given transfer id" (xdc_engine.go:89):    *)
(* whatever is retried, at most one main leg of a transfer is ever paid.      *)
XDCPaidOnce ==
  \A t \in XTransfer :
    Cardinality({i \in DOMAIN ledger : ledger[i].tx.t = t /\ ledger[i].tx.leg = "main"}) <= 1

(* A confirmed row carries the hash of its own payment, deep in the chain.    *)
XDCConfirmedIsPaid ==
  \A t \in XTransfer : xrow[t].status = "confirmed" =>
    \E i \in 1..buried :
      ledger[i].ok /\ ledger[i].tx = xrow[t].hash /\ ledger[i].tx.t = t /\ ledger[i].tx.leg = "main"

(* A transfer reported failed was not paid, but for the ambiguous outcomes    *)
(* that xdc_engine.go:39 names.                                               *)
XDCFailedIsUnpaid ==
  \A t \in XTransfer : xrow[t].status = "failed" /\ t \notin ambiguous =>
    ~\E i \in DOMAIN ledger : ledger[i].tx.t = t

(* The fee of a transfer is never taken unless the transfer itself went       *)
(* through, nor recorded unless it was.                                       *)
FeeFollowsPayment ==
  \A t \in XTransfer :
    (t \in feeRecorded \/ \E x \in {ledger[i].tx : i \in DOMAIN ledger} \cup {mem[i] : i \in DOMAIN mem} :
                            x.t = t /\ x.leg = "fee")
    => \E i \in 1..buried : ledger[i].ok /\ ledger[i].tx.t = t /\ ledger[i].tx.leg = "main"

(* "Serialize broadcast per source wallet so nonce assignment can't race"     *)
(* (xdc_engine.go:130): two main legs never meet at one nonce.                *)
MainLegsNeverClash == {"main"} \notin clashes

(* A row that is confirmed or failed stays as it is, whatever task is         *)
(* delivered again and whatever worker is late (UpdateStatus).                *)
XDCOutcomeStays ==
  [][\A t \in XTransfer : xrow[t].status \in {"confirmed", "failed"} => xrow'[t] = xrow[t]]_xdcVars

(* Every transfer leaves pending, and once claimed it ends confirmed, failed  *)
(* or with its hash on record, unless its worker was cut off or its hash was  *)
(* taken by a deposit record.                                                 *)
XDCSettles ==
  \A t \in XTransfer :
    <>(xrow[t].status \in {"confirmed", "failed"} \/ xrow[t].hash # NoTx
       \/ t \in cut \/ \E x \in deposits : x.t = t)

(* A transfer on XDC is paid at most once, confirmed only when paid, failed *)
(* only when unpaid or its outcome ambiguous, its fee follows its payment,  *)
(* and the main legs of one wallet do not fight for a nonce (SubmitTransfer *)
(* of the XDC engine).                                                      *)
XDCSafe ==
  /\ XDCTypeOK
  /\ XDCPaidOnce
  /\ XDCConfirmedIsPaid
  /\ XDCFailedIsUnpaid
  /\ FeeFollowsPayment
  /\ MainLegsNeverClash
=============================================================================
