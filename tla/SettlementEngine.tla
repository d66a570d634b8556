------------------------- MODULE SettlementEngine -------------------------
(***************************************************************************)
(* internal/settlement/engine.go on the Stellar backend: the workers that  *)
(* run Engine.SubmitTransfer for the tasks of the queue.  SubmitTransfer   *)
(* is cut at every point where another process can act between two of its  *)
(* calls: claim, load the account, record the hash, each submission and    *)
(* its answer, the lookup of an ambiguous outcome, the final write.        *)
(*                                                                         *)
(* Left out: the transaction loaded by GetByID (only immutable columns of  *)
(* it are used), the amounts and assets of the operations, and the refresh *)
(* of the cached wallet balances, which no step of this module reads.      *)
(***************************************************************************)
EXTENDS TransactionRepo, Horizon, TaskQueue

CONSTANTS
    Worker,             \* concurrent handlers of the worker processes
    NoTx,               \* a worker without a task
    Payout,             \* transfers to a raw address (tx.ToAddress # "")
    SubmitAttempts,     \* submissions tried by submitWithRetry
    MaxBuilds,          \* bound: envelopes built per transfer
    HashWriteCanFail,   \* may the write that records the hash fail?
    RejectionsDefinite  \* does every error that isRetryable does not
                        \* recognise mean that the envelope never applies?

ASSUME EngineAssumption ==
    /\ NoTx \notin Tx
    /\ Payout \subseteq Tx
    /\ Source \in [Tx -> Account]
    /\ SubmitAttempts \in Nat \ {0}
    /\ MaxBuilds \in Nat
    /\ HashWriteCanFail \in BOOLEAN
    /\ RejectionsDefinite \in BOOLEAN

VARIABLES
    wpc,        \* wpc[w]: where worker w stands in SubmitTransfer
    wtx,        \* wtx[w]: the transfer it works on
    wseq,       \* wseq[w]: sequence number of the account it loaded
    wenv,       \* wenv[w]: the envelope it built and signed
    wtries,     \* wtries[w]: submissions made so far
    builds,     \* builds[t]: envelopes built for t by any worker
    feeBooked   \* transfers with a row in fee_collections

workerVars == <<wpc, wtx, wseq, wenv, wtries>>
engineVars == <<workerVars, builds, feeBooked>>

WorkerPC == {"idle", "claimed", "loaded", "submitting", "waiting",
             "ambiguous", "confirmed", "rejected"}

EngineInit ==
    /\ wpc = [w \in Worker |-> "idle"]
    /\ wtx = [w \in Worker |-> NoTx]
    /\ wseq = [w \in Worker |-> 0]
    /\ wenv = [w \in Worker |-> NoHash]
    /\ wtries = [w \in Worker |-> 0]
    /\ builds = [t \in Tx |-> 0]
    /\ feeBooked = {}

EngineTypeOK ==
    /\ wpc \in [Worker -> WorkerPC]
    /\ wtx \in [Worker -> Tx \cup {NoTx}]
    /\ wseq \in [Worker -> Nat]
    /\ wenv \in [Worker -> Envelope \cup {NoHash}]
    /\ wtries \in [Worker -> 0 .. SubmitAttempts]
    /\ builds \in [Tx -> Nat]
    /\ feeBooked \subseteq Tx

(* w is inside SubmitTransfer of t. *)
WorksOn(w, t) == wpc[w] # "idle" /\ wtx[w] = t

Goto(w, pc) == wpc' = [wpc EXCEPT ![w] = pc]

(* The handler returns and forgets what it held. *)
Return(w) ==
    /\ wpc' = [wpc EXCEPT ![w] = "idle"]
    /\ wtx' = [wtx EXCEPT ![w] = NoTx]
    /\ wseq' = [wseq EXCEPT ![w] = 0]
    /\ wenv' = [wenv EXCEPT ![w] = NoHash]
    /\ wtries' = [wtries EXCEPT ![w] = 0]

-----------------------------------------------------------------------------
(* The conditional UPDATE that makes w the only owner of t. *)
Claim(w, t) ==
    /\ wpc[w] = "idle"
    /\ Deliver(t)
    /\ ClaimForSubmission(t)
    /\ Goto(w, "claimed")
    /\ wtx' = [wtx EXCEPT ![w] = t]
    /\ UNCHANGED <<wseq, wenv, wtries, builds, feeBooked, chainVars>>

(* ErrConcurrentUpdate: the handler returns nil, the task is done. *)
LoseClaim(t) ==
    /\ t \in queue
    /\ status[t] # "pending"
    /\ queue' = queue \ {t}
    /\ UNCHANGED <<rowVars, engineVars, chainVars>>

(* External payouts are not supported on Stellar. *)
RefusePayout(w) ==
    /\ wpc[w] = "claimed"
    /\ wtx[w] \in Payout
    /\ UpdateStatus(wtx[w], "failed", NoHash)
    /\ Return(w)
    /\ Redeliver(wtx[w])
    /\ UNCHANGED <<builds, feeBooked, chainVars>>

(* LoadAccount: the sequence number the envelope will consume is read here. *)
LoadAccount(w) ==
    /\ wpc[w] = "claimed"
    /\ wtx[w] \notin Payout
    /\ wseq' = [wseq EXCEPT ![w] = acctSeq[Source[wtx[w]]]]
    /\ Goto(w, "loaded")
    /\ UNCHANGED <<rowVars, queue, wtx, wenv, wtries, builds, feeBooked, chainVars>>

(* Build, sign, hash, then UpdateStatus(submitted, hash).  An error of that *)
(* write is only logged: the submission goes on either way.                 *)
RecordHash(w) ==
    LET t == wtx[w]
        e == [tx |-> t, seq |-> wseq[w] + 1, try |-> builds[t] + 1]
    IN  /\ wpc[w] = "loaded"
        /\ builds[t] < MaxBuilds
        /\ builds' = [builds EXCEPT ![t] = @ + 1]
        /\ wenv' = [wenv EXCEPT ![w] = e]
        /\ \/ UpdateStatus(t, "submitted", e)
           \/ HashWriteCanFail /\ UNCHANGED rowVars
        /\ Goto(w, "submitting")
        /\ UNCHANGED <<queue, wtx, wseq, wtries, feeBooked, chainVars>>

(* One attempt of submitWithRetry sends the envelope. *)
Submit(w) ==
    /\ wpc[w] = "submitting"
    /\ wtries' = [wtries EXCEPT ![w] = @ + 1]
    /\ Accept(wenv[w])
    /\ Goto(w, "waiting")
    /\ UNCHANGED <<rowVars, queue, wtx, wseq, wenv, builds, feeBooked>>

(* ... and Horizon reports that it is in a ledger. *)
AnswerSuccess(w) ==
    /\ wpc[w] = "waiting"
    /\ wenv[w] \in applied
    /\ Goto(w, "confirmed")
    /\ UNCHANGED <<rowVars, queue, wtx, wseq, wenv, wtries, builds, feeBooked, chainVars>>

(* ... or an error without "429", "503" or "timeout" in its text.           *)
AnswerError(w) ==
    /\ wpc[w] = "waiting"
    /\ RejectionsDefinite => wenv[w] \notin applied \cup inflight
    /\ Goto(w, "rejected")
    /\ UNCHANGED <<rowVars, queue, wtx, wseq, wenv, wtries, builds, feeBooked, chainVars>>

(* Seeded fault: the retry loop makes one attempt too many. *)
RetryOnceMore(w) ==
    /\ wpc[w] = "waiting"
    /\ \/ wtries[w] <= SubmitAttempts /\ Goto(w, "submitting")
       \/ Goto(w, "ambiguous")
    /\ UNCHANGED <<rowVars, queue, wtx, wseq, wenv, wtries, builds, feeBooked, chainVars>>

(* Seeded fault: exhausted attempts count as a definitive rejection. *)
ExhaustedIsRejected(w) ==
    /\ wpc[w] = "waiting"
    /\ \/ wtries[w] < SubmitAttempts /\ Goto(w, "submitting")
       \/ Goto(w, "rejected")
    /\ UNCHANGED <<rowVars, queue, wtx, wseq, wenv, wtries, builds, feeBooked, chainVars>>

(* ... or a retryable error: try again, or give up as ambiguous when the    *)
(* attempts are used up or the context is cancelled during the back-off.    *)
AnswerRetryable(w) ==
    /\ wpc[w] = "waiting"
    /\ \/ wtries[w] < SubmitAttempts /\ Goto(w, "submitting")
       \/ Goto(w, "ambiguous")
    /\ UNCHANGED <<rowVars, queue, wtx, wseq, wenv, wtries, builds, feeBooked, chainVars>>

(* Seeded fault: a hash that Horizon knows is taken for a success. *)
ResolveUnchecked(w) ==
    /\ wpc[w] = "ambiguous"
    /\ wenv[w] \in applied \cup chainFailed
    /\ Goto(w, "confirmed")
    /\ UNCHANGED <<rowVars, queue, wtx, wseq, wenv, wtries, builds, feeBooked, chainVars>>

(* tryResolveAmbiguous finds the hash on Horizon. *)
ResolveAmbiguous(w) ==
    /\ wpc[w] = "ambiguous"
    /\ \/ wenv[w] \in applied /\ Goto(w, "confirmed")
       \/ wenv[w] \in chainFailed /\ Goto(w, "rejected")
    /\ UNCHANGED <<rowVars, queue, wtx, wseq, wenv, wtries, builds, feeBooked, chainVars>>

(* finalizeConfirmed: either write may fail, both errors are only logged. *)
FinalizeConfirmed(w) ==
    /\ wpc[w] = "confirmed"
    /\ UpdateStatus(wtx[w], "confirmed", wenv[w]) \/ UNCHANGED rowVars
    /\ feeBooked' \in {feeBooked, feeBooked \cup {wtx[w]}}
    /\ Return(w)
    /\ UNCHANGED <<queue, builds, chainVars>>

(* The definitive rejection is written (an error is only logged).  The     *)
(* handler then returns an error and the task is retried, or nil when the  *)
(* rejection was found by tryResolveAmbiguous.                             *)
MarkRejected(w) ==
    /\ wpc[w] = "rejected"
    /\ UpdateStatus(wtx[w], "failed", wenv[w]) \/ UNCHANGED rowVars
    /\ Return(w)
    /\ Redeliver(wtx[w])
    /\ UNCHANGED <<builds, feeBooked, chainVars>>

(* The worker process dies, or SubmitTransfer returns an error: a wallet,   *)
(* account, asset, signature or hash that could not be loaded or made, or   *)
(* an ambiguous outcome that the lookup did not resolve.  The row is left   *)
(* as it is.                                                                *)
Abandon(w) ==
    /\ wpc[w] # "idle"
    /\ Return(w)
    /\ Redeliver(wtx[w])
    /\ UNCHANGED <<rowVars, builds, feeBooked, chainVars>>
=============================================================================
