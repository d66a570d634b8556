------------------------------ MODULE Horizon ------------------------------
(***************************************************************************)
(* The Stellar network behind Horizon, as far as FlowX can observe it.     *)
(* An account's sequence number makes an envelope valid at most once: it   *)
(* is included in a ledger only while it is the account's next one.        *)
(* Included envelopes either succeed or fail; both consume the sequence    *)
(* number and both are found by TransactionDetail afterwards.  An accepted *)
(* envelope that is not included before its 30 s time bound is dropped.    *)
(***************************************************************************)
EXTENDS Naturals

CONSTANTS
    Account,        \* Stellar accounts of the custodial wallets
    Source          \* Source[t]: the account that pays transfer t

VARIABLES
    acctSeq,        \* acctSeq[a]: last sequence number a has consumed
    inflight,       \* envelopes accepted and not yet in a ledger
    applied,        \* envelopes included in a ledger and successful
    chainFailed     \* envelopes included in a ledger and failed

chainVars == <<acctSeq, inflight, applied, chainFailed>>

ChainInit ==
    /\ acctSeq = [a \in Account |-> 0]
    /\ inflight = {}
    /\ applied = {}
    /\ chainFailed = {}

IsNext(e) == e.seq = acctSeq[Source[e.tx]] + 1

(* A submission of e may enter the network; whatever else it meets (an      *)
(* envelope already known, a used sequence number) it leaves no trace.      *)
Accept(e) ==
    /\ \/ inflight' = inflight
       \/ /\ e \notin applied \cup chainFailed
          /\ IsNext(e)
          /\ inflight' = inflight \cup {e}
    /\ UNCHANGED <<acctSeq, applied, chainFailed>>

Consume(e) ==
    /\ e \in inflight
    /\ IsNext(e)
    /\ acctSeq' = [acctSeq EXCEPT ![Source[e.tx]] = e.seq]
    /\ inflight' = inflight \ {e}

LedgerApply(e) == Consume(e) /\ applied' = applied \cup {e} /\ UNCHANGED chainFailed

LedgerFail(e) == Consume(e) /\ chainFailed' = chainFailed \cup {e} /\ UNCHANGED applied

LedgerExpire(e) ==
    /\ e \in inflight
    /\ inflight' = inflight \ {e}
    /\ UNCHANGED <<acctSeq, applied, chainFailed>>
=============================================================================
