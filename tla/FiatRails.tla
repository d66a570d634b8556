----------------------------- MODULE FiatRails -----------------------------
(***************************************************************************)
(* Fiat deposits and withdrawals: internal/fiat (handler, service, the     *)
(* three rails) and internal/postgres/fiat.go.  An order is one row of     *)
(* fiat_deposits or fiat_withdrawals together with what the payment        *)
(* provider knows of it.  The request that opens it and any number of      *)
(* webhook deliveries work on the row concurrently; webhooks are repeated, *)
(* delayed and lost, and a handler may die between two of its calls.       *)
(* Amounts are in tenths of a cent.  InitiateTransfer is seen from here as *)
(* a call that creates a transfer or fails.                                *)
(***************************************************************************)
EXTENDS Naturals, FiniteSets

CONSTANTS
  Order, Hook,                  \* orders, webhook deliveries at work
  NoOrder,                      \* the row does not exist
  FiatAmount                    \* amounts that requests ask for

ASSUME FiatAmounts == FiatAmount \subseteq Nat \ {0}

VARIABLES
  frow, fapi,                   \* the rows; where the request that opened each stands
  charge, posted,               \* provider: state of the payment, webhooks sent
  hpc, hjob,                    \* a webhook handler: position; order and event status
  debits, credits, refunds,     \* history: transfers initiated for the order
  lapsed                        \* history: the refund of a debit was given up

fiatVars == <<frow, fapi, charge, posted, hpc, hjob, debits, credits, refunds, lapsed>>
ledgerVars == <<debits, credits, refunds, lapsed>>
handling == <<hpc, hjob>>

Rail == {"flutterwave", "stripe", "yellowcard"}
FiatStatus == {"pending", "processing", "completed", "failed"}
FiatRow == [kind : {"deposit", "withdrawal"}, rail : Rail, amount : FiatAmount, status : FiatStatus]
ASSUME NoOrderIsNoRow == NoOrder \notin FiatRow

NoJob == [order |-> NoOrder, status |-> ""]

FiatInit ==
  /\ frow = [o \in Order |-> NoOrder] /\ fapi = [o \in Order |-> "none"]
  /\ charge = [o \in Order |-> "none"] /\ posted = [o \in Order |-> {}]
  /\ hpc = [h \in Hook |-> "idle"] /\ hjob = [h \in Hook |-> NoJob]
  /\ debits = [o \in Order |-> 0] /\ credits = [o \in Order |-> 0] /\ refunds = [o \in Order |-> 0]
  /\ lapsed = [o \in Order |-> FALSE]
-----------------------------------------------------------------------------
(* What each rail makes of the amount and of the provider's notices. *)

(* What the provider is asked to collect or to pay out: the exact amount,   *)
(* the amount cut to cents, the amount rounded to cents.                    *)
FlutterwaveInitiateDeposit(a) == a
FlutterwaveInitiateWithdrawal(a) == a
StripeDeposit(a) == 10 * (a \div 10)
StripeWithdraw(a) == 10 * (a \div 10)
YellowCardInitiateDeposit(a) == 10 * ((a + 5) \div 10)
YellowCardInitiateWithdrawal(a) == 10 * ((a + 5) \div 10)

Asked(row) ==
  LET deposit == row.kind = "deposit" IN
  CASE row.rail = "flutterwave" ->
         IF deposit THEN FlutterwaveInitiateDeposit(row.amount) ELSE FlutterwaveInitiateWithdrawal(row.amount)
    [] row.rail = "stripe" ->
         IF deposit THEN StripeDeposit(row.amount) ELSE StripeWithdraw(row.amount)
    [] row.rail = "yellowcard" ->
         IF deposit THEN YellowCardInitiateDeposit(row.amount) ELSE YellowCardInitiateWithdrawal(row.amount)

(* Stripe refuses less than one cent before it calls anybody. *)
Refused(row) == row.rail = "stripe" /\ Asked(row) = 0

(* With a test key Flutterwave's withdrawal succeeds without a provider. *)
AnsweredByItself(row) == row.rail = "flutterwave" /\ row.kind = "withdrawal"

(* A provider's notice: the name of the event and the status it carries.    *)
(* NoEvent is an error of the rail's HandleWebhook.                         *)
NoEvent == [type |-> "", status |-> ""]

(* Seeded fault: the provider's word is taken over as it is. *)
FlutterwaveWord(s) == IF s = "pending" THEN "" ELSE s

(* Seeded fault: only FlowX's own word for success is known. *)
FlutterwaveStatusOwn(s) ==
  CASE s = "completed" -> "completed" [] s \in {"failed", "cancelled"} -> "failed" [] OTHER -> ""

FlutterwaveStatus(s) ==
  CASE s = "successful" -> "completed" [] s \in {"failed", "cancelled"} -> "failed" [] OTHER -> ""

(* The type of a failed charge or transfer is still "confirmed" or "sent":  *)
(* only the status tells.                                                   *)
FlutterwaveEvent(n) ==
  IF FlutterwaveStatus(n.status) = "" THEN NoEvent
  ELSE [type |-> CASE n.event = "charge.completed" -> "deposit.confirmed"
                   [] n.event = "transfer.completed" -> "withdrawal.sent"
                   [] OTHER -> n.event,
        status |-> FlutterwaveStatus(n.status)]

StripeEvent(n) ==
  CASE n.event = "checkout.session.completed" /\ n.status = "paid" ->
         [type |-> "deposit.confirmed", status |-> "completed"]
    [] n.event = "checkout.session.expired" -> [type |-> "deposit.failed", status |-> "failed"]
    [] n.event = "transfer.paid" -> [type |-> "withdrawal.sent", status |-> "completed"]
    [] n.event = "transfer.failed" -> [type |-> "withdrawal.failed", status |-> "failed"]
    [] OTHER -> NoEvent

(* Every status that is not a success is a failure, "pending" too; an event *)
(* with a name of its own is kept out by the service, not by the rail.      *)
YellowCardEvent(n) ==
  [type |-> CASE n.event = "payment.completed" -> "deposit.confirmed"
              [] n.event = "payment.failed" -> "deposit.failed"
              [] n.event = "payout.completed" -> "withdrawal.sent"
              [] n.event = "payout.failed" -> "withdrawal.failed"
              [] OTHER -> n.event,
   status |-> IF n.status \in {"completed", "sent", "successful"} THEN "completed" ELSE "failed"]

RailEvent(rail, n) ==
  CASE rail = "flutterwave" -> FlutterwaveEvent(n)
    [] rail = "stripe" -> StripeEvent(n)
    [] rail = "yellowcard" -> YellowCardEvent(n)

(* The notices of each provider: progress, success and failure of an order. *)
Notice(rail, kind, outcome) ==
  LET n(event, status) == [event |-> event, status |-> status] IN
  CASE rail = "flutterwave" ->
         n(IF kind = "deposit" THEN "charge.completed" ELSE "transfer.completed",
           CASE outcome = "paid" -> "successful" [] outcome = "failed" -> "failed" [] OTHER -> "pending")
    [] rail = "stripe" /\ kind = "deposit" ->
         IF outcome = "failed" THEN n("checkout.session.expired", "unpaid")
         ELSE n("checkout.session.completed", IF outcome = "paid" THEN "paid" ELSE "unpaid")
    [] rail = "stripe" /\ kind = "withdrawal" ->
         CASE outcome = "paid" -> n("transfer.paid", "") [] outcome = "failed" -> n("transfer.failed", "")
           [] OTHER -> n("transfer.created", "")
    [] rail = "yellowcard" ->
         CASE outcome = "paid" -> n(IF kind = "deposit" THEN "payment.completed" ELSE "payout.completed", "completed")
           [] outcome = "failed" -> n(IF kind = "deposit" THEN "payment.failed" ELSE "payout.failed", "failed")
           [] OTHER -> n(IF kind = "deposit" THEN "payment.pending" ELSE "payout.pending", "pending")
-----------------------------------------------------------------------------
(* The statements of FiatRepo. *)
SetStatus(o, s) == frow' = [frow EXCEPT ![o].status = s]

(* WHERE id = $2 AND status NOT IN ('completed', 'failed') *)
UpdateDepositStatus(o, s) ==
  IF frow[o].status \in {"completed", "failed"} THEN UNCHANGED frow ELSE SetStatus(o, s)

(* Seeded fault: the claim has the guard of UpdateDepositStatus. *)
DepositNotFinal(o) == frow[o].status \notin {"completed", "failed"}

(* WHERE id = $2 AND status = $3 *)
DepositUnclaimed(o) == frow[o].status = "pending"

(* Seeded fault: ... AND status <> 'completed' *)
WithdrawalNotCompleted(o) == frow[o].status # "completed"

(* WHERE id = $2 AND status = 'pending' *)
WithdrawalOpen(o) == frow[o].status = "pending"

-----------------------------------------------------------------------------
(* The request that opens an order. *)

(* What the handlers let through: an amount above zero, nothing else matters. *)
DepositReq == [rail : Rail, amount : FiatAmount]
WithdrawReq == [rail : Rail, amount : FiatAmount]

CreateDeposit(o, req) ==
  frow' = [frow EXCEPT ![o] =
    [kind |-> "deposit", rail |-> req.rail, amount |-> req.amount, status |-> "pending"]]

CreateWithdrawal(o, req) ==
  frow' = [frow EXCEPT ![o] =
    [kind |-> "withdrawal", rail |-> req.rail, amount |-> req.amount, status |-> "pending"]]

InitiateDeposit(o, req) ==
  /\ frow[o] = NoOrder /\ CreateDeposit(o, req)
  /\ fapi' = [fapi EXCEPT ![o] = "rail"]
  /\ UNCHANGED <<charge, posted, handling, ledgerVars>>

InitiateWithdrawal(o, req) ==
  /\ frow[o] = NoOrder /\ CreateWithdrawal(o, req)
  /\ fapi' = [fapi EXCEPT ![o] = "debit"]
  /\ UNCHANGED <<charge, posted, handling, ledgerVars>>

(* InitiateTransfer: the transfer is created or not, and an error is         *)
(* possible either way (the hold of a created transfer cannot be recorded).  *)
InitiateTransfer(count, o, ok) ==
  \/ count' = [count EXCEPT ![o] = @ + 1]
  \/ ~ok /\ UNCHANGED count

(* From the user's wallet to the platform's. *)
DebitWallet(o) ==
  /\ fapi[o] = "debit"
  /\ \E ok \in BOOLEAN :
       /\ InitiateTransfer(debits, o, ok)
       /\ fapi' = [fapi EXCEPT ![o] = IF ok THEN "rail" ELSE "giveup"]
       /\ lapsed' = [lapsed EXCEPT ![o] = ~ok /\ debits'[o] > 0]
  /\ UNCHANGED <<frow, charge, posted, handling, credits, refunds>>

(* rail.Deposit and rail.Withdraw: the provider opens the payment or not,   *)
(* and the caller may see an error either way.                              *)
CallRail(o) ==
  /\ fapi[o] = "rail"
  /\ \/ ~Refused(frow[o]) /\ charge' = [charge EXCEPT ![o] = "open"]
     \/ UNCHANGED charge
  /\ \/ /\ charge'[o] = "open" \/ AnsweredByItself(frow[o])
        /\ fapi' = [fapi EXCEPT ![o] = "done"] /\ UNCHANGED lapsed
     \/ /\ fapi' = [fapi EXCEPT ![o] = "giveup"]
        /\ lapsed' = [lapsed EXCEPT ![o] = @ \/ frow[o].kind = "withdrawal"]
  /\ UNCHANGED <<frow, posted, handling, debits, credits, refunds>>

(* The status write of the error paths. *)
GiveUp(o) ==
  /\ fapi[o] = "giveup"
  /\ IF frow[o].kind = "deposit" THEN UpdateDepositStatus(o, "failed")
     ELSE IF WithdrawalOpen(o) THEN SetStatus(o, "failed") ELSE UNCHANGED frow
  /\ fapi' = [fapi EXCEPT ![o] = "done"]
  /\ UNCHANGED <<charge, posted, handling, ledgerVars>>

(* The API process dies with the request. *)
DropOrder(o) ==
  /\ fapi[o] \notin {"none", "done"}
  /\ fapi' = [fapi EXCEPT ![o] = "done"]
  /\ lapsed' = [lapsed EXCEPT ![o] = @ \/ debits[o] > 0]
  /\ UNCHANGED <<frow, charge, posted, handling, debits, credits, refunds>>
-----------------------------------------------------------------------------
(* The provider: a payment is made or fails, and notices are sent. *)
ProviderNotes(o, outcome) ==
  /\ charge[o] = "open"
  /\ charge' = [charge EXCEPT ![o] = outcome]
  /\ posted' = [posted EXCEPT ![o] = @ \cup {Notice(frow[o].rail, frow[o].kind, outcome)}]
  /\ UNCHANGED <<frow, fapi, handling, ledgerVars>>
-----------------------------------------------------------------------------
(* HandleWebhook. *)

DepositEvents == {"deposit.confirmed", "deposit.failed"}
WithdrawalEvents == {"withdrawal.sent", "withdrawal.failed"}

(* Seeded fault: the comparison of amount and currency is left out. *)
AmountUnchecked(o) == o \in Order

AmountMatches(o) == Asked(frow[o]) = frow[o].amount

(* A row is found by the reference alone, and only in the table of its kind. *)
GetDepositByReference(o) == {r \in {frow[o]} : r.kind = "deposit"}
GetWithdrawalByReference(o) == {r \in {frow[o]} : r.kind = "withdrawal"}

(* The public route hands any delivery to the service, which checks it.      *)
HandleWebhookRequest(h, o, n) == hpc[h] = "idle" /\ n \in posted[o]

(* HandleWebhook up to the status check, which is done on a copy of the row. *)
(* Every other delivery is answered and changes nothing.                     *)
ReceiveWebhook(h, o, n) ==
  LET e == RailEvent(frow[o].rail, n) IN
  /\ HandleWebhookRequest(h, o, n)
  /\ \/ /\ e.type \in DepositEvents
        /\ \E r \in GetDepositByReference(o) : r.status = "pending" /\ AmountMatches(o)
        /\ hpc' = [hpc EXCEPT ![h] = "claim"]
     \/ /\ e.type \in WithdrawalEvents
        /\ \E r \in GetWithdrawalByReference(o) : r.status = "pending"
        /\ hpc' = [hpc EXCEPT ![h] = "settle"]
  /\ hjob' = [hjob EXCEPT ![h] = [order |-> o, status |-> e.status]]
  /\ UNCHANGED <<frow, fapi, charge, posted, debits, credits, refunds, lapsed>>

EndHook(h) == hpc' = [hpc EXCEPT ![h] = "idle"] /\ hjob' = [hjob EXCEPT ![h] = NoJob]

ClaimDepositForProcessing(h) ==
  LET o == hjob[h].order IN
  /\ hpc[h] = "claim"
  /\ IF DepositUnclaimed(o)
     THEN /\ SetStatus(o, "processing") /\ UNCHANGED hjob
          /\ hpc' = [hpc EXCEPT ![h] = IF hjob[h].status = "completed" THEN "credit" ELSE "reject"]
     ELSE EndHook(h) /\ UNCHANGED frow
  /\ UNCHANGED <<fapi, charge, posted, ledgerVars>>

(* From the platform's wallet to the user's. *)
CreditWallet(h) ==
  LET o == hjob[h].order IN
  /\ hpc[h] = "credit"
  /\ \E ok \in BOOLEAN :
       /\ InitiateTransfer(credits, o, ok)
       /\ hpc' = [hpc EXCEPT ![h] = IF ok THEN "complete" ELSE "reject"]
  /\ UNCHANGED <<frow, fapi, charge, posted, hjob, debits, refunds, lapsed>>

FinishDeposit(h) ==
  /\ hpc[h] \in {"complete", "reject"}
  /\ UpdateDepositStatus(hjob[h].order, IF hpc[h] = "complete" THEN "completed" ELSE "failed")
  /\ EndHook(h)
  /\ UNCHANGED <<fapi, charge, posted, ledgerVars>>

(* The guarded update decides who refunds. *)
UpdateWithdrawalStatus(h) ==
  LET o == hjob[h].order IN
  /\ hpc[h] = "settle"
  /\ IF ~WithdrawalOpen(o) THEN EndHook(h) /\ UNCHANGED frow
     ELSE /\ SetStatus(o, hjob[h].status)
          /\ IF hjob[h].status = "failed" THEN hpc' = [hpc EXCEPT ![h] = "refund"] /\ UNCHANGED hjob
             ELSE EndHook(h)
  /\ UNCHANGED <<fapi, charge, posted, ledgerVars>>

RefundWallet(h) ==
  LET o == hjob[h].order IN
  /\ hpc[h] = "refund"
  /\ \E ok \in BOOLEAN :
       /\ InitiateTransfer(refunds, o, ok)
       /\ lapsed' = [lapsed EXCEPT ![o] = @ \/ ~ok]
  /\ EndHook(h)
  /\ UNCHANGED <<frow, fapi, charge, posted, debits, credits>>

(* The API process dies with the delivery. *)
DropWebhook(h) ==
  /\ hpc[h] # "idle" /\ EndHook(h)
  /\ lapsed' = [lapsed EXCEPT ![hjob[h].order] = @ \/ hpc[h] = "refund"]
  /\ UNCHANGED <<frow, fapi, charge, posted, debits, credits, refunds>>
-----------------------------------------------------------------------------
HookStep(h) ==
  \/ ClaimDepositForProcessing(h) \/ CreditWallet(h) \/ FinishDeposit(h)
  \/ UpdateWithdrawalStatus(h) \/ RefundWallet(h)

FiatNext ==
  \/ \E o \in Order, req \in DepositReq : InitiateDeposit(o, req)
  \/ \E o \in Order, req \in WithdrawReq : InitiateWithdrawal(o, req)
  \/ \E o \in Order :
       \/ DebitWallet(o) \/ CallRail(o) \/ GiveUp(o) \/ DropOrder(o)
       \/ \E outcome \in {"open", "paid", "failed"} : ProviderNotes(o, outcome)
       \/ \E h \in Hook, n \in posted[o] : ReceiveWebhook(h, o, n)
  \/ \E h \in Hook : HookStep(h) \/ DropWebhook(h)

FiatSpec == FiatInit /\ [][FiatNext]_fiatVars
-----------------------------------------------------------------------------
FiatTypeOK ==
  /\ frow \in [Order -> FiatRow \cup {NoOrder}]
  /\ fapi \in [Order -> {"none", "debit", "rail", "giveup", "done"}]
  /\ charge \in [Order -> {"none", "open", "paid", "failed"}]
  /\ \A o \in Order : IsFiniteSet(posted[o])
  /\ hpc \in [Hook -> {"idle", "claim", "credit", "complete", "reject", "settle", "refund"}]
  /\ hjob \in [Hook -> [order : Order, status : {"completed", "failed"}] \cup {NoJob}]
  /\ debits \in [Order -> Nat] /\ credits \in [Order -> Nat] /\ refunds \in [Order -> Nat]
  /\ lapsed \in [Order -> BOOLEAN]

(* service.go:171, "so the same deposit can never be credited twice": however *)
(* often the webhook is delivered, and whatever the request does meanwhile.   *)
CreditedOnce == \A o \in Order : credits[o] <= 1

(* A wallet is credited only for a payment the provider confirmed, and only   *)
(* if what the provider was told to collect is what the row promises.         *)
CreditIsCovered ==
  \A o \in Order : credits[o] > 0 =>
    charge[o] = "paid" /\ Asked(frow[o]) = frow[o].amount

(* A withdrawal is never both paid out and refunded, and is refunded at most  *)
(* as often as it was debited.                                                *)
NeverPaidTwice ==
  \A o \in Order : refunds[o] <= debits[o] /\ (refunds[o] > 0 => charge[o] = "failed")

(* A withdrawal that ended failed has its refund initiated, is about to, or   *)
(* lost it in one of three ways: the rail's answer was an error, the refund   *)
(* could not be initiated, or a process died.                                 *)
FailedIsRefunded ==
  \A o \in Order :
    frow[o] # NoOrder /\ frow[o].kind = "withdrawal" /\ frow[o].status = "failed" =>
      \/ debits[o] = refunds[o] \/ lapsed[o]
      \/ \E h \in Hook : hpc[h] = "refund" /\ hjob[h].order = o

(* A deposit the provider confirmed is taken up in the end, provided the rail *)
(* could express its amount; else the row stays pending for ever.             *)
ConfirmedIsTaken ==
  \A o \in Order :
    (charge[o] = "paid" /\ frow[o].kind = "deposit" /\ AmountMatches(o)) ~> (frow[o] # NoOrder /\ frow[o].status # "pending")

(* The credit of a deposit is due once the provider was paid what the row     *)
(* promises, the return of a withdrawal once its payout failed after the      *)
(* debit; each is given once (HandleWebhook).                                 *)
CreditsDue ==
  {o \in Order : frow[o] # NoOrder /\ frow[o].kind = "deposit" /\ charge[o] = "paid" /\ AmountMatches(o)}
RefundsDue ==
  {o \in Order : frow[o] # NoOrder /\ frow[o].kind = "withdrawal" /\ charge[o] = "failed" /\ debits[o] = 1}

CreditPromise == INSTANCE OnceOnly WITH Claim <- Order, due <- CreditsDue, given <- credits
RefundPromise == INSTANCE OnceOnly WITH Claim <- Order, due <- RefundsDue, given <- refunds
CreditsKeepPromise == CreditPromise!OnceSpec
RefundsKeepPromise == RefundPromise!OnceSpec

(* An order that is completed or failed stays as it is, whichever request or  *)
(* delivery still works on it.                                                *)
ClosedStaysClosed ==
  [][\A o \in Order : frow[o] # NoOrder /\ frow[o].status \in {"completed", "failed"} => frow'[o] = frow[o]]_fiatVars

(* Whatever the providers send, repeat or reorder: a deposit is credited once *)
(* and only for what was paid, a withdrawal is not both paid out and given    *)
(* back, and one that failed is given back but for three named losses         *)
(* (HandleWebhook, InitiateWithdrawal).                                       *)
FiatSafe ==
  /\ FiatTypeOK
  /\ CreditedOnce
  /\ CreditIsCovered
  /\ NeverPaidTwice
  /\ FailedIsRefunded
=============================================================================
