------------------------------ MODULE MCPayouts ------------------------------
(***************************************************************************)
(* The components that make payments beside the Stellar settlement, for    *)
(* TLC.  They share no state with each other, so a behaviour exercises one *)
(* of them, its focus, and the others rest in an initial state: TLC        *)
(* explores the sum of their state spaces rather than the product.         *)
(***************************************************************************)
EXTENDS Schedule, FiatRails, Anchors, XDCSettlement, BatchPayments, VelocityRules, TLC

VARIABLE focus

TwoFrequencies == [daily |-> 1, weekly |-> 2]
Ends == {1, Never}

PayoutInit ==
  /\ focus \in {"schedule", "fiat", "anchors", "xdc", "batch", "velocity"}
  /\ ScheduleInit /\ FiatInit /\ AnchorInit /\ XDCInit /\ BatchInit /\ VelocityInit
  /\ focus = "batch" \/ kinds = [b \in Batch |-> [i \in Item |-> "good"]]

PayoutNext ==
  /\ UNCHANGED focus
  /\ \/ focus = "schedule" /\ ScheduleNext /\ UNCHANGED <<fiatVars, anchorVars, xdcVars, batchVars, velocityVars>>
     \/ focus = "fiat" /\ FiatNext /\ UNCHANGED <<scheduleVars, anchorVars, xdcVars, batchVars, velocityVars>>
     \/ focus = "anchors" /\ AnchorNext /\ UNCHANGED <<scheduleVars, fiatVars, xdcVars, batchVars, velocityVars>>
     \/ focus = "xdc" /\ XDCNext /\ UNCHANGED <<scheduleVars, fiatVars, anchorVars, batchVars, velocityVars>>
     \/ focus = "batch" /\ BatchNext /\ UNCHANGED <<scheduleVars, fiatVars, anchorVars, xdcVars, velocityVars>>
     \/ focus = "velocity" /\ VelocityNext /\ UNCHANGED <<scheduleVars, fiatVars, anchorVars, xdcVars, batchVars>>

payoutVars == <<focus, scheduleVars, fiatVars, anchorVars, xdcVars, batchVars, velocityVars>>

PayoutSpec == PayoutInit /\ [][PayoutNext]_payoutVars

(* schedule:run comes every minute, and a run that lives goes through its    *)
(* list; the claim of a row that stays due is not refused for ever.          *)
ScheduleFairness ==
  \A r \in Runner :
    /\ WF_scheduleVars(focus = "schedule" /\ (ListDue(r) \/ InitiateDue(r) \/ FinishRun(r)))
    /\ WF_scheduleVars(focus = "schedule" /\ \E j \in sjobs[r] : ClaimDue(r, j) \/ PassOver(r, j))
    /\ SF_scheduleVars(focus = "schedule" /\ \E j \in sjobs[r] : ClaimDue(r, j))

(* Providers repeat a notice until it is accepted, and a handler that is not  *)
(* cut off runs to its end.                                                   *)
FiatFairness ==
  \A h \in Hook :
    /\ WF_fiatVars(focus = "fiat" /\ HookStep(h)) /\ SF_fiatVars(focus = "fiat" /\ ClaimDepositForProcessing(h))
    /\ \A o \in Order : SF_fiatVars(focus = "fiat" /\ \E n \in posted[o] : n = Notice(frow[o].rail, frow[o].kind, "paid") /\ ReceiveWebhook(h, o, n))

(* Blocks are produced, tasks are retried and a claimed transfer is worked on; *)
(* a wait ends with the blocks or with its timeout.                            *)
XDCFairness ==
  /\ \A w \in XWorker : WF_xdcVars(focus = "xdc" /\ XWork(w))
  /\ \A w \in XWorker, t \in XTransfer : WF_xdcVars(focus = "xdc" /\ XClaim(w, t))
  /\ WF_xdcVars(focus = "xdc" /\ Mine) /\ WF_xdcVars(focus = "xdc" /\ Bury)

(* A request that lives goes on, and the row lock of the tenant is granted  *)
(* in turn.                                                                 *)
BatchFairness == \A b \in Batch : SF_batchVars(focus = "batch" /\ BatchStep(b))

FairPayouts == PayoutSpec /\ ScheduleFairness /\ FiatFairness /\ XDCFairness /\ BatchFairness

(* Registrations, polls and screened requests are interchangeable. *)
PayoutSymmetry ==
  Permutations(Registrar) \cup Permutations(Poller) \cup Permutations(Requester)

(* Payments come to an end (HandleRunSchedules, HandleWebhook,              *)
(* SubmitTransfer, CreateBatch): a due schedule is taken, a deposit paid in *)
(* full is taken up, a transfer on XDC leaves pending and ends with an  *)
(* outcome or a hash to find it by, and a batch runs to its end.            *)
PayoutsSettle ==
  /\ DueIsTaken
  /\ ConfirmedIsTaken
  /\ focus = "xdc" => XDCSettles
  /\ BatchEnds
=============================================================================
