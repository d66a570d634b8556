------------------------------ MODULE Webhooks ------------------------------
(***************************************************************************)
(* internal/webhook: endpoints, the dispatch of one event to all of them,  *)
(* and the delivery task.  One event is dispatched, so a delivery row is   *)
(* named by its endpoint.  The queue (asynq) runs a task again after an    *)
(* error or a lost worker, MaxRetry times, and then archives it.           *)
(***************************************************************************)
EXTENDS Integers, FiniteSets

CONSTANTS
  Endpoint, Deliverer,          \* webhook endpoints, workers
  NoEndpoint,                   \* no endpoint
  MaxAttempts, MaxRetry,        \* attempts of one Deliver, retries of one task
  MaxWebhookFaults              \* bound: failed statements, lost workers, lost enqueues

ASSUME AttemptsMade == MaxAttempts \in Nat \ {0} /\ MaxRetry \in Nat /\ MaxWebhookFaults \in Nat

VARIABLES
  endpoints,                    \* rows of webhook_endpoints
  todo, dispatched,             \* Dispatch: endpoints still to serve; where it is
  delivery,                     \* rows of webhook_deliveries
  task,                         \* queue: state and retries left of the delivery's task
  dpc, dep, dtry, dcopy,        \* a worker: position, delivery, attempts made, its copy of the row
  posts, accepted, repeats,     \* history per endpoint: requests sent, 2xx answers, executions
                                \* lost or refused
  hookFaults                    \* faults so far

hookVars == <<endpoints, todo, dispatched, delivery, task, dpc, dep, dtry, dcopy, posts, accepted, repeats, hookFaults>>
delivererVars == <<dpc, dep, dtry, dcopy>>
dispatchVars == <<todo, dispatched>>
tallyVars == <<posts, accepted, repeats>>

NoDelivery == [status |-> "none", attempts |-> 0]
DeliveryRow == [status : {"none", "pending", "success", "failed"}, attempts : Nat]

HookInit ==
  /\ endpoints = {} /\ todo = {} /\ dispatched = "no"
  /\ delivery = [e \in Endpoint |-> NoDelivery]
  /\ task = [e \in Endpoint |-> [state |-> "none", left |-> MaxRetry]]
  /\ dpc = [w \in Deliverer |-> "idle"] /\ dep = [w \in Deliverer |-> NoEndpoint]
  /\ dtry = [w \in Deliverer |-> 0] /\ dcopy = [w \in Deliverer |-> NoDelivery]
  /\ posts = [e \in Endpoint |-> 0] /\ accepted = [e \in Endpoint |-> 0]
  /\ repeats = [e \in Endpoint |-> 0] /\ hookFaults = 0

HookFault == hookFaults < MaxWebhookFaults /\ hookFaults' = hookFaults + 1
-----------------------------------------------------------------------------
(* What POST /v1/webhooks/endpoints lets through: an id that is new. *)
NewEndpoint == {e \in Endpoint \ endpoints : delivery[e] = NoDelivery /\ task[e].state = "none"}

(* CountByTenant asks for the table webhooks, which no migration creates: its *)
(* error lets every registration through.                                     *)
WithinLimit(e) == TRUE

RegisterEndpoint(e) ==
  /\ e \in NewEndpoint /\ WithinLimit(e)
  /\ endpoints' = endpoints \cup {e}
  /\ UNCHANGED <<dispatchVars, delivery, task, delivererVars, tallyVars, hookFaults>>

(* Delete; the deliveries of the endpoint go with it. *)
DeleteEndpoint(e) ==
  /\ e \in endpoints
  /\ endpoints' = endpoints \ {e} /\ delivery' = [delivery EXCEPT ![e] = NoDelivery]
  /\ UNCHANGED <<dispatchVars, task, delivererVars, tallyVars, hookFaults>>

(* Dispatch: the endpoints are listed once. *)
ListActiveByEvent ==
  /\ dispatched = "no" /\ dispatched' = "listed" /\ todo' = endpoints
  /\ UNCHANGED <<endpoints, delivery, task, delivererVars, tallyVars, hookFaults>>

EnqueueWebhookDelivery(e) ==
  task' = [task EXCEPT ![e] = [state |-> "queued", left |-> MaxRetry]]

InsertDelivery(e) == delivery' = [delivery EXCEPT ![e] = [status |-> "pending", attempts |-> 0]]

(* A row per endpoint, then its task; an error of the row (also of its foreign *)
(* key) ends the loop, an error of the queue is ignored.                       *)
CreateDelivery(e) ==
  /\ dispatched = "listed" /\ e \in todo
  /\ \/ /\ e \in endpoints
        /\ InsertDelivery(e)
        /\ \/ EnqueueWebhookDelivery(e) /\ UNCHANGED hookFaults
           \/ HookFault /\ task' = [task EXCEPT ![e].state = "lost"]
        /\ todo' = todo \ {e} /\ UNCHANGED dispatched
     \/ /\ e \notin endpoints
        /\ dispatched' = "aborted" /\ UNCHANGED <<delivery, task, todo, hookFaults>>
  /\ UNCHANGED <<endpoints, delivererVars, tallyVars>>
-----------------------------------------------------------------------------
(* Seeded fault: the retries are not exhausted. *)
RetriedAgain(e) == task' = [task EXCEPT ![e] = [state |-> "queued", left |-> @.left - 1]]

(* HandleDeliver returned an error: the queue tries again, or archives. *)
Retried(e) ==
  task' = [task EXCEPT ![e] = IF @.left = 0 THEN [@ EXCEPT !.state = "archived"]
                              ELSE [state |-> "queued", left |-> @.left - 1]]
TaskDone(e) == task' = [task EXCEPT ![e].state = "done"]

GetDeliveryByID(e) == delivery[e]

(* Deliver: loadDelivery, for a row or an endpoint that may be gone. *)
LoadDelivery(w, e) ==
  /\ dpc[w] = "idle" /\ task[e].state = "queued"
  /\ IF GetDeliveryByID(e) = NoDelivery
     THEN Retried(e) /\ UNCHANGED delivererVars
     ELSE /\ task' = [task EXCEPT ![e].state = "taken"]
          /\ dpc' = [dpc EXCEPT ![w] = "attempt"] /\ dep' = [dep EXCEPT ![w] = e]
          /\ dtry' = [dtry EXCEPT ![w] = 0] /\ dcopy' = [dcopy EXCEPT ![w] = delivery[e]]
  /\ UNCHANGED <<endpoints, dispatchVars, delivery, tallyVars, hookFaults>>

(* UpdateDelivery: a row that is gone is no error. *)
UpdateDelivery(e, copy) ==
  delivery' = IF delivery[e] = NoDelivery THEN delivery ELSE [delivery EXCEPT ![e] = copy]

Attempted(w, status) == [status |-> status, attempts |-> dcopy[w].attempts + 1]

(* validateWebhookURL refuses the destination of this attempt: the row is     *)
(* failed, and the task an error.                                             *)
RefuseDestination(w) ==
  /\ dpc[w] = "attempt"
  /\ UpdateDelivery(dep[w], Attempted(w, "failed")) /\ Retried(dep[w])
  /\ repeats' = [repeats EXCEPT ![dep[w]] = @ + 1] /\ dpc' = [dpc EXCEPT ![w] = "idle"]
  /\ UNCHANGED <<endpoints, dispatchVars, dep, dtry, dcopy, posts, accepted, hookFaults>>

(* Seeded fault: a redirect counts as a success. *)
BelowFourHundred(answer) == answer \in {"2xx", "3xx"}

(* code >= 200 && code < 300 *)
IsSuccess(answer) == answer = "2xx"

(* 5xx, 429 and network errors are tried again. *)
IsRetryable(answer) == answer \in {"5xx", "none"}

(* One request and its answer; the copy is written when the loop is left. *)
Attempt(w, answer) ==
  LET e == dep[w] IN
  /\ dpc[w] = "attempt"
  /\ posts' = [posts EXCEPT ![e] = @ + 1]
  /\ accepted' = IF answer = "2xx" THEN [accepted EXCEPT ![e] = @ + 1] ELSE accepted
  /\ dcopy' = [dcopy EXCEPT ![w] = Attempted(w, IF IsSuccess(answer) THEN "success" ELSE "failed")]
  /\ dtry' = [dtry EXCEPT ![w] = @ + 1]
  /\ dpc' = IF IsRetryable(answer) /\ dtry[w] + 1 < MaxAttempts THEN dpc
            ELSE [dpc EXCEPT ![w] = "update"]
  /\ UNCHANGED <<endpoints, dispatchVars, delivery, task, dep, repeats, hookFaults>>

(* Seeded faults: an unsuccessful delivery is an error; nothing is written. *)
RetryUnlessDelivered(w) ==
  /\ dpc[w] = "update"
  /\ UpdateDelivery(dep[w], dcopy[w]) /\ UNCHANGED <<repeats, hookFaults>>
  /\ IF dcopy[w].status = "success" THEN TaskDone(dep[w]) ELSE Retried(dep[w])
  /\ dpc' = [dpc EXCEPT ![w] = "idle"]
  /\ UNCHANGED <<endpoints, dispatchVars, dep, dtry, dcopy, posts, accepted>>
LeavePending(w) ==
  /\ dpc[w] = "update" /\ TaskDone(dep[w])
  /\ dpc' = [dpc EXCEPT ![w] = "idle"]
  /\ UNCHANGED <<endpoints, dispatchVars, delivery, dep, dtry, dcopy, tallyVars, hookFaults>>

(* The end of Deliver: five failed attempts are no error, a failed update is. *)
FinishDelivery(w) ==
  /\ dpc[w] = "update"
  /\ \/ UpdateDelivery(dep[w], dcopy[w]) /\ TaskDone(dep[w]) /\ UNCHANGED <<repeats, hookFaults>>
     \/ /\ HookFault /\ Retried(dep[w]) /\ repeats' = [repeats EXCEPT ![dep[w]] = @ + 1]
        /\ UNCHANGED delivery
  /\ dpc' = [dpc EXCEPT ![w] = "idle"]
  /\ UNCHANGED <<endpoints, dispatchVars, dep, dtry, dcopy, posts, accepted>>

(* The worker dies, or its context ends during a backoff. *)
LoseDeliverer(w) ==
  /\ dpc[w] # "idle" /\ HookFault
  /\ Retried(dep[w]) /\ repeats' = [repeats EXCEPT ![dep[w]] = @ + 1]
  /\ dpc' = [dpc EXCEPT ![w] = "idle"]
  /\ UNCHANGED <<endpoints, dispatchVars, delivery, dep, dtry, dcopy, posts, accepted>>

(* The worker dies after the update, before the queue knows. *)
RedeliverFinished(e) ==
  /\ task[e].state = "done" /\ HookFault
  /\ Retried(e) /\ repeats' = [repeats EXCEPT ![e] = @ + 1]
  /\ UNCHANGED <<endpoints, dispatchVars, delivery, delivererVars, posts, accepted>>
-----------------------------------------------------------------------------
DelivererStep(w) ==
  \/ \E e \in Endpoint : LoadDelivery(w, e)
  \/ \E a \in {"2xx", "3xx", "4xx", "5xx", "none"} : Attempt(w, a)
  \/ RefuseDestination(w) \/ FinishDelivery(w)

HookNext ==
  \/ \E e \in Endpoint : RegisterEndpoint(e) \/ DeleteEndpoint(e) \/ CreateDelivery(e) \/ RedeliverFinished(e)
  \/ ListActiveByEvent
  \/ \E w \in Deliverer : DelivererStep(w) \/ LoseDeliverer(w)

HookSpec == HookInit /\ [][HookNext]_hookVars
-----------------------------------------------------------------------------
HookTypeOK ==
  /\ endpoints \subseteq Endpoint /\ todo \subseteq Endpoint /\ dispatched \in {"no", "listed", "aborted"}
  /\ delivery \in [Endpoint -> DeliveryRow]
  /\ task \in [Endpoint -> [state : {"none", "lost", "queued", "taken", "done", "archived"}, left : 0..MaxRetry]]
  /\ dpc \in [Deliverer -> {"idle", "attempt", "update"}] /\ dep \in [Deliverer -> Endpoint \cup {NoEndpoint}]
  /\ dtry \in [Deliverer -> 0..MaxAttempts] /\ dcopy \in [Deliverer -> DeliveryRow]
  /\ posts \in [Endpoint -> Nat] /\ accepted \in [Endpoint -> Nat]
  /\ repeats \in [Endpoint -> Nat] /\ hookFaults \in 0..MaxWebhookFaults

(* A delivery log says success only if the endpoint answered 2xx, and says    *)
(* failed to one that did only if an execution of the task was lost or refused. *)
LogIsTrue ==
  \A e \in Endpoint :
    /\ delivery[e].status = "success" => accepted[e] > 0
    /\ delivery[e].status = "failed" /\ accepted[e] > 0 => repeats[e] > 0

(* However often its answers fail, an endpoint gets MaxAttempts requests, and *)
(* accepts the event once, but for executions that were lost or refused: the  *)
(* retries of the queue do not multiply those of Deliver.                     *)
RequestsBounded ==
  \A e \in Endpoint : posts[e] <= MaxAttempts * (1 + repeats[e]) /\ accepted[e] <= 1 + repeats[e]

(* A delivery that was queued ends as success or failed, unless its endpoint  *)
(* goes or its task is archived.                                              *)
DeliveriesEnd ==
  \A e \in Endpoint :
    task[e].state = "queued" ~> \/ delivery[e].status \in {"success", "failed"}
                                \/ delivery[e] = NoDelivery \/ task[e].state = "archived"

(* "Delivery is persisted; worker will handle it on next run."                *)
(* (webhook/service.go:181): a delivery row does not stay pending.            *)
PendingIsHandled ==
  \A e \in Endpoint : delivery[e].status = "pending" ~> delivery[e].status # "pending" \/ task[e].state = "archived"

(* The delivery log agrees with what the endpoint answered, and an event is *)
(* sent no more often than the retries allow (Dispatch, Deliver).           *)
HookSafe ==
  /\ HookTypeOK
  /\ LogIsTrue
  /\ RequestsBounded
=============================================================================
